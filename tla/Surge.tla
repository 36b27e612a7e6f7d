--------------------------------- MODULE Surge ---------------------------------
(***************************************************************************)
(* The surge grid of marketplace.py: a multiplier per zone and ten-minute  *)
(* bucket, from the requests and the drivers online in it and from the     *)
(* multiplier of the zone's bucket before.  The zones are independent and  *)
(* computed one after the other, so this is the walk over one of them.     *)
(*                                                                         *)
(* Multipliers are tenths, milli-units carry what is not yet quantised.    *)
(***************************************************************************)
EXTENDS Integers

CONSTANTS Floor, Ceiling,   \* min_multiplier and the city's maximum, in tenths
          MinDemand,        \* MIN_DEMAND_FOR_SURGE
          Counts, Supplies, \* requests and online drivers a bucket may have
          Weather,          \* weather_supply_factor, in hundredths
          Buckets           \* bound: buckets in the window

\* The floor is 1.0 or more: no multiplier is below it (event_contract.md:315).
ASSUME SurgeAssumption ==
    /\ Floor \in Nat /\ Ceiling \in Nat /\ 10 <= Floor /\ Floor <= Ceiling
    /\ MinDemand \in Nat /\ Buckets \in Nat /\ Weather \in Nat
    /\ Counts \subseteq Nat /\ Supplies \subseteq Nat

VARIABLES bucket,   \* buckets computed so far
          previous, \* previous[zone_id], or NoPrior
          last      \* what the latest bucket was computed from, and its result

surgeVars == <<bucket, previous, last>>

NoPrior == -1

Larger(a, b)  == IF a < b THEN b ELSE a
Smaller(a, b) == IF a < b THEN a ELSE b
Clamp(m, lo, hi) == Smaller(Larger(m, lo), hi)

\* Hundredths of a driver: a local driver counts 1.35, the weather scales them,
\* and there are never fewer than two.
EffectiveSupply(local) == Larger((local * 135 * Weather) \div 100, 200)

\* 1 + 1.5 * (demand rate / capacity - 0.72), never below 1; in thousandths.
Target(count, local) ==
    LET ratio == (6000000 * count) \div (19 * EffectiveSupply(local))
    IN  1000 + (3 * Larger(0, ratio - 720)) \div 2

(* Mutant: the prior is not subtracted from the target it is smoothed to.  *)
SmoothedFromZero(target, prior) ==
    IF prior = NoPrior THEN 100 * target ELSE 10000 * prior + 35 * target

\* Exponential smoothing with 0.35, in hundred-thousandths.
Smoothed(target, prior) ==
    IF prior = NoPrior THEN 100 * target ELSE 6500 * prior + 35 * target

\* Decimal.quantize: the nearest integer, a tie to the even one.
HalfEven(n, d) ==
    LET q == n \div d
        r == 2 * (n % d)
    IN  IF r > d \/ (r = d /\ q % 2 = 1) THEN q + 1 ELSE q

(* Mutant: the city ceiling is forgotten.                                  *)
MultiplierUnclamped(count, local, prior) ==
    IF count < MinDemand THEN 10 ELSE HalfEven(Smoothed(Target(count, local), prior), 10000)

(* Mutant: a bucket with too few requests keeps the zone's last price.     *)
MultiplierKept(count, local, prior) ==
    IF count < MinDemand THEN Larger(10, prior)
    ELSE Clamp(HalfEven(Smoothed(Target(count, local), prior), 10000), Floor, Ceiling)

Multiplier(count, local, prior) ==
    IF count < MinDemand THEN 10
    ELSE LET raw == Clamp(Smoothed(Target(count, local), prior),
                          10000 * Floor, 10000 * Ceiling)
         IN  Clamp(HalfEven(raw, 10000), Floor, Ceiling)

\* What surge_for() may answer: an entry of the grid, or 1.0 without one.
Grid == {10} \cup Floor .. Ceiling

NoBucket == [count |-> 0, local |-> 0, prior |-> NoPrior, multiplier |-> 10]

SurgeInit ==
    /\ bucket = 0
    /\ previous = NoPrior
    /\ last = NoBucket

(***************************************************************************)
(* One iteration of the loop of compute_surge_grid.  A bucket below the    *)
(* minimum demand has no entry in the grid (surge_for then answers 1.0)    *)
(* and resets the zone's memory to the floor; a bucket without any request *)
(* is not visited and leaves the memory as it is (NoDemand).               *)
(***************************************************************************)
Recalculate(count, local) ==
    /\ bucket < Buckets /\ count > 0
    /\ bucket' = bucket + 1
    /\ last' = [count |-> count, local |-> local, prior |-> previous,
                multiplier |-> Multiplier(count, local, previous)]
    /\ previous' = IF count < MinDemand THEN Floor ELSE last'.multiplier

NoDemand ==
    /\ bucket < Buckets
    /\ bucket' = bucket + 1
    /\ UNCHANGED <<previous, last>>

SurgeNext == NoDemand \/ \E count \in Counts, local \in Supplies : Recalculate(count, local)

--------------------------------------------------------------------------------
SurgeTypeOK ==
    /\ bucket \in 0 .. Buckets
    /\ previous \in {NoPrior} \cup Floor .. Ceiling
    /\ last.multiplier \in Grid

(***************************************************************************)
(* Surge is derived from imbalance (marketplace.py:1-8): a new multiplier  *)
(* lies between the one before and what scarcity alone calls for, up to    *)
(* half a step of rounding; a bucket without scarcity never raises it.     *)
(***************************************************************************)
SurgeTracksScarcity ==
    LET target == Clamp(Target(last.count, last.local), 100 * Floor, 100 * Ceiling)
        m      == 100 * last.multiplier
        p      == 100 * last.prior
    IN  last.prior # NoPrior /\ last.count >= MinDemand =>
            IF target >= p THEN p <= m /\ m <= target + 50
                           ELSE m <= p /\ target <= m + 50

(***************************************************************************)
(* In any state of the market, more riders never make a ride cheaper and   *)
(* more drivers never make it dearer (marketplace.py:29-56), whatever the  *)
(* clamps, the floors and the rounding do to the two prices compared.      *)
(***************************************************************************)
SurgeIsMonotone ==
    bucket < Buckets => \A c1, c2 \in Counts, l1, l2 \in Supplies :
        c1 <= c2 /\ l2 <= l1 =>
            Multiplier(c1, l1, previous) <= Multiplier(c2, l2, previous)
================================================================================
