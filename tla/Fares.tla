--------------------------------- MODULE Fares ---------------------------------
(***************************************************************************)
(* The money of a trip: event_generator/pricing.py, and what lifecycle.py  *)
(* charges.  An amount is an integer of paise, a distance one of           *)
(* hundredths of a kilometre, a surge multiplier one of tenths; every      *)
(* other factor or percentage is an integer of hundredths.                 *)
(***************************************************************************)
EXTENDS Integers

CONSTANT Tariff     \* the city's rates and the vehicle's factors

\* Percentages are out of 10000; six paise are the least fare that a discount of
\* nine tenths, rounded, leaves something of.
ASSUME TariffAssumption ==
    /\ {Tariff.base, Tariff.baseFactor, Tariff.perKm, Tariff.kmFactor, Tariff.perMin,
        Tariff.airport, Tariff.booking, Tariff.tax, Tariff.commission} \subseteq Nat
    /\ Tariff.booking > 5 /\ Tariff.commission <= 10000

\* money(): a quotient of non-negative integers, rounded half up to a paisa.
Money(n, d) == (2 * n + d) \div (2 * d)

(* Mutant: the toll is passed on, but not charged.                         *)
TaxableWithoutToll(ride, airport, toll) == ride + airport + Tariff.booking

Taxable(ride, airport, toll) == ride + airport + toll + Tariff.booking

(***************************************************************************)
(* compute_fare: every component is rounded first, and the sums are taken  *)
(* of rounded parts, so that the parts of a fare add up to it exactly.     *)
(***************************************************************************)
Fare(distance, seconds, surge, isAirport, toll) ==
    LET base     == Money(Tariff.base * Tariff.baseFactor, 100)
        dist     == Money(distance * Tariff.perKm * Tariff.kmFactor, 10000)
        time     == Money(seconds * Tariff.perMin, 60)
        preSurge == base + dist + time
        extra    == Money(preSurge * (surge - 10), 10)
        airport  == IF isAirport THEN Tariff.airport ELSE 0
        taxable  == Taxable(preSurge + extra, airport, toll)
        tax      == Money(taxable * Tariff.tax, 10000)
        kept     == Money(taxable * Tariff.commission, 10000)
    IN  [base |-> base, distance |-> dist, time |-> time, multiplier |-> surge,
         surge |-> extra, airport |-> airport, toll |-> toll, booking |-> Tariff.booking,
         tax |-> tax, total |-> taxable + tax, commission |-> kept,
         payout |-> taxable - kept]

(***************************************************************************)
(* check_invariants, which compute_fare calls and which raises when it     *)
(* fails: F1, F2, F4 and F5 of docs/event_contract.md 7.4, to one paisa.   *)
(* F5 compares exact values, so both sides are taken ten times.            *)
(***************************************************************************)
Near(a, b, tolerance) == a - b <= tolerance /\ b - a <= tolerance

CheckInvariants(f) ==
    /\ Near(f.base + f.distance + f.time + f.surge + f.airport + f.toll
                + f.booking + f.tax, f.total, 1)
    /\ Near(f.payout + f.commission, f.total - f.tax, 1)
    /\ \A field \in DOMAIN f : f[field] >= 0
    /\ Near((f.base + f.distance + f.time) * (f.multiplier - 10), 10 * f.surge, 10)

\* The end of _payment: a discount is at most nine tenths of the fare.
Payment(total, tipPct, discountPct) ==
    LET tip      == Money(total * tipPct, 100)
        cap      == Money(total * 90, 100)
        wanted   == Money(total * discountPct, 100)
        discount == IF wanted < cap THEN wanted ELSE cap
    IN  [tip |-> tip, discount |-> discount, charged |-> total + tip - discount]

\* cancellation_fee: by stage, and free within the first minute.
CancellationFee(stage, applicable, seconds) ==
    IF ~ applicable \/ seconds < 60 THEN 0
    ELSE CASE stage = "REQUESTED"      -> 0
           [] stage = "MATCHED"        -> 3000
           [] stage = "DRIVER_ARRIVED" -> 5000
           [] stage = "STARTED"        -> 7500
           [] OTHER                    -> 0
================================================================================
