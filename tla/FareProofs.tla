------------------------------- MODULE FareProofs -------------------------------
(***************************************************************************)
(* The money and the books of a run, proved for every tariff, distance,    *)
(* duration, surge, toll, tip and discount, every market and any number of *)
(* trips: no fare fails the checks that would abort the run and no payment *)
(* is charged nothing, a multiplier follows scarcity, and the totals of a  *)
(* finished run are those of its trips.                                    *)
(*                                                                         *)
(* The argument.  A rounded quotient is within half a paisa of the exact   *)
(* one, and a sum is taken of parts already rounded; so only the surge is  *)
(* compared with an exact value, and it is off by half a paisa.            *)
(***************************************************************************)
EXTENDS DispatchProofs, FiniteSetTheorems

Divisors == {10, 60, 100, 10000}

LEMMA MoneyIsRounded ==
    ASSUME NEW n \in Nat, NEW d \in Divisors
    PROVE  /\ Money(n, d) \in Nat
           /\ 2 * d * Money(n, d) <= 2 * n + d
           /\ 2 * n + d < 2 * d * Money(n, d) + 2 * d
<1>1. CASE d = 10
  BY <1>1 DEF Money
<1>2. CASE d = 60
  BY <1>2 DEF Money
<1>3. CASE d = 100
  BY <1>3 DEF Money
<1>4. CASE d = 10000
  BY <1>4 DEF Money
<1> QED BY <1>1, <1>2, <1>3, <1>4 DEF Divisors

\* What a product of two hundredths, or a percentage to two places, is out of.
Hundred == 10000

LEMMA MoneyIsNat ==
    ASSUME NEW n \in Nat
    PROVE  Money(n, 60) \in Nat /\ Money(n, 100) \in Nat /\ Money(n, Hundred) \in Nat
BY DEF Money, Hundred

\* A share of a whole is no more than the whole.
LEMMA ShareIsAtMostAll ==
    ASSUME NEW whole \in Nat, NEW share \in Nat, share <= Hundred
    PROVE  Money(whole * share, Hundred) \in 0 .. whole
<1> DEFINE part == whole * share
<1>1. part \in Nat /\ part <= whole * 10000
  <2>1. 10000 - share \in Nat
    BY DEF Hundred
  <2>2. whole * (10000 - share) \in Nat /\ whole * share \in Nat
    BY <2>1
  <2>3. whole * (10000 - share) = whole * 10000 - whole * share
    OBVIOUS
  <2> QED BY <2>2, <2>3
<1> HIDE DEF part
<1>2. Money(part, 10000) \in Nat /\ 20000 * Money(part, 10000) <= 2 * part + 10000
  BY <1>1 DEF Money
<1>3. Money(part, 10000) \in 0 .. whole
  BY <1>1, <1>2
<1> QED BY <1>3 DEF part, Hundred

\* What is rounded to a paisa from tenths of one is off by at most half of it.
LEMMA TenthsAreRounded ==
    ASSUME NEW n \in Nat
    PROVE  /\ Money(n, 10) \in Nat /\ 20 * Money(n, 10) <= 2 * n + 10
           /\ 2 * n < 20 * Money(n, 10) + 10
BY MoneyIsRounded DEF Divisors

SoundFare(f) ==
    /\ CheckInvariants(f)
    /\ f.total = f.payout + f.commission + f.tax
    /\ f.total \in Nat /\ f.total > 5

LEMMA FareIsSound ==
    ASSUME NEW distance \in Nat, NEW seconds \in Nat, NEW surge \in Nat \ 0 .. 9,
           NEW isAirport \in BOOLEAN, NEW toll \in Nat
    PROVE  SoundFare(Fare(distance, seconds, surge, isAirport, toll))
<1> DEFINE base     == Money(Tariff.base * Tariff.baseFactor, 100)
           dist     == Money(distance * Tariff.perKm * Tariff.kmFactor, Hundred)
           time     == Money(seconds * Tariff.perMin, 60)
           preSurge == base + dist + time
           exact    == preSurge * (surge - 10)
           extra    == Money(exact, 10)
           airport  == IF isAirport THEN Tariff.airport ELSE 0
           taxable  == preSurge + extra + airport + toll + Tariff.booking
           tax      == Money(taxable * Tariff.tax, Hundred)
           kept     == Money(taxable * Tariff.commission, Hundred)
           fare     == Fare(distance, seconds, surge, isAirport, toll)
<1>0. /\ Tariff.base * Tariff.baseFactor \in Nat /\ seconds * Tariff.perMin \in Nat
      /\ distance * Tariff.perKm * Tariff.kmFactor \in Nat
      /\ Tariff.airport \in Nat /\ Tariff.booking \in Nat /\ Tariff.booking > 5
      /\ Tariff.tax \in Nat /\ Tariff.commission \in Nat /\ Tariff.commission <= Hundred
  <2>1. /\ Tariff.base \in Nat /\ Tariff.baseFactor \in Nat /\ Tariff.perKm \in Nat
        /\ Tariff.kmFactor \in Nat /\ Tariff.perMin \in Nat /\ Tariff.airport \in Nat
        /\ Tariff.booking \in Nat /\ Tariff.booking > 5 /\ Tariff.tax \in Nat
        /\ Tariff.commission \in Nat /\ Tariff.commission <= Hundred
    BY TariffAssumption DEF TariffAssumption, Hundred
  <2>2. Tariff.base * Tariff.baseFactor \in Nat /\ seconds * Tariff.perMin \in Nat
    BY <2>1
  <2>3. distance * Tariff.perKm \in Nat
    BY <2>1
  <2>4. distance * Tariff.perKm * Tariff.kmFactor \in Nat
    BY <2>1, <2>3
  <2> QED BY <2>1, <2>2, <2>4
<1>1. base \in Nat /\ dist \in Nat /\ time \in Nat
  BY <1>0, MoneyIsNat
<1>2. airport \in Nat /\ Tariff.booking \in Nat /\ Tariff.booking > 5
  BY <1>0
<1>3. fare = [base |-> base, distance |-> dist, time |-> time, multiplier |-> surge,
              surge |-> extra, airport |-> airport, toll |-> toll, booking |-> Tariff.booking,
              tax |-> tax, total |-> taxable + tax, commission |-> kept,
              payout |-> taxable - kept]
  BY DEF Fare, Taxable, Hundred
<1> HIDE DEF base, dist, time, airport, fare
<1>4. preSurge \in Nat /\ exact \in Nat
  <2>1. preSurge \in Nat /\ surge - 10 \in Nat
    BY <1>1
  <2> HIDE DEF preSurge
  <2> QED BY <2>1
<1> HIDE DEF exact
<1>5. extra \in Nat /\ 20 * extra <= 2 * exact + 10 /\ 2 * exact < 20 * extra + 10
  BY <1>4, TenthsAreRounded
<1> HIDE DEF extra
<1>6. taxable \in Nat /\ taxable > 5
  BY <1>1, <1>2, <1>5
<1>7. tax \in Nat /\ kept \in 0 .. taxable
  <2> HIDE DEF taxable
  <2>1. taxable * Tariff.tax \in Nat
    BY <1>0, <1>6
  <2>2. tax \in Nat
    BY <2>1, MoneyIsNat
  <2>3. kept \in 0 .. taxable
    BY <1>0, <1>6, ShareIsAtMostAll
  <2> QED BY <2>2, <2>3
<1> HIDE DEF tax, kept
<1>8. CheckInvariants(fare)
  <2>1. Near(base + dist + time + extra + airport + toll + Tariff.booking + tax, taxable + tax, 1)
    BY <1>1, <1>2, <1>5, <1>7 DEF Near
  <2>2. Near((taxable - kept) + kept, (taxable + tax) - tax, 1)
    BY <1>6, <1>7 DEF Near
  <2>3. Near((base + dist + time) * (surge - 10), 10 * extra, 10)
    <3>1. Near(exact, 10 * extra, 10)
      BY <1>4, <1>5 DEF Near
    <3> QED BY <3>1 DEF exact
  <2>4. \A field \in DOMAIN fare : fare[field] >= 0
    BY <1>1, <1>2, <1>3, <1>5, <1>6, <1>7
  <2>5. /\ fare.base = base /\ fare.distance = dist /\ fare.time = time
        /\ fare.surge = extra /\ fare.multiplier = surge /\ fare.airport = airport
        /\ fare.toll = toll /\ fare.booking = Tariff.booking /\ fare.tax = tax
        /\ fare.total = taxable + tax /\ fare.payout = taxable - kept
        /\ fare.commission = kept
    BY <1>3
  <2> QED BY <2>1, <2>2, <2>3, <2>4, <2>5 DEF CheckInvariants
<1>9. /\ fare.total = fare.payout + fare.commission + fare.tax
      /\ fare.total \in Nat /\ fare.total > 5
  BY <1>3, <1>6, <1>7
<1> QED BY <1>8, <1>9 DEF SoundFare, fare

\* A discount of at most nine tenths of more than five paise leaves something to pay.
LEMMA PaymentIsPositive ==
    ASSUME NEW total \in Nat, total > 5, NEW tip \in Nat, NEW discount \in Nat
    PROVE  /\ Payment(total, tip, discount).charged > 0
           /\ Payment(total, tip, discount).discount <= total
<1> DEFINE gift == Money(total * tip, 100)
           cap  == Money(total * 90, 100)
           off  == Money(total * discount, 100)
           less == IF off < cap THEN off ELSE cap
<1>1. Payment(total, tip, discount) = [tip |-> gift, discount |-> less,
                                       charged |-> total + gift - less]
  BY DEF Payment
<1>2. total * tip \in Nat /\ total * discount \in Nat /\ total * 90 \in Nat
  OBVIOUS
<1>3. gift \in Nat /\ off \in Nat
  BY <1>2, MoneyIsNat
<1>4. cap \in Nat /\ 200 * cap <= 2 * (total * 90) + 100
  BY <1>2, MoneyIsRounded DEF Divisors
<1> HIDE DEF gift, off, cap
<1>5. cap < total
  BY <1>4
<1> QED BY <1>1, <1>3, <1>4, <1>5

--------------------------------------------------------------------------------
(* The bills of the trips *)

Billed    == \E f, q : SoundFare(f) /\ q \in Quotes /\ bill = [fare |-> f, quote |-> q]
Paid      == \E f, p : SoundFare(f) /\ p.charged > 0 /\ p.discount <= f.total
                          /\ bill = [fare |-> f, payment |-> p]
Cancelled == \E amount : bill = [charged |-> amount]

BillInv ==
    /\ Billed \/ Paid \/ Cancelled
    /\ stage = "COMPLETED" => Billed

LEMMA BillInit == Init => BillInv
BY DEF Init, BillInv, Cancelled, NoBill

LEMMA SameBill == ASSUME BillInv, bill' = bill, stage' = "COMPLETED" => stage = "COMPLETED"
                  PROVE  BillInv'
BY DEF BillInv, Billed, Paid, Cancelled

LEMMA CancelBills ==
    ASSUME NEW delay, NEW applicable, Cancel(delay, applicable)
    PROVE  BillInv'
BY DEF Cancel, BillInv, Cancelled

LEMMA CompleteBills ==
    ASSUME NEW seconds \in Durations, NEW quote \in Quotes, Complete(seconds, quote)
    PROVE  BillInv'
<1> DEFINE f == Fare(quote.distance, seconds, quote.surge, quote.isAirport, quote.toll)
<1>0. /\ quote.distance \in Nat /\ quote.surge \in Nat \ 0 .. 9 /\ quote.toll \in Nat
      /\ quote.isAirport \in BOOLEAN /\ seconds \in Nat
  <2>1. quote \in [distance : Nat, surge : Nat \ 0 .. 9, isAirport : BOOLEAN, toll : Nat,
                   tip : Nat, discount : Nat]
    BY QuotesAssumption DEF QuotesAssumption
  <2>2. seconds \in Nat
    BY DispatchAssumption DEF DispatchAssumption
  <2>3. quote.isAirport \in BOOLEAN
    BY <2>1, Zenon
  <2> QED BY <2>1, <2>2, <2>3
<1>1. SoundFare(f)
  BY <1>0, FareIsSound
<1>2. bill' = [fare |-> f, quote |-> quote]
  BY DEF Complete
<1> HIDE DEF f
<1> QED BY <1>1, <1>2 DEF BillInv, Billed

LEMMA PayBills ==
    ASSUME BillInv, NEW lag, Pay(lag)
    PROVE  BillInv'
<1>1. PICK f, q : SoundFare(f) /\ q \in Quotes /\ bill = [fare |-> f, quote |-> q]
  BY DEF Pay, BillInv, Billed
<1> DEFINE p == Payment(f.total, q.tip, q.discount)
<1>2. bill' = [fare |-> f, payment |-> p] /\ stage' = "ended"
  BY <1>1 DEF Pay
<1>3. p.charged > 0 /\ p.discount <= f.total
  BY <1>1, PaymentIsPositive, QuotesAssumption DEF SoundFare, QuotesAssumption
<1> HIDE DEF p
<1> QED BY <1>1, <1>2, <1>3 DEF BillInv, Paid

LEMMA BillStep == BillInv /\ [Next]_vars => BillInv'
<1> SUFFICES ASSUME BillInv, [Next]_vars PROVE BillInv'
  OBVIOUS
<1>1. CASE (bill' = bill /\ stage' # "COMPLETED") \/ UNCHANGED vars
  BY <1>1, SameBill DEF vars
<1>2. CASE \E seconds \in Durations, quote \in Quotes : Complete(seconds, quote)
  BY <1>2, CompleteBills
<1>3. CASE \E lag \in PaymentLags : Pay(lag)
  BY <1>3, PayBills
<1>4. CASE \E delay, fee : Cancel(delay, fee)
  BY <1>4, CancelBills
<1>5. CASE CountTrip
  BY <1>5 DEF CountTrip, BillInv, Cancelled, NoBill
<1>6. CASE Build \/ StartLifecycle \/ EmitPresence
  BY <1>6, SameBill DEF Build, StartLifecycle, EmitPresence, Presence
<1> QED
  BY <1>1, <1>2, <1>3, <1>4, <1>5, <1>6
     DEF Next, Request, TakeUp, CancelBeforeMatch, NoDriver, Match, CancelMatched, Arrive,
         CancelArrived, Start, CancelStarted

(***************************************************************************)
(* No fare the generator computes fails the checks that would abort its    *)
(* run, every one splits without drift, and no payment is charged nothing  *)
(* (F1 to F5 of docs/event_contract.md 7.4), for every tariff and draw.    *)
(***************************************************************************)
THEOREM FaresReconcile == GeneratorSpec => []FareReconciles
<1>1. Init => BillInv
  BY BillInit
<1>2. BillInv /\ [Next]_vars => BillInv'
  BY BillStep
<1>3. BillInv => FareReconciles
  BY DEF BillInv, Billed, Paid, Cancelled, SoundFare, FareReconciles
<1> QED BY <1>1, <1>2, <1>3, GeneratorDispatches, PTL DEF Spec

--------------------------------------------------------------------------------
(* The multiplier of a bucket *)

LEMMA ProductGrows ==
    ASSUME NEW a \in Nat, NEW b \in Nat, a <= b, NEW w \in Nat
    PROVE  a * w \in Nat /\ b * w \in Nat /\ a * w <= b * w
<1>1. b - a \in Nat
  OBVIOUS
<1>2. (b - a) * w \in Nat /\ a * w \in Nat /\ b * w \in Nat
  BY <1>1
<1>3. (b - a) * w = b * w - a * w
  OBVIOUS
<1> QED BY <1>2, <1>3

LEMMA QuotientBounds ==
    ASSUME NEW n \in Nat, NEW d \in Nat \ {0}
    PROVE  /\ n \div d \in Nat /\ d * (n \div d) \in Nat
           /\ d * (n \div d) <= n /\ n < d * (n \div d) + d
  OBVIOUS

\* More of a numerator over less of a denominator is no less.
LEMMA QuotientGrows ==
    ASSUME NEW n1 \in Nat, NEW n2 \in Nat, n1 <= n2,
           NEW d1 \in Nat \ {0}, NEW d2 \in Nat \ {0}, d2 <= d1
    PROVE  n1 \div d1 <= n2 \div d2
<1> DEFINE q1 == n1 \div d1
           q2 == n2 \div d2
<1>1. q1 \in Nat /\ d1 * q1 \in Nat /\ d1 * q1 <= n1
  BY QuotientBounds
<1>2. q2 \in Nat /\ d2 * q2 \in Nat /\ n2 < d2 * q2 + d2
  BY QuotientBounds
<1> HIDE DEF q1, q2
<1> SUFFICES ASSUME q2 + 1 <= q1 PROVE FALSE
  BY <1>1, <1>2 DEF q1, q2
<1>3. d2 * q1 <= d1 * q1 /\ d2 * q1 \in Nat
  BY <1>1, ProductGrows
<1>4. (q2 + 1) * d2 <= q1 * d2
  BY <1>1, <1>2, ProductGrows
<1>5. (q2 + 1) * d2 = d2 * q2 + d2 /\ q1 * d2 = d2 * q1
  BY <1>1, <1>2
<1> QED BY <1>1, <1>2, <1>3, <1>4, <1>5

LEMMA ConstantsOfSurge ==
    /\ Floor \in Nat /\ Ceiling \in Nat /\ 10 <= Floor /\ Floor <= Ceiling
    /\ MinDemand \in Nat /\ Weather \in Nat /\ Counts \subseteq Nat /\ Supplies \subseteq Nat
BY SurgeAssumption DEF SurgeAssumption

\* More drivers are more supply.
LEMMA SupplyGrows ==
    ASSUME NEW few \in Nat, NEW many \in Nat, few <= many
    PROVE  /\ EffectiveSupply(few) \in Nat \ {0} /\ EffectiveSupply(many) \in Nat \ {0}
           /\ EffectiveSupply(few) <= EffectiveSupply(many)
<1> DEFINE a == few * 135 * Weather
           b == many * 135 * Weather
<1>1. a \in Nat /\ b \in Nat /\ a <= b
  <2>1. few * 135 \in Nat /\ many * 135 \in Nat /\ few * 135 <= many * 135
    OBVIOUS
  <2> QED BY <2>1, ConstantsOfSurge, ProductGrows
<1> HIDE DEF a, b
<1>2. a \div 100 \in Nat /\ b \div 100 \in Nat /\ a \div 100 <= b \div 100
  BY <1>1
<1>3. EffectiveSupply(few) = Larger(a \div 100, 200) /\ EffectiveSupply(many) = Larger(b \div 100, 200)
  BY DEF EffectiveSupply, a, b
<1> QED BY <1>2, <1>3 DEF Larger

\* More riders and fewer drivers call for no lower price.
LEMMA TargetGrows ==
    ASSUME NEW c1 \in Nat, NEW c2 \in Nat, c1 <= c2,
           NEW l1 \in Nat, NEW l2 \in Nat, l2 <= l1
    PROVE  /\ Target(c1, l1) \in Nat /\ Target(c2, l2) \in Nat
           /\ Target(c1, l1) <= Target(c2, l2)
<1> DEFINE r1 == (6000000 * c1) \div (19 * EffectiveSupply(l1))
           r2 == (6000000 * c2) \div (19 * EffectiveSupply(l2))
<1>1. r1 \in Nat /\ r2 \in Nat /\ r1 <= r2
  <2> DEFINE n1 == 6000000 * c1
             n2 == 6000000 * c2
             d1 == 19 * EffectiveSupply(l1)
             d2 == 19 * EffectiveSupply(l2)
  <2>1. n1 \in Nat /\ n2 \in Nat /\ n1 <= n2
    OBVIOUS
  <2>2. d1 \in Nat \ {0} /\ d2 \in Nat \ {0} /\ d2 <= d1
    BY SupplyGrows
  <2>3. r1 = n1 \div d1 /\ r2 = n2 \div d2
    OBVIOUS
  <2> HIDE DEF n1, n2, d1, d2, r1, r2
  <2>4. n1 \div d1 <= n2 \div d2 /\ n1 \div d1 \in Nat /\ n2 \div d2 \in Nat
    BY <2>1, <2>2, QuotientGrows, QuotientBounds
  <2> QED BY <2>3, <2>4
<1>2. /\ Target(c1, l1) = 1000 + (3 * Larger(0, r1 - 720)) \div 2
      /\ Target(c2, l2) = 1000 + (3 * Larger(0, r2 - 720)) \div 2
  BY DEF Target
<1> HIDE DEF r1, r2
<1>3. /\ Larger(0, r1 - 720) \in Nat /\ Larger(0, r2 - 720) \in Nat
      /\ Larger(0, r1 - 720) <= Larger(0, r2 - 720)
  BY <1>1 DEF Larger
<1> QED BY <1>2, <1>3

\* A tenth, in the hundred-thousandths that are rounded to it.
Tenth == 10000

LEMMA HalfEvenRounds ==
    ASSUME NEW n \in Nat
    PROVE  /\ HalfEven(n, Tenth) \in Nat
           /\ 10000 * HalfEven(n, Tenth) <= n + 5000 /\ n <= 10000 * HalfEven(n, Tenth) + 5000
BY DEF HalfEven, Tenth

LEMMA HalfEvenGrows ==
    ASSUME NEW n \in Nat, NEW k \in Nat, n <= k
    PROVE  HalfEven(n, Tenth) <= HalfEven(k, Tenth)
BY DEF HalfEven, Tenth

LEMMA HalfEvenOfTenths ==
    ASSUME NEW n \in Nat
    PROVE  HalfEven(10000 * n, Tenth) = n
<1>1. /\ HalfEven(10000 * n, Tenth) \in Nat
      /\ 10000 * HalfEven(10000 * n, Tenth) <= 10000 * n + 5000
      /\ 10000 * n <= 10000 * HalfEven(10000 * n, Tenth) + 5000
  BY HalfEvenRounds
<1> QED BY <1>1

Priors == {NoPrior} \cup Floor .. Ceiling

Raw(count, local, prior) ==
    Clamp(Smoothed(Target(count, local), prior), 10000 * Floor, 10000 * Ceiling)

LEMMA RawRange ==
    ASSUME NEW count \in Nat, NEW local \in Nat, NEW prior \in Priors
    PROVE  /\ Raw(count, local, prior) \in Nat
           /\ 10000 * Floor <= Raw(count, local, prior)
           /\ Raw(count, local, prior) <= 10000 * Ceiling
<1>1. Target(count, local) \in Nat
  BY TargetGrows
<1>2. Smoothed(Target(count, local), prior) \in Int
  BY <1>1, ConstantsOfSurge DEF Smoothed, Priors, NoPrior
<1> HIDE DEF Smoothed
<1> QED BY <1>2, ConstantsOfSurge DEF Raw, Clamp, Larger, Smaller

\* The second clamp has nothing left to do.
LEMMA MultiplierIsRounded ==
    ASSUME NEW count \in Nat, NEW local \in Nat, NEW prior \in Priors, MinDemand <= count
    PROVE  /\ Multiplier(count, local, prior) = HalfEven(Raw(count, local, prior), Tenth)
           /\ Multiplier(count, local, prior) \in Floor .. Ceiling
<1> DEFINE raw == Raw(count, local, prior)
           m   == HalfEven(raw, Tenth)
<1>1. raw \in Nat /\ 10000 * Floor <= raw /\ raw <= 10000 * Ceiling
  BY RawRange
<1>2. Multiplier(count, local, prior) = Clamp(m, Floor, Ceiling)
  BY ConstantsOfSurge DEF Multiplier, Raw, Tenth
<1> HIDE DEF raw
<1>3. m \in Nat /\ 10000 * m <= raw + 5000 /\ raw <= 10000 * m + 5000
  BY <1>1, HalfEvenRounds
<1> HIDE DEF m
<1>4. m \in Floor .. Ceiling
  BY <1>1, <1>3, ConstantsOfSurge
<1>5. Clamp(m, Floor, Ceiling) = m
  BY <1>4, ConstantsOfSurge DEF Clamp, Larger, Smaller
<1> QED BY <1>2, <1>4, <1>5 DEF m, raw

LEMMA MultiplierInGrid ==
    ASSUME NEW count \in Nat, NEW local \in Nat, NEW prior \in Priors
    PROVE  Multiplier(count, local, prior) \in Grid
<1>1. CASE count < MinDemand
  BY <1>1 DEF Multiplier, Grid
<1>2. CASE MinDemand <= count
  BY <1>2, MultiplierIsRounded DEF Grid
<1> QED BY <1>1, <1>2, ConstantsOfSurge DEF Grid

LEMMA MultiplierGrows ==
    ASSUME NEW c1 \in Nat, NEW c2 \in Nat, c1 <= c2,
           NEW l1 \in Nat, NEW l2 \in Nat, l2 <= l1, NEW prior \in Priors
    PROVE  Multiplier(c1, l1, prior) <= Multiplier(c2, l2, prior)
<1>1. CASE c1 < MinDemand
  <2>1. Multiplier(c1, l1, prior) = 10
    BY <1>1 DEF Multiplier
  <2>2. Multiplier(c2, l2, prior) \in Grid
    BY MultiplierInGrid
  <2> QED BY <2>1, <2>2, ConstantsOfSurge DEF Grid
<1>2. CASE MinDemand <= c1
  <2>1. MinDemand <= c2
    BY <1>2, ConstantsOfSurge
  <2>2. /\ Multiplier(c1, l1, prior) = HalfEven(Raw(c1, l1, prior), Tenth)
        /\ Multiplier(c2, l2, prior) = HalfEven(Raw(c2, l2, prior), Tenth)
    BY <1>2, <2>1, MultiplierIsRounded
  <2>3. Raw(c1, l1, prior) <= Raw(c2, l2, prior)
    <3> DEFINE t1 == Target(c1, l1)
               t2 == Target(c2, l2)
               s1 == Smoothed(t1, prior)
               s2 == Smoothed(t2, prior)
    <3>1. t1 \in Nat /\ t2 \in Nat /\ t1 <= t2
      BY TargetGrows
    <3> HIDE DEF t1, t2
    <3>2. s1 \in Int /\ s2 \in Int /\ s1 <= s2
      BY <3>1, ConstantsOfSurge DEF Smoothed, Priors, NoPrior
    <3>3. Raw(c1, l1, prior) = Clamp(s1, 10000 * Floor, 10000 * Ceiling)
          /\ Raw(c2, l2, prior) = Clamp(s2, 10000 * Floor, 10000 * Ceiling)
      BY DEF Raw, t1, t2
    <3> HIDE DEF s1, s2
    <3> QED BY <3>2, <3>3, ConstantsOfSurge DEF Clamp, Larger, Smaller
  <2> QED BY <2>2, <2>3, RawRange, HalfEvenGrows
<1> QED BY <1>1, <1>2, ConstantsOfSurge

\* A new multiplier is between the prior one and what scarcity calls for.
LEMMA MultiplierBetween ==
    ASSUME NEW count \in Nat, NEW local \in Nat, NEW prior \in Floor .. Ceiling,
           MinDemand <= count,
           NEW target, target = Clamp(Target(count, local), 100 * Floor, 100 * Ceiling)
    PROVE  LET m == 100 * Multiplier(count, local, prior)
               p == 100 * prior
           IN  IF target >= p THEN p <= m /\ m <= target + 50
                              ELSE m <= p /\ target <= m + 50
<1> DEFINE t   == Target(count, local)
           raw == Raw(count, local, prior)
           M   == Multiplier(count, local, prior)
<1>1. t \in Nat /\ prior \in Priors /\ prior \in Nat /\ prior # NoPrior
  BY TargetGrows, ConstantsOfSurge DEF Priors, NoPrior
<1>2. M = HalfEven(raw, Tenth) /\ raw \in Nat
  BY <1>1, MultiplierIsRounded, RawRange
<1>3. M \in Nat /\ 10000 * M <= raw + 5000 /\ raw <= 10000 * M + 5000
  BY <1>2, HalfEvenRounds
<1>4. /\ 10000 * prior <= raw => prior <= M
      /\ raw <= 10000 * prior => M <= prior
  BY <1>1, <1>2, HalfEvenGrows, HalfEvenOfTenths
<1>5. raw = Clamp(6500 * prior + 35 * t, 10000 * Floor, 10000 * Ceiling)
  BY <1>1 DEF Raw, Smoothed
<1> HIDE DEF t, raw, M
<1>6. target = Clamp(t, 100 * Floor, 100 * Ceiling) /\ target \in Nat
  BY <1>1, ConstantsOfSurge DEF t, Clamp, Larger, Smaller
<1>7. CASE target >= 100 * prior
  <2>1. 10000 * prior <= raw /\ raw <= 100 * target
    BY <1>1, <1>5, <1>6, <1>7, ConstantsOfSurge DEF Clamp, Larger, Smaller
  <2> QED BY <1>1, <1>2, <1>3, <1>4, <1>6, <1>7, <2>1 DEF M
<1>8. CASE target < 100 * prior
  <2>1. raw <= 10000 * prior /\ 100 * target <= raw
    BY <1>1, <1>5, <1>6, <1>8, ConstantsOfSurge DEF Clamp, Larger, Smaller
  <2> QED BY <1>1, <1>2, <1>3, <1>4, <1>6, <1>8, <2>1 DEF M
<1> QED BY <1>1, <1>6, <1>7, <1>8

--------------------------------------------------------------------------------
(* The walk over a zone *)

SurgeInv ==
    /\ SurgeTypeOK
    /\ last = NoBucket \/
          /\ last.count \in Nat /\ last.local \in Nat /\ last.prior \in Priors
          /\ last.multiplier = Multiplier(last.count, last.local, last.prior)

LEMMA SurgeInvInit == SurgeInit => SurgeInv
BY SurgeAssumption DEF SurgeAssumption, SurgeInit, SurgeInv, SurgeTypeOK, NoBucket, Grid

LEMMA SurgeInvStep == SurgeInv /\ [GeneratorNext]_generatorVars => SurgeInv'
<1> SUFFICES ASSUME SurgeInv, [GeneratorNext]_generatorVars PROVE SurgeInv'
  OBVIOUS
<1>1. ASSUME NEW count \in Counts, NEW local \in Supplies, Recalculate(count, local)
      PROVE  SurgeInv'
  <2> DEFINE m == Multiplier(count, local, previous)
  <2>1. count \in Nat /\ local \in Nat /\ previous \in Priors
    BY ConstantsOfSurge DEF SurgeInv, SurgeTypeOK, Priors
  <2>2. m \in Grid
    BY <2>1, MultiplierInGrid
  <2>3. MinDemand <= count => m \in Floor .. Ceiling
    BY <2>1, MultiplierIsRounded
  <2>4. /\ bucket < Buckets /\ bucket' = bucket + 1
        /\ last' = [count |-> count, local |-> local, prior |-> previous, multiplier |-> m]
        /\ previous' = IF count < MinDemand THEN Floor ELSE m
    BY <1>1 DEF Recalculate
  <2>5. last'.count = count /\ last'.local = local /\ last'.prior = previous
        /\ last'.multiplier = m
    BY <2>4
  <2>6. last'.multiplier = Multiplier(last'.count, last'.local, last'.prior)
    BY <2>5
  <2> HIDE DEF m
  <2>7. bucket' \in 0 .. Buckets
    BY <2>4, SurgeAssumption DEF SurgeAssumption, SurgeInv, SurgeTypeOK
  <2>8. previous' \in {NoPrior} \cup Floor .. Ceiling
    BY <2>1, <2>3, <2>4, ConstantsOfSurge
  <2> QED BY <2>1, <2>2, <2>5, <2>6, <2>7, <2>8 DEF SurgeInv, SurgeTypeOK
<1>2. CASE NoDemand
  BY <1>2, SurgeAssumption DEF SurgeAssumption, NoDemand, SurgeInv, SurgeTypeOK
<1>3. CASE SurgeDone
  BY <1>3 DEF SurgeDone, SurgeInv, SurgeTypeOK, NoBucket, Grid
<1>4. CASE UNCHANGED surgeVars
  BY <1>4 DEF surgeVars, SurgeInv, SurgeTypeOK
<1> QED BY <1>1, <1>2, <1>3, <1>4 DEF GeneratorNext, SurgePass, SurgeNext, generatorVars

LEMMA SurgeInvHolds == GeneratorSpec => []SurgeInv
<1>1. GeneratorInit => SurgeInv
  BY SurgeInvInit DEF GeneratorInit
<1> QED BY <1>1, SurgeInvStep, PTL DEF GeneratorSpec

(***************************************************************************)
(* No multiplier leaves the grid, whatever the market does and however the *)
(* smoothed value is rounded.                                              *)
(***************************************************************************)
THEOREM MultipliersInGrid == GeneratorSpec => []SurgeInGrid
<1>1. SurgeInv => SurgeInGrid
  BY QuotesAreInGrid DEF SurgeInv, SurgeInGrid, QuotesAreInGrid
<1> QED BY <1>1, SurgeInvHolds, PTL

(***************************************************************************)
(* Whatever the state of the market, more riders never make a ride cheaper *)
(* and more drivers never make it dearer, for every floor, ceiling,        *)
(* weather and number of requests and drivers.                             *)
(***************************************************************************)
THEOREM SurgeGrowsWithScarcity == GeneratorSpec => []SurgeIsMonotone
<1>1. SurgeInv => SurgeIsMonotone
  BY ConstantsOfSurge, MultiplierGrows DEF SurgeInv, SurgeTypeOK, SurgeIsMonotone, Priors
<1> QED BY <1>1, SurgeInvHolds, PTL

(***************************************************************************)
(* A new multiplier lies between the zone's last and what scarcity calls   *)
(* for, up to half a step, for all of them.                                *)
(***************************************************************************)
THEOREM SurgeFollowsScarcity == GeneratorSpec => []SurgeTracksScarcity
<1>1. SurgeInv => SurgeTracksScarcity
  <2> SUFFICES ASSUME SurgeInv, last.prior # NoPrior, last.count >= MinDemand
               PROVE SurgeTracksScarcity
    BY DEF SurgeTracksScarcity
  <2>1. /\ last.count \in Nat /\ last.local \in Nat /\ last.prior \in Floor .. Ceiling
        /\ last.multiplier = Multiplier(last.count, last.local, last.prior)
    BY DEF SurgeInv, NoBucket, Priors
  <2>2. MinDemand <= last.count
    BY <2>1, ConstantsOfSurge
  <2> QED BY <2>1, <2>2, MultiplierBetween DEF SurgeTracksScarcity
<1> QED BY <1>1, SurgeInvHolds, PTL

--------------------------------------------------------------------------------
USE DispatchAssumption DEF DispatchAssumption

(***************************************************************************)
(* The books of the run.  A trip is counted once it has ended, so the      *)
(* tally is behind by the trip in hand, and behind the completed           *)
(* engagements by that trip if it was completed.                           *)
(***************************************************************************)
CompletedLeases == {l \in leases : l.completed}
CompletedOf(s)  == {l \in leases : l.session = s /\ l.completed}

Outcomes == {"completed", "cancelled", "expired"}

Uncounted == IF "RideCompleted" \in Kinds(chain) THEN 1 ELSE 0

TallyInv ==
    /\ tally \in [Outcomes -> Nat]
    /\ tally["completed"] + tally["cancelled"] + tally["expired"] =
           IF stage = "idle" THEN trip ELSE trip - 1

LeaseInv ==
    /\ IsFiniteSet(leases)
    /\ \A l \in leases : l.trip <= trip /\ (l.trip = trip => stage \notin {"REQUESTED"} \cup Driving)
    /\ tally["completed"] + Uncounted = Cardinality(CompletedLeases)
    /\ \A s \in Sessions : served[s] = Cardinality(CompletedOf(s))

DoneInv ==
    pass = "done" =>
        /\ stage = "idle" /\ trip = Trips
        /\ \A s \in DOMAIN reported : s \in Sessions /\ reported[s] = served[s]

BalanceInv == DispatchInv /\ ChainInv /\ TallyInv /\ LeaseInv /\ DoneInv

LEMMA EmitKinds ==
    ASSUME NEW kind, NEW when, NEW s, chain' = chain \cup {Event(kind, when, s)}
    PROVE  Kinds(chain)' = Kinds(chain) \cup {kind}
<1> DEFINE new == Event(kind, when, s)
<1>1. new.kind = kind
  BY DEF Event
<1>2. chain' = chain \cup {new}
  OBVIOUS
<1> HIDE DEF new
<1> QED BY <1>1, <1>2 DEF Kinds

\* One more engagement, of a trip that had none.
LEMMA OccupyCounts ==
    ASSUME BalanceInv, stage \in Driving, NEW to, NEW buffer, Occupy(to, buffer),
           NEW s \in Sessions
    PROVE  /\ IsFiniteSet(leases') /\ \A l \in leases' : l \in leases \/ l.trip = trip
           /\ Cardinality(CompletedLeases)' =
                  Cardinality(CompletedLeases) + IF stage' = "COMPLETED" THEN 1 ELSE 0
           /\ Cardinality(CompletedOf(s))' =
                  Cardinality(CompletedOf(s))
                    + IF s = driver /\ stage' = "COMPLETED" THEN 1 ELSE 0
<1> DEFINE new == [trip |-> trip, session |-> driver, from |-> requested, to |-> to,
                   until |-> to + buffer, completed |-> stage' = "COMPLETED"]
<1>1. new.trip = trip /\ new.session = driver /\ (new.completed <=> stage' = "COMPLETED")
  OBVIOUS
<1>2. leases' = leases \cup {new}
  BY DEF Occupy
<1> HIDE DEF new
<1>3. new \notin leases
  BY <1>1 DEF BalanceInv, LeaseInv
<1>4. /\ IsFiniteSet(leases') /\ IsFiniteSet(CompletedLeases) /\ IsFiniteSet(CompletedOf(s))
  BY <1>2, FS_AddElement, FS_Subset DEF BalanceInv, LeaseInv, CompletedLeases, CompletedOf
<1>5. Cardinality(CompletedLeases) \in Nat /\ Cardinality(CompletedOf(s)) \in Nat
  BY <1>4, FS_CardinalityType
<1>6. Cardinality(CompletedLeases)' =
          Cardinality(CompletedLeases) + IF stage' = "COMPLETED" THEN 1 ELSE 0
  <2>1. CASE stage' = "COMPLETED"
    <3>1. CompletedLeases' = CompletedLeases \cup {new} /\ new \notin CompletedLeases
      BY <1>1, <1>2, <1>3, <2>1 DEF CompletedLeases
    <3> QED BY <1>4, <2>1, <3>1, FS_AddElement
  <2>2. CASE stage' # "COMPLETED"
    <3>1. CompletedLeases' = CompletedLeases
      BY <1>1, <1>2, <2>2 DEF CompletedLeases
    <3> QED BY <1>5, <2>2, <3>1
  <2> QED BY <2>1, <2>2
<1>7. Cardinality(CompletedOf(s))' =
          Cardinality(CompletedOf(s)) + IF s = driver /\ stage' = "COMPLETED" THEN 1 ELSE 0
  <2>1. CASE s = driver /\ stage' = "COMPLETED"
    <3>1. CompletedOf(s)' = CompletedOf(s) \cup {new} /\ new \notin CompletedOf(s)
      BY <1>1, <1>2, <1>3, <2>1 DEF CompletedOf
    <3> QED BY <1>4, <2>1, <3>1, FS_AddElement
  <2>2. CASE ~ (s = driver /\ stage' = "COMPLETED")
    <3>1. CompletedOf(s)' = CompletedOf(s)
      BY <1>1, <1>2, <2>2 DEF CompletedOf
    <3> QED BY <1>5, <2>2, <3>1
  <2> QED BY <2>1, <2>2
<1> QED BY <1>1, <1>2, <1>4, <1>6, <1>7

\* An engagement that ends at a cancellation is not a completed one.
LEMMA CancelBalances ==
    ASSUME BalanceInv, stage \in Driving, NEW to, NEW buffer, Occupy(to, buffer),
           NEW delay, NEW fee, Cancel(delay, fee)
    PROVE  TallyInv' /\ LeaseInv' /\ DoneInv'
<1>1. /\ stage' = "ended" /\ UNCHANGED <<trip, pass, served, tally, reported>>
      /\ Kinds(chain)' = Kinds(chain) \cup {"RideCancelled"}
  BY EmitKinds DEF Cancel, Emit, plan, fleet
<1>2. Uncounted' = Uncounted
  BY <1>1 DEF Uncounted
<1>3. TallyInv'
  BY <1>1 DEF BalanceInv, TallyInv, Driving
<1>4. /\ IsFiniteSet(leases')
      /\ \A l \in leases' : l.trip <= trip'
                            /\ (l.trip = trip' => stage' \notin {"REQUESTED"} \cup Driving)
  <2>1. PICK s : s \in Sessions
    BY DEF BalanceInv, DispatchInv, TripSound
  <2>2. IsFiniteSet(leases') /\ \A l \in leases' : l \in leases \/ l.trip = trip
    BY <2>1, OccupyCounts
  <2>3. trip \in Nat
    BY DEF BalanceInv, DispatchInv, TypeOK
  <2> QED BY <1>1, <2>2, <2>3 DEF BalanceInv, LeaseInv, Driving
<1>5. tally'["completed"] + Uncounted' = Cardinality(CompletedLeases)'
  <2>1. PICK s : s \in Sessions
    BY DEF BalanceInv, DispatchInv, TripSound
  <2>2. Cardinality(CompletedLeases)' = Cardinality(CompletedLeases) + 0
    BY <1>1, <2>1, OccupyCounts
  <2>3. Cardinality(CompletedLeases) \in Nat
    BY FS_CardinalityType, FS_Subset DEF BalanceInv, LeaseInv, CompletedLeases
  <2> QED BY <1>1, <1>2, <2>2, <2>3 DEF BalanceInv, LeaseInv
<1>6. ASSUME NEW s \in Sessions PROVE served'[s] = Cardinality(CompletedOf(s))'
  <2>1. Cardinality(CompletedOf(s))' = Cardinality(CompletedOf(s)) + 0
    BY <1>1, OccupyCounts
  <2>2. Cardinality(CompletedOf(s)) \in Nat
    BY FS_CardinalityType, FS_Subset DEF BalanceInv, LeaseInv, CompletedOf
  <2> QED BY <1>1, <2>1, <2>2 DEF BalanceInv, LeaseInv
<1>7. DoneInv'
  BY <1>1 DEF BalanceInv, DoneInv, Driving
<1> QED BY <1>3, <1>4, <1>5, <1>6, <1>7 DEF LeaseInv

LEMMA CompleteBalances ==
    ASSUME BalanceInv, NEW seconds \in Durations, NEW quote \in Quotes, Complete(seconds, quote)
    PROVE  TallyInv' /\ LeaseInv' /\ DoneInv'
<1>1. /\ stage \in Driving /\ stage' = "COMPLETED" /\ UNCHANGED <<trip, pass, tally, reported>>
      /\ Kinds(chain)' = Kinds(chain) \cup {"RideCompleted"}
      /\ served' = [served EXCEPT ![driver] = @ + 1]
      /\ Occupy(now + seconds, Buffer)
  BY EmitKinds DEF Complete, Emit, plan, fleet, Driving
<1>2. /\ driver \in Sessions /\ served \in [Sessions -> Nat] /\ trip \in Nat
      /\ tally["completed"] \in Nat
  BY <1>1 DEF BalanceInv, DispatchInv, TripSound, TypeOK, TallyInv, Outcomes
<1>3. Uncounted = 0 /\ Uncounted' = 1
  <2>1. "RideCompleted" \notin Kinds(chain)
    BY DEF Complete, BalanceInv, ChainInv, EmittedBy, Requested, Accepted, Arrived, Started
  <2> QED BY <1>1, <2>1 DEF Uncounted
<1>4. TallyInv'
  BY <1>1 DEF BalanceInv, TallyInv, Driving
<1>5. /\ IsFiniteSet(leases') /\ \A l \in leases' : l \in leases \/ l.trip = trip
      /\ Cardinality(CompletedLeases)' = Cardinality(CompletedLeases) + 1
  BY <1>1, <1>2, OccupyCounts
<1>6. \A l \in leases' : l.trip <= trip'
                         /\ (l.trip = trip' => stage' \notin {"REQUESTED"} \cup Driving)
  BY <1>1, <1>2, <1>5 DEF BalanceInv, LeaseInv, Driving
<1>7. tally'["completed"] + Uncounted' = Cardinality(CompletedLeases)'
  BY <1>1, <1>2, <1>3, <1>5 DEF BalanceInv, LeaseInv
<1>8. ASSUME NEW s \in Sessions PROVE served'[s] = Cardinality(CompletedOf(s))'
  <2>1. served[s] = Cardinality(CompletedOf(s)) /\ served[s] \in Nat
    BY <1>2 DEF BalanceInv, LeaseInv
  <2>2. CASE s = driver
    <3>1. Cardinality(CompletedOf(s))' = Cardinality(CompletedOf(s)) + 1
      BY <1>1, <2>2, OccupyCounts
    <3> QED BY <1>1, <1>2, <2>1, <2>2, <3>1
  <2>3. CASE s # driver
    <3>1. Cardinality(CompletedOf(s))' = Cardinality(CompletedOf(s)) + 0
      BY <1>1, <2>3, OccupyCounts
    <3> QED BY <1>1, <1>2, <2>1, <2>3, <3>1
  <2> QED BY <2>2, <2>3
<1>9. DoneInv'
  BY <1>1 DEF BalanceInv, DoneInv, Driving
<1> QED BY <1>4, <1>5, <1>6, <1>7, <1>8, <1>9 DEF LeaseInv

LEMMA CountBalances ==
    ASSUME BalanceInv, CountTrip
    PROVE  TallyInv' /\ LeaseInv' /\ DoneInv'
<1>1. /\ stage = "ended" /\ stage' = "idle" /\ chain' = {}
      /\ tally' = [tally EXCEPT ![Outcome] = @ + 1]
      /\ UNCHANGED <<trip, pass, served, leases, reported>>
  BY DEF CountTrip, fleet, plan, book
<1>2. /\ tally \in [Outcomes -> Nat] /\ trip \in Nat
      /\ tally["completed"] + tally["cancelled"] + tally["expired"] = trip - 1
  BY <1>1 DEF BalanceInv, TallyInv, DispatchInv, TypeOK
<1>3. Outcome \in Outcomes /\ (Outcome = "completed" <=> "RideCompleted" \in Kinds(chain))
  <2>1. CASE "RideCompleted" \in Kinds(chain)
    <3>1. "RideCancelled" \notin Kinds(chain)
      BY <1>1, <2>1 DEF BalanceInv, ChainInv, EmittedBy, Requested, Accepted, Arrived, Started,
         Completed, Settled
    <3> QED BY <2>1, <3>1 DEF Outcome, Outcomes
  <2>2. CASE "RideCompleted" \notin Kinds(chain) /\ "RideCancelled" \in Kinds(chain)
    BY <2>2 DEF Outcome, Outcomes
  <2>3. CASE "RideCompleted" \notin Kinds(chain) /\ "RideCancelled" \notin Kinds(chain)
    BY <2>3 DEF Outcome, Outcomes
  <2> QED BY <2>1, <2>2, <2>3
<1>4. TallyInv'
  <2>1. tally' \in [Outcomes -> Nat]
    BY <1>1, <1>2, <1>3
  <2>2. tally'["completed"] + tally'["cancelled"] + tally'["expired"] = trip
    BY <1>1, <1>2, <1>3 DEF Outcomes
  <2> QED BY <1>1, <2>1, <2>2 DEF TallyInv
<1>5. Uncounted' = 0
  BY <1>1 DEF Uncounted, Kinds
<1>6. tally'["completed"] = tally["completed"] + Uncounted
  BY <1>1, <1>2, <1>3 DEF Outcomes, Uncounted
<1>7. tally'["completed"] + Uncounted' = Cardinality(CompletedLeases)'
  <2>1. CompletedLeases' = CompletedLeases
    BY <1>1 DEF CompletedLeases
  <2>2. tally'["completed"] \in Nat
    BY <1>4 DEF TallyInv, Outcomes
  <2> QED BY <1>5, <1>6, <2>1, <2>2 DEF BalanceInv, LeaseInv
<1>8. \A s \in Sessions : CompletedOf(s)' = CompletedOf(s)
  BY <1>1 DEF CompletedOf
<1>9. LeaseInv'
  BY <1>1, <1>7, <1>8 DEF BalanceInv, LeaseInv, Driving
<1>10. DoneInv'
  BY <1>1 DEF BalanceInv, DoneInv
<1> QED BY <1>4, <1>9, <1>10

\* Steps that neither engage a driver nor complete or count a trip.
LEMMA OtherBalances ==
    ASSUME BalanceInv, UNCHANGED <<leases, served, tally>>,
           stage # "idle" \/ stage' = "idle", stage' = "idle" => stage = "idle",
           stage' \in {"REQUESTED"} \cup Driving => stage \in {"REQUESTED"} \cup Driving,
           trip' = trip, "RideCompleted" \in Kinds(chain)' <=> "RideCompleted" \in Kinds(chain),
           (pass' = pass /\ reported' = reported) \/ pass' # "done"
    PROVE  TallyInv' /\ LeaseInv' /\ DoneInv'
<1>1. Uncounted' = Uncounted
  BY DEF Uncounted
<1>2. CompletedLeases' = CompletedLeases /\ \A s \in Sessions : CompletedOf(s)' = CompletedOf(s)
  BY DEF CompletedLeases, CompletedOf
<1>3. TallyInv'
  BY DEF BalanceInv, TallyInv
<1>4. LeaseInv'
  BY <1>1, <1>2 DEF BalanceInv, LeaseInv
<1>5. DoneInv'
  BY DEF BalanceInv, DoneInv
<1> QED BY <1>3, <1>4, <1>5

LEMMA RequestBalances ==
    ASSUME BalanceInv, NEW at \in RequestTimes, NEW t \in Types, Request(at, t)
    PROVE  TallyInv' /\ LeaseInv' /\ DoneInv'
<1>1. /\ stage = "idle" /\ stage' = "REQUESTED" /\ trip' = trip + 1 /\ pass # "done"
      /\ UNCHANGED <<pass, leases, served, tally>>
      /\ trip \in Nat
  BY DEF Request, TakeUp, fleet, book, BalanceInv, DispatchInv, TypeOK
<1>2. "RideCompleted" \notin Kinds(chain) /\ "RideCompleted" \notin Kinds(chain)'
  <2>1. Kinds(chain) = {}
    BY <1>1 DEF BalanceInv, ChainInv, EmittedBy
  <2>2. ChainInv'
    BY RequestLawful DEF BalanceInv
  <2>3. Kinds(chain)' = {"RideRequested"}
    BY <1>1, <2>2 DEF ChainInv, EmittedBy, Requested
  <2> QED BY <2>1, <2>3
<1>3. Uncounted' = Uncounted
  BY <1>2 DEF Uncounted
<1>4. CompletedLeases' = CompletedLeases /\ \A s \in Sessions : CompletedOf(s)' = CompletedOf(s)
  BY <1>1 DEF CompletedLeases, CompletedOf
<1>5. TallyInv'
  BY <1>1 DEF BalanceInv, TallyInv
<1>6. \A l \in leases : l.trip <= trip' /\ l.trip # trip'
  <2>1. \A l \in leases : l.trip \in Nat /\ l.trip <= trip
    BY DEF BalanceInv, LeaseInv, DispatchInv, TypeOK
  <2> QED BY <1>1, <2>1
<1>7. LeaseInv'
  BY <1>1, <1>3, <1>4, <1>6 DEF BalanceInv, LeaseInv
<1>8. DoneInv'
  BY <1>1 DEF DoneInv
<1> QED BY <1>5, <1>7, <1>8

LEMMA PresenceBalances ==
    ASSUME BalanceInv, EmitPresence
    PROVE  TallyInv' /\ LeaseInv' /\ DoneInv'
<1>1. /\ stage = "idle" /\ trip = Trips
      /\ UNCHANGED <<stage, trip, chain, leases, served, tally>>
      /\ reported' = [s \in {r \in Sessions : shift[r].offline # Open} |-> served[s]]
  BY DEF EmitPresence, Presence, plan, book
<1>2. TallyInv' /\ LeaseInv'
  BY <1>1 DEF BalanceInv, TallyInv, LeaseInv, CompletedLeases, CompletedOf, Uncounted
<1>3. DoneInv'
  BY <1>1 DEF DoneInv
<1> QED BY <1>2, <1>3

LEMMA StageBalances ==
    ASSUME BalanceInv,
           \/ Build \/ StartLifecycle \/ NoDriver \/ UNCHANGED vars
           \/ \E delay \in CancelDelays["REQUESTED"], fee \in BOOLEAN : CancelBeforeMatch(delay, fee)
           \/ \E delay \in MatchingDelays, e \in Etas : Match(delay, e)
           \/ \E delay \in ArrivalDelays : Arrive(delay)
           \/ \E wait \in Waits : Start(wait)
           \/ \E lag \in PaymentLags : Pay(lag)
    PROVE  TallyInv' /\ LeaseInv' /\ DoneInv'
<1>1. CASE Build \/ StartLifecycle \/ UNCHANGED vars
  BY <1>1, OtherBalances DEF Build, StartLifecycle, vars, plan, book
<1>2. ASSUME NEW delay, NEW fee, Cancel(delay, fee), stage = "REQUESTED", UNCHANGED book
      PROVE  TallyInv' /\ LeaseInv' /\ DoneInv'
  <2>1. Kinds(chain)' = Kinds(chain) \cup {"RideCancelled"}
    BY <1>2, EmitKinds DEF Cancel, Emit
  <2> QED BY <1>2, <2>1, OtherBalances DEF Cancel, plan, fleet, book, Driving
<1>3. CASE NoDriver
  <2>1. CASE UNCHANGED <<fleet, plan, now, driver, eta, chain, bill, served, tally, reported>>
    BY <1>3, <2>1, OtherBalances DEF NoDriver, fleet, plan, book, Driving, Cancel
  <2> QED BY <1>2, <1>3, <2>1 DEF NoDriver
<1>4. CASE \E delay \in CancelDelays["REQUESTED"], fee \in BOOLEAN : CancelBeforeMatch(delay, fee)
  BY <1>2, <1>4 DEF CancelBeforeMatch
<1>5. ASSUME NEW kind \in {"RideAccepted", "DriverArrived", "RideStarted", "PaymentCompleted"},
             NEW when, NEW s, chain' = chain \cup {Event(kind, when, s)},
             stage \notin {"idle", "ended"}, stage' \in Driving \cup {"ended"},
             stage \in {"REQUESTED"} \cup Driving \/ stage' = "ended",
             UNCHANGED <<fleet, plan, book, served, tally, reported>>
      PROVE  TallyInv' /\ LeaseInv' /\ DoneInv'
  <2>1. Kinds(chain)' = Kinds(chain) \cup {kind}
    BY <1>5, EmitKinds
  <2> QED BY <1>5, <2>1, OtherBalances DEF plan, fleet, book, Driving
<1>6. CASE \E delay \in MatchingDelays, e \in Etas : Match(delay, e)
  BY <1>5, <1>6 DEF Match, Driving
<1>7. CASE \E delay \in ArrivalDelays : Arrive(delay)
  BY <1>5, <1>7 DEF Arrive, Emit, Driving
<1>8. CASE \E wait \in Waits : Start(wait)
  BY <1>5, <1>8 DEF Start, Emit, Driving
<1>9. CASE \E lag \in PaymentLags : Pay(lag)
  BY <1>5, <1>9 DEF Pay, Emit
<1> QED BY <1>1, <1>3, <1>4, <1>6, <1>7, <1>8, <1>9

LEMMA BalanceInit == Init => BalanceInv
<1> SUFFICES ASSUME Init PROVE BalanceInv
  OBVIOUS
<1>1. DispatchInv /\ ChainInv
  BY DispatchInit, ChainInit
<1>2. TallyInv /\ DoneInv
  BY DEF Init, TallyInv, DoneInv, Outcomes
<1>3. CompletedLeases = {} /\ \A s : CompletedOf(s) = {}
  BY DEF Init, CompletedLeases, CompletedOf
<1>4. LeaseInv
  <2>1. Uncounted = 0
    BY DEF Init, Uncounted, Kinds
  <2>2. IsFiniteSet({}) /\ Cardinality({}) = 0
    BY FS_EmptySet
  <2>3. tally["completed"] = 0 /\ leases = {} /\ \A s \in Sessions : served[s] = 0
    BY DEF Init
  <2>4. /\ IsFiniteSet(leases) /\ Cardinality(CompletedLeases) = 0
        /\ \A s \in Sessions : Cardinality(CompletedOf(s)) = 0
    BY <1>3, <2>2, <2>3
  <2> QED BY <2>1, <2>3, <2>4 DEF LeaseInv
<1> QED BY <1>1, <1>2, <1>4 DEF BalanceInv

LEMMA BalanceStep == BalanceInv /\ [Next]_vars => BalanceInv'
<1> SUFFICES ASSUME BalanceInv, [Next]_vars PROVE BalanceInv'
  OBVIOUS
<1>1. DispatchInv' /\ ChainInv'
  BY DispatchStep, ChainStep DEF BalanceInv
<1>2. ASSUME \/ \E delay \in CancelDelays["MATCHED"], fee \in BOOLEAN : CancelMatched(delay, fee)
             \/ \E delay \in CancelDelays["DRIVER_ARRIVED"], fee \in BOOLEAN :
                    CancelArrived(delay, fee)
             \/ \E delay \in CancelDelays["STARTED"], fee \in BOOLEAN : CancelStarted(delay, fee)
      PROVE  TallyInv' /\ LeaseInv' /\ DoneInv'
  BY <1>2, CancelBalances DEF CancelMatched, CancelArrived, CancelStarted, Driving
<1>3. TallyInv' /\ LeaseInv' /\ DoneInv'
  BY <1>2, StageBalances, CompleteBalances, CountBalances, RequestBalances, PresenceBalances
     DEF Next
<1> QED BY <1>1, <1>3 DEF BalanceInv

(***************************************************************************)
(* The totals of a finished run are those of its trips: every request is   *)
(* counted once, and every driver reports the trips he completed.          *)
(***************************************************************************)
THEOREM RunsBalance == GeneratorSpec => []RunBalances
<1>1. BalanceInv => RunBalances
  <2> SUFFICES ASSUME BalanceInv, pass = "done" PROVE RunBalances
    BY DEF RunBalances
  <2>1. Uncounted = 0 /\ tally["completed"] \in Nat
    BY DEF BalanceInv, DoneInv, ChainInv, EmittedBy, Uncounted, TallyInv, Outcomes
  <2>2. tally["completed"] = Cardinality(CompletedLeases)
    BY <2>1 DEF BalanceInv, LeaseInv
  <2>3. \A s \in DOMAIN reported : reported[s] = Cardinality(CompletedOf(s))
    BY DEF BalanceInv, DoneInv, LeaseInv
  <2>4. tally["completed"] + tally["cancelled"] + tally["expired"] = Trips
    BY DEF BalanceInv, DoneInv, TallyInv
  <2> QED BY <2>2, <2>3, <2>4 DEF RunBalances, CompletedLeases, CompletedOf
<1> QED BY <1>1, BalanceInit, BalanceStep, GeneratorDispatches, PTL DEF Spec
================================================================================
