------------------------------ MODULE BooksProofs ------------------------------
(***************************************************************************)
(* Proofs about the books, for every catalogue of prices, coupons, rules   *)
(* and fees, and for any number of orders and requests.                    *)
(***************************************************************************)
EXTENDS Books, Sums, SequenceTheorems

--------------------------------------------------------------------------------
(* Types of every variable.                                                *)
Ref == Promoters \cup {"none"}
Commission == [promoter : Ref, base : Int, amount : Int]
Entry == [promoter : Ref, amount : Int]
Refunding == {"reverse", "reverse.create", "unaccrue"}

Order ==
    [status : {"none", "AWAITING_PAYMENT", "PAID", "REFUNDED"}, ref : Ref,
     coupon : Coupons \cup {"none"}, subtotal : Nat, discount : Nat, fee : Nat,
     mode : {"BUYER", "PRODUCER"}, total : Nat]
Worker ==
    [step : Fulfilment \cup Refunding \cup {"idle"}, order : Orders \cup {"none"},
     earned : Commission, rows : [Keys -> Entry]]
Payer == {NoRequest} \cup [step : {"confirming", "appending"}, promoter : Promoters, amount : Int]
Manager == [step : {"superseding"}, rule : CommissionRule, found : SUBSET Nat]

SalesTyped ==
    /\ order \in [Orders -> Order]
    /\ checkout \in [Orders -> {"none", "attributing", "done"}]
    /\ attribution \in [Orders -> [promoter : Ref, coupon : Coupons \cup {"none"}]]
OffersTyped ==
    /\ redemptions \in [Coupons -> Nat] /\ assigned \subseteq Promoters
    /\ rules \in Seq(CommissionRule) /\ fee \in Fee
BooksTyped ==
    /\ commission \in [Orders -> [ACCRUAL : Commission, REVERSAL : Commission]]
    /\ ledger \in [Orders -> [Keys -> Entry]]
    /\ paidOut \in [Promoters \cup {"PRODUCER"} -> Int]
RequestsTyped ==
    /\ worker \in [Workers -> Worker]
    /\ payer \in [Payers -> Payer]
    /\ manager \in [Managers -> {NoRequest} \cup Manager]
    /\ count \in [changes : Nat, payouts : Nat, faults : Nat, deliveries : Nat]
    /\ overlap \subseteq Orders /\ failed \subseteq Orders
Typed == SalesTyped /\ OffersTyped /\ BooksTyped /\ RequestsTyped

(* What an order may be before it is paid, and what its total is.          *)
Paid(o) == order[o].status \in {"PAID", "REFUNDED"}
Ordered(o) ==
    /\ order[o].total = order[o].subtotal - order[o].discount
                        + (IF order[o].mode = "BUYER" THEN order[o].fee ELSE 0)
    /\ checkout[o] = "none" <=> order[o].status = "none"
    /\ checkout[o] # "done" => attribution[o] = NoAttribution
    /\ Paid(o) => checkout[o] = "done"
    /\ ~Paid(o) => /\ commission[o].ACCRUAL = NoCommission
                   /\ commission[o].REVERSAL = NoCommission
                   /\ ledger[o] = NoRows

(* A request is about a paid order; a fulfilment in progress about one     *)
(* that was not refunded before it began.                                  *)
WorkerFits(w) ==
    /\ worker[w].step = "idle" => worker[w] = Idle
    /\ worker[w].step # "idle" => On(w) \in Orders /\ Paid(On(w))
    /\ worker[w].step \in Refunding =>
         \/ order[On(w)].status = "REFUNDED"
         \/ worker[w].step = "unaccrue" /\ On(w) \in failed
    /\ worker[w].step \in Fulfilment =>
         order[On(w)].status = "PAID" \/ On(w) \in overlap

(* Commission goes to the promoter the order is attributed to; a reversal  *)
(* takes all of it back.                                                   *)
Accrued(o, e) ==
    \/ e = NoCommission
    \/ e.promoter = attribution[o].promoter /\ e.promoter # "none" /\ e.amount > 0
Accruals(o) ==
    /\ Accrued(o, earned(o))
    /\ commission[o].REVERSAL \in {NoCommission, Negated(earned(o))}
    /\ order[o].status # "REFUNDED" /\ o \notin failed => commission[o].REVERSAL = NoCommission
AccrualHeld(w) ==
    At(w, "accrue.create") => Accrued(On(w), worker[w].earned) /\ worker[w].earned # NoCommission

(* The rows of a sale are posted together; those of its commission too.    *)
SaleTypes == {"SALE", "DISCOUNT", "FEE"}
Charged(o, rows) ==
    \A a \in Accounts, t \in SaleTypes : rows[<<a, t>>] = saleEntries(o)[<<a, t>>]
NoShare(rows) == \A a \in Accounts : rows[<<a, "COMMISSION">>] = NoRow
Shared(o, rows) ==
    \A a \in Accounts : rows[<<a, "COMMISSION">>] = saleEntries(o)[<<a, "COMMISSION">>]
Posts(o, rows) == Charged(o, rows) /\ (NoShare(rows) \/ Shared(o, rows))
Unposted(rows) == \A a \in Accounts, t \in SaleTypes \cup {"COMMISSION"} : rows[<<a, t>>] = NoRow
NoRefund(rows) == \A a \in Accounts : rows[<<a, "REFUND">>] = NoRow
Posted(o) == Unposted(ledger[o]) \/ Posts(o, ledger[o])
PostHeld(w) ==
    At(w, "post.create") => Posts(On(w), worker[w].rows) /\ NoRefund(worker[w].rows)

(* What a refund posts depends on the sale and its commission only.        *)
Net(o, a) ==
    LET of(type) == entry(o, a, type).amount
    IN of("SALE") + of("DISCOUNT") + of("FEE") + of("COMMISSION")
Undo(o, a) ==
    IF Net(o, a) # 0 THEN Row(entry(o, a, "COMMISSION").promoter, -Net(o, a)) ELSE NoRow
Undoes(o, rows) == \A a \in Accounts : rows[<<a, "REFUND">>] = Undo(o, a)
Refunds(o) ==
    /\ order[o].status # "REFUNDED" => NoRefund(ledger[o]) /\ o \notin overlap
    /\ o \notin overlap => NoRefund(ledger[o]) \/ Undoes(o, ledger[o])
    /\ entry(o, "PROMOTER", "REFUND").amount <= 0
RefundHeld(w) ==
    At(w, "reverse.create") =>
        /\ Unposted(worker[w].rows)
        /\ On(w) \notin overlap => Undoes(On(w), worker[w].rows)
        /\ worker[w].rows[<<"PROMOTER", "REFUND">>].amount <= 0

(* A refund that met no fulfilment and no failure is carried through.      *)
Doing(o, steps) == \E w \in Workers : On(w) = o /\ worker[w].step \in steps
Settles(o) ==
    order[o].status = "REFUNDED" /\ o \notin overlap \cup failed =>
        /\ Undoes(o, ledger[o]) \/ Doing(o, {"reverse", "reverse.create"})
        /\ commission[o].REVERSAL = Negated(earned(o)) \/ Doing(o, Refunding)

(* Without failures, commission that was accrued reaches the ledger.       *)
Delivers(o) ==
    count.faults = 0 /\ o \notin overlap /\ earned(o) # NoCommission =>
        \/ Shared(o, ledger[o])
        \/ Doing(o, {"redeem", "post"})
        \/ \E w \in Workers : On(w) = o /\ At(w, "post.create") /\ Shared(o, worker[w].rows)
NoFaults == count.faults = 0 => failed = {}

(* A coupon is counted once for an order that earns commission.            *)
SameRules == rules = FirstRules
Earns(o) == accrual(o) # NoCommission
Within == \A c \in Coupons : CouponOf[c].max # 0 => redemptions[c] <= CouponOf[c].max
RulesGrow == SameRules \/ Len(rules) > Len(FirstRules)
EarnsSame ==
    SameRules =>
        /\ \A o \in Orders : earned(o) # NoCommission => Earns(o)
        /\ \A w \in Workers : At(w, "accrue.create") => Earns(On(w))
        /\ \A w \in Workers : At(w, "redeem") /\ Earns(On(w)) =>
              /\ earned(On(w)) # NoCommission
              /\ \A x \in Workers : At(x, "redeem") /\ On(x) = On(w) => x = w
CarriersOf(c) == {o \in Orders : attribution[o].coupon = c}
CountedFor(c) == {o \in CarriersOf(c) : earned(o) # NoCommission /\ ~Doing(o, {"redeem"})}
CountsOnce ==
    SameRules => \A c \in Coupons :
        (\A o \in CarriersOf(c) : Earns(o)) => redemptions[c] <= Cardinality(CountedFor(c))

(* What is paid out to a promoter, with the payouts that passed the check  *)
(* and are not appended yet, is within what each person may pay.           *)
EarnedEver(p) ==
    SumFunction([o \in Orders |-> share(entry(o, "PROMOTER", "COMMISSION"), p)])
Pending(p) ==
    [x \in Payers |-> IF payer[x].step = "appending" /\ payer[x].promoter = p
                      THEN payer[x].amount ELSE 0]
Covers(earns, paid, pending) ==
    /\ paid \in Nat
    /\ pending \in [Payers -> Nat] /\ \A x \in Payers : pending[x] <= earns
    /\ paid + SumFunctionOnSet(pending, Payers) <= Cardinality(Payers) * earns
PayoutsCovered ==
    /\ \A p \in Promoters : Covers(EarnedEver(p), paidOut[p], Pending(p))
    /\ \A x \in Payers : payer[x].step # "idle" => payer[x].amount \in Nat

OrderInv(o) == Ordered(o) /\ Accruals(o) /\ Posted(o) /\ Refunds(o)
WorkerInv(w) == WorkerFits(w) /\ AccrualHeld(w) /\ PostHeld(w) /\ RefundHeld(w)
BaseInv == Typed /\ (\A o \in Orders : OrderInv(o)) /\ (\A w \in Workers : WorkerInv(w))
FlowInv == NoFaults /\ (\A o \in Orders : Settles(o) /\ Delivers(o))
CouponInv == Within /\ RulesGrow /\ EarnsSame /\ CountsOnce
Inv == BaseInv /\ FlowInv /\ CouponInv /\ PayoutsCovered

--------------------------------------------------------------------------------
(* A rounded share of an amount is a natural number.                       *)
LEMMA RatioIsNat ==
    ASSUME NEW a \in Nat, NEW b \in Nat \ {0}
    PROVE RoundedRatio(a, b) \in Nat
<1>1. 2 * b \in Nat /\ 2 * b > 0 /\ 2 * a + b \in Nat
  OBVIOUS
<1>2. \A m \in Nat, n \in Nat : n > 0 => m \div n \in Nat
  OBVIOUS
<1> QED BY <1>1, <1>2 DEF RoundedRatio

(* A percentage of an amount is a natural number, and a percentage of at   *)
(* most 100 is not more than the amount.                                   *)
LEMMA PercentageIsNat ==
    ASSUME NEW a \in Nat, NEW b \in Nat
    PROVE percentageOf(a, b) \in Nat
<1>1. a * b \in Nat /\ Bps \in Nat \ {0}
  BY DEF Bps
<1> QED BY <1>1, RatioIsNat DEF percentageOf

(* A percentage of at most 100 of an amount is not more than the amount.   *)
LEMMA PercentageWithin ==
    ASSUME NEW a \in Nat, NEW b \in 0..Bps
    PROVE percentageOf(a, b) <= a
<1>1. PICK m \in Nat : m = a * b
  BY DEF Bps
<1>2. m <= a * 10000
  BY <1>1 DEF Bps
<1>3. (2 * m + 10000) \div 20000 <= a
  BY <1>2
<1>4. percentageOf(a, b) = (2 * m + 10000) \div 20000
  BY <1>1 DEF percentageOf, RoundedRatio, Bps
<1> QED BY <1>3, <1>4

(* A discount is not negative, and not more than the tickets cost.         *)
LEMMA DiscountWithin ==
    ASSUME NEW c \in Coupon, NEW t \in Nat
    PROVE couponDiscountCents(c, t) \in 0..t
<1>1. AtMost(c.value, Bps) \in Nat
  BY DEF AtMost, Bps, Coupon
<1>2. percentageOf(t, AtMost(c.value, Bps)) \in Nat
  BY <1>1, PercentageIsNat
<1> QED BY <1>2 DEF couponDiscountCents, AtMost, Coupon

(* The sum over a sequence of natural numbers.                             *)
LEMMA SumOfCells ==
    ASSUME NEW S, IsFiniteSet(S), NEW f, DOMAIN f = S, \A x \in S : f[x] \in Nat
    PROVE SumFunction(f) \in Nat
BY SumIsNat DEF SumFunction

(* The units of an order are finitely many, each with a price.             *)
LEMMA UnitsPriced ==
    ASSUME BooksAssumption, NEW o \in Orders
    PROVE /\ IsFiniteSet(DOMAIN Cart[o].units)
          /\ \A i \in DOMAIN Cart[o].units : Cart[o].units[i].price \in Nat
<1>1. PICK units : units = Cart[o].units
  OBVIOUS
<1>2. units \in Seq([ticket : Tickets, price : Nat])
  BY <1>1 DEF BooksAssumption
<1>3. DOMAIN units = 1..Len(units) /\ Len(units) \in Int /\ 1 \in Int
  BY <1>2
<1>4. IsFiniteSet(1..Len(units))
  BY <1>3, FS_Interval
<1>5. \A i \in 1..Len(units) : units[i] \in [ticket : Tickets, price : Nat]
  BY <1>2, ElementOfSeq
<1> QED BY <1>1, <1>3, <1>4, <1>5

(* What the tickets of an order cost.                                      *)
LEMMA TicketsCost ==
    ASSUME BooksAssumption, NEW o \in Orders
    PROVE ticketSubtotal(o) \in Nat
<1> DEFINE f == [i \in DOMAIN Cart[o].units |-> Cart[o].units[i].price]
<1>1. SumFunction(f) \in Nat
  BY UnitsPriced, SumOfCells
<1> QED BY <1>1 DEF ticketSubtotal, Total

(* The amounts of a new order, and how its total is made up.               *)
LEMMA TotalsFit ==
    ASSUME NEW t \in Nat, NEW p \in Nat, NEW d \in 0..t, NEW f \in Fee
    PROVE LET m == orderTotals(t, p, d, f)
          IN /\ m.subtotal \in Nat /\ m.discount \in Nat /\ m.fee \in Nat /\ m.total \in Nat
             /\ m.mode \in {"BUYER", "PRODUCER"}
             /\ m.total = m.subtotal - m.discount + (IF m.mode = "BUYER" THEN m.fee ELSE 0)
<1>1. f.bps \in Nat /\ f.mode \in {"BUYER", "PRODUCER"}
  <2>1. 0..Bps \subseteq Nat
    BY DEF Bps
  <2> QED BY <2>1 DEF Fee
<1>3. t - d \in Nat
  OBVIOUS
<1>2. PICK c \in Nat : c = percentageOf(t - d, f.bps)
  BY <1>1, <1>3, PercentageIsNat
<1> QED BY <1>1, <1>2, <1>3 DEF orderTotals

(* The total is what the amounts of an order come to.                      *)
LEMMA TotalAddsUp ==
    ASSUME NEW t \in Nat, NEW p \in Nat, NEW d \in 0..t, NEW f \in Fee,
           NEW m, m = orderTotals(t, p, d, f)
    PROVE m.total = m.subtotal - m.discount + (IF m.mode = "BUYER" THEN m.fee ELSE 0)
BY TotalsFit

(* What a rule makes of a unit.                                            *)
LEMMA BaseOfUnit ==
    ASSUME NEW price \in Nat, NEW base, NEW subtotal \in Nat, NEW discount \in Nat
    PROVE unitBase(price, base, subtotal, discount) \in Nat
<1>1. CASE base = "NOMINAL" \/ discount = 0 \/ subtotal = 0
  BY <1>1 DEF unitBase
<1>2. CASE ~(base = "NOMINAL" \/ discount = 0 \/ subtotal = 0)
  <2>1. discount * Bps \in Nat /\ subtotal \in Nat \ {0}
    BY <1>2 DEF Bps
  <2>2. RoundedRatio(discount * Bps, subtotal) \in Nat
    BY <2>1, RatioIsNat
  <2>3. PICK b \in 0..Bps : b = AtMost(RoundedRatio(discount * Bps, subtotal), Bps)
    <3> DEFINE r == RoundedRatio(discount * Bps, subtotal)
    <3> HIDE DEF r
    <3>1. r \in Nat
      BY <2>2 DEF r
    <3>2. AtMost(r, Bps) \in 0..Bps
      BY <3>1 DEF AtMost, Bps
    <3> QED BY <3>2 DEF r
  <2>4. percentageOf(price, b) \in Nat /\ percentageOf(price, b) <= price
    <3>1. b \in Nat
      BY DEF Bps
    <3> QED BY <3>1, PercentageIsNat, PercentageWithin
  <2> QED BY <1>2, <2>3, <2>4 DEF unitBase
<1> QED BY <1>1, <1>2

(* Commission on the units of an order, under any list of rules.           *)
LEMMA CommissionIsNat ==
    ASSUME BooksAssumption, NEW o \in Orders, NEW rs \in Seq(CommissionRule), NEW promoter,
           NEW subtotal \in Nat, NEW discount \in Nat
    PROVE LET sum == computeCommission(Cart[o].units, rs, promoter, subtotal, discount)
          IN sum.base \in Nat /\ sum.amount \in Nat
<1>1. DOMAIN rs = 1..Len(rs) /\ Len(rs) \in Int /\ 1 \in Int
  OBVIOUS
<1>2. IsFiniteSet(DOMAIN rs)
  <2>1. IsFiniteSet(1..Len(rs))
    BY <1>1, FS_Interval
  <2> QED BY <1>1, <2>1
<1>3. \A i \in DOMAIN rs : rs[i] \in CommissionRule
  BY <1>1
<1>4. \A i \in DOMAIN rs : rs[i].value \in Nat
  BY <1>3 DEF CommissionRule
<1> DEFINE units == Cart[o].units
           rule(u) == resolveRuleForUnit(rs, promoter, u.ticket)
           basis(u) == [i \in rule(u) |-> unitBase(u.price, rs[i].base, subtotal, discount)]
           base(u) == SumFunction(basis(u))
           parts(u) == [i \in rule(u) |-> IF rs[i].kind = "PERCENT"
                            THEN percentageOf(base(u), rs[i].value) ELSE rs[i].value]
           earns(u) == SumFunction(parts(u))
<1>5. ASSUME NEW u, u.price \in Nat PROVE base(u) \in Nat /\ earns(u) \in Nat
  <2>1. rule(u) \in SUBSET (DOMAIN rs)
    BY DEF resolveRuleForUnit
  <2>2. IsFiniteSet(rule(u))
    BY <1>2, <2>1, FS_Subset
  <2> HIDE DEF rule
  <2>3. \A i \in rule(u) : basis(u)[i] \in Nat
    BY <1>5, BaseOfUnit
  <2>4. base(u) \in Nat
    <3>1. DOMAIN basis(u) = rule(u)
      OBVIOUS
    <3> HIDE DEF basis
    <3> QED BY <2>2, <2>3, <3>1, SumOfCells
  <2> HIDE DEF base
  <2>5. \A i \in rule(u) : parts(u)[i] \in Nat
    BY <1>4, <2>1, <2>4, PercentageIsNat
  <2>6. earns(u) \in Nat
    <3>1. DOMAIN parts(u) = rule(u)
      OBVIOUS
    <3> HIDE DEF parts
    <3> QED BY <2>2, <2>5, <3>1, SumOfCells
  <2> QED BY <2>4, <2>6
<1> DEFINE bases == [i \in DOMAIN units |-> base(units[i])]
           amounts == [i \in DOMAIN units |-> earns(units[i])]
<1>6. SumFunction(bases) \in Nat /\ SumFunction(amounts) \in Nat
  <2>1. IsFiniteSet(DOMAIN units) /\ \A i \in DOMAIN units : units[i].price \in Nat
    BY UnitsPriced
  <2> HIDE DEF units, base, earns
  <2>2. \A i \in DOMAIN units : base(units[i]) \in Nat /\ earns(units[i]) \in Nat
    BY <1>5, <2>1
  <2>3. \A i \in DOMAIN units : bases[i] \in Nat /\ amounts[i] \in Nat
    BY <2>2
  <2>4. DOMAIN bases = DOMAIN units /\ DOMAIN amounts = DOMAIN units
    OBVIOUS
  <2> HIDE DEF bases, amounts
  <2> QED BY <2>1, <2>3, <2>4, SumOfCells
<1>7. computeCommission(units, rs, promoter, subtotal, discount)
        = [base |-> SumFunction(bases), amount |-> SumFunction(amounts)]
  BY DEF computeCommission, Total
<1> HIDE DEF bases, amounts, units
<1> QED BY <1>6, <1>7 DEF units

--------------------------------------------------------------------------------
(* The steps of the books, with all the steps of staff that leave sales,   *)
(* entries and requests alone taken together.                              *)
Elsewhere ==
    /\ UNCHANGED <<sale, commission, ledger, worker, trouble>>
    /\ count.faults' = count.faults

(* What a step of the books is.                                            *)
LEMMA Steps ==
    ASSUME Typed, [Next]_vars
    PROVE \/ Elsewhere
          \/ \E o \in Orders, i \in Inputs : createOrder(o, i.coupon, i.ref)
          \/ \E o \in Orders : recordAttribution(o) \/ attributionFails(o)
          \/ \E o \in Orders, w \in Workers : \/ markOrderPaid(w, o) \/ settleRefund(w, o)
                                            \/ settlementThrows(w, o)
          \/ \E w \in Workers : Handle(w) \/ Fails(w)
<1>1. CASE UNCHANGED vars
  BY <1>1 DEF vars, sale, book, trouble, Elsewhere
<1>2. ASSUME count' = [count EXCEPT !.changes = @ + 1] \/ count' = [count EXCEPT !.payouts = @ + 1]
             \/ count' = count
      PROVE count.faults' = count.faults
  BY <1>2 DEF Typed, RequestsTyped
<1>3. CASE \/ \E c \in Coupons : couponEnds(c)
           \/ \E p \in Promoters : linkPromoterToEvent(p)
           \/ \E f \in Fees : updateFee(f)
           \/ \E amount \in PayoutAmounts : registerExternalPayout(amount)
  <2>1. count.faults' = count.faults
    BY <1>2, <1>3 DEF couponEnds, linkPromoterToEvent, updateFee, registerExternalPayout
  <2> QED BY <1>3, <2>1 DEF couponEnds, linkPromoterToEvent, updateFee, registerExternalPayout,
        Elsewhere, sale, book, trouble
<1>4. CASE \E m \in Managers : createSuperseding(m) \/ \E r \in NewRules : createCommissionRule(m, r)
  <2>1. count.faults' = count.faults
    BY <1>2, <1>4 DEF createSuperseding, createCommissionRule
  <2> QED BY <1>4, <2>1 DEF createSuperseding, createCommissionRule, Elsewhere, sale, book, offer, trouble
<1>5. CASE \E x \in Payers : registerPromoterPayout(x) \/ appendPayout(x)
                             \/ \E p \in Promoters : openPayout(x, p)
  <2>1. count.faults' = count.faults
    BY <1>2, <1>5 DEF registerPromoterPayout, appendPayout, openPayout
  <2> QED BY <1>5, <2>1 DEF registerPromoterPayout, appendPayout, openPayout, Elsewhere, sale, book, trouble
<1>6. CASE \/ \E o \in Orders :
               \/ \E i \in Inputs : createOrder(o, i.coupon, i.ref)
               \/ recordAttribution(o) \/ attributionFails(o)
               \/ \E w \in Workers : \/ markOrderPaid(w, o) \/ settleRefund(w, o)
                                     \/ settlementThrows(w, o)
           \/ \E w \in Workers : Handle(w) \/ Fails(w)
  BY <1>6
<1> QED BY <1>1, <1>3, <1>4, <1>5, <1>6 DEF Next

(* The same steps of staff, and what they change.                          *)
LEMMA StaffSteps ==
    ASSUME [Next]_vars, <<redemptions, assigned, rules, fee, paidOut, payer, manager>>'
                          # <<redemptions, assigned, rules, fee, paidOut, payer, manager>>
    PROVE \/ \E w \in Workers : tryIncrementRedemption(w)
          \/ \E p \in Promoters : linkPromoterToEvent(p)
          \/ \E f \in Fees : updateFee(f)
          \/ \E amount \in PayoutAmounts : registerExternalPayout(amount)
          \/ \E m \in Managers : createSuperseding(m) \/ \E r \in NewRules : createCommissionRule(m, r)
          \/ \E x \in Payers : registerPromoterPayout(x) \/ appendPayout(x)
                               \/ \E p \in Promoters : openPayout(x, p)
<1>1. ~ UNCHANGED vars
  BY DEF vars, offer, book, staff
<1>2. \A o \in Orders : /\ \A i \in Inputs : ~createOrder(o, i.coupon, i.ref)
                        /\ ~recordAttribution(o) /\ ~attributionFails(o)
                        /\ \A w \in Workers : /\ ~markOrderPaid(w, o) /\ ~settleRefund(w, o)
                                              /\ ~settlementThrows(w, o)
  BY DEF createOrder, recordAttribution, attributionFails, markOrderPaid, settleRefund, settlementThrows,
      offer, book, staff
<1>3. \A w \in Workers : ~Fails(w) /\ (Handle(w) => tryIncrementRedemption(w))
  BY DEF Fails, Handle, accrueForPaidOrder, createAccrual, postForPaidOrder, createSaleEntries,
      reverseForOrder, createReversal, reverseCommission, offer, book, staff
<1>4. \A c \in Coupons : ~couponEnds(c)
  BY DEF couponEnds, book, staff
<1> QED BY <1>1, <1>2, <1>3, <1>4 DEF Next

(* The records that the checks below take apart.                           *)
LEMMA RowTypes ==
    /\ NoRow \in Entry /\ NoRows \in [Keys -> Entry] /\ NoCommission \in Commission
    /\ \A p \in Ref, n \in Int : Row(p, n) \in Entry /\ Row(p, n).promoter = p /\ Row(p, n).amount = n
    /\ NoRow.promoter = "none" /\ NoRow.amount = 0
    /\ NoCommission.promoter = "none" /\ NoCommission.amount = 0 /\ NoCommission.base = 0
BY DEF NoRow, NoRows, NoCommission, Row, Entry, Commission, Ref

(* A request holds what it was given.                                      *)
LEMMA HandlerTyped ==
    ASSUME NEW step \in Fulfilment \cup Refunding \cup {"idle"}, NEW o \in Orders \cup {"none"},
           NEW e \in Commission, NEW rows \in [Keys -> Entry]
    PROVE LET h == Handler(step, o, e, rows)
          IN h \in Worker /\ h.step = step /\ h.order = o /\ h.earned = e /\ h.rows = rows
BY DEF Handler, Worker

(* A request on its way holds neither commission nor rows.                 *)
LEMMA BusyTyped ==
    ASSUME NEW step \in Fulfilment \cup Refunding \cup {"idle"}, NEW o \in Orders \cup {"none"}
    PROVE LET h == Busy(step, o) IN h \in Worker /\ h.step = step /\ h.order = o
BY RowTypes, HandlerTyped DEF Busy

(* A request that is done is about no order.                               *)
LEMMA IdleTyped == Idle \in Worker /\ Idle.step = "idle" /\ Idle.order = "none"
<1>1. NoCommission \in Commission /\ NoRows \in [Keys -> Entry]
  BY RowTypes
<1> HIDE DEF Worker
<1>2. Handler("idle", "none", NoCommission, NoRows) \in Worker
  BY <1>1, HandlerTyped
<1> QED BY <1>2 DEF Idle, Handler

--------------------------------------------------------------------------------
(* What a step may do to an order and its books, and to a request.         *)
SameSale(o) ==
    order'[o] = order[o] /\ checkout'[o] = checkout[o] /\ attribution'[o] = attribution[o]
SameBooks(o) == commission'[o] = commission[o] /\ ledger'[o] = ledger[o]
Same(o) == SameSale(o) /\ SameBooks(o) /\ (o \in overlap' <=> o \in overlap)

(* The steps that change a given order or its books.                       *)
LEMMA OrderSteps ==
    ASSUME Typed, [Next]_vars, NEW o \in Orders
    PROVE \/ Same(o)
          \/ \E i \in Inputs : createOrder(o, i.coupon, i.ref)
          \/ recordAttribution(o) \/ attributionFails(o)
          \/ \E w \in Workers : markOrderPaid(w, o) \/ settleRefund(w, o)
          \/ \E w \in Workers : On(w) = o /\ (createAccrual(w) \/ createSaleEntries(w)
                                              \/ createReversal(w) \/ reverseCommission(w))
<1> USE DEF Typed, SalesTyped, BooksTyped
<1>1. CASE Elsewhere
  BY <1>1 DEF Elsewhere, Same, SameSale, SameBooks, sale, trouble
<1>2. ASSUME NEW q \in Orders, q # o, NEW i \in Inputs, createOrder(q, i.coupon, i.ref) PROVE Same(o)
  BY <1>2 DEF createOrder, Same, SameSale, SameBooks, book, trouble
<1>3. ASSUME NEW q \in Orders, q # o, recordAttribution(q) \/ attributionFails(q) PROVE Same(o)
  BY <1>3 DEF recordAttribution, attributionFails, Same, SameSale, SameBooks, book, trouble
<1>4. ASSUME NEW q \in Orders, q # o, NEW w \in Workers, markOrderPaid(w, q) \/ settleRefund(w, q)
      PROVE Same(o)
  BY <1>4 DEF markOrderPaid, settleRefund, Same, SameSale, SameBooks, book, trouble
<1>5. ASSUME NEW w \in Workers, Handle(w), On(w) # o PROVE Same(o)
  <2>1. CASE createAccrual(w)
    BY <1>5, <2>1 DEF createAccrual, Same, SameSale, SameBooks, sale, trouble
  <2>2. CASE createSaleEntries(w) \/ createReversal(w)
    BY <1>5, <2>2 DEF createSaleEntries, createReversal, postForOrder, Same, SameSale, SameBooks, sale,
          trouble
  <2>3. CASE reverseCommission(w)
    BY <1>5, <2>3 DEF reverseCommission, Same, SameSale, SameBooks, sale, trouble
  <2>4. CASE accrueForPaidOrder(w) \/ tryIncrementRedemption(w) \/ postForPaidOrder(w)
             \/ reverseForOrder(w)
    BY <2>4 DEF accrueForPaidOrder, tryIncrementRedemption, postForPaidOrder, reverseForOrder, Same,
          SameSale, SameBooks, sale, book, trouble
  <2> QED BY <1>5, <2>1, <2>2, <2>3, <2>4 DEF Handle
<1>6. ASSUME NEW w \in Workers, Handle(w), ~Same(o)
      PROVE createAccrual(w) \/ createSaleEntries(w) \/ createReversal(w) \/ reverseCommission(w)
  BY <1>6 DEF Handle, accrueForPaidOrder, tryIncrementRedemption, postForPaidOrder, reverseForOrder,
        Same, SameSale, SameBooks, sale, book, trouble
<1>7. ASSUME NEW w \in Workers, Fails(w) PROVE Same(o)
  BY <1>7 DEF Fails, Same, SameSale, SameBooks, sale, book
<1>8. ASSUME NEW q \in Orders, NEW w \in Workers, settlementThrows(w, q) PROVE Same(o)
  BY <1>8 DEF settlementThrows, Same, SameSale, SameBooks, sale, book
<1> QED BY <1>1, <1>2, <1>3, <1>4, <1>5, <1>6, <1>7, <1>8, Steps

(* The steps that change a given request.                                  *)
LEMMA WorkerSteps ==
    ASSUME Typed, [Next]_vars, NEW w \in Workers
    PROVE \/ worker'[w] = worker[w]
          \/ \E o \in Orders : markOrderPaid(w, o) \/ settleRefund(w, o) \/ settlementThrows(w, o)
          \/ Handle(w) \/ Fails(w)
<1> USE DEF Typed, RequestsTyped
<1>1. CASE Elsewhere
  BY <1>1 DEF Elsewhere
<1>2. ASSUME NEW o \in Orders, \/ \E i \in Inputs : createOrder(o, i.coupon, i.ref)
                               \/ recordAttribution(o) \/ attributionFails(o)
      PROVE worker'[w] = worker[w]
  BY <1>2 DEF createOrder, recordAttribution, attributionFails
<1>3. ASSUME NEW o \in Orders, NEW x \in Workers, x # w,
             markOrderPaid(x, o) \/ settleRefund(x, o) \/ settlementThrows(x, o)
      PROVE worker'[w] = worker[w]
  BY <1>3 DEF markOrderPaid, settleRefund, settlementThrows, start
<1>4. ASSUME NEW x \in Workers, x # w, Handle(x) \/ Fails(x) PROVE worker'[w] = worker[w]
  BY <1>4 DEF Handle, accrueForPaidOrder, createAccrual, tryIncrementRedemption, postForPaidOrder,
        createSaleEntries, reverseForOrder, createReversal, reverseCommission, Fails, Go, Hold, Done
<1> QED BY <1>1, <1>2, <1>3, <1>4, Steps

(* An order a call failed for stays marked.                                *)
LEMMA FailedStay ==
    ASSUME Typed, [Next]_vars PROVE failed \subseteq failed'
<1>1. ASSUME NEW o \in Orders, NEW w \in Workers,
             markOrderPaid(w, o) \/ settleRefund(w, o) \/ settlementThrows(w, o)
      PROVE failed \subseteq failed'
  BY <1>1 DEF markOrderPaid, settleRefund, settlementThrows, trouble
<1>2. ASSUME NEW o \in Orders, \/ \E i \in Inputs : createOrder(o, i.coupon, i.ref)
                               \/ recordAttribution(o) \/ attributionFails(o)
      PROVE failed \subseteq failed'
  BY <1>2 DEF createOrder, recordAttribution, attributionFails, trouble
<1>3. ASSUME NEW w \in Workers, Handle(w) PROVE failed \subseteq failed'
  BY <1>3 DEF Handle, accrueForPaidOrder, createAccrual, tryIncrementRedemption, postForPaidOrder,
        createSaleEntries, reverseForOrder, createReversal, reverseCommission, trouble
<1>4. ASSUME NEW w \in Workers, Fails(w) PROVE failed \subseteq failed'
  BY <1>4 DEF Fails
<1>5. CASE Elsewhere
  BY <1>5 DEF Elsewhere, trouble
<1> QED BY <1>1, <1>2, <1>3, <1>4, <1>5, Steps

--------------------------------------------------------------------------------
(* Types.                                                                  *)
LEMMA KeyTypes ==
    /\ \A a \in Accounts, t \in EntryTypes : <<a, t>> \in Keys
    /\ \A k \in Keys : \E a \in Accounts, t \in EntryTypes : k = <<a, t>>
BY DEF Keys

(* The rows a sale posts are rows of the ledger.                           *)
LEMMA SaleEntriesTyped ==
    ASSUME Typed, NEW o \in Orders PROVE saleEntries(o) \in [Keys -> Entry]
<1>1. order[o] \in Order /\ earned(o) \in Commission
  BY DEF Typed, SalesTyped, BooksTyped, earned
<1>2. \A n \in Int : Row("none", n) \in Entry
  BY RowTypes DEF Ref
<1>3. \A n \in Int : Row(earned(o).promoter, n) \in Entry
  BY <1>1, RowTypes DEF Commission
<1>4. /\ {order[o].subtotal, -order[o].discount, order[o].fee, -order[o].fee} \subseteq Int
      /\ {-earned(o).amount, earned(o).amount} \subseteq Int
  BY <1>1 DEF Order, Commission
<1>5. NoRow \in Entry
  BY RowTypes
<1> HIDE DEF Entry, Keys
<1> QED BY <1>2, <1>3, <1>4, <1>5 DEF saleEntries

(* A balance is a whole number of cents.                                   *)
LEMMA BalanceIsInt ==
    ASSUME Typed, NEW o \in Orders, NEW a \in Accounts PROVE Balance(o, a) \in Int
<1>1. ledger[o] \in [Keys -> Entry]
  BY DEF Typed, BooksTyped
<1>2. \A t \in EntryTypes : entry(o, a, t) \in Entry
  BY <1>1, KeyTypes DEF entry
<1>3. \A t \in EntryTypes : entry(o, a, t).amount \in Int
  BY <1>2 DEF Entry
<1> QED BY <1>3 DEF Balance, EntryTypes

(* The rows a refund posts are rows of the ledger.                         *)
LEMMA ReversalTyped ==
    ASSUME Typed, NEW o \in Orders PROVE reversal(o) \in [Keys -> Entry]
<1>1. ledger[o] \in [Keys -> Entry] /\ NoRow \in Entry
  BY RowTypes DEF Typed, BooksTyped
<1>2. ASSUME NEW k \in Keys
      PROVE Row(entry(o, k[1], "COMMISSION").promoter, -Balance(o, k[1])) \in Entry
  <2>1. PICK a \in Accounts : k[1] = a
    BY DEF Keys
  <2>2. entry(o, a, "COMMISSION") \in Entry
    BY <1>1, KeyTypes DEF EntryTypes, entry
  <2>3. entry(o, a, "COMMISSION").promoter \in Ref /\ -Balance(o, a) \in Int
    BY <2>2, BalanceIsInt DEF Entry
  <2> QED BY <2>1, <2>3, RowTypes
<1> HIDE DEF Entry, Keys
<1> QED BY <1>1, <1>2 DEF reversal

(* What an order would earn is commission.                                 *)
LEMMA AccrualTyped ==
    ASSUME BooksAssumption, Typed, NEW o \in Orders
    PROVE accrual(o) \in Commission /\ Accrued(o, accrual(o))
<1> DEFINE sum == computeCommission(Cart[o].units, rules, attribution[o].promoter,
                                    order[o].subtotal, order[o].discount)
<1>1. order[o].subtotal \in Nat /\ order[o].discount \in Nat /\ rules \in Seq(CommissionRule)
  BY DEF Typed, SalesTyped, OffersTyped, Order
<1>2. sum.base \in Nat /\ sum.amount \in Nat
  BY <1>1, CommissionIsNat
<1>3. attribution[o].promoter \in Ref
  BY DEF Typed, SalesTyped
<1>4. accrual(o) = IF attribution[o].promoter # "none" /\ sum.amount > 0
                   THEN [promoter |-> attribution[o].promoter, base |-> sum.base, amount |-> sum.amount]
                   ELSE NoCommission
  BY DEF accrual
<1> HIDE DEF sum
<1> QED BY <1>2, <1>3, <1>4, RowTypes DEF Commission, Accrued

(* The discount of a coupon is at most what the tickets cost.              *)
LEMMA DiscountResolved ==
    ASSUME BooksAssumption, NEW o \in Orders, NEW i \in Inputs
    PROVE resolveDiscount(o, i.coupon) \in 0..ticketSubtotal(o)
<1>1. ticketSubtotal(o) \in Nat
  BY TicketsCost
<1>2. i.coupon \in Coupons \cup {"none"}
  BY DEF BooksAssumption
<1>3. CASE i.coupon = "none"
  BY <1>1, <1>3 DEF resolveDiscount
<1>4. CASE i.coupon \in Coupons
  <2>1. CouponOf[i.coupon] \in Coupon /\ i.coupon # "none"
    BY <1>4 DEF BooksAssumption
  <2> QED BY <1>1, <2>1, DiscountWithin DEF resolveDiscount
<1> QED BY <1>2, <1>3, <1>4

(* Orders and attributions keep their types.                               *)
LEMMA SalesKeepTypes ==
    ASSUME BooksAssumption, Typed, [Next]_vars PROVE SalesTyped'
<1> USE DEF Typed
<1>1. ASSUME NEW o \in Orders, Same(o)
      PROVE order'[o] \in Order /\ checkout'[o] \in {"none", "attributing", "done"}
            /\ attribution'[o] \in [promoter : Ref, coupon : Coupons \cup {"none"}]
  BY <1>1 DEF Same, SameSale, SalesTyped
<1>2. \/ UNCHANGED <<order, checkout, attribution>>
      \/ \E o \in Orders, i \in Inputs : createOrder(o, i.coupon, i.ref)
      \/ \E o \in Orders : recordAttribution(o) \/ attributionFails(o)
      \/ \E o \in Orders, w \in Workers : markOrderPaid(w, o) \/ settleRefund(w, o)
  <2>1. ASSUME NEW w \in Workers, Handle(w) \/ Fails(w) PROVE UNCHANGED <<order, checkout, attribution>>
    BY <2>1 DEF Handle, accrueForPaidOrder, createAccrual, tryIncrementRedemption, postForPaidOrder,
        createSaleEntries, reverseForOrder, createReversal, reverseCommission, Fails, sale
  <2>2. ASSUME NEW o \in Orders, NEW w \in Workers, settlementThrows(w, o)
        PROVE UNCHANGED <<order, checkout, attribution>>
    BY <2>2 DEF settlementThrows, sale
  <2> QED BY <2>1, <2>2, Steps DEF Elsewhere, sale
<1>3. ASSUME NEW o \in Orders, NEW i \in Inputs, createOrder(o, i.coupon, i.ref) PROVE SalesTyped'
  <2>1. i.coupon \in Coupons \cup {"none"} /\ i.ref \in Ref
    BY DEF BooksAssumption, Ref
  <2> DEFINE d == resolveDiscount(o, i.coupon)
             t == orderTotals(ticketSubtotal(o), Cart[o].products, d, fee)
  <2>2. ticketSubtotal(o) \in Nat /\ Cart[o].products \in Nat
    BY TicketsCost DEF BooksAssumption
  <2>3. d \in 0..ticketSubtotal(o)
    BY DiscountResolved
  <2>4. fee \in Fee
    BY DEF OffersTyped
  <2> HIDE DEF d
  <2>5. /\ t.subtotal \in Nat /\ t.discount \in Nat /\ t.fee \in Nat /\ t.total \in Nat
        /\ t.mode \in {"BUYER", "PRODUCER"}
    <3>1. t.mode = fee.mode
      BY DEF orderTotals
    <3>2. t.mode \in {"BUYER", "PRODUCER"}
      BY <2>4, <3>1 DEF Fee
    <3> HIDE DEF Fee
    <3> QED BY <2>2, <2>3, <2>4, <3>2, TotalsFit
  <2>6. order' = [order EXCEPT ![o] =
              [status |-> "AWAITING_PAYMENT", ref |-> i.ref, coupon |-> i.coupon,
               subtotal |-> t.subtotal, discount |-> t.discount, fee |-> t.fee,
               mode |-> t.mode, total |-> t.total]]
    BY <1>3 DEF createOrder, d
  <2> HIDE DEF t
  <2>7. order' \in [Orders -> Order]
    BY <2>1, <2>5, <2>6 DEF SalesTyped, Order
  <2> QED BY <1>3, <2>7 DEF createOrder, SalesTyped
<1>4. ASSUME NEW o \in Orders, recordAttribution(o) PROVE SalesTyped'
  <2>1. order[o] \in Order
    BY DEF SalesTyped
  <2>2. credited(o) \in [promoter : Ref, coupon : Coupons \cup {"none"}]
    BY <2>1 DEF credited, Order, OffersTyped, Ref
  <2> QED BY <1>4, <2>2 DEF recordAttribution, SalesTyped
<1>5. ASSUME NEW o \in Orders, attributionFails(o) PROVE SalesTyped'
  BY <1>5 DEF attributionFails, SalesTyped
<1>6. ASSUME NEW o \in Orders, NEW w \in Workers, markOrderPaid(w, o) \/ settleRefund(w, o)
      PROVE SalesTyped'
  <2>1. ASSUME NEW s \in {"PAID", "REFUNDED"} PROVE [order EXCEPT ![o].status = s] \in [Orders -> Order]
    <3>1. order[o] \in Order
      BY DEF SalesTyped
    <3>2. [order[o] EXCEPT !.status = s] \in Order
      BY <2>1, <3>1 DEF Order
    <3> HIDE DEF Order
    <3> QED BY <3>2 DEF SalesTyped
  <2> QED BY <1>6, <2>1 DEF markOrderPaid, settleRefund, SalesTyped
<1> QED BY <1>2, <1>3, <1>4, <1>5, <1>6 DEF SalesTyped

(* Coupons, rules and fees keep their types.                               *)
LEMMA OffersKeepTypes ==
    ASSUME BooksAssumption, Typed, [Next]_vars PROVE OffersTyped'
<1> USE DEF Typed, OffersTyped
<1>1. ASSUME NEW w \in Workers, tryIncrementRedemption(w) PROVE OffersTyped'
  <2> DEFINE c == attribution[On(w)].coupon
  <2>1. [redemptions EXCEPT ![c] = @ + 1] \in [Coupons -> Nat]
    <3>1. redemptions \in [Coupons -> Nat]
      OBVIOUS
    <3> HIDE DEF c, Typed, OffersTyped
    <3>2. ASSUME NEW d PROVE [redemptions EXCEPT ![d] = @ + 1] \in [Coupons -> Nat]
      <4>1. \A q \in Coupons : redemptions[q] + 1 \in Nat
        BY <3>1
      <4> QED BY <3>1, <4>1
    <3> QED BY <3>2
  <2>2. redemptions' = [redemptions EXCEPT ![c] = @ + 1] \/ redemptions' = redemptions
    BY <1>1 DEF tryIncrementRedemption
  <2>3. UNCHANGED <<assigned, rules, fee>>
    BY <1>1 DEF tryIncrementRedemption
  <2> HIDE DEF c
  <2> QED BY <2>1, <2>2, <2>3
<1>2. ASSUME NEW p \in Promoters, linkPromoterToEvent(p) PROVE OffersTyped'
  BY <1>2 DEF linkPromoterToEvent
<1>3. ASSUME NEW f \in Fees, updateFee(f) PROVE OffersTyped'
  BY <1>3 DEF updateFee, BooksAssumption
<1>4. ASSUME NEW m \in Managers, createSuperseding(m) PROVE OffersTyped'
  <2>1. manager[m] \in Manager
    BY <1>4 DEF RequestsTyped, createSuperseding
  <2> DEFINE past == [i \in DOMAIN rules |-> [rules[i] EXCEPT !.active = @ /\ i \notin manager[m].found]]
  <2>2. \A i \in DOMAIN rules : past[i] \in CommissionRule
    <3> SUFFICES ASSUME NEW i \in DOMAIN rules
                 PROVE [rules[i] EXCEPT !.active = @ /\ i \notin manager[m].found] \in CommissionRule
      OBVIOUS
    <3>1. rules[i] \in CommissionRule
      OBVIOUS
    <3>2. (rules[i].active /\ i \notin manager[m].found) \in BOOLEAN
      OBVIOUS
    <3> QED BY <3>1, <3>2, Zenon DEF CommissionRule
  <2>3. DOMAIN rules = 1..Len(rules) /\ Len(rules) \in Nat
    OBVIOUS
  <2>4. past \in Seq(CommissionRule)
    BY <2>2, <2>3
  <2>5. manager[m].rule \in CommissionRule
    BY <2>1 DEF Manager
  <2> QED BY <1>4, <2>4, <2>5 DEF createSuperseding
<1>5. ASSUME <<redemptions, assigned, rules, fee, paidOut, payer, manager>>'
               # <<redemptions, assigned, rules, fee, paidOut, payer, manager>>
      PROVE OffersTyped'
  <2>1. ASSUME NEW amount \in PayoutAmounts, registerExternalPayout(amount) PROVE OffersTyped'
    BY <2>1 DEF registerExternalPayout, offer
  <2>2. ASSUME NEW m \in Managers, NEW r \in NewRules, createCommissionRule(m, r) PROVE OffersTyped'
    BY <2>2 DEF createCommissionRule, offer
  <2>3. ASSUME NEW x \in Payers, registerPromoterPayout(x) \/ appendPayout(x)
                                 \/ \E p \in Promoters : openPayout(x, p)
        PROVE OffersTyped'
    BY <2>3 DEF registerPromoterPayout, appendPayout, openPayout, offer
  <2> QED BY <1>1, <1>2, <1>3, <1>4, <1>5, <2>1, <2>2, <2>3, StaffSteps
<1> QED BY <1>5

(* A bound's count goes on.                                                *)
LEMMA MoreCounted ==
    ASSUME NEW c \in [changes : Nat, payouts : Nat, faults : Nat, deliveries : Nat]
    PROVE LET Count == [changes : Nat, payouts : Nat, faults : Nat, deliveries : Nat]
          IN /\ [c EXCEPT !.changes = @ + 1] \in Count /\ [c EXCEPT !.payouts = @ + 1] \in Count
             /\ [c EXCEPT !.faults = @ + 1] \in Count /\ [c EXCEPT !.deliveries = @ + 1] \in Count
<1> DEFINE n == c.changes  p == c.payouts  f == c.faults  d == c.deliveries
<1>1. c = [changes |-> n, payouts |-> p, faults |-> f, deliveries |-> d]
  OBVIOUS
<1>2. n \in Nat /\ p \in Nat /\ f \in Nat /\ d \in Nat
  OBVIOUS
<1>3. /\ [c EXCEPT !.changes = @ + 1] = [changes |-> n + 1, payouts |-> p, faults |-> f, deliveries |-> d]
      /\ [c EXCEPT !.payouts = @ + 1] = [changes |-> n, payouts |-> p + 1, faults |-> f, deliveries |-> d]
      /\ [c EXCEPT !.faults = @ + 1] = [changes |-> n, payouts |-> p, faults |-> f + 1, deliveries |-> d]
      /\ [c EXCEPT !.deliveries = @ + 1] = [changes |-> n, payouts |-> p, faults |-> f, deliveries |-> d + 1]
  <2> HIDE DEF n, p, f, d
  <2> QED BY <1>1
<1> QED BY <1>2, <1>3

(* So do two counts of one step.                                           *)
LEMMA BothCounted ==
    ASSUME NEW c \in [changes : Nat, payouts : Nat, faults : Nat, deliveries : Nat]
    PROVE [c EXCEPT !.deliveries = @ + 1, !.faults = @ + 1]
            \in [changes : Nat, payouts : Nat, faults : Nat, deliveries : Nat]
<1> DEFINE Count == [changes : Nat, payouts : Nat, faults : Nat, deliveries : Nat]
           e == [c EXCEPT !.deliveries = @ + 1]
           g == [c EXCEPT !.deliveries = @ + 1, !.faults = @ + 1]
<1>1. e \in Count
  BY MoreCounted
<1>2. [e EXCEPT !.faults = @ + 1] \in Count
  BY <1>1, MoreCounted
<1>3. g = [e EXCEPT !.faults = @ + 1]
  OBVIOUS
<1> QED BY <1>2, <1>3

(* A reversal of commission takes back all of it.                          *)
LEMMA NegatedTyped ==
    ASSUME NEW e \in Commission
    PROVE /\ Negated(e) \in Commission /\ Negated(e).promoter = e.promoter
          /\ Negated(e).amount = -e.amount
BY DEF Negated, Commission

(* Commission and the ledger keep their types.                             *)
LEMMA BooksKeepTypes ==
    ASSUME BooksAssumption, BaseInv, [Next]_vars
    PROVE commission' \in [Orders -> [ACCRUAL : Commission, REVERSAL : Commission]]
          /\ ledger' \in [Orders -> [Keys -> Entry]]
<1> USE DEF BaseInv, Typed, BooksTyped
<1> HIDE DEF Commission, Entry, Keys
<1>1. ASSUME NEW w \in Workers, ~At(w, "idle")
      PROVE On(w) \in Orders /\ worker[w] \in Worker
  BY <1>1 DEF WorkerInv, WorkerFits, At, RequestsTyped
<1>2. ASSUME NEW o \in Orders, NEW rows \in [Keys -> Entry], postForOrder(o, rows)
      PROVE ledger' \in [Orders -> [Keys -> Entry]]
  <2>1. [k \in Keys |-> IF ledger[o][k] = NoRow THEN rows[k] ELSE ledger[o][k]] \in [Keys -> Entry]
    OBVIOUS
  <2> QED BY <1>2, <2>1 DEF postForOrder
<1> DEFINE Pair == [ACCRUAL : Commission, REVERSAL : Commission]
<1>0. ASSUME NEW o \in Orders, NEW e \in Commission
      PROVE [commission EXCEPT ![o].ACCRUAL = e] \in [Orders -> Pair]
            /\ [commission EXCEPT ![o].REVERSAL = e] \in [Orders -> Pair]
  <2>1. commission[o] \in Pair /\ commission \in [Orders -> Pair]
    OBVIOUS
  <2>2. [commission[o] EXCEPT !.ACCRUAL = e] \in Pair /\ [commission[o] EXCEPT !.REVERSAL = e] \in Pair
    BY <2>1
  <2> HIDE DEF Pair, BaseInv
  <2> QED BY <2>1, <2>2
<1>3. ASSUME NEW w \in Workers, createAccrual(w)
      PROVE /\ commission' \in [Orders -> [ACCRUAL : Commission, REVERSAL : Commission]]
            /\ ledger' = ledger
  <2>1. On(w) \in Orders /\ worker[w].earned \in Commission
    BY <1>1, <1>3 DEF createAccrual, At, Worker
  <2>2. [commission EXCEPT ![On(w)].ACCRUAL = worker[w].earned]
          \in [Orders -> [ACCRUAL : Commission, REVERSAL : Commission]]
    BY <1>0, <2>1
  <2> QED BY <1>3, <2>2 DEF createAccrual
<1>4. ASSUME NEW w \in Workers, reverseCommission(w)
      PROVE /\ commission' \in [Orders -> [ACCRUAL : Commission, REVERSAL : Commission]]
            /\ ledger' = ledger
  <2>1. On(w) \in Orders
    BY <1>1, <1>4 DEF reverseCommission, At
  <2> DEFINE back == Negated(earned(On(w)))
  <2>2. back \in Commission
    <3>1. earned(On(w)) \in Commission
      BY <2>1 DEF earned
    <3> QED BY <3>1, NegatedTyped
  <2> HIDE DEF back
  <2>3. [commission EXCEPT ![On(w)].REVERSAL = back]
          \in [Orders -> [ACCRUAL : Commission, REVERSAL : Commission]]
    BY <1>0, <2>1, <2>2
  <2> QED BY <1>4, <2>3 DEF reverseCommission, back
<1>5. ASSUME NEW w \in Workers, createSaleEntries(w) \/ createReversal(w)
      PROVE commission' = commission /\ ledger' \in [Orders -> [Keys -> Entry]]
  <2>1. On(w) \in Orders /\ worker[w].rows \in [Keys -> Entry]
    BY <1>1, <1>5 DEF createSaleEntries, createReversal, At, Worker
  <2> QED BY <1>2, <1>5, <2>1 DEF createSaleEntries, createReversal
<1>6. ASSUME NEW w \in Workers, Fails(w) PROVE UNCHANGED <<commission, ledger>>
  BY <1>6 DEF Fails, book
<1>7. ASSUME NEW w \in Workers, \/ accrueForPaidOrder(w) \/ tryIncrementRedemption(w)
                                \/ postForPaidOrder(w) \/ reverseForOrder(w)
      PROVE UNCHANGED <<commission, ledger>>
  BY <1>7 DEF accrueForPaidOrder, tryIncrementRedemption, postForPaidOrder, reverseForOrder, book
<1>8. ASSUME NEW o \in Orders, \/ \E i \in Inputs : createOrder(o, i.coupon, i.ref)
                               \/ recordAttribution(o) \/ attributionFails(o)
                               \/ \E w \in Workers : \/ markOrderPaid(w, o) \/ settleRefund(w, o)
                                                     \/ settlementThrows(w, o)
      PROVE UNCHANGED <<commission, ledger>>
  BY <1>8 DEF createOrder, recordAttribution, attributionFails, markOrderPaid, settleRefund,
        settlementThrows, book
<1>9. ASSUME Elsewhere PROVE UNCHANGED <<commission, ledger>>
  BY <1>9 DEF Elsewhere
<1> QED BY <1>3, <1>4, <1>5, <1>6, <1>7, <1>8, <1>9, Steps DEF Handle

(* Payouts and the requests of staff keep their types.                     *)
LEMMA PayoutsKeepTypes ==
    ASSUME BooksAssumption, Typed, [Next]_vars
    PROVE /\ paidOut' \in [Promoters \cup {"PRODUCER"} -> Int]
          /\ payer' \in [Payers -> Payer]
          /\ manager' \in [Managers -> {NoRequest} \cup Manager]
<1> DEFINE Fit == /\ paidOut' \in [Promoters \cup {"PRODUCER"} -> Int]
                  /\ payer' \in [Payers -> Payer]
                  /\ manager' \in [Managers -> {NoRequest} \cup Manager]
<1> USE DEF Typed, BooksTyped, RequestsTyped
<1>1. ASSUME NEW w \in Workers, tryIncrementRedemption(w) PROVE Fit
  BY <1>1 DEF tryIncrementRedemption, book, staff
<1>2. ASSUME NEW p \in Promoters, linkPromoterToEvent(p) PROVE Fit
  BY <1>2 DEF linkPromoterToEvent, book, staff
<1>3. ASSUME NEW f \in Fees, updateFee(f) PROVE Fit
  BY <1>3 DEF updateFee, book, staff
<1>4. ASSUME NEW amount \in PayoutAmounts, registerExternalPayout(amount) PROVE Fit
  <2>1. amount \in Nat
    BY DEF BooksAssumption
  <2> QED BY <1>4, <2>1 DEF registerExternalPayout, staff
<1>5. ASSUME NEW m \in Managers, createSuperseding(m) PROVE Fit
  BY <1>5 DEF createSuperseding, book
<1>6. ASSUME NEW m \in Managers, NEW r \in NewRules, createCommissionRule(m, r) PROVE Fit
  <2> DEFINE found == {i \in DOMAIN rules : rules[i].active /\ sameScope(rules[i], r)}
             request == [step |-> "superseding", rule |-> r, found |-> found]
  <2>1. found \in SUBSET Nat
    BY DEF OffersTyped
  <2>2. r \in CommissionRule
    BY DEF BooksAssumption
  <2> HIDE DEF found
  <2>3. request \in Manager
    BY <2>1, <2>2 DEF Manager
  <2>4. manager' = [manager EXCEPT ![m] = request] /\ UNCHANGED <<book, payer>>
    BY <1>6 DEF createCommissionRule, found
  <2> HIDE DEF request
  <2> QED BY <2>3, <2>4 DEF book
<1>7. ASSUME NEW p \in Promoters PROVE payable(p) \in Int /\ owed(p) \in Int
  <2>1. \A o \in Orders : credit(o, p) \in Int
    <3> SUFFICES ASSUME NEW o \in Orders PROVE credit(o, p) \in Int
      OBVIOUS
    <3>1. ledger[o] \in [Keys -> Entry]
      OBVIOUS
    <3>2. entry(o, "PROMOTER", "COMMISSION") \in Entry /\ entry(o, "PROMOTER", "REFUND") \in Entry
      BY <3>1, KeyTypes DEF entry, Accounts, EntryTypes
    <3> QED BY <3>2 DEF credit, share, Entry
  <2> DEFINE credits == [o \in Orders |-> credit(o, p)]
  <2>2. DOMAIN credits = Orders /\ \A o \in Orders : credits[o] \in Int
    BY <2>1
  <2>3. IsFiniteSet(Orders)
    BY DEF BooksAssumption
  <2>4. SumFunction(credits) = SumFunctionOnSet(credits, DOMAIN credits)
    BY DEF SumFunction, SumFunctionOnSet
  <2>5. payable(p) = SumFunction(credits)
    BY DEF payable
  <2> HIDE DEF credits
  <2>6. payable(p) \in Int
    BY <2>2, <2>3, <2>4, <2>5, SumIsInt
  <2> QED BY <2>6 DEF owed
<1>8. ASSUME NEW x \in Payers, NEW p \in Promoters, openPayout(x, p) PROVE Fit
  <2>1. [step |-> "confirming", promoter |-> p, amount |-> owed(p)] \in Payer
    BY <1>7 DEF Payer
  <2> QED BY <1>8, <2>1 DEF openPayout, book
<1>9. ASSUME NEW x \in Payers, registerPromoterPayout(x) PROVE Fit
  <2>1. payer[x] \in Payer /\ payer[x] # NoRequest
    BY <1>9 DEF registerPromoterPayout, NoRequest
  <2>2. [payer[x] EXCEPT !.step = "appending"] \in Payer /\ NoRequest \in Payer
    BY <2>1 DEF Payer
  <2> QED BY <1>9, <2>2 DEF registerPromoterPayout, book
<1>10. ASSUME NEW x \in Payers, appendPayout(x) PROVE Fit
  <2>1. payer[x] \in Payer /\ payer[x] # NoRequest /\ NoRequest \in Payer
    BY <1>10 DEF appendPayout, NoRequest, Payer
  <2>2. payer[x].promoter \in Promoters /\ payer[x].amount \in Int
    BY <2>1 DEF Payer
  <2> QED BY <1>10, <2>1, <2>2 DEF appendPayout
<1>11. ASSUME UNCHANGED <<redemptions, assigned, rules, fee, paidOut, payer, manager>> PROVE Fit
  BY <1>11
<1> HIDE DEF Fit, Typed, BooksTyped, RequestsTyped
<1>12. Fit
  BY <1>1, <1>2, <1>3, <1>4, <1>5, <1>6, <1>8, <1>9, <1>10, <1>11, StaffSteps
<1> QED BY <1>12 DEF Fit

(* Requests and their counts keep their types.                             *)
LEMMA WorkersKeepTypes ==
    ASSUME BooksAssumption, BaseInv, [Next]_vars PROVE worker' \in [Workers -> Worker]
<1> USE DEF BaseInv, Typed
<1>1. worker \in [Workers -> Worker]
  BY DEF RequestsTyped
<1>2. ASSUME NEW w \in Workers, ~At(w, "idle") PROVE On(w) \in Orders
  BY <1>2 DEF WorkerInv, WorkerFits, At
<1>3. ASSUME NEW w \in Workers, NEW s \in Fulfilment \cup Refunding \cup {"idle"},
             NEW o \in Orders \cup {"none"}, NEW e \in Commission, NEW rows \in [Keys -> Entry]
      PROVE [worker EXCEPT ![w] = Handler(s, o, e, rows)] \in [Workers -> Worker]
  BY <1>1, HandlerTyped
<1>4. NoCommission \in Commission /\ NoRows \in [Keys -> Entry]
  BY RowTypes
<1>5. ASSUME NEW w \in Workers, NEW s \in Fulfilment \cup Refunding, On(w) \in Orders, Go(w, s)
      PROVE worker' \in [Workers -> Worker]
  BY <1>3, <1>4, <1>5 DEF Go, Busy
<1>11. ASSUME NEW w \in Workers, NEW s \in Fulfilment \cup Refunding, On(w) \in Orders,
              NEW e \in Commission, NEW rows \in [Keys -> Entry], Hold(w, s, e, rows)
       PROVE worker' \in [Workers -> Worker]
  BY <1>3, <1>11 DEF Hold
<1>6. ASSUME NEW w \in Workers, Done(w) PROVE worker' \in [Workers -> Worker]
  BY <1>1, <1>6, IdleTyped DEF Done
<1>7. ASSUME NEW w \in Workers, NEW o \in Orders,
             markOrderPaid(w, o) \/ settleRefund(w, o) \/ settlementThrows(w, o)
      PROVE worker' \in [Workers -> Worker]
  <2>1. \E s \in {"accrue", "reverse", "unaccrue"} : worker' = [worker EXCEPT ![w] = Busy(s, o)]
    BY <1>7 DEF markOrderPaid, settleRefund, settlementThrows, start
  <2> QED BY <1>3, <1>4, <2>1 DEF Busy, Fulfilment, Refunding
<1>8. ASSUME NEW w \in Workers, Handle(w) PROVE worker' \in [Workers -> Worker]
  <2> HIDE DEF BaseInv, Typed, Worker, Commission, Entry, Keys
  <2>1. On(w) \in Orders
    BY <1>2, <1>8 DEF Handle, accrueForPaidOrder, createAccrual, tryIncrementRedemption, postForPaidOrder,
        createSaleEntries, reverseForOrder, createReversal, reverseCommission, At
  <2>2. accrual(On(w)) \in Commission /\ saleEntries(On(w)) \in [Keys -> Entry]
        /\ reversal(On(w)) \in [Keys -> Entry]
    <3>1. Typed
      BY DEF BaseInv
    <3> QED BY <2>1, <3>1, AccrualTyped, SaleEntriesTyped, ReversalTyped
  <2>3. CASE accrueForPaidOrder(w)
    BY <1>4, <1>5, <1>11, <2>1, <2>2, <2>3 DEF accrueForPaidOrder, Fulfilment
  <2>4. CASE createAccrual(w) \/ tryIncrementRedemption(w) \/ createReversal(w)
    BY <1>5, <2>1, <2>4 DEF createAccrual, tryIncrementRedemption, createReversal, Fulfilment, Refunding
  <2>5. CASE postForPaidOrder(w)
    BY <1>4, <1>6, <1>11, <2>1, <2>2, <2>5 DEF postForPaidOrder, Fulfilment
  <2>6. CASE createSaleEntries(w) \/ reverseCommission(w)
    BY <1>6, <2>6 DEF createSaleEntries, reverseCommission
  <2>7. CASE reverseForOrder(w)
    BY <1>4, <1>5, <1>11, <2>1, <2>2, <2>7 DEF reverseForOrder, Refunding
  <2> QED BY <1>8, <2>3, <2>4, <2>5, <2>6, <2>7 DEF Handle
<1>9. ASSUME NEW w \in Workers, Fails(w) PROVE worker' \in [Workers -> Worker]
  <2>1. CASE Done(w)
    BY <1>6, <2>1
  <2>2. CASE Recovery(worker[w].step) # "idle" /\ Go(w, Recovery(worker[w].step))
    <3>1. Recovery(worker[w].step) \in {"post", "unaccrue"}
      BY <2>2 DEF Recovery
    <3>2. ~At(w, "idle")
      BY <1>9 DEF Fails, At, WorkerInv, WorkerFits
    <3> QED BY <1>2, <1>5, <2>2, <3>1, <3>2 DEF Fulfilment, Refunding
  <2> QED BY <1>9, <2>1, <2>2 DEF Fails
<1>10. ASSUME NEW o \in Orders, \/ \E i \in Inputs : createOrder(o, i.coupon, i.ref)
                                \/ recordAttribution(o) \/ attributionFails(o)
       PROVE worker' = worker
  BY <1>10 DEF createOrder, recordAttribution, attributionFails
<1> QED BY <1>1, <1>7, <1>8, <1>9, <1>10, Steps DEF Elsewhere

(* Every variable keeps its type.                                          *)
LEMMA TypesKept ==
    ASSUME BooksAssumption, BaseInv, [Next]_vars PROVE Typed'
<1>1. SalesTyped' /\ OffersTyped'
  BY SalesKeepTypes, OffersKeepTypes DEF BaseInv
<1>2. BooksTyped'
  BY BooksKeepTypes, PayoutsKeepTypes DEF BaseInv, BooksTyped
<1>3. count' \in [changes : Nat, payouts : Nat, faults : Nat, deliveries : Nat]
      /\ overlap' \subseteq Orders /\ failed' \subseteq Orders
  <2> USE DEF BaseInv, Typed, RequestsTyped
  <2>1. CASE UNCHANGED vars
    BY <2>1 DEF vars, trouble
  <2>2. ASSUME NEW w \in Workers, Handle(w) PROVE UNCHANGED <<count, trouble>>
    BY <2>2 DEF Handle, accrueForPaidOrder, createAccrual, tryIncrementRedemption, postForPaidOrder,
        createSaleEntries, reverseForOrder, createReversal, reverseCommission
  <2>3. UNCHANGED trouble
        \/ (\E o \in Orders, w \in Workers : settleRefund(w, o) \/ settlementThrows(w, o))
        \/ (\E w \in Workers : Fails(w))
    BY <2>2, Steps DEF Elsewhere, createOrder, recordAttribution, attributionFails, markOrderPaid
  <2>4. ASSUME NEW w \in Workers, Fails(w)
        PROVE overlap' \subseteq Orders /\ failed' \subseteq Orders
    <3>1. On(w) \in Orders
      BY <2>4 DEF Fails, WorkerInv, WorkerFits
    <3> QED BY <2>4, <3>1 DEF Fails
  <2>5. overlap' \subseteq Orders /\ failed' \subseteq Orders
    BY <2>3, <2>4 DEF settleRefund, settlementThrows, trouble
  <2> DEFINE Counted == count' \in [changes : Nat, payouts : Nat, faults : Nat, deliveries : Nat]
  <2>6. ASSUME \/ count' = count
               \/ count' = [count EXCEPT !.changes = @ + 1]
               \/ count' = [count EXCEPT !.payouts = @ + 1]
               \/ count' = [count EXCEPT !.faults = @ + 1]
               \/ count' = [count EXCEPT !.deliveries = @ + 1]
               \/ count' = [count EXCEPT !.deliveries = @ + 1, !.faults = @ + 1]
        PROVE Counted
    <3> DEFINE Count == [changes : Nat, payouts : Nat, faults : Nat, deliveries : Nat]
    <3>1. count \in Count
      OBVIOUS
    <3> HIDE DEF BaseInv, Typed, RequestsTyped
    <3>3. count' \in Count
      BY <2>6, <3>1, MoreCounted, BothCounted DEF Count
    <3> QED BY <3>3 DEF Count
  <2> HIDE DEF Counted, BaseInv, Typed, RequestsTyped
  <2>7. ASSUME NEW o \in Orders, \/ \E i \in Inputs : createOrder(o, i.coupon, i.ref)
                                 \/ recordAttribution(o) \/ attributionFails(o)
        PROVE Counted
    BY <2>6, <2>7 DEF createOrder, recordAttribution, attributionFails
  <2>8. ASSUME NEW o \in Orders, NEW w \in Workers,
               markOrderPaid(w, o) \/ settleRefund(w, o) \/ settlementThrows(w, o)
        PROVE Counted
    BY <2>6, <2>8 DEF markOrderPaid, settleRefund, settlementThrows, start
  <2>9. ASSUME NEW w \in Workers, Handle(w) \/ Fails(w) PROVE Counted
    BY <2>2, <2>6, <2>9 DEF Fails
  <2>10. ASSUME \/ \E c \in Coupons : couponEnds(c)
                \/ \E p \in Promoters : linkPromoterToEvent(p)
                \/ \E f \in Fees : updateFee(f)
                \/ \E amount \in PayoutAmounts : registerExternalPayout(amount)
         PROVE Counted
    BY <2>6, <2>10 DEF couponEnds, linkPromoterToEvent, updateFee, registerExternalPayout
  <2>11. ASSUME NEW m \in Managers,
                createSuperseding(m) \/ \E r \in NewRules : createCommissionRule(m, r)
         PROVE Counted
    BY <2>6, <2>11 DEF createSuperseding, createCommissionRule
  <2>12. ASSUME NEW x \in Payers, \/ registerPromoterPayout(x) \/ appendPayout(x)
                                   \/ \E p \in Promoters : openPayout(x, p)
         PROVE Counted
    BY <2>6, <2>12 DEF registerPromoterPayout, appendPayout, openPayout
  <2>13. ASSUME UNCHANGED vars PROVE Counted
    BY <2>6, <2>13 DEF vars
  <2>14. Counted
    BY <2>7, <2>8, <2>9, <2>10, <2>11, <2>12, <2>13 DEF Next
  <2> QED BY <2>5, <2>14 DEF Counted
<1> QED BY <1>1, <1>2, <1>3, PayoutsKeepTypes, WorkersKeepTypes DEF Typed, RequestsTyped, BaseInv

--------------------------------------------------------------------------------
(* An order, its commission and its entries, step by step.                 *)
LEMMA NothingToReverse == Negated(NoCommission) = NoCommission
BY DEF Negated, NoCommission

(* The rows a sale posts, account by account.                              *)
LEMMA SalePosts ==
    ASSUME NEW o, NEW t \in SaleTypes \cup {"COMMISSION"}, NEW a \in Accounts
    PROVE LET k == <<a, t>>
          IN saleEntries(o)[k] =
               CASE a = "PRODUCER" /\ t = "SALE" -> Row("none", order[o].subtotal)
                 [] a = "PRODUCER" /\ t = "DISCOUNT" -> Row("none", -order[o].discount)
                 [] a = "PLATFORM" /\ t = "FEE" -> Row("none", order[o].fee)
                 [] a = "PRODUCER" /\ t = "FEE" /\ order[o].mode = "PRODUCER"
                      -> Row("none", -order[o].fee)
                 [] a = "PRODUCER" /\ t = "COMMISSION" -> Row(earned(o).promoter, -earned(o).amount)
                 [] a = "PROMOTER" /\ t = "COMMISSION" -> Row(earned(o).promoter, earned(o).amount)
                 [] OTHER -> NoRow
<1>1. <<a, t>> \in Keys
  BY DEF Keys, SaleTypes, EntryTypes
<1> QED BY <1>1 DEF saleEntries, SaleTypes, Accounts

(* An order without commission shares nothing.                             *)
LEMMA NothingToShare ==
    ASSUME NEW o, earned(o) = NoCommission, NEW a \in Accounts
    PROVE saleEntries(o)[<<a, "COMMISSION">>] = NoRow
<1>1. Row("none", -0) = NoRow /\ Row("none", 0) = NoRow
  BY DEF NoRow
<1>2. NoCommission.promoter = "none" /\ NoCommission.amount = 0
  BY RowTypes
<1> QED BY <1>1, <1>2, SalePosts DEF Accounts, SaleTypes

(* What an order posts depends on its amounts and its commission.          *)
LEMMA SaleEntriesSame ==
    ASSUME NEW o, /\ order'[o].subtotal = order[o].subtotal /\ order'[o].discount = order[o].discount
                  /\ order'[o].fee = order[o].fee /\ order'[o].mode = order[o].mode
    PROVE /\ earned(o)' = earned(o) => saleEntries(o)' = saleEntries(o)
          /\ \A a \in Accounts, t \in SaleTypes :
               saleEntries(o)'[<<a, t>>] = saleEntries(o)[<<a, t>>]
<1>1. earned(o)' = earned(o) => saleEntries(o)' = saleEntries(o)
  BY DEF saleEntries
<1>2. ASSUME NEW a \in Accounts, NEW t \in SaleTypes
      PROVE saleEntries(o)'[<<a, t>>] = saleEntries(o)[<<a, t>>]
  <2>1. <<a, t>> \in Keys
    BY DEF Keys, SaleTypes, EntryTypes
  <2> QED BY <2>1 DEF saleEntries, SaleTypes
<1> QED BY <1>1, <1>2

(* A row that is there stays, another takes its place otherwise.           *)
LEMMA RowsPosted ==
    ASSUME Typed, NEW o \in Orders, NEW rows, postForOrder(o, rows), NEW a \in Accounts,
           NEW t \in EntryTypes
    PROVE ledger'[o][<<a, t>>] =
            IF ledger[o][<<a, t>>] = NoRow THEN rows[<<a, t>>] ELSE ledger[o][<<a, t>>]
<1>1. <<a, t>> \in Keys
  BY KeyTypes
<1> QED BY <1>1 DEF postForOrder, Typed, BooksTyped

(* An order without entries satisfies the invariant of its books.          *)
LEMMA UnpaidFine ==
    ASSUME NEW o \in Orders, commission[o].ACCRUAL = NoCommission,
           commission[o].REVERSAL = NoCommission, ledger[o] = NoRows, o \notin overlap
    PROVE Accruals(o) /\ Posted(o) /\ Refunds(o)
<1>1. \A a \in Accounts, t \in EntryTypes : ledger[o][<<a, t>>] = NoRow
  BY KeyTypes DEF NoRows
<1>2. Unposted(ledger[o]) /\ NoRefund(ledger[o])
  BY <1>1 DEF Unposted, NoRefund, SaleTypes, EntryTypes
<1>3. entry(o, "PROMOTER", "REFUND").amount <= 0
  BY <1>1, RowTypes DEF entry, Accounts, EntryTypes
<1> QED BY <1>2, <1>3 DEF Accruals, Accrued, Posted, Refunds, earned

(* An order that is not paid, before and after a step of its checkout.     *)
LEMMA UnpaidKept ==
    ASSUME NEW o \in Orders, OrderInv(o), ~Paid(o), SameBooks(o), o \in overlap' <=> o \in overlap
    PROVE /\ Accruals(o)' /\ Posted(o)' /\ Refunds(o)'
          /\ commission'[o].ACCRUAL = NoCommission /\ commission'[o].REVERSAL = NoCommission
          /\ ledger'[o] = NoRows
<1>1. /\ commission[o].ACCRUAL = NoCommission /\ commission[o].REVERSAL = NoCommission
      /\ ledger[o] = NoRows
  BY DEF OrderInv, Ordered
<1>2. o \notin overlap
  BY DEF OrderInv, Refunds, Paid
<1>3. /\ commission'[o].ACCRUAL = NoCommission /\ commission'[o].REVERSAL = NoCommission
      /\ ledger'[o] = NoRows /\ o \notin overlap'
  BY <1>1, <1>2 DEF SameBooks
<1>4. \A a \in Accounts, t \in EntryTypes : ledger'[o][<<a, t>>] = NoRow
  BY <1>3, KeyTypes DEF NoRows
<1>5. Unposted(ledger[o])' /\ NoRefund(ledger[o])'
  BY <1>4 DEF Unposted, NoRefund, SaleTypes, EntryTypes
<1>6. (entry(o, "PROMOTER", "REFUND").amount <= 0)'
  BY <1>4, RowTypes DEF entry, Accounts, EntryTypes
<1> QED BY <1>3, <1>5, <1>6 DEF Accruals, Accrued, Posted, Refunds, earned

(* An order nobody touches keeps its invariant.                            *)
LEMMA OrderKept ==
    ASSUME NEW o \in Orders, OrderInv(o), Same(o), failed \subseteq failed' PROVE OrderInv(o)'
<1> USE DEF Same, SameSale, SameBooks, OrderInv
<1>1. Ordered(o)'
  BY DEF Ordered, Paid
<1>2. Accruals(o)'
  BY DEF Accruals, Accrued, earned
<1>3. saleEntries(o)' = saleEntries(o)
  BY DEF saleEntries, earned
<1>4. Posted(o)'
  BY <1>3 DEF Posted, Posts, Charged, Shared, NoShare, Unposted
<1>5. \A a \in Accounts : Undo(o, a)' = Undo(o, a)
  BY DEF Undo, Net, entry
<1>6. Refunds(o)'
  BY <1>5 DEF Refunds, NoRefund, Undoes, entry
<1> QED BY <1>1, <1>2, <1>4, <1>6

(* A checkout makes an order whose total is made up of its amounts.        *)
LEMMA OrderCreated ==
    ASSUME BooksAssumption, Typed, NEW o \in Orders, OrderInv(o), NEW i \in Inputs,
           createOrder(o, i.coupon, i.ref)
    PROVE OrderInv(o)'
<1>1. order[o].status = "none" /\ ~Paid(o) /\ checkout'[o] = "attributing"
      /\ attribution'[o] = NoAttribution /\ attribution[o] = NoAttribution
  BY DEF createOrder, OrderInv, Ordered, Paid, Typed, SalesTyped
<1>2. SameBooks(o) /\ overlap' = overlap
  BY DEF createOrder, SameBooks, book, trouble
<1> DEFINE d == resolveDiscount(o, i.coupon)
           t == orderTotals(ticketSubtotal(o), Cart[o].products, d, fee)
<1>3. /\ order'[o].status = "AWAITING_PAYMENT" /\ order'[o].subtotal = t.subtotal
      /\ order'[o].discount = t.discount /\ order'[o].fee = t.fee /\ order'[o].mode = t.mode
      /\ order'[o].total = t.total
  BY DEF createOrder, Typed, SalesTyped
<1>4. t.total = t.subtotal - t.discount + (IF t.mode = "BUYER" THEN t.fee ELSE 0)
  <2>1. ticketSubtotal(o) \in Nat /\ Cart[o].products \in Nat /\ fee \in Fee
    BY TicketsCost DEF BooksAssumption, Typed, OffersTyped
  <2>2. d \in 0..ticketSubtotal(o)
    BY <2>1, DiscountResolved
  <2>3. t = orderTotals(ticketSubtotal(o), Cart[o].products, d, fee)
    OBVIOUS
  <2> HIDE DEF d, t
  <2> QED BY <2>1, <2>2, <2>3, TotalAddsUp
<1> HIDE DEF t
<1>5. Ordered(o)'
  BY <1>1, <1>2, <1>3, <1>4, UnpaidKept DEF Ordered, Paid
<1> QED BY <1>1, <1>2, <1>5, UnpaidKept DEF OrderInv

(* An attribution is recorded while the order has no books.                *)
LEMMA OrderAttributed ==
    ASSUME Typed, NEW o \in Orders, OrderInv(o), recordAttribution(o) \/ attributionFails(o)
    PROVE OrderInv(o)'
<1>1. ~Paid(o) /\ checkout[o] = "attributing" /\ checkout'[o] = "done" /\ order' = order
  BY DEF recordAttribution, attributionFails, OrderInv, Ordered, Typed, SalesTyped
<1>2. SameBooks(o) /\ overlap' = overlap
  BY DEF recordAttribution, attributionFails, SameBooks, book, trouble
<1>3. Ordered(o)'
  BY <1>1, <1>2, UnpaidKept DEF OrderInv, Ordered, Paid
<1> QED BY <1>1, <1>2, <1>3, UnpaidKept DEF OrderInv

(* A change of the status alone.                                           *)
Moved(o, s) ==
    /\ order'[o].status = s /\ \A f \in DOMAIN NoOrder \ {"status"} : order'[o][f] = order[o][f]
    /\ checkout'[o] = checkout[o] /\ attribution'[o] = attribution[o] /\ SameBooks(o)

(* Payment and refund change the status of an order only.                  *)
LEMMA OrderMoves ==
    ASSUME Typed, NEW o \in Orders, NEW w \in Workers
    PROVE /\ markOrderPaid(w, o) => Moved(o, "PAID") /\ overlap' = overlap
          /\ settleRefund(w, o) =>
               /\ Moved(o, "REFUNDED")
               /\ overlap' \in {overlap, overlap \cup {o}}
<1>1. order[o] \in Order
  BY DEF Typed, SalesTyped
<1>2. ASSUME NEW s \in {"PAID", "REFUNDED"}, order' = [order EXCEPT ![o].status = s]
      PROVE order'[o].status = s /\ \A f \in DOMAIN NoOrder \ {"status"} : order'[o][f] = order[o][f]
  BY <1>1, <1>2 DEF Typed, SalesTyped, Order, NoOrder
<1>3. ASSUME markOrderPaid(w, o) PROVE Moved(o, "PAID") /\ overlap' = overlap
  BY <1>2, <1>3 DEF markOrderPaid, Moved, SameBooks, book, trouble
<1>4. ASSUME settleRefund(w, o)
      PROVE Moved(o, "REFUNDED") /\ overlap' \in {overlap, overlap \cup {o}}
  BY <1>2, <1>4 DEF settleRefund, Moved, SameBooks, book
<1> QED BY <1>3, <1>4

(* The rest of an order whose status changes.                              *)
LEMMA MovedFields ==
    ASSUME NEW o, NEW s, Moved(o, s)
    PROVE /\ order'[o].subtotal = order[o].subtotal /\ order'[o].discount = order[o].discount
          /\ order'[o].fee = order[o].fee /\ order'[o].mode = order[o].mode
          /\ order'[o].total = order[o].total /\ order'[o].coupon = order[o].coupon
          /\ order'[o].ref = order[o].ref /\ order'[o].status = s
BY DEF Moved, NoOrder

(* An order that is paid or refunded keeps its invariant.                  *)
LEMMA OrderMoved ==
    ASSUME Typed, NEW o \in Orders, OrderInv(o), NEW w \in Workers,
           markOrderPaid(w, o) \/ settleRefund(w, o)
    PROVE OrderInv(o)'
<1> PICK s \in {"PAID", "REFUNDED"} : Moved(o, s) /\ (markOrderPaid(w, o) => s = "PAID")
                                      /\ (settleRefund(w, o) => s = "REFUNDED")
  <2>1. ~(markOrderPaid(w, o) /\ settleRefund(w, o))
    BY DEF markOrderPaid, settleRefund, start, Typed, RequestsTyped, Busy, Handler
  <2> QED BY <2>1, OrderMoves
<1>1. saleEntries(o)' = saleEntries(o)
  BY MovedFields, SaleEntriesSame DEF Moved, SameBooks, earned
<1>2. checkout[o] = "done"
  BY DEF markOrderPaid, settleRefund, OrderInv, Ordered, Paid
<1>3. Ordered(o)'
  BY <1>2, MovedFields DEF OrderInv, Ordered, Paid, Moved
<1>4. Accruals(o)'
  BY MovedFields DEF OrderInv, Accruals, Accrued, Moved, SameBooks, earned, markOrderPaid, settleRefund,
        trouble
<1>5. Posted(o)'
  BY <1>1 DEF OrderInv, Posted, Posts, Charged, Shared, NoShare, Unposted, Moved, SameBooks
<1>6. \A a \in Accounts : Undo(o, a)' = Undo(o, a)
  BY DEF Undo, Net, entry, Moved, SameBooks
<1>7. /\ NoRefund(ledger[o]) = NoRefund(ledger[o])' /\ Undoes(o, ledger[o]) = Undoes(o, ledger[o])'
      /\ entry(o, "PROMOTER", "REFUND") = entry(o, "PROMOTER", "REFUND")'
  BY <1>6 DEF NoRefund, Undoes, entry, Moved, SameBooks
<1>8. Refunds(o)'
  <2>1. CASE markOrderPaid(w, o)
    <3>1. order[o].status # "REFUNDED" /\ overlap' = overlap
      BY <2>1, OrderMoves DEF markOrderPaid
    <3> QED BY <1>7, <3>1 DEF OrderInv, Refunds
  <2>2. CASE settleRefund(w, o)
    <3>1. order'[o].status = "REFUNDED" /\ (o \notin overlap' => o \notin overlap)
      BY <2>2, OrderMoves, MovedFields
    <3> QED BY <1>7, <3>1 DEF OrderInv, Refunds
  <2> QED BY <2>1, <2>2
<1> QED BY <1>3, <1>4, <1>5, <1>8 DEF OrderInv

(* So does one whose commission is accrued.                                *)
LEMMA OrderAccrued ==
    ASSUME Typed, NEW o \in Orders, OrderInv(o), NEW w \in Workers, WorkerInv(w), On(w) = o,
           createAccrual(w)
    PROVE OrderInv(o)'
<1>1. CASE earned(o) # NoCommission
  <2>1. Same(o) /\ failed' = failed
    BY <1>1 DEF createAccrual, Same, SameSale, SameBooks, sale, trouble
  <2> QED BY <2>1, OrderKept
<1>2. CASE earned(o) = NoCommission
  <2>1. /\ earned(o)' = worker[w].earned /\ commission'[o].REVERSAL = commission[o].REVERSAL
        /\ ledger'[o] = ledger[o]
    BY <1>2 DEF createAccrual, earned, Typed, BooksTyped
  <2>2. /\ order' = order /\ checkout' = checkout /\ attribution' = attribution
        /\ overlap' = overlap /\ failed' = failed
    BY DEF createAccrual, sale, trouble
  <2>3. Paid(o) /\ Accrued(o, worker[w].earned)
    BY DEF createAccrual, At, WorkerInv, WorkerFits, AccrualHeld
  <2>4. commission[o].REVERSAL = NoCommission
    BY <1>2, NothingToReverse DEF OrderInv, Accruals
  <2>5. Ordered(o)'
    BY <2>2, <2>3 DEF OrderInv, Ordered, Paid
  <2>6. Accruals(o)'
    BY <2>1, <2>2, <2>3, <2>4 DEF Accruals, Accrued
  <2>7. Charged(o, ledger[o]) => Charged(o, ledger[o])'
    BY <2>1, <2>2, SaleEntriesSame DEF Charged
  <2>8. Shared(o, ledger[o]) => NoShare(ledger[o])
    BY <1>2, NothingToShare DEF Shared, NoShare
  <2>9. Posted(o)'
    BY <2>1, <2>7, <2>8 DEF OrderInv, Posted, Posts, NoShare, Unposted
  <2>10. Refunds(o)'
    BY <2>1, <2>2 DEF OrderInv, Refunds, NoRefund, Undoes, Undo, Net, entry
  <2> QED BY <2>5, <2>6, <2>9, <2>10 DEF OrderInv
<1> QED BY <1>1, <1>2

(* Posting leaves commission and the rows that are there alone.            *)
LEMMA PostingLeaves ==
    ASSUME Typed, NEW o \in Orders, NEW w \in Workers, On(w) = o,
           createSaleEntries(w) \/ createReversal(w)
    PROVE /\ order' = order /\ checkout' = checkout /\ attribution' = attribution
          /\ commission' = commission /\ overlap' = overlap /\ failed' = failed
          /\ saleEntries(o)' = saleEntries(o)
          /\ \A a \in Accounts, t \in EntryTypes :
                ledger'[o][<<a, t>>] =
                  IF ledger[o][<<a, t>>] = NoRow THEN worker[w].rows[<<a, t>>]
                  ELSE ledger[o][<<a, t>>]
<1>1. /\ order' = order /\ checkout' = checkout /\ attribution' = attribution
      /\ commission' = commission /\ overlap' = overlap /\ failed' = failed
      /\ postForOrder(o, worker[w].rows)
  BY DEF createSaleEntries, createReversal, sale, trouble
<1>2. saleEntries(o)' = saleEntries(o)
  BY <1>1, SaleEntriesSame DEF earned
<1> QED BY <1>1, <1>2, RowsPosted

(* An order whose sale is posted keeps its invariant.                      *)
LEMMA OrderPosted ==
    ASSUME Typed, NEW o \in Orders, OrderInv(o), NEW w \in Workers, WorkerInv(w), On(w) = o,
           createSaleEntries(w)
    PROVE OrderInv(o)'
<1> DEFINE rows == worker[w].rows
           old == ledger[o]
           new == ledger'[o]
           P == saleEntries(o)
<1>1. /\ order' = order /\ checkout' = checkout /\ attribution' = attribution
      /\ commission' = commission /\ overlap' = overlap /\ failed' = failed
      /\ saleEntries(o)' = saleEntries(o)
      /\ \A a \in Accounts, t \in EntryTypes :
            new[<<a, t>>] = IF old[<<a, t>>] = NoRow THEN rows[<<a, t>>] ELSE old[<<a, t>>]
  BY PostingLeaves
<1>2. Paid(o) /\ (order[o].status = "PAID" \/ o \in overlap)
  BY DEF createSaleEntries, At, WorkerInv, WorkerFits, Fulfilment
<1>3. Posts(o, rows) /\ NoRefund(rows)
  BY DEF createSaleEntries, WorkerInv, PostHeld
<1>4. Ordered(o)' /\ Accruals(o)'
  BY <1>1, <1>2 DEF OrderInv, Ordered, Paid, Accruals, Accrued, earned
<1>5. \A t \in SaleTypes \cup {"COMMISSION", "REFUND"} : t \in EntryTypes
  BY DEF SaleTypes, EntryTypes
<1> HIDE DEF rows, old, new, P
<1>6. Charged(o, ledger[o])'
  <2>1. Unposted(old) \/ Charged(o, old)
    BY DEF OrderInv, Posted, Posts, old
  <2>2. \A a \in Accounts, t \in SaleTypes : rows[<<a, t>>] = P[<<a, t>>]
    BY <1>3 DEF Posts, Charged, P
  <2>3. \A a \in Accounts, t \in SaleTypes : old[<<a, t>>] \in {NoRow, P[<<a, t>>]}
    BY <2>1 DEF Unposted, Charged, P
  <2>4. \A a \in Accounts, t \in SaleTypes : new[<<a, t>>] = P[<<a, t>>]
    BY <1>1, <1>5, <2>2, <2>3
  <2> QED BY <1>1, <2>4 DEF Charged, P, new
<1>7. NoShare(ledger[o])' \/ Shared(o, ledger[o])'
  <2>1. NoShare(old) \/ Shared(o, old)
    BY DEF OrderInv, Posted, Posts, Unposted, NoShare, old
  <2>2. NoShare(rows) \/ Shared(o, rows)
    BY <1>3 DEF Posts
  <2>3. \A a \in Accounts : new[<<a, "COMMISSION">>] =
          IF old[<<a, "COMMISSION">>] = NoRow THEN rows[<<a, "COMMISSION">>]
          ELSE old[<<a, "COMMISSION">>]
    BY <1>1, <1>5
  <2>4. NoShare(new) \/ Shared(o, new)
    BY <2>1, <2>2, <2>3 DEF NoShare, Shared
  <2> QED BY <1>1, <2>4 DEF NoShare, Shared, new
<1>8. Posted(o)'
  BY <1>6, <1>7 DEF Posted, Posts
<1>9. \A a \in Accounts : new[<<a, "REFUND">>] = old[<<a, "REFUND">>]
  BY <1>1, <1>3, <1>5 DEF NoRefund
<1>10. Refunds(o)'
  <2>1. NoRefund(old) => NoRefund(new)
    BY <1>9 DEF NoRefund
  <2>2. entry(o, "PROMOTER", "REFUND")' = entry(o, "PROMOTER", "REFUND")
    BY <1>9 DEF entry, new, old, Accounts
  <2>3. o \notin overlap => NoRefund(old)
    BY <1>2 DEF OrderInv, Refunds, old
  <2>4. order[o].status # "REFUNDED" => NoRefund(old) /\ o \notin overlap
    BY DEF OrderInv, Refunds, old
  <2>5. entry(o, "PROMOTER", "REFUND").amount <= 0
    BY DEF OrderInv, Refunds
  <2> QED BY <1>1, <2>1, <2>2, <2>3, <2>4, <2>5 DEF Refunds, new
<1> QED BY <1>4, <1>8, <1>10 DEF OrderInv

(* So does one whose refund is posted.                                     *)
LEMMA OrderReversed ==
    ASSUME Typed, NEW o \in Orders, OrderInv(o), NEW w \in Workers, WorkerInv(w), On(w) = o,
           createReversal(w)
    PROVE /\ OrderInv(o)' /\ (o \notin overlap => Undoes(o, ledger[o])')
          /\ \A a \in Accounts : Undo(o, a)' = Undo(o, a)
<1> DEFINE rows == worker[w].rows
           old == ledger[o]
           new == ledger'[o]
<1>1. /\ order' = order /\ checkout' = checkout /\ attribution' = attribution
      /\ commission' = commission /\ overlap' = overlap /\ failed' = failed
      /\ saleEntries(o)' = saleEntries(o)
      /\ \A a \in Accounts, t \in EntryTypes :
            new[<<a, t>>] = IF old[<<a, t>>] = NoRow THEN rows[<<a, t>>] ELSE old[<<a, t>>]
  BY PostingLeaves
<1>2. Paid(o) /\ order[o].status = "REFUNDED"
  BY DEF createReversal, At, WorkerInv, WorkerFits, Refunding
<1>3. Unposted(rows) /\ (o \notin overlap => Undoes(o, rows))
      /\ rows[<<"PROMOTER", "REFUND">>].amount <= 0
  BY DEF createReversal, WorkerInv, RefundHeld
<1>4. Ordered(o)' /\ Accruals(o)'
  BY <1>1, <1>2 DEF OrderInv, Ordered, Paid, Accruals, Accrued, earned
<1>5. \A t \in SaleTypes \cup {"COMMISSION", "REFUND"} : t \in EntryTypes
  BY DEF SaleTypes, EntryTypes
<1> HIDE DEF rows, old, new
<1>6. \A a \in Accounts, t \in SaleTypes \cup {"COMMISSION"} : new[<<a, t>>] = old[<<a, t>>]
  BY <1>1, <1>3, <1>5 DEF Unposted
<1>7. Posted(o)'
  <2>1. Unposted(old) => Unposted(new)
    BY <1>6 DEF Unposted
  <2>2. Posts(o, old) => Posts(o, new)
    BY <1>6 DEF Posts, Charged, NoShare, Shared
  <2>3. Unposted(old) \/ Posts(o, old)
    BY DEF OrderInv, Posted, old
  <2>4. Unposted(ledger[o])' \/ Posts(o, ledger[o])'
    BY <1>1, <2>1, <2>2, <2>3 DEF Unposted, Posts, Charged, NoShare, Shared, new
  <2> QED BY <2>4 DEF Posted
<1>8. \A a \in Accounts : Undo(o, a)' = Undo(o, a)
  <2> SUFFICES ASSUME NEW a \in Accounts PROVE Undo(o, a)' = Undo(o, a)
    OBVIOUS
  <2>1. \A t \in SaleTypes \cup {"COMMISSION"} : entry(o, a, t)' = entry(o, a, t)
    BY <1>6 DEF entry, new, old
  <2> QED BY <2>1 DEF Undo, Net, SaleTypes
<1>9. \A a \in Accounts : new[<<a, "REFUND">>] =
        IF old[<<a, "REFUND">>] = NoRow THEN rows[<<a, "REFUND">>] ELSE old[<<a, "REFUND">>]
  BY <1>1, <1>5
<1>10. o \notin overlap => Undoes(o, new)
  <2>1. o \notin overlap => NoRefund(old) \/ Undoes(o, old)
    BY DEF OrderInv, Refunds, old
  <2> QED BY <1>3, <1>9, <2>1 DEF NoRefund, Undoes
<1>11. o \notin overlap => Undoes(o, ledger[o])'
  BY <1>8, <1>10 DEF Undoes, new
<1>12. entry(o, "PROMOTER", "REFUND")'.amount <= 0
  <2>1. old[<<"PROMOTER", "REFUND">>].amount <= 0
    BY DEF OrderInv, Refunds, entry, old
  <2>2. new[<<"PROMOTER", "REFUND">>].amount <= 0
    BY <1>3, <1>9, <2>1 DEF Accounts
  <2> QED BY <2>2 DEF entry, new
<1>13. Refunds(o)'
  BY <1>1, <1>2, <1>11, <1>12 DEF Refunds
<1> QED BY <1>4, <1>7, <1>8, <1>11, <1>13 DEF OrderInv

(* So does one whose commission is reversed.                               *)
LEMMA OrderUnaccrued ==
    ASSUME Typed, NEW o \in Orders, OrderInv(o), NEW w \in Workers, WorkerInv(w), On(w) = o,
           reverseCommission(w)
    PROVE OrderInv(o)' /\ commission'[o].REVERSAL = Negated(earned(o))' /\ earned(o)' = earned(o)
<1>1. /\ order' = order /\ checkout' = checkout /\ attribution' = attribution
      /\ ledger' = ledger /\ overlap' = overlap /\ failed' = failed
  BY DEF reverseCommission, sale, trouble
<1>2. Paid(o) /\ (order[o].status = "REFUNDED" \/ o \in failed)
  BY DEF reverseCommission, At, WorkerInv, WorkerFits, Refunding
<1>3. earned(o)' = earned(o) /\ commission'[o].REVERSAL = Negated(earned(o))
  <2>1. commission[o] \in [ACCRUAL : Commission, REVERSAL : Commission]
    BY DEF Typed, BooksTyped
  <2>2. commission[o].REVERSAL \in {NoCommission, Negated(earned(o))}
    BY DEF OrderInv, Accruals
  <2> QED BY <2>1, <2>2 DEF reverseCommission, earned, Typed, BooksTyped
<1>4. Negated(earned(o))' = Negated(earned(o))
  BY <1>3 DEF Negated
<1>5. Ordered(o)' /\ Accruals(o)'
  BY <1>1, <1>2, <1>3, <1>4 DEF OrderInv, Ordered, Paid, Accruals, Accrued
<1>6. saleEntries(o)' = saleEntries(o)
  BY <1>1, <1>3, SaleEntriesSame
<1>7. Posted(o)' /\ Refunds(o)'
  BY <1>1, <1>6 DEF OrderInv, Posted, Posts, Charged, Shared, NoShare, Unposted, Refunds, NoRefund,
        Undoes, Undo, Net, entry
<1> QED BY <1>3, <1>4, <1>5, <1>7 DEF OrderInv

(* Every order keeps its invariant.                                        *)
LEMMA OrdersKept ==
    ASSUME BooksAssumption, BaseInv, [Next]_vars, NEW o \in Orders PROVE OrderInv(o)'
<1>1. Typed /\ OrderInv(o) /\ \A w \in Workers : WorkerInv(w)
  BY DEF BaseInv
<1> QED BY <1>1, FailedStay, OrderSteps, OrderKept, OrderCreated, OrderAttributed, OrderMoved,
        OrderAccrued, OrderPosted, OrderReversed, OrderUnaccrued

--------------------------------------------------------------------------------
(* What other requests may do to the order a request is about.             *)
LEMMA OrderAdvances ==
    ASSUME BaseInv, [Next]_vars, NEW o \in Orders, Paid(o)
    PROVE /\ attribution'[o] = attribution[o]
          /\ Paid(o)' /\ (order[o].status = "REFUNDED" => order'[o].status = "REFUNDED")
          /\ o \in overlap => o \in overlap'
          /\ \A w \in Workers : On(w) = o /\ worker[w].step \in Fulfilment =>
                order'[o].status = "PAID" \/ o \in overlap'
          /\ \A rows : Posts(o, rows) => Posts(o, rows)'
          /\ order[o].status = "REFUNDED" /\ o \notin overlap =>
                \A a \in Accounts : Undo(o, a)' = Undo(o, a)
<1> DEFINE Fine ==
          /\ attribution'[o] = attribution[o]
          /\ Paid(o)' /\ (order[o].status = "REFUNDED" => order'[o].status = "REFUNDED")
          /\ o \in overlap => o \in overlap'
          /\ \A w \in Workers : On(w) = o /\ worker[w].step \in Fulfilment =>
                order'[o].status = "PAID" \/ o \in overlap'
          /\ \A rows : Posts(o, rows) => Posts(o, rows)'
          /\ order[o].status = "REFUNDED" /\ o \notin overlap =>
                \A a \in Accounts : Undo(o, a)' = Undo(o, a)
<1>1. OrderInv(o) /\ Typed /\ (\A w \in Workers : WorkerInv(w))
  BY DEF BaseInv
<1>2. checkout[o] = "done"
  BY <1>1 DEF OrderInv, Ordered
<1>3. \A w \in Workers : On(w) = o /\ worker[w].step \in Fulfilment =>
        order[o].status = "PAID" \/ o \in overlap
  BY <1>1 DEF WorkerInv, WorkerFits
<1>4. ASSUME saleEntries(o)' = saleEntries(o) PROVE \A rows : Posts(o, rows) => Posts(o, rows)'
  BY <1>4 DEF Posts, Charged, Shared, NoShare
<1>5. ASSUME ledger'[o] = ledger[o] PROVE \A a \in Accounts : Undo(o, a)' = Undo(o, a)
  BY <1>5 DEF Undo, Net, entry
<1>6. CASE Same(o)
  <2>1. saleEntries(o)' = saleEntries(o)
    BY <1>6, SaleEntriesSame DEF Same, SameSale, SameBooks, earned
  <2> QED BY <1>3, <1>4, <1>5, <1>6, <2>1 DEF Same, SameSale, SameBooks, Paid
<1>7. ASSUME NEW w \in Workers, markOrderPaid(w, o) \/ settleRefund(w, o) PROVE Fine
  <2>1. \E s \in {"PAID", "REFUNDED"} : Moved(o, s)
    BY <1>1, <1>7, OrderMoves
  <2>2. saleEntries(o)' = saleEntries(o)
    BY <2>1, MovedFields, SaleEntriesSame DEF Moved, SameBooks, earned
  <2>3. (\A rows : Posts(o, rows) => Posts(o, rows)') /\ (\A a \in Accounts : Undo(o, a)' = Undo(o, a))
    BY <1>4, <1>5, <2>1, <2>2 DEF Moved, SameBooks
  <2>4. attribution'[o] = attribution[o]
    BY <2>1 DEF Moved
  <2>5. CASE markOrderPaid(w, o)
    <3>1. order[o].status # "REFUNDED" /\ order'[o].status = "PAID" /\ overlap' = overlap
      BY <1>1, <2>5, OrderMoves, MovedFields DEF markOrderPaid
    <3> QED BY <2>3, <2>4, <3>1 DEF Paid
  <2>6. CASE settleRefund(w, o)
    <3>1. order'[o].status = "REFUNDED"
      BY <1>1, <2>6, OrderMoves, MovedFields
    <3>2. overlap' = IF \E x \in Workers : worker[x].step \in Fulfilment /\ On(x) = o
                     THEN overlap \cup {o} ELSE overlap
      BY <2>6 DEF settleRefund
    <3> QED BY <2>3, <2>4, <3>1, <3>2 DEF Paid
  <2> QED BY <1>7, <2>5, <2>6
<1>8. ASSUME NEW w \in Workers, On(w) = o, createAccrual(w) PROVE Fine
  <2>1. UNCHANGED <<order, attribution, ledger, overlap>>
    BY <1>8 DEF createAccrual, sale, trouble
  <2>2. CASE earned(o) # NoCommission
    <3>1. earned(o)' = earned(o)
      BY <1>8, <2>2 DEF createAccrual, earned
    <3>2. saleEntries(o)' = saleEntries(o)
      BY <2>1, <3>1, SaleEntriesSame
    <3> QED BY <1>3, <1>4, <1>5, <2>1, <3>2 DEF Paid
  <2>3. CASE earned(o) = NoCommission
    <3>1. \A rows : Posts(o, rows) => NoShare(rows)
      BY <2>3, NothingToShare DEF Posts, Shared, NoShare
    <3>2. \A rows : Charged(o, rows) => Charged(o, rows)'
      BY <2>1, SaleEntriesSame DEF Charged
    <3>3. \A rows : Posts(o, rows) => Posts(o, rows)'
      BY <3>1, <3>2 DEF Posts, NoShare
    <3> QED BY <1>3, <1>5, <2>1, <3>3 DEF Paid
  <2> QED BY <2>2, <2>3
<1>9. ASSUME NEW w \in Workers, On(w) = o, createSaleEntries(w) \/ createReversal(w) PROVE Fine
  <2>1. /\ order' = order /\ attribution' = attribution /\ overlap' = overlap
        /\ saleEntries(o)' = saleEntries(o)
    BY <1>1, <1>9, PostingLeaves
  <2>2. createSaleEntries(w) => order[o].status = "PAID" \/ o \in overlap
    BY <1>1, <1>9 DEF createSaleEntries, At, WorkerInv, WorkerFits, Fulfilment
  <2>3. createReversal(w) => \A a \in Accounts : Undo(o, a)' = Undo(o, a)
    BY <1>1, <1>9, OrderReversed
  <2> QED BY <1>3, <1>4, <1>9, <2>1, <2>2, <2>3 DEF Paid
<1>10. ASSUME NEW w \in Workers, On(w) = o, reverseCommission(w) PROVE Fine
  <2>1. UNCHANGED <<order, attribution, ledger, overlap>>
    BY <1>10 DEF reverseCommission, sale, trouble
  <2>2. saleEntries(o)' = saleEntries(o)
    BY <1>1, <1>10, <2>1, OrderUnaccrued, SaleEntriesSame
  <2> QED BY <1>3, <1>4, <1>5, <2>1, <2>2 DEF Paid
<1>11. /\ \A i \in Inputs : ~createOrder(o, i.coupon, i.ref)
       /\ ~recordAttribution(o) /\ ~attributionFails(o)
  BY <1>2 DEF createOrder, recordAttribution, attributionFails
<1> HIDE DEF Fine
<1>12. Fine
  <2>1. Same(o) => Fine
    BY <1>6 DEF Fine
  <2> QED BY <1>1, <1>7, <1>8, <1>9, <1>10, <1>11, <2>1, OrderSteps
<1> QED BY <1>12 DEF Fine

(* A request keeps its invariant while it waits.                           *)
LEMMA WorkerKept ==
    ASSUME BaseInv, [Next]_vars, NEW w \in Workers, worker'[w] = worker[w] PROVE WorkerInv(w)'
<1>1. WorkerInv(w)
  BY DEF BaseInv
<1>2. CASE worker[w].step = "idle"
  BY <1>1, <1>2 DEF WorkerInv, WorkerFits, AccrualHeld, PostHeld, RefundHeld, At, Refunding, Fulfilment
<1>3. CASE worker[w].step # "idle"
  <2> DEFINE o == On(w)
  <2>1. o \in Orders /\ Paid(o) /\ On(w)' = On(w)
    BY <1>1, <1>3 DEF WorkerInv, WorkerFits, On
  <2>2. WorkerFits(w)'
    <3>1. failed \subseteq failed'
      BY FailedStay DEF BaseInv
    <3> QED BY <1>1, <1>3, <2>1, <3>1, OrderAdvances DEF WorkerInv, WorkerFits, On
  <2>3. AccrualHeld(w)'
    BY <1>1, <2>1, OrderAdvances DEF WorkerInv, AccrualHeld, Accrued, At, On
  <2> PICK q \in Orders : q = o
    BY <2>1
  <2> PICK rows : rows = worker[w].rows
    OBVIOUS
  <2>6. /\ worker[w].rows = rows /\ worker[w].rows' = rows /\ On(w) = q /\ On(w)' = q /\ Paid(q)
    BY <2>1 DEF On
  <2> HIDE DEF o
  <2>4. PostHeld(w)'
    <3> SUFFICES ASSUME At(w, "post.create") PROVE Posts(On(w), worker[w].rows)' /\ NoRefund(rows)
      BY <2>6 DEF PostHeld, At, NoRefund
    <3>1. Posts(q, rows) /\ NoRefund(rows)
      BY <1>1, <2>6 DEF WorkerInv, PostHeld
    <3>2. Posts(q, rows)'
      BY <2>6, <3>1, OrderAdvances
    <3>3. saleEntries(On(w))' = saleEntries(q)'
      BY <2>6 DEF saleEntries, earned
    <3> QED BY <2>6, <3>1, <3>2, <3>3 DEF Posts, Charged, Shared, NoShare
  <2>5. RefundHeld(w)'
    <3> SUFFICES ASSUME At(w, "reverse.create")
                 PROVE /\ Unposted(rows) /\ rows[<<"PROMOTER", "REFUND">>].amount <= 0
                       /\ (On(w) \notin overlap)' => Undoes(On(w), worker[w].rows)'
      BY <2>6 DEF RefundHeld, At, Unposted
    <3>1. /\ Unposted(rows) /\ (q \notin overlap => Undoes(q, rows))
          /\ rows[<<"PROMOTER", "REFUND">>].amount <= 0
      BY <1>1, <2>6 DEF WorkerInv, RefundHeld
    <3>2. order[q].status = "REFUNDED"
      BY <1>1, <2>6 DEF WorkerInv, WorkerFits, At, Refunding
    <3>3. q \notin overlap' => q \notin overlap /\ \A a \in Accounts : Undo(q, a)' = Undo(q, a)
      BY <2>6, <3>2, OrderAdvances
    <3>4. q \notin overlap' => \A a \in Accounts : rows[<<a, "REFUND">>] = Undo(q, a)'
      BY <3>1, <3>3 DEF Undoes
    <3> QED BY <2>6, <3>1, <3>4 DEF Undoes, Undo, Net, entry
  <2> QED BY <2>2, <2>3, <2>4, <2>5 DEF WorkerInv
<1> QED BY <1>2, <1>3

(* The promoter's account holds the commission it was accrued, or nothing. *)
LEMMA PromoterNet ==
    ASSUME Typed, NEW o \in Orders, OrderInv(o)
    PROVE /\ entry(o, "PROMOTER", "COMMISSION")
               \in {NoRow, Row(earned(o).promoter, earned(o).amount)}
          /\ Net(o, "PROMOTER") = entry(o, "PROMOTER", "COMMISSION").amount
          /\ Net(o, "PROMOTER") \in Int /\ Net(o, "PROMOTER") >= 0
<1>1. earned(o) \in Commission /\ earned(o).amount >= 0
  BY RowTypes DEF Typed, BooksTyped, OrderInv, Accruals, Accrued, earned, Commission
<1>2. "PROMOTER" \in Accounts
  BY DEF Accounts
<1>3. \A t \in SaleTypes : entry(o, "PROMOTER", t) = NoRow
  <2>1. \A t \in SaleTypes : saleEntries(o)[<<"PROMOTER", t>>] = NoRow
    BY <1>2, SalePosts DEF SaleTypes
  <2> QED BY <1>2, <2>1 DEF OrderInv, Posted, Unposted, Posts, Charged, entry
<1>4. entry(o, "PROMOTER", "COMMISSION") \in {NoRow, Row(earned(o).promoter, earned(o).amount)}
  <2>1. saleEntries(o)[<<"PROMOTER", "COMMISSION">>] = Row(earned(o).promoter, earned(o).amount)
    BY <1>2, SalePosts DEF SaleTypes
  <2> QED BY <1>2, <2>1 DEF OrderInv, Posted, Unposted, Posts, NoShare, Shared, entry
<1>5. entry(o, "PROMOTER", "COMMISSION").amount \in {0, earned(o).amount}
  <2>1. NoRow.amount = 0 /\ Row(earned(o).promoter, earned(o).amount).amount = earned(o).amount
    BY RowTypes DEF Row
  <2> QED BY <1>4, <2>1
<1>6. earned(o).amount \in Int
  BY <1>1 DEF Commission
<1>7. entry(o, "PROMOTER", "SALE").amount = 0 /\ entry(o, "PROMOTER", "DISCOUNT").amount = 0
      /\ entry(o, "PROMOTER", "FEE").amount = 0
  BY <1>3, RowTypes DEF SaleTypes
<1> QED BY <1>1, <1>4, <1>5, <1>6, <1>7 DEF Net

(* A request of its own step: where it goes, with what it will write.      *)
LEMMA BusyFits ==
    ASSUME Typed', NEW w \in Workers, NEW o \in Orders,
           NEW s \in {"accrue", "redeem", "post", "reverse", "unaccrue"},
           worker'[w] = Busy(s, o), Paid(o)',
           s \in Refunding => order'[o].status = "REFUNDED" \/ (s = "unaccrue" /\ o \in failed'),
           s \in Fulfilment => order'[o].status = "PAID" \/ o \in overlap'
    PROVE WorkerInv(w)'
<1>1. worker'[w].step = s /\ worker'[w].order = o
  BY DEF Busy, Handler
<1> QED BY <1>1 DEF WorkerInv, WorkerFits, AccrualHeld, PostHeld, RefundHeld, At, On, Paid

(* A request that is done satisfies its invariant.                         *)
LEMMA IdleFits ==
    ASSUME NEW w \in Workers, worker'[w] = Idle PROVE WorkerInv(w)'
BY IdleTyped DEF WorkerInv, WorkerFits, AccrualHeld, PostHeld, RefundHeld, At, Refunding, Fulfilment

(* So does one that holds what it will write.                              *)
LEMMA HoldFits ==
    ASSUME Typed', NEW w \in Workers, NEW o \in Orders, NEW e, NEW rows,
           NEW s \in {"accrue.create", "post.create", "reverse.create"},
           worker'[w] = Handler(s, o, e, rows), Paid(o)',
           s = "accrue.create" => Accrued(o, e)' /\ e # NoCommission,
           s = "post.create" => Posts(o, rows)' /\ NoRefund(rows),
           s = "reverse.create" => /\ Unposted(rows) /\ (o \notin overlap' => Undoes(o, rows)')
                                   /\ rows[<<"PROMOTER", "REFUND">>].amount <= 0,
           s \in Refunding => order'[o].status = "REFUNDED",
           s \in Fulfilment => order'[o].status = "PAID" \/ o \in overlap'
    PROVE WorkerInv(w)'
<1>1. worker'[w].step = s /\ worker'[w].order = o /\ worker'[w].earned = e /\ worker'[w].rows = rows
  BY DEF Handler
<1>2. WorkerFits(w)'
  BY <1>1 DEF WorkerFits, On, Paid
<1>3. AccrualHeld(w)'
  BY <1>1 DEF AccrualHeld, Accrued, At, On
<1>4. PostHeld(w)'
  <2>1. saleEntries(On(w))' = saleEntries(o)'
    BY <1>1 DEF saleEntries, earned, On
  <2> QED BY <1>1, <2>1 DEF PostHeld, At, Posts, Charged, Shared, NoShare, NoRefund
<1>5. RefundHeld(w)'
  BY <1>1 DEF RefundHeld, At, On, Unposted, Undoes, Undo, Net, entry
<1> QED BY <1>2, <1>3, <1>4, <1>5 DEF WorkerInv

(* What a request will post for a sale is what the sale posts.             *)
LEMMA SalePostsItself ==
    ASSUME NEW o PROVE Posts(o, saleEntries(o)) /\ NoRefund(saleEntries(o))
<1>1. NoRefund(saleEntries(o))
  <2>1. \A a \in Accounts : <<a, "REFUND">> \in Keys
    BY DEF Keys, EntryTypes
  <2> QED BY <2>1 DEF NoRefund, saleEntries
<1> QED BY <1>1 DEF Posts, Charged, Shared

(* The reversal of an order that has none yet undoes its entries, and the  *)
(* promoter's commission is the promoter's, so that it is never negative.  *)
LEMMA ReversalUndoes ==
    ASSUME Typed, NEW o \in Orders, OrderInv(o), ~reversed(o)
    PROVE /\ Unposted(reversal(o)) /\ Undoes(o, reversal(o))
          /\ reversal(o)[<<"PROMOTER", "REFUND">>].amount <= 0
<1>1. \A a \in Accounts, t \in EntryTypes :
        reversal(o)[<<a, t>>] =
          IF t = "REFUND" /\ Balance(o, a) # 0
          THEN Row(entry(o, a, "COMMISSION").promoter, -Balance(o, a)) ELSE NoRow
  BY KeyTypes DEF reversal
<1>2. Unposted(reversal(o))
  BY <1>1 DEF Unposted, SaleTypes, EntryTypes
<1>3. \A a \in Accounts : Balance(o, a) = Net(o, a) /\ Net(o, a) \in Int
  <2> SUFFICES ASSUME NEW a \in Accounts PROVE Balance(o, a) = Net(o, a) /\ Net(o, a) \in Int
    OBVIOUS
  <2>1. entry(o, a, "REFUND").amount = 0
    BY RowTypes DEF reversed
  <2>2. \A t \in EntryTypes : entry(o, a, t) \in Entry
    BY KeyTypes DEF Typed, BooksTyped, entry
  <2>3. \A t \in EntryTypes : entry(o, a, t).amount \in Int
    BY <2>2 DEF Entry
  <2> QED BY <2>1, <2>3 DEF Balance, Net, EntryTypes
<1>4. Undoes(o, reversal(o))
  <2>1. "REFUND" \in EntryTypes
    BY DEF EntryTypes
  <2> QED BY <1>1, <1>3, <2>1 DEF Undoes, Undo
<1>5. reversal(o)[<<"PROMOTER", "REFUND">>].amount <= 0
  <2>1. Net(o, "PROMOTER") >= 0
    BY PromoterNet
  <2>2. "PROMOTER" \in Accounts /\ "REFUND" \in EntryTypes
    BY DEF Accounts, EntryTypes
  <2>3. entry(o, "PROMOTER", "COMMISSION").promoter \in Ref
    <3>1. entry(o, "PROMOTER", "COMMISSION") \in Entry
      BY KeyTypes, <2>2 DEF Typed, BooksTyped, entry, EntryTypes
    <3> QED BY <3>1 DEF Entry
  <2> QED BY <1>1, <1>3, <2>1, <2>2, <2>3, RowTypes
<1> QED BY <1>2, <1>4, <1>5

(* A request that starts satisfies its invariant.                          *)
LEMMA WorkerStarts ==
    ASSUME BaseInv, Typed', NEW w \in Workers, NEW o \in Orders,
           markOrderPaid(w, o) \/ settleRefund(w, o) \/ settlementThrows(w, o)
    PROVE WorkerInv(w)'
<1>1. worker \in [Workers -> Worker] /\ Typed
  BY DEF BaseInv, Typed, RequestsTyped
<1>2. CASE markOrderPaid(w, o)
  <2>1. worker'[w] = Busy("accrue", o)
    BY <1>1, <1>2 DEF markOrderPaid, start
  <2>2. order'[o].status = "PAID"
    BY <1>1, <1>2, OrderMoves, MovedFields
  <2> QED BY <2>1, <2>2, BusyFits DEF Refunding, Paid
<1>3. CASE settleRefund(w, o)
  <2>1. worker'[w] = Busy("reverse", o)
    BY <1>1, <1>3 DEF settleRefund, start
  <2>2. order'[o].status = "REFUNDED"
    BY <1>1, <1>3, OrderMoves, MovedFields
  <2> QED BY <2>1, <2>2, BusyFits DEF Fulfilment, Paid
<1>4. CASE settlementThrows(w, o)
  <2>1. worker'[w] = Busy("unaccrue", o) /\ o \in failed'
    BY <1>1, <1>4 DEF settlementThrows
  <2>2. Paid(o)'
    BY <1>4 DEF settlementThrows, sale, Paid
  <2> QED BY <2>1, <2>2, BusyFits DEF Fulfilment
<1> QED BY <1>2, <1>3, <1>4

(* A request that goes on, or fails, keeps its invariant.                  *)
LEMMA WorkerHandles ==
    ASSUME BooksAssumption, BaseInv, Typed', NEW w \in Workers, Handle(w) \/ Fails(w)
    PROVE WorkerInv(w)'
<1>1. worker \in [Workers -> Worker] /\ WorkerInv(w) /\ Typed
  BY DEF BaseInv, Typed, RequestsTyped
<1>2. /\ order' = order /\ attribution' = attribution /\ overlap' = overlap
      /\ failed \subseteq failed'
  BY DEF Handle, accrueForPaidOrder, createAccrual, tryIncrementRedemption, postForPaidOrder,
      createSaleEntries, reverseForOrder, createReversal, reverseCommission, Fails, sale, trouble
<1>3. worker[w].step # "idle"
  BY <1>1 DEF Handle, accrueForPaidOrder, createAccrual, tryIncrementRedemption, postForPaidOrder,
      createSaleEntries, reverseForOrder, createReversal, reverseCommission, Fails, At,
      WorkerInv, WorkerFits
<1> PICK o \in Orders : o = On(w)
  BY <1>1, <1>3 DEF WorkerInv, WorkerFits
<1>4. /\ On(w) = o /\ OrderInv(o) /\ Paid(o) /\ Paid(o)'
      /\ worker[w].step \in Refunding \ {"unaccrue"} => order'[o].status = "REFUNDED"
      /\ worker[w].step \in Fulfilment => order'[o].status = "PAID" \/ o \in overlap'
  BY <1>1, <1>2, <1>3 DEF WorkerInv, WorkerFits, BaseInv, Paid
<1>5. ASSUME NEW s \in {"accrue", "redeem", "post", "reverse", "unaccrue"}, Go(w, s),
             worker[w].step # "unaccrue",
             \/ {s, worker[w].step} \subseteq Refunding \/ {s, worker[w].step} \subseteq Fulfilment
      PROVE WorkerInv(w)'
  <2>1. worker'[w] = Busy(s, o)
    BY <1>1, <1>4, <1>5 DEF Go
  <2>2. Refunding \cap Fulfilment = {}
    BY DEF Refunding, Fulfilment
  <2> QED BY <1>4, <1>5, <2>1, <2>2, BusyFits
<1>6. ASSUME Done(w) PROVE WorkerInv(w)'
  BY <1>1, <1>6, IdleFits DEF Done
<1>7. CASE accrueForPaidOrder(w)
  <2>1. CASE Go(w, "post") \/ Go(w, "redeem")
    BY <1>5, <1>7, <2>1 DEF accrueForPaidOrder, At, Fulfilment
  <2>2. CASE accrual(o) # NoCommission /\ Hold(w, "accrue.create", accrual(o), NoRows)
    <3> PICK e : e = accrual(o)
      OBVIOUS
    <3>1. worker'[w] = Handler("accrue.create", o, e, NoRows)
      BY <1>1, <1>4, <2>2 DEF Hold
    <3>2. Accrued(o, e)' /\ e # NoCommission
      BY <1>1, <1>2, <2>2, AccrualTyped DEF Accrued
    <3>3. worker[w].step \in Fulfilment
      BY <1>7 DEF accrueForPaidOrder, At, Fulfilment
    <3> QED BY <1>4, <3>1, <3>2, <3>3, HoldFits DEF Refunding
  <2> QED BY <1>4, <1>7, <2>1, <2>2 DEF accrueForPaidOrder
<1>8. CASE createAccrual(w) \/ tryIncrementRedemption(w)
  BY <1>5, <1>8 DEF createAccrual, tryIncrementRedemption, At, Fulfilment
<1>9. CASE postForPaidOrder(w)
  <2>1. CASE Done(w)
    BY <1>6, <2>1
  <2>2. CASE order[o].status = "PAID" /\ Hold(w, "post.create", NoCommission, saleEntries(o))
    <3> PICK rows : rows = saleEntries(o)
      OBVIOUS
    <3>1. worker'[w] = Handler("post.create", o, NoCommission, rows)
      BY <1>1, <1>4, <2>2 DEF Hold
    <3>2. saleEntries(o)' = saleEntries(o)
      BY <1>2, <1>9 DEF postForPaidOrder, book, saleEntries, earned
    <3>3. Posts(o, rows) /\ NoRefund(rows)
      BY SalePostsItself
    <3>4. Posts(o, rows)'
      BY <3>2, <3>3 DEF Posts, Charged, Shared, NoShare
    <3> QED BY <1>2, <1>4, <2>2, <3>1, <3>3, <3>4, HoldFits DEF Refunding
  <2> QED BY <1>4, <1>9, <2>1, <2>2 DEF postForPaidOrder
<1>10. CASE createSaleEntries(w) \/ reverseCommission(w)
  BY <1>6, <1>10 DEF createSaleEntries, reverseCommission
<1>11. CASE reverseForOrder(w)
  <2>1. CASE Go(w, "unaccrue")
    BY <1>5, <1>11, <2>1 DEF reverseForOrder, At, Refunding
  <2>2. CASE ~reversed(o) /\ Hold(w, "reverse.create", NoCommission, reversal(o))
    <3> PICK rows : rows = reversal(o)
      OBVIOUS
    <3>1. worker'[w] = Handler("reverse.create", o, NoCommission, rows)
      BY <1>1, <1>4, <2>2 DEF Hold
    <3>2. Unposted(rows) /\ Undoes(o, rows) /\ rows[<<"PROMOTER", "REFUND">>].amount <= 0
      BY <1>1, <1>4, <2>2, ReversalUndoes
    <3>3. Undoes(o, rows)'
      BY <1>11, <3>2 DEF reverseForOrder, book, Undoes, Undo, Net, entry
    <3>4. worker[w].step \in Refunding \ {"unaccrue"}
      BY <1>11 DEF reverseForOrder, At, Refunding
    <3> QED BY <1>4, <3>1, <3>2, <3>3, <3>4, HoldFits DEF Fulfilment
  <2> QED BY <1>4, <1>11, <2>1, <2>2 DEF reverseForOrder
<1>12. CASE createReversal(w)
  BY <1>5, <1>12 DEF createReversal, At, Refunding
<1>13. CASE Fails(w)
  <2>1. CASE Recovery(worker[w].step) # "idle" /\ Go(w, Recovery(worker[w].step))
    BY <1>5, <2>1 DEF Recovery, Fulfilment, Refunding
  <2> QED BY <1>6, <1>13, <2>1 DEF Fails
<1> QED BY <1>7, <1>8, <1>9, <1>10, <1>11, <1>12, <1>13 DEF Handle

(* The books begin within the invariant of orders and requests.            *)
LEMMA BaseStarts == BooksAssumption /\ Init => BaseInv
<1> SUFFICES ASSUME BooksAssumption, Init PROVE BaseInv
  OBVIOUS
<1>1. /\ \A o \in Orders : /\ order[o] = NoOrder /\ checkout[o] = "none"
                           /\ attribution[o] = NoAttribution /\ ledger[o] = NoRows
                           /\ commission[o].ACCRUAL = NoCommission
                           /\ commission[o].REVERSAL = NoCommission
      /\ \A w \in Workers : worker[w] = Idle
      /\ overlap = {}
  BY DEF Init
<1>2. NoOrder \in Order /\ NoAttribution \in [promoter : Ref, coupon : Coupons \cup {"none"}]
      /\ NoOrder.status = "none"
      /\ NoOrder.total = NoOrder.subtotal - NoOrder.discount
                         + (IF NoOrder.mode = "BUYER" THEN NoOrder.fee ELSE 0)
  BY DEF NoOrder, NoAttribution, Order, Ref
<1>3. Typed
  <2>1. SalesTyped
    <3> HIDE DEF Order
    <3> QED BY <1>2 DEF Init, SalesTyped
  <2>2. OffersTyped
    BY DEF Init, OffersTyped, BooksAssumption
  <2>3. BooksTyped
    <3>1. NoCommission \in Commission /\ NoRows \in [Keys -> Entry]
      BY RowTypes
    <3> HIDE DEF Commission, Entry, Keys
    <3> QED BY <3>1 DEF Init, BooksTyped
  <2>4. RequestsTyped
    <3>1. worker \in [Workers -> Worker]
      BY IdleTyped DEF Init
    <3>2. payer \in [Payers -> Payer] /\ manager \in [Managers -> {NoRequest} \cup Manager]
      BY DEF Init, Payer
    <3> QED BY <3>1, <3>2 DEF Init, RequestsTyped
  <2> QED BY <2>1, <2>2, <2>3, <2>4 DEF Typed
<1>4. ASSUME NEW o \in Orders PROVE OrderInv(o)
  <2>1. Accruals(o) /\ Posted(o) /\ Refunds(o)
    BY <1>1, UnpaidFine
  <2>2. Ordered(o)
    BY <1>1, <1>2 DEF Ordered, Paid
  <2> QED BY <2>1, <2>2 DEF OrderInv
<1>5. ASSUME NEW w \in Workers PROVE WorkerInv(w)
  BY <1>1, IdleTyped DEF WorkerInv, WorkerFits, AccrualHeld, PostHeld, RefundHeld, At, Refunding,
      Fulfilment
<1> QED BY <1>3, <1>4, <1>5 DEF BaseInv

(* Every step keeps the invariant of orders and requests.                  *)
LEMMA BaseKept == ASSUME BooksAssumption, BaseInv, [Next]_vars PROVE BaseInv'
<1>1. Typed' /\ Typed
  BY TypesKept DEF BaseInv
<1>2. \A o \in Orders : OrderInv(o)'
  BY OrdersKept
<1>3. \A w \in Workers : WorkerInv(w)'
  BY <1>1, WorkerSteps, WorkerKept, WorkerStarts, WorkerHandles
<1> QED BY <1>1, <1>2, <1>3 DEF BaseInv

--------------------------------------------------------------------------------
(* How a refund and a fulfilment are carried through.                      *)
LEMMA FaultsCounted ==
    ASSUME Typed, [Next]_vars
    PROVE /\ count'.faults = 0 => count.faults = 0
          /\ count'.faults = 0 =>
               \A w \in Workers : ~Fails(w) /\ \A o \in Orders : ~settlementThrows(w, o)
          /\ failed \subseteq failed' /\ overlap \subseteq overlap'
          /\ \A w \in Workers : Fails(w) => worker[w].step \in Fulfilment \/ On(w) \in failed'
          /\ \/ failed' = failed
             \/ \E w \in Workers : Fails(w) \/ \E o \in Orders : settlementThrows(w, o)
<1>1. count.faults \in Nat /\ count \in [changes : Nat, payouts : Nat, faults : Nat, deliveries : Nat]
  BY DEF Typed, RequestsTyped
<1>2. count' = [count EXCEPT !.faults = @ + 1] => count'.faults # 0
  BY <1>1
<1>3. count' = [count EXCEPT !.deliveries = @ + 1] => count'.faults = count.faults
  BY <1>1
<1>4. \A w \in Workers : Fails(w) => count' = [count EXCEPT !.faults = @ + 1]
  BY DEF Fails
<1>5. ASSUME NEW o \in Orders, \/ \E i \in Inputs : createOrder(o, i.coupon, i.ref)
                               \/ recordAttribution(o) \/ attributionFails(o)
      PROVE (count'.faults = 0 => count.faults = 0) /\ UNCHANGED trouble
  BY <1>2, <1>5 DEF createOrder, recordAttribution, attributionFails
<1>6. ASSUME NEW o \in Orders, NEW w \in Workers, markOrderPaid(w, o) \/ settleRefund(w, o)
      PROVE (count'.faults = 0 => count.faults = 0) /\ failed' = failed /\ overlap \subseteq overlap'
  BY <1>3, <1>6 DEF markOrderPaid, settleRefund, start, trouble
<1>7. ASSUME NEW w \in Workers, Handle(w) PROVE UNCHANGED <<count, trouble>>
  BY <1>7 DEF Handle, accrueForPaidOrder, createAccrual, tryIncrementRedemption, postForPaidOrder,
      createSaleEntries, reverseForOrder, createReversal, reverseCommission
<1>8. ASSUME NEW w \in Workers, Fails(w)
      PROVE failed \subseteq failed' /\ overlap' = overlap
            /\ (worker[w].step \in Fulfilment \/ On(w) \in failed')
  BY <1>8 DEF Fails
<1>9. Elsewhere => count'.faults = count.faults /\ UNCHANGED trouble
  BY DEF Elsewhere
<1>10. ASSUME NEW o \in Orders, NEW w \in Workers, settlementThrows(w, o)
       PROVE count'.faults # 0 /\ failed \subseteq failed' /\ overlap' = overlap
  <2>1. count' = [count EXCEPT !.deliveries = @ + 1, !.faults = @ + 1]
    BY <1>10 DEF settlementThrows
  <2> QED BY <1>1, <1>10, <2>1 DEF settlementThrows
<1>11. \A w \in Workers : Fails(w) => count'.faults # 0
  BY <1>2, <1>4
<1> QED BY <1>5, <1>6, <1>7, <1>8, <1>9, <1>10, <1>11, Steps DEF trouble

(* Accrued commission is never rewritten.                                  *)
LEMMA AccruedStays ==
    ASSUME BaseInv, [Next]_vars, NEW o \in Orders, earned(o) # NoCommission
    PROVE Paid(o) /\ earned(o)' = earned(o) /\ saleEntries(o)' = saleEntries(o)
<1>1. OrderInv(o) /\ Typed /\ \A w \in Workers : WorkerInv(w)
  BY DEF BaseInv
<1>2. Paid(o) /\ checkout[o] = "done"
  BY <1>1 DEF OrderInv, Ordered, earned
<1>3. CASE Same(o)
  BY <1>2, <1>3, SaleEntriesSame DEF Same, SameSale, SameBooks, earned
<1>4. ASSUME NEW w \in Workers, markOrderPaid(w, o) \/ settleRefund(w, o)
      PROVE earned(o)' = earned(o) /\ saleEntries(o)' = saleEntries(o)
  <2>1. \E s \in {"PAID", "REFUNDED"} : Moved(o, s)
    BY <1>1, <1>4, OrderMoves
  <2> QED BY <2>1, MovedFields, SaleEntriesSame DEF Moved, SameBooks, earned
<1>5. ASSUME NEW w \in Workers, On(w) = o, createAccrual(w)
      PROVE earned(o)' = earned(o) /\ saleEntries(o)' = saleEntries(o)
  <2>1. commission' = commission /\ order' = order
    BY <1>5 DEF createAccrual, sale
  <2> QED BY <2>1, SaleEntriesSame DEF earned
<1>6. ASSUME NEW w \in Workers, On(w) = o, createSaleEntries(w) \/ createReversal(w)
      PROVE earned(o)' = earned(o) /\ saleEntries(o)' = saleEntries(o)
  BY <1>1, <1>6, PostingLeaves DEF earned
<1>7. ASSUME NEW w \in Workers, On(w) = o, reverseCommission(w)
      PROVE earned(o)' = earned(o) /\ saleEntries(o)' = saleEntries(o)
  <2>1. order' = order
    BY <1>7 DEF reverseCommission, sale
  <2>2. earned(o)' = earned(o)
    BY <1>1, <1>7, OrderUnaccrued
  <2> QED BY <2>1, <2>2, SaleEntriesSame
<1>8. /\ \A i \in Inputs : ~createOrder(o, i.coupon, i.ref)
      /\ ~recordAttribution(o) /\ ~attributionFails(o)
  BY <1>2 DEF createOrder, recordAttribution, attributionFails
<1> QED BY <1>1, <1>2, <1>3, <1>4, <1>5, <1>6, <1>7, <1>8, OrderSteps

(* The step a refund's request took, when it did not fail.                 *)
LEMMA RefundMoves ==
    ASSUME BaseInv, [Next]_vars, NEW o \in Orders, o \notin overlap' \cup failed',
           NEW w \in Workers, On(w) = o, worker[w].step \in Refunding
    PROVE \/ worker'[w] = worker[w]
          \/ reverseForOrder(w) \/ createReversal(w) \/ reverseCommission(w)
<1>1. Typed /\ worker[w] # Idle
  BY IdleTyped DEF BaseInv, Refunding
<1>2. worker[w].step \notin Fulfilment
  BY DEF Refunding, Fulfilment
<1>3. ~Fails(w)
  BY <1>1, <1>2, FaultsCounted
<1>4. \A q \in Orders : ~markOrderPaid(w, q) /\ ~settleRefund(w, q) /\ ~settlementThrows(w, q)
  BY <1>1 DEF markOrderPaid, settleRefund, settlementThrows, start
<1>5. Handle(w) => reverseForOrder(w) \/ createReversal(w) \/ reverseCommission(w)
  BY DEF Handle, accrueForPaidOrder, createAccrual, tryIncrementRedemption, postForPaidOrder,
      createSaleEntries, At, Refunding
<1> QED BY <1>1, <1>3, <1>4, <1>5, WorkerSteps

(* A refund goes on to be settled, whatever step is taken.                 *)
LEMMA SettlesKept ==
    ASSUME BaseInv, BaseInv', [Next]_vars, NEW o \in Orders, Settles(o) PROVE Settles(o)'
<1> SUFFICES ASSUME order'[o].status = "REFUNDED", o \notin overlap' \cup failed'
             PROVE /\ Undoes(o, ledger[o])' \/ Doing(o, {"reverse", "reverse.create"})'
                   /\ (commission[o].REVERSAL = Negated(earned(o)))' \/ Doing(o, Refunding)'
  BY DEF Settles
<1>1. OrderInv(o) /\ Typed /\ (\A w \in Workers : WorkerInv(w)) /\ worker \in [Workers -> Worker]
  BY DEF BaseInv, Typed, RequestsTyped
<1>2. ASSUME NEW w \in Workers, settleRefund(w, o)
      PROVE Doing(o, {"reverse", "reverse.create"})' /\ Doing(o, Refunding)'
  <2>1. worker'[w] = Busy("reverse", o)
    BY <1>1, <1>2 DEF settleRefund, start
  <2>2. worker'[w].step = "reverse" /\ worker'[w].order = o
    BY <2>1 DEF Busy, Handler
  <2> QED BY <2>2 DEF Doing, On, Refunding
<1>3. CASE \A w \in Workers : ~settleRefund(w, o)
  <2>1. o \notin overlap \cup failed
    BY <1>1, FaultsCounted
  <2>2. order[o].status = "REFUNDED"
    <3>1. Same(o) => order'[o] = order[o]
      BY DEF Same, SameSale
    <3>2. \A i \in Inputs : createOrder(o, i.coupon, i.ref) => order'[o].status = "AWAITING_PAYMENT"
      BY <1>1 DEF createOrder, Typed, SalesTyped
    <3>3. recordAttribution(o) \/ attributionFails(o) => order' = order
      BY DEF recordAttribution, attributionFails
    <3>4. \A w \in Workers : markOrderPaid(w, o) => order'[o].status = "PAID"
      BY <1>1, OrderMoves, MovedFields
    <3>5. ASSUME NEW w \in Workers, \/ createAccrual(w) \/ createSaleEntries(w) \/ createReversal(w)
                                    \/ reverseCommission(w)
          PROVE order' = order
      BY <3>5 DEF createAccrual, createSaleEntries, createReversal, reverseCommission, sale
    <3> QED BY <1>1, <1>3, <3>1, <3>2, <3>3, <3>4, <3>5, OrderSteps
  <2>3. Paid(o) /\ (\A a \in Accounts : Undo(o, a)' = Undo(o, a))
    BY <2>1, <2>2, OrderAdvances DEF Paid
  <2>4. \A w \in Workers : On(w) = o => worker[w].step \notin Fulfilment
    BY <1>1, <2>1, <2>2 DEF WorkerInv, WorkerFits
  <2>5. \/ ledger'[o] = ledger[o] /\ commission'[o] = commission[o]
        \/ \E w \in Workers : On(w) = o /\ (createReversal(w) \/ reverseCommission(w))
    <3>1. checkout[o] = "done"
      BY <1>1, <2>3 DEF OrderInv, Ordered
    <3>2. Same(o) => ledger'[o] = ledger[o] /\ commission'[o] = commission[o]
      BY DEF Same, SameBooks
    <3>3. /\ \A i \in Inputs : ~createOrder(o, i.coupon, i.ref)
          /\ ~recordAttribution(o) /\ ~attributionFails(o)
      BY <3>1 DEF createOrder, recordAttribution, attributionFails
    <3>4. \A w \in Workers : ~markOrderPaid(w, o)
      BY <2>2 DEF markOrderPaid
    <3>5. \A w \in Workers : On(w) = o => ~createAccrual(w) /\ ~createSaleEntries(w)
      BY <2>4 DEF createAccrual, createSaleEntries, At, Fulfilment
    <3> QED BY <1>1, <1>3, <3>2, <3>3, <3>4, <3>5, OrderSteps
  <2>6. ASSUME NEW w \in Workers, On(w) = o, createReversal(w)
        PROVE Undoes(o, ledger[o])' /\ commission' = commission
    BY <1>1, <2>1, <2>6, OrderReversed DEF createReversal
  <2>7. ASSUME NEW w \in Workers, On(w) = o, reverseCommission(w)
        PROVE (commission[o].REVERSAL = Negated(earned(o)))' /\ ledger' = ledger
    BY <1>1, <2>7, OrderUnaccrued DEF reverseCommission
  <2>8. Undoes(o, ledger[o])' \/ Doing(o, {"reverse", "reverse.create"})'
    <3>1. ledger'[o] = ledger[o] /\ Undoes(o, ledger[o]) => Undoes(o, ledger[o])'
      BY <2>3 DEF Undoes
    <3>2. CASE Undoes(o, ledger[o])
      BY <2>5, <2>6, <2>7, <3>1, <3>2
    <3>3. ASSUME NEW w \in Workers, On(w) = o, worker[w].step \in {"reverse", "reverse.create"}
          PROVE Undoes(o, ledger[o])' \/ Doing(o, {"reverse", "reverse.create"})'
      <4>1. CASE worker'[w] = worker[w]
        BY <3>3, <4>1 DEF Doing, On
      <4>2. CASE createReversal(w)
        BY <2>6, <3>3, <4>2
      <4>3. CASE reverseForOrder(w)
        <5>1. ledger' = ledger
          BY <4>3 DEF reverseForOrder, book
        <5>2. CASE reversed(o)
          <6>1. ~NoRefund(ledger[o])
            BY <5>2 DEF reversed, NoRefund, entry
          <6>2. Undoes(o, ledger[o])
            BY <1>1, <2>1, <6>1 DEF OrderInv, Refunds
          <6> QED BY <3>1, <5>1, <6>2
        <5>3. CASE ~reversed(o)
          <6>1. worker'[w] = Handler("reverse.create", o, NoCommission, reversal(o))
            BY <1>1, <3>3, <4>3, <5>3 DEF reverseForOrder, Hold
          <6>2. worker'[w].step = "reverse.create" /\ worker'[w].order = o
            BY <6>1 DEF Handler
          <6> QED BY <6>2 DEF Doing, On
        <5> QED BY <5>2, <5>3
      <4>4. ~reverseCommission(w)
        BY <3>3 DEF reverseCommission, At
      <4> QED BY <3>3, <4>1, <4>2, <4>3, <4>4, RefundMoves DEF Refunding
    <3> QED BY <2>1, <2>2, <3>2, <3>3 DEF Settles, Doing
  <2>9. (commission[o].REVERSAL = Negated(earned(o)))' \/ Doing(o, Refunding)'
    <3>1. CASE commission[o].REVERSAL = Negated(earned(o))
      <4>1. commission'[o] = commission[o] => (commission[o].REVERSAL = Negated(earned(o)))'
        BY <3>1 DEF earned
      <4> QED BY <2>5, <2>6, <2>7, <4>1
    <3>2. ASSUME NEW w \in Workers, On(w) = o, worker[w].step \in Refunding
          PROVE (commission[o].REVERSAL = Negated(earned(o)))' \/ Doing(o, Refunding)'
      <4>1. CASE worker'[w] = worker[w]
        BY <3>2, <4>1 DEF Doing, On
      <4>2. CASE createReversal(w) \/ reverseForOrder(w)
        <5>1. \E s \in {"unaccrue", "reverse.create"} : \E rows :
                 worker'[w] = Handler(s, o, NoCommission, rows)
          BY <1>1, <3>2, <4>2 DEF createReversal, reverseForOrder, Hold, Go, Busy
        <5>2. worker'[w].step \in Refunding /\ worker'[w].order = o
          BY <5>1 DEF Handler, Refunding
        <5> QED BY <5>2 DEF Doing, On
      <4>3. CASE reverseCommission(w)
        BY <2>7, <3>2, <4>3
      <4> QED BY <3>2, <4>1, <4>2, <4>3, RefundMoves
    <3> QED BY <2>1, <2>2, <3>1, <3>2 DEF Settles, Doing
  <2> QED BY <2>8, <2>9
<1> QED BY <1>2, <1>3

(* Accrued commission goes on to the ledger, whatever step is taken.       *)
LEMMA DeliversKept ==
    ASSUME BaseInv, BaseInv', [Next]_vars, NEW o \in Orders, Delivers(o) PROVE Delivers(o)'
<1> SUFFICES ASSUME count'.faults = 0, o \notin overlap', earned(o)' # NoCommission
             PROVE \/ Shared(o, ledger[o])'
                   \/ Doing(o, {"redeem", "post"})'
                   \/ \E w \in Workers : (On(w) = o /\ At(w, "post.create") /\ Shared(o, worker[w].rows))'
  BY DEF Delivers
<1> DEFINE Fine == \/ Shared(o, ledger[o])'
                   \/ Doing(o, {"redeem", "post"})'
                   \/ \E w \in Workers : (On(w) = o /\ At(w, "post.create") /\ Shared(o, worker[w].rows))'
<1>1. OrderInv(o) /\ Typed /\ (\A w \in Workers : WorkerInv(w)) /\ worker \in [Workers -> Worker]
  BY DEF BaseInv, Typed, RequestsTyped
<1>2. count.faults = 0 /\ o \notin overlap /\ \A w \in Workers : ~Fails(w)
  BY <1>1, FaultsCounted
<1>3. ASSUME NEW w \in Workers, NEW s \in {"redeem", "post"}, worker'[w] = Busy(s, o) PROVE Fine
  <2>1. worker'[w].step = s /\ worker'[w].order = o
    BY <1>3 DEF Busy, Handler
  <2> QED BY <2>1 DEF Doing, On
<1>4. CASE earned(o) = NoCommission
  <2>1. PICK w \in Workers : On(w) = o /\ createAccrual(w)
    <3>1. Same(o) => earned(o)' = earned(o)
      BY DEF Same, SameBooks, earned
    <3>2. ASSUME NEW w \in Workers, On(w) = o, \/ createSaleEntries(w) \/ createReversal(w)
                                               \/ reverseCommission(w)
          PROVE earned(o)' = earned(o)
      BY <1>1, <3>2, PostingLeaves, OrderUnaccrued DEF earned
    <3>3. ASSUME \/ \E i \in Inputs : createOrder(o, i.coupon, i.ref)
                 \/ recordAttribution(o) \/ attributionFails(o)
                 \/ \E w \in Workers : markOrderPaid(w, o) \/ settleRefund(w, o)
          PROVE earned(o)' = earned(o)
      BY <3>3 DEF createOrder, recordAttribution, attributionFails, markOrderPaid, settleRefund, book,
            earned
    <3> QED BY <1>1, <1>4, <3>1, <3>2, <3>3, OrderSteps
  <2>2. worker'[w] = Busy("redeem", o)
    BY <1>1, <1>4, <2>1 DEF createAccrual, Go
  <2> QED BY <1>3, <2>2
<1>5. CASE earned(o) # NoCommission
  <2>1. Paid(o) /\ earned(o)' = earned(o) /\ saleEntries(o)' = saleEntries(o)
    BY <1>5, AccruedStays
  <2>2. ASSUME NEW rows, Shared(o, rows) PROVE Shared(o, rows)'
    BY <2>1, <2>2 DEF Shared
  <2>3. "COMMISSION" \in EntryTypes
    BY DEF EntryTypes
  <2>4. CASE Shared(o, ledger[o])
    <3>1. ASSUME NEW w \in Workers, On(w) = o, createSaleEntries(w) \/ createReversal(w)
          PROVE Shared(o, ledger[o])'
      <4> DEFINE rows == worker[w].rows
      <4>1. NoShare(rows) \/ Shared(o, rows)
        BY <1>1, <3>1 DEF createSaleEntries, createReversal, WorkerInv, PostHeld, RefundHeld, Posts,
              Unposted, NoShare
      <4>2. \A a \in Accounts : ledger'[o][<<a, "COMMISSION">>] =
              IF ledger[o][<<a, "COMMISSION">>] = NoRow THEN rows[<<a, "COMMISSION">>]
              ELSE ledger[o][<<a, "COMMISSION">>]
        BY <1>1, <2>3, <3>1, PostingLeaves
      <4> HIDE DEF rows
      <4> QED BY <2>1, <2>4, <4>1, <4>2 DEF Shared, NoShare
    <3>2. ledger'[o] = ledger[o]
          \/ \E w \in Workers : On(w) = o /\ (createSaleEntries(w) \/ createReversal(w))
      <4>1. Same(o) => ledger'[o] = ledger[o]
        BY DEF Same, SameBooks
      <4>2. ASSUME \/ \E i \in Inputs : createOrder(o, i.coupon, i.ref)
                   \/ recordAttribution(o) \/ attributionFails(o)
                   \/ \E w \in Workers : \/ markOrderPaid(w, o) \/ settleRefund(w, o)
                                         \/ createAccrual(w) \/ reverseCommission(w)
            PROVE ledger' = ledger
        BY <4>2 DEF createOrder, recordAttribution, attributionFails, markOrderPaid, settleRefund,
              createAccrual, reverseCommission, book
      <4> QED BY <1>1, <4>1, <4>2, OrderSteps
    <3> QED BY <2>2, <2>4, <3>1, <3>2 DEF Shared
  <2>5. ASSUME NEW w \in Workers, On(w) = o, worker[w].step \in Fulfilment, worker'[w] # worker[w]
        PROVE \/ accrueForPaidOrder(w) \/ createAccrual(w) \/ tryIncrementRedemption(w)
              \/ postForPaidOrder(w) \/ createSaleEntries(w)
    <3>1. worker[w] # Idle
      BY <2>5, IdleTyped DEF Fulfilment
    <3>2. \A q \in Orders : ~markOrderPaid(w, q) /\ ~settleRefund(w, q) /\ ~settlementThrows(w, q)
      BY <3>1 DEF markOrderPaid, settleRefund, settlementThrows, start
    <3>3. ~reverseForOrder(w) /\ ~createReversal(w) /\ ~reverseCommission(w)
      BY <2>5 DEF reverseForOrder, createReversal, reverseCommission, At, Fulfilment
    <3> QED BY <1>1, <1>2, <2>5, <3>2, <3>3, WorkerSteps DEF Handle
  <2>6. ASSUME NEW w \in Workers, On(w) = o, worker[w].step \in {"redeem", "post"} PROVE Fine
    <3>1. CASE worker'[w] = worker[w]
      BY <2>6, <3>1 DEF Doing, On
    <3>2. CASE tryIncrementRedemption(w)
      <4>1. worker'[w] = Busy("post", o)
        BY <1>1, <2>6, <3>2 DEF tryIncrementRedemption, Go
      <4> QED BY <1>3, <4>1
    <3>3. CASE postForPaidOrder(w)
      <4>1. order[o].status = "PAID"
        BY <1>1, <1>2, <2>6 DEF WorkerInv, WorkerFits, Fulfilment
      <4>2. worker'[w] = Handler("post.create", o, NoCommission, saleEntries(o))
        BY <1>1, <2>6, <3>3, <4>1 DEF postForPaidOrder, Hold
      <4>3. /\ worker'[w].step = "post.create" /\ worker'[w].order = o
            /\ worker'[w].rows = saleEntries(o)'
        BY <2>1, <4>2 DEF Handler
      <4> QED BY <4>3 DEF At, On, Shared
    <3>4. ~accrueForPaidOrder(w) /\ ~createAccrual(w) /\ ~createSaleEntries(w)
      BY <2>6 DEF accrueForPaidOrder, createAccrual, createSaleEntries, At
    <3> QED BY <2>5, <2>6, <3>1, <3>2, <3>3, <3>4 DEF Fulfilment
  <2>7. ASSUME NEW w \in Workers, On(w) = o, At(w, "post.create"), Shared(o, worker[w].rows) PROVE Fine
    <3> DEFINE rows == worker[w].rows
    <3>1. CASE worker'[w] = worker[w]
      BY <2>1, <2>7, <3>1 DEF At, On, Shared
    <3>2. CASE createSaleEntries(w)
      <4>1. \A a \in Accounts : ledger'[o][<<a, "COMMISSION">>] =
              IF ledger[o][<<a, "COMMISSION">>] = NoRow THEN rows[<<a, "COMMISSION">>]
              ELSE ledger[o][<<a, "COMMISSION">>]
        BY <1>1, <2>3, <2>7, <3>2, PostingLeaves
      <4>2. NoShare(ledger[o]) \/ Shared(o, ledger[o])
        BY <1>1 DEF OrderInv, Posted, Posts, Unposted, NoShare
      <4>3. \A a \in Accounts : rows[<<a, "COMMISSION">>] = saleEntries(o)[<<a, "COMMISSION">>]
        BY <2>7 DEF Shared
      <4> HIDE DEF rows
      <4>4. \A a \in Accounts : ledger'[o][<<a, "COMMISSION">>] = saleEntries(o)[<<a, "COMMISSION">>]
        BY <4>1, <4>2, <4>3 DEF NoShare, Shared
      <4> QED BY <2>1, <4>4 DEF Shared
    <3>3. ~accrueForPaidOrder(w) /\ ~createAccrual(w) /\ ~tryIncrementRedemption(w) /\ ~postForPaidOrder(w)
      BY <2>7 DEF accrueForPaidOrder, createAccrual, tryIncrementRedemption, postForPaidOrder, At
    <3> QED BY <2>5, <2>7, <3>1, <3>2, <3>3 DEF Fulfilment, At
  <2> QED BY <1>2, <1>5, <2>4, <2>6, <2>7 DEF Delivers, Doing
<1> QED BY <1>4, <1>5

(* Nothing is owed to settlement or to the ledger at the start.            *)
LEMMA FlowStarts == BooksAssumption /\ Init => FlowInv
<1> SUFFICES ASSUME Init PROVE FlowInv
  OBVIOUS
<1>1. \A o \in Orders : order[o].status = "none" /\ earned(o) = NoCommission
  BY DEF Init, NoOrder, earned
<1> QED BY <1>1 DEF FlowInv, Settles, Delivers, NoFaults, Init

(* Every step keeps what refunds and fulfilments are carried through by.   *)
LEMMA FlowKept == ASSUME BaseInv, BaseInv', FlowInv, [Next]_vars PROVE FlowInv'
<1>1. NoFaults'
  BY FaultsCounted DEF FlowInv, NoFaults, BaseInv
<1> QED BY <1>1, SettlesKept, DeliversKept DEF FlowInv

--------------------------------------------------------------------------------
(* Money.                                                                  *)
LEMMA SumOver ==
    ASSUME NEW f, NEW S, DOMAIN f = S PROVE SumFunction(f) = SumFunctionOnSet(f, S)
BY DEF SumFunction, SumFunctionOnSet

(* A row of the ledger, by account and type.                               *)
LEMMA EntriesTyped ==
    ASSUME Typed, NEW o \in Orders, NEW a \in Accounts, NEW t \in EntryTypes
    PROVE entry(o, a, t) \in Entry /\ entry(o, a, t).amount \in Int /\ entry(o, a, t).promoter \in Ref
<1>1. entry(o, a, t) \in Entry
  BY KeyTypes DEF Typed, BooksTyped, entry
<1> QED BY <1>1 DEF Entry

(* A balance is what the sale left and what the refund took back.          *)
LEMMA BalanceParts ==
    ASSUME Typed, NEW o \in Orders, NEW a \in Accounts
    PROVE Net(o, a) \in Int /\ Balance(o, a) = Net(o, a) + entry(o, a, "REFUND").amount
<1>1. \A t \in EntryTypes : entry(o, a, t).amount \in Int
  BY EntriesTyped
<1> QED BY <1>1 DEF Net, Balance, EntryTypes

(* An order that is reversed outside an overlap balances.                  *)
LEMMA UndoneBalances ==
    ASSUME Typed, NEW o \in Orders, NEW a \in Accounts, Undoes(o, ledger[o]) PROVE Balance(o, a) = 0
<1>1. entry(o, a, "REFUND") = Undo(o, a)
  BY DEF Undoes, entry
<1>2. Net(o, a) \in Int /\ Balance(o, a) = Net(o, a) + Undo(o, a).amount
  BY <1>1, BalanceParts
<1>3. entry(o, a, "COMMISSION").promoter \in Ref
  BY EntriesTyped DEF EntryTypes
<1>4. Undo(o, a).amount = -Net(o, a)
  <2>1. CASE Net(o, a) = 0
    BY <2>1, RowTypes DEF Undo
  <2>2. CASE Net(o, a) # 0
    BY <1>2, <2>2 DEF Undo, Row
  <2> QED BY <2>1, <2>2
<1> QED BY <1>2, <1>4

(* An order that is posted and not reversed adds up to its total.          *)
LEMMA PostedAddsUp ==
    ASSUME Typed, NEW o \in Orders, OrderInv(o), Posts(o, ledger[o])
    PROVE Net(o, "PRODUCER") + Net(o, "PLATFORM") + Net(o, "PROMOTER") = order[o].total
<1> DEFINE S == order[o].subtotal
           D == order[o].discount
           F == order[o].fee
           C == earned(o).amount
           c == IF NoShare(ledger[o]) THEN 0 ELSE C
           amount(a, t) == entry(o, a, t).amount
<1>1. /\ S \in Int /\ D \in Int /\ F \in Int /\ C \in Int
      /\ order[o].mode \in {"BUYER", "PRODUCER"}
  BY DEF Typed, SalesTyped, BooksTyped, Order, earned, Commission
<1>2. \A a \in Accounts, t \in SaleTypes : entry(o, a, t) = saleEntries(o)[<<a, t>>]
  BY DEF Posts, Charged, entry
<1>3. NoRow.amount = 0 /\ \A p, n : Row(p, n).amount = n
  BY RowTypes DEF Row
<1>4. /\ amount("PRODUCER", "SALE") = S /\ amount("PRODUCER", "DISCOUNT") = -D
      /\ amount("PRODUCER", "FEE") = (IF order[o].mode = "PRODUCER" THEN -F ELSE 0)
  BY <1>2, <1>3, SalePosts DEF Accounts, SaleTypes
<1>5. /\ amount("PLATFORM", "SALE") = 0 /\ amount("PLATFORM", "DISCOUNT") = 0
      /\ amount("PLATFORM", "FEE") = F
  BY <1>2, <1>3, SalePosts DEF Accounts, SaleTypes
<1>6. /\ amount("PROMOTER", "SALE") = 0 /\ amount("PROMOTER", "DISCOUNT") = 0
      /\ amount("PROMOTER", "FEE") = 0
  BY <1>2, <1>3, SalePosts DEF Accounts, SaleTypes
<1>7. /\ amount("PRODUCER", "COMMISSION") = -c /\ amount("PROMOTER", "COMMISSION") = c
      /\ amount("PLATFORM", "COMMISSION") = 0 /\ c \in Int
  <2>1. CASE NoShare(ledger[o])
    <3>1. \A a \in Accounts : entry(o, a, "COMMISSION") = NoRow
      BY <2>1 DEF NoShare, entry
    <3> QED BY <1>3, <2>1, <3>1 DEF Accounts
  <2>2. CASE ~NoShare(ledger[o])
    <3>1. \A a \in Accounts : entry(o, a, "COMMISSION") = saleEntries(o)[<<a, "COMMISSION">>]
      BY <2>2 DEF Posts, Shared, entry
    <3>2. /\ saleEntries(o)[<<"PRODUCER", "COMMISSION">>] = Row(earned(o).promoter, -C)
          /\ saleEntries(o)[<<"PROMOTER", "COMMISSION">>] = Row(earned(o).promoter, C)
          /\ saleEntries(o)[<<"PLATFORM", "COMMISSION">>] = NoRow
      BY SalePosts DEF Accounts, SaleTypes
    <3> QED BY <1>1, <1>3, <2>2, <3>1, <3>2 DEF Accounts
  <2> QED BY <2>1, <2>2
<1>8. order[o].total = S - D + (IF order[o].mode = "BUYER" THEN F ELSE 0)
  BY DEF OrderInv, Ordered
<1>9. /\ Net(o, "PRODUCER") = amount("PRODUCER", "SALE") + amount("PRODUCER", "DISCOUNT")
                              + amount("PRODUCER", "FEE") + amount("PRODUCER", "COMMISSION")
      /\ Net(o, "PLATFORM") = amount("PLATFORM", "SALE") + amount("PLATFORM", "DISCOUNT")
                              + amount("PLATFORM", "FEE") + amount("PLATFORM", "COMMISSION")
      /\ Net(o, "PROMOTER") = amount("PROMOTER", "SALE") + amount("PROMOTER", "DISCOUNT")
                              + amount("PROMOTER", "FEE") + amount("PROMOTER", "COMMISSION")
  BY DEF Net
<1> HIDE DEF S, D, F, C, c, amount
<1>10. CASE order[o].mode = "BUYER"
  BY <1>1, <1>4, <1>5, <1>6, <1>7, <1>8, <1>9, <1>10
<1>11. CASE order[o].mode = "PRODUCER"
  BY <1>1, <1>4, <1>5, <1>6, <1>7, <1>8, <1>9, <1>11
<1> QED BY <1>1, <1>10, <1>11

(* What an order's accounts hold adds up to its total, or to nothing.      *)
LEMMA OrderConserved ==
    ASSUME Typed, NEW o \in Orders, OrderInv(o), ~(o \in overlap /\ reversed(o))
    PROVE Balance(o, "PRODUCER") + Balance(o, "PLATFORM") + Balance(o, "PROMOTER")
            = IF o \in kept THEN order[o].total ELSE 0
<1>1. o \in kept <=> ledger[o] # NoRows /\ ~reversed(o)
  BY DEF kept
<1>2. "PRODUCER" \in Accounts /\ "PLATFORM" \in Accounts /\ "PROMOTER" \in Accounts
  BY DEF Accounts
<1>3. \A a \in Accounts : NoRefund(ledger[o]) => Balance(o, a) = Net(o, a) /\ Net(o, a) \in Int
  <2> SUFFICES ASSUME NEW a \in Accounts, NoRefund(ledger[o])
               PROVE Balance(o, a) = Net(o, a) /\ Net(o, a) \in Int
    OBVIOUS
  <2>1. entry(o, a, "REFUND").amount = 0
    BY RowTypes DEF NoRefund, entry
  <2> QED BY <2>1, BalanceParts
<1>4. reversed(o) <=> ~NoRefund(ledger[o])
  BY DEF reversed, NoRefund, entry
<1>5. CASE reversed(o)
  <2>1. Undoes(o, ledger[o])
    BY <1>4, <1>5 DEF OrderInv, Refunds
  <2> QED BY <1>1, <1>2, <1>5, <2>1, UndoneBalances
<1>6. CASE ~reversed(o) /\ Posts(o, ledger[o]) /\ ledger[o] # NoRows
  BY <1>1, <1>2, <1>3, <1>4, <1>6, PostedAddsUp
<1>7. CASE ~reversed(o) /\ (Unposted(ledger[o]) \/ ledger[o] = NoRows)
  <2>1. \A a \in Accounts, t \in EntryTypes : ledger[o][<<a, t>>] = NoRow
    BY <1>4, <1>7, KeyTypes DEF Unposted, NoRefund, SaleTypes, EntryTypes, NoRows
  <2>2. ledger[o] = NoRows
    BY <2>1, KeyTypes DEF NoRows, Typed, BooksTyped
  <2>3. \A a \in Accounts : Balance(o, a) = 0
    <3>1. \A a \in Accounts, t \in EntryTypes : entry(o, a, t).amount = 0
      BY <2>1, RowTypes DEF entry
    <3> QED BY <3>1 DEF Balance, EntryTypes
  <2> QED BY <1>1, <1>2, <2>2, <2>3
<1> QED BY <1>5, <1>6, <1>7 DEF OrderInv, Posted

(* So do the figures of the event.                                         *)
LEMMA BaseConserves == BooksAssumption /\ BaseInv => MoneyConserved
<1> SUFFICES ASSUME BooksAssumption, BaseInv PROVE MoneyConserved
  OBVIOUS
<1> DEFINE mixed == {o \in overlap : reversed(o)}
           producer == [o \in Orders |-> Balance(o, "PRODUCER")]
           platform == [o \in Orders |-> Balance(o, "PLATFORM")]
           promoter == [o \in Orders |-> Balance(o, "PROMOTER")]
           first == [o \in Orders |-> Balance(o, "PRODUCER") + Balance(o, "PLATFORM")]
           all == [o \in Orders |-> Balance(o, "PRODUCER") + Balance(o, "PLATFORM")
                                    + Balance(o, "PROMOTER")]
           totals == [o \in Orders |-> order[o].total]
           sales == [o \in kept |-> order[o].total]
           paid == SumFunctionOnSet(paidOut, Promoters)
<1>1. Typed /\ (\A o \in Orders : OrderInv(o)) /\ IsFiniteSet(Orders)
  BY DEF BaseInv, BooksAssumption
<1>2. \A o \in Orders \ mixed :
        Balance(o, "PRODUCER") + Balance(o, "PLATFORM") + Balance(o, "PROMOTER")
          = IF o \in kept THEN order[o].total ELSE 0
  BY <1>1, OrderConserved
<1>3. ASSUME mixed = {}
      PROVE SumFunction(producer) + SumFunction(platform) + SumFunction(promoter) = SumFunction(sales)
            /\ SumFunction(producer) \in Int /\ SumFunction(platform) \in Int
            /\ SumFunction(promoter) \in Int
  <2>1. \A o \in Orders : /\ producer[o] \in Int /\ platform[o] \in Int /\ promoter[o] \in Int
                          /\ first[o] \in Int /\ first[o] = producer[o] + platform[o]
                          /\ all[o] = first[o] + promoter[o]
    BY <1>1, BalanceIsInt DEF Accounts
  <2>2. \A o \in Orders : totals[o] \in Int /\ all[o] = IF o \in kept THEN totals[o] ELSE 0
    BY <1>1, <1>2, <1>3 DEF Typed, SalesTyped, Order
  <2>3. kept \in SUBSET Orders
    BY DEF kept
  <2>4. /\ DOMAIN producer = Orders /\ DOMAIN platform = Orders /\ DOMAIN promoter = Orders
        /\ DOMAIN sales = kept
    OBVIOUS
  <2>5. IsFiniteSet(kept) /\ \A o \in kept : sales[o] = totals[o]
    BY <1>1, <2>3, FS_Subset
  <2> HIDE DEF producer, platform, promoter, first, all, totals, sales
  <2>6. SumFunctionOnSet(first, Orders)
          = SumFunctionOnSet(producer, Orders) + SumFunctionOnSet(platform, Orders)
    BY <1>1, <2>1, SumOfSums
  <2>7. SumFunctionOnSet(all, Orders)
          = SumFunctionOnSet(first, Orders) + SumFunctionOnSet(promoter, Orders)
    BY <1>1, <2>1, SumOfSums
  <2>8. SumFunctionOnSet(all, Orders) = SumFunctionOnSet(totals, kept)
    BY <1>1, <2>2, <2>3, SumOfPart
  <2>9. SumFunctionOnSet(sales, kept) = SumFunctionOnSet(totals, kept)
    BY <2>5, SumSame
  <2>10. /\ SumFunctionOnSet(producer, Orders) \in Int /\ SumFunctionOnSet(platform, Orders) \in Int
         /\ SumFunctionOnSet(promoter, Orders) \in Int
    BY <1>1, <2>1, SumIsInt
  <2> QED BY <2>4, <2>6, <2>7, <2>8, <2>9, <2>10, SumOver
<1>4. paid \in Int /\ paidOut["PRODUCER"] \in Int
  <2>1. IsFiniteSet(Promoters) /\ (\A p \in Promoters : paidOut[p] \in Int)
    BY <1>1 DEF BooksAssumption, Typed, BooksTyped
  <2> QED BY <1>1, <2>1, SumIsInt DEF Typed, BooksTyped
<1>5. /\ EventSummary.producerPayable = SumFunction(producer) - paidOut["PRODUCER"]
      /\ EventSummary.platformNet = SumFunction(platform)
      /\ EventSummary.promoterPayable = SumFunction(promoter) - paid
      /\ EventSummary.payouts = paidOut["PRODUCER"] + paid
  BY DEF EventSummary
<1>6. mixed = {} =>
        EventSummary.producerPayable + EventSummary.platformNet + EventSummary.promoterPayable
          + EventSummary.payouts = SumFunction(sales)
  <2> HIDE DEF mixed, producer, platform, promoter, sales, paid
  <2> QED BY <1>3, <1>4, <1>5
<1> QED BY <1>2, <1>6 DEF MoneyConserved

(* Commission is not negative; a reversal takes all of it or nothing.      *)
LEMMA AccruedAmounts ==
    ASSUME Typed, NEW o \in Orders, OrderInv(o)
    PROVE /\ earned(o) \in Commission /\ commission[o].REVERSAL \in Commission
          /\ earned(o).amount \in Nat
          /\ commission[o].REVERSAL.amount \in {0, -earned(o).amount}
          /\ earned(o) # NoCommission => earned(o).amount > 0
<1>1. earned(o) \in Commission /\ commission[o].REVERSAL \in Commission
  BY DEF Typed, BooksTyped, earned
<1>2. earned(o).amount \in Nat /\ (earned(o) # NoCommission => earned(o).amount > 0)
  BY <1>1, RowTypes DEF OrderInv, Accruals, Accrued, Commission
<1>3. commission[o].REVERSAL.amount \in {0, -earned(o).amount}
  BY <1>1, NegatedTyped, RowTypes DEF OrderInv, Accruals
<1> QED BY <1>1, <1>2, <1>3

(* The invariant implies the types the model states.                       *)
LEMMA BaseTypesHold == BooksAssumption /\ BaseInv => TypeOK
<1> SUFFICES ASSUME BooksAssumption, BaseInv PROVE TypeOK
  OBVIOUS
<1> USE DEF BaseInv
<1>1. ASSUME NEW o \in Orders
      PROVE /\ order[o].status \in {"none", "AWAITING_PAYMENT", "PAID", "REFUNDED"}
            /\ {order[o].subtotal, order[o].discount, order[o].fee, order[o].total} \subseteq Nat
            /\ attribution[o] \in [promoter : Promoters \cup {"none"}, coupon : Coupons \cup {"none"}]
            /\ ledger[o] \in [Keys -> [promoter : Promoters \cup {"none"}, amount : Int]]
  BY DEF Typed, SalesTyped, BooksTyped, Order, Entry, Ref
<1>2. ASSUME NEW o \in Orders
      PROVE /\ {commission[o].ACCRUAL.promoter, commission[o].REVERSAL.promoter}
                 \subseteq Promoters \cup {"none"}
            /\ commission[o].ACCRUAL.amount \in Nat /\ -commission[o].REVERSAL.amount \in Nat
  <2>1. /\ earned(o) \in Commission /\ commission[o].REVERSAL \in Commission
        /\ earned(o).amount \in Nat
        /\ commission[o].REVERSAL.amount \in {0, -earned(o).amount}
    BY AccruedAmounts
  <2>2. earned(o) = commission[o].ACCRUAL
    BY DEF earned
  <2>3. commission[o].ACCRUAL.promoter \in Ref /\ commission[o].REVERSAL.promoter \in Ref
    BY <2>1, <2>2 DEF Commission
  <2> QED BY <2>1, <2>2, <2>3 DEF Ref
<1>3. redemptions \in [Coupons -> Nat]
  BY DEF Typed, OffersTyped
<1>4. \A w \in Workers : worker[w] = Idle \/ On(w) \in Orders
  BY DEF WorkerInv, WorkerFits
<1> QED BY <1>1, <1>2, <1>3, <1>4 DEF TypeOK

(* A refund nobody carries through any more has been settled.              *)
LEMMA FlowSettles == BooksAssumption /\ BaseInv /\ FlowInv => RefundNetsToZero
<1> SUFFICES ASSUME BooksAssumption, BaseInv, FlowInv, NEW o \in Orders \ (overlap \cup failed),
                    order[o].status = "REFUNDED", ~Working(o)
             PROVE /\ \A a \in Accounts : Balance(o, a) = 0
                   /\ commission[o].ACCRUAL.amount + commission[o].REVERSAL.amount = 0
  BY DEF RefundNetsToZero
<1>1. Typed /\ OrderInv(o)
  BY DEF BaseInv
<1>2. ~Doing(o, {"reverse", "reverse.create"}) /\ ~Doing(o, Refunding)
  BY DEF Working, Doing, At, Refunding
<1>3. Undoes(o, ledger[o]) /\ commission[o].REVERSAL = Negated(earned(o))
  BY <1>2 DEF FlowInv, Settles
<1>4. commission[o].REVERSAL.amount = -earned(o).amount /\ earned(o).amount \in Nat
  BY <1>1, <1>3, AccruedAmounts, NegatedTyped
<1> QED BY <1>1, <1>3, <1>4, UndoneBalances DEF earned

(* When nothing is in flight and nothing failed, what a promoter has from  *)
(* an order is the same in both books.                                     *)
LEMMA OrderMatches ==
    ASSUME BooksAssumption, BaseInv, FlowInv, count.faults = 0, NEW o \in Orders, o \notin overlap,
           ~Working(o), NEW p \in Promoters
    PROVE share(commission[o].ACCRUAL, p) + share(commission[o].REVERSAL, p) = credit(o, p)
<1> DEFINE e == earned(o)
           c == entry(o, "PROMOTER", "COMMISSION")
           r == entry(o, "PROMOTER", "REFUND")
<1>1. Typed /\ OrderInv(o) /\ failed = {}
  BY DEF BaseInv, FlowInv, NoFaults
<1>2. p # "none" /\ "PROMOTER" \in Accounts
  BY DEF BooksAssumption, Accounts
<1>3. e \in Commission /\ e.amount \in Nat /\ (e # NoCommission => e.amount > 0)
  BY <1>1, AccruedAmounts
<1>4. share(NoCommission, p) = 0 /\ share(NoRow, p) = 0
  BY <1>2, RowTypes DEF share
<1>5. c \in {NoRow, Row(e.promoter, e.amount)} /\ Net(o, "PROMOTER") = c.amount
  BY <1>1, PromoterNet
<1>6. credit(o, p) = share(c, p) + share(r, p)
  BY DEF credit
<1>7. ~Doing(o, {"reverse", "reverse.create"}) /\ ~Doing(o, Refunding) /\ ~Doing(o, {"redeem", "post"})
      /\ \A w \in Workers : On(w) = o => ~At(w, "post.create")
  BY DEF Working, Doing, At, Refunding
<1>8. NoRefund(ledger[o]) => r = NoRow
  BY <1>2 DEF NoRefund, entry
<1>9. Undoes(o, ledger[o]) => r = Undo(o, "PROMOTER")
  BY <1>2 DEF Undoes, entry
<1>10. CASE e = NoCommission
  <2>1. commission[o].REVERSAL = NoCommission
    BY <1>1, <1>10, NothingToReverse DEF OrderInv, Accruals
  <2>2. c = NoRow
    BY <1>5, <1>10, RowTypes DEF NoRow
  <2>3. Undo(o, "PROMOTER") = NoRow
    BY <1>5, <2>2, RowTypes DEF Undo
  <2>4. r = NoRow
    BY <1>1, <1>8, <1>9, <2>3 DEF OrderInv, Refunds
  <2> QED BY <1>4, <1>6, <1>10, <2>1, <2>2, <2>4 DEF earned
<1>11. CASE e # NoCommission
  <2>1. Shared(o, ledger[o])
    BY <1>7, <1>11 DEF FlowInv, Delivers
  <2>2. c = Row(e.promoter, e.amount)
    <3>1. saleEntries(o)[<<"PROMOTER", "COMMISSION">>] = Row(e.promoter, e.amount)
      BY <1>2, SalePosts DEF SaleTypes
    <3> QED BY <1>2, <2>1, <3>1 DEF Shared, entry
  <2>3. c.promoter = e.promoter /\ c.amount = e.amount
    BY <2>2 DEF Row
  <2>4. CASE order[o].status # "REFUNDED"
    <3>1. commission[o].REVERSAL = NoCommission /\ r = NoRow
      BY <1>1, <1>8, <2>4 DEF OrderInv, Accruals, Refunds
    <3>2. share(c, p) = share(commission[o].ACCRUAL, p)
      BY <2>3 DEF share, earned
    <3> QED BY <1>4, <1>6, <3>1, <3>2
  <2>5. CASE order[o].status = "REFUNDED"
    <3>1. Undoes(o, ledger[o]) /\ commission[o].REVERSAL = Negated(e)
      BY <1>1, <1>7, <2>5 DEF FlowInv, Settles
    <3>2. r = Row(e.promoter, -e.amount)
      BY <1>3, <1>5, <1>9, <1>11, <2>3, <3>1 DEF Undo
    <3>3. r.promoter = e.promoter /\ r.amount = -e.amount
      BY <3>2 DEF Row
    <3>4. /\ commission[o].REVERSAL.promoter = e.promoter
          /\ commission[o].REVERSAL.amount = -e.amount
      BY <1>3, <3>1, NegatedTyped
    <3>5. commission[o].ACCRUAL = e
      BY DEF earned
    <3> HIDE DEF e, c, r
    <3> QED BY <1>6, <2>3, <3>3, <3>4, <3>5 DEF share
  <2> QED BY <2>4, <2>5
<1> QED BY <1>10, <1>11

(* At rest, without failures, both books agree about every promoter.       *)
LEMMA FlowMatches == BooksAssumption /\ BaseInv /\ FlowInv => LedgerMatchesCommission
<1> SUFFICES ASSUME BooksAssumption, BaseInv, FlowInv PROVE LedgerMatchesCommission
  OBVIOUS
<1>1. \A o \in Orders : entry(o, "PROMOTER", "COMMISSION")
                          \in {NoRow, Row(earned(o).promoter, earned(o).amount)}
  BY PromoterNet DEF BaseInv
<1>2. ASSUME count.faults = 0, overlap = {}, \A o \in Orders : ~Working(o), NEW p \in Promoters
      PROVE summaryForPromoter(p) = payable(p)
  <2>1. \A o \in Orders :
          share(commission[o].ACCRUAL, p) + share(commission[o].REVERSAL, p) = credit(o, p)
    BY <1>2, OrderMatches
  <2>2. [o \in Orders |-> share(commission[o].ACCRUAL, p) + share(commission[o].REVERSAL, p)]
          = [o \in Orders |-> credit(o, p)]
    BY <2>1
  <2> QED BY <2>2 DEF summaryForPromoter, payable
<1> QED BY <1>1, <1>2 DEF LedgerMatchesCommission

--------------------------------------------------------------------------------
(* Payouts.                                                                *)
Earning(p) == [o \in Orders |-> share(entry(o, "PROMOTER", "COMMISSION"), p)]

(* What a promoter earned from an order is not negative.                   *)
LEMMA EarningTyped ==
    ASSUME BaseInv, NEW p \in Promoters, NEW o \in Orders
    PROVE Earning(p)[o] \in Int /\ Earning(p)[o] >= 0
<1>1. Typed /\ OrderInv(o)
  BY DEF BaseInv
<1>2. entry(o, "PROMOTER", "COMMISSION").amount \in Int /\ entry(o, "PROMOTER", "COMMISSION").amount >= 0
  BY <1>1, PromoterNet
<1> QED BY <1>2 DEF Earning, share

(* What a promoter may be paid is at most what it ever earned.             *)
LEMMA PayableWithin ==
    ASSUME BooksAssumption, BaseInv, NEW p \in Promoters
    PROVE payable(p) \in Int /\ EarnedEver(p) \in Int /\ payable(p) <= EarnedEver(p)
<1> DEFINE credits == [o \in Orders |-> credit(o, p)]
<1>1. \A o \in Orders : credits[o] \in Int /\ Earning(p)[o] \in Int /\ credits[o] <= Earning(p)[o]
  <2> SUFFICES ASSUME NEW o \in Orders
               PROVE credit(o, p) \in Int /\ Earning(p)[o] \in Int /\ credit(o, p) <= Earning(p)[o]
    OBVIOUS
  <2> DEFINE r == entry(o, "PROMOTER", "REFUND")
  <2>1. r.amount \in Int
    BY EntriesTyped DEF BaseInv, Accounts, EntryTypes
  <2>2. r.amount <= 0
    BY DEF BaseInv, OrderInv, Refunds
  <2>3. share(r, p) \in Int /\ share(r, p) <= 0
    BY <2>1, <2>2 DEF share
  <2>4. Earning(p)[o] \in Int
    BY EarningTyped
  <2>5. credit(o, p) = Earning(p)[o] + share(r, p)
    BY DEF credit, Earning
  <2> HIDE DEF r
  <2> QED BY <2>3, <2>4, <2>5
<1>2. IsFiniteSet(Orders) /\ DOMAIN credits = Orders /\ DOMAIN Earning(p) = Orders
  BY DEF BooksAssumption, Earning
<1>3. payable(p) = SumFunction(credits) /\ EarnedEver(p) = SumFunction(Earning(p))
  BY DEF payable, EarnedEver, Earning
<1> HIDE DEF credits
<1>4. /\ SumFunctionOnSet(credits, Orders) \in Int /\ SumFunctionOnSet(Earning(p), Orders) \in Int
  BY <1>1, <1>2, SumIsInt
<1>5. SumFunctionOnSet(credits, Orders) <= SumFunctionOnSet(Earning(p), Orders)
  BY <1>1, <1>2, SumAtMost
<1> QED BY <1>2, <1>3, <1>4, <1>5, SumOver

(* A row of commission is written once, and never taken away.              *)
LEMMA EarnedGrows ==
    ASSUME BooksAssumption, BaseInv, BaseInv', [Next]_vars, NEW p \in Promoters
    PROVE EarnedEver(p) <= EarnedEver(p)' /\ EarnedEver(p) \in Int /\ EarnedEver(p)' \in Int
<1>1. IsFiniteSet(Orders)
  BY DEF BooksAssumption
<1>2. ASSUME NEW o \in Orders
      PROVE Earning(p)[o] \in Int /\ Earning(p)'[o] \in Int /\ Earning(p)[o] <= Earning(p)'[o]
  <2>1. Earning(p)[o] \in Int
    BY EarningTyped
  <2>2. Earning(p)'[o] \in Int /\ Earning(p)'[o] >= 0
    <3>1. (Typed /\ OrderInv(o))'
      BY DEF BaseInv
    <3>2. entry(o, "PROMOTER", "COMMISSION")'.amount \in Int
          /\ entry(o, "PROMOTER", "COMMISSION")'.amount >= 0
      <4>1. (Net(o, "PROMOTER") = entry(o, "PROMOTER", "COMMISSION").amount
             /\ Net(o, "PROMOTER") \in Int /\ Net(o, "PROMOTER") >= 0)'
        BY <3>1, PromoterNet, PTL
      <4> QED BY <4>1
    <3> QED BY <3>2 DEF Earning, share
  <2>3. entry(o, "PROMOTER", "COMMISSION")' = entry(o, "PROMOTER", "COMMISSION")
        \/ entry(o, "PROMOTER", "COMMISSION") = NoRow
    <3>1. Same(o) => ledger'[o] = ledger[o]
      BY DEF Same, SameBooks
    <3>2. ASSUME \/ \E i \in Inputs : createOrder(o, i.coupon, i.ref)
                 \/ recordAttribution(o) \/ attributionFails(o)
                 \/ \E w \in Workers : \/ markOrderPaid(w, o) \/ settleRefund(w, o)
                                       \/ createAccrual(w) \/ reverseCommission(w)
          PROVE ledger' = ledger
      BY <3>2 DEF createOrder, recordAttribution, attributionFails, markOrderPaid, settleRefund,
            createAccrual, reverseCommission, book
    <3>3. ASSUME NEW w \in Workers, On(w) = o, createSaleEntries(w) \/ createReversal(w),
                 entry(o, "PROMOTER", "COMMISSION") # NoRow
          PROVE entry(o, "PROMOTER", "COMMISSION")' = entry(o, "PROMOTER", "COMMISSION")
      <4>1. Typed /\ "PROMOTER" \in Accounts /\ "COMMISSION" \in EntryTypes
        BY DEF BaseInv, Accounts, EntryTypes
      <4>2. ledger'[o][<<"PROMOTER", "COMMISSION">>] = ledger[o][<<"PROMOTER", "COMMISSION">>]
        BY <3>3, <4>1, PostingLeaves DEF entry
      <4> QED BY <4>2 DEF entry
    <3> QED BY <3>1, <3>2, <3>3, OrderSteps DEF entry, BaseInv
  <2>4. entry(o, "PROMOTER", "COMMISSION") = NoRow => Earning(p)[o] = 0
    BY RowTypes DEF Earning, share
  <2>5. entry(o, "PROMOTER", "COMMISSION")' = entry(o, "PROMOTER", "COMMISSION")
          => Earning(p)'[o] = Earning(p)[o]
    BY DEF Earning
  <2> QED BY <2>1, <2>2, <2>3, <2>4, <2>5
<1>3. /\ EarnedEver(p) = SumFunction(Earning(p)) /\ EarnedEver(p)' = SumFunction(Earning(p)')
      /\ DOMAIN Earning(p) = Orders /\ DOMAIN (Earning(p)') = Orders
  BY DEF EarnedEver, Earning
<1> PICK f, g : f = Earning(p) /\ g = Earning(p)'
  OBVIOUS
<1>4. /\ SumFunctionOnSet(f, Orders) <= SumFunctionOnSet(g, Orders)
      /\ SumFunctionOnSet(f, Orders) \in Int /\ SumFunctionOnSet(g, Orders) \in Int
  BY <1>1, <1>2, SumAtMost, SumIsInt
<1> QED BY <1>3, <1>4, SumOver

(* What a promoter ever earned is not negative.                            *)
LEMMA EarnedIsNat ==
    ASSUME BooksAssumption, BaseInv, NEW p \in Promoters PROVE EarnedEver(p) \in Nat
<1>1. IsFiniteSet(Orders) /\ DOMAIN Earning(p) = Orders /\ EarnedEver(p) = SumFunction(Earning(p))
  BY DEF BooksAssumption, Earning, EarnedEver
<1>2. \A o \in Orders : Earning(p)[o] \in Nat
  <2> TAKE o \in Orders
  <2> QED BY EarningTyped
<1> QED BY <1>1, <1>2, SumOfCells

(* Earning more leaves room for the same payouts.                          *)
LEMMA MoreEarned ==
    ASSUME BooksAssumption, NEW e \in Nat, NEW f \in Nat, e <= f, NEW paid, NEW pending,
           Covers(e, paid, pending)
    PROVE Covers(f, paid, pending)
<1>1. Cardinality(Payers) \in Nat /\ IsFiniteSet(Payers)
  BY FS_CardinalityType DEF BooksAssumption
<1>2. SumFunctionOnSet(pending, Payers) \in Int
  BY <1>1, SumIsInt DEF Covers
<1>3. ASSUME NEW n \in Nat PROVE n * e <= n * f
  <2> PICK d \in Nat : f = e + d
    OBVIOUS
  <2>1. n * (e + d) = n * e + n * d /\ n * d \in Nat /\ n * e \in Nat
    OBVIOUS
  <2> QED BY <2>1
<1>4. Cardinality(Payers) * e <= Cardinality(Payers) * f
  BY <1>1, <1>3
<1>5. Cardinality(Payers) * e \in Int /\ Cardinality(Payers) * f \in Int
  BY <1>1
<1>6. paid \in Nat /\ paid + SumFunctionOnSet(pending, Payers) <= Cardinality(Payers) * e
  BY DEF Covers
<1>7. paid + SumFunctionOnSet(pending, Payers) <= Cardinality(Payers) * f
  BY <1>2, <1>4, <1>5, <1>6
<1>8. pending \in [Payers -> Nat] /\ \A x \in Payers : pending[x] <= f
  BY DEF Covers
<1> QED BY <1>6, <1>7, <1>8 DEF Covers

(* A payout that passes the check fits: the payouts of the others that     *)
(* wait are each within what was earned.                                   *)
LEMMA PayoutFits ==
    ASSUME BooksAssumption, NEW e \in Nat, NEW paid, NEW pending, Covers(e, paid, pending),
           NEW x \in Payers, NEW n \in Nat, paid + n <= e
    PROVE Covers(e, paid, [pending EXCEPT ![x] = n])
<1> DEFINE g == [pending EXCEPT ![x] = n]
           others == SumFunctionOnSet(g, Payers \ {x})
           m == Cardinality(Payers)
<1>1. IsFiniteSet(Payers) /\ IsFiniteSet(Payers \ {x}) /\ m \in Nat /\ Cardinality(Payers \ {x}) = m - 1
  BY FS_CardinalityType, FS_RemoveElement DEF BooksAssumption
<1>2. paid \in Nat /\ g[x] = n /\ g \in [Payers -> Nat] /\ \A y \in Payers : g[y] <= e
  BY DEF Covers
<1> HIDE DEF g
<1>3. SumFunctionOnSet(g, Payers) = n + others
  <2>1. \A y \in Payers : g[y] \in Int
    BY <1>2
  <2>2. SumFunctionOnSet(g, Payers) = g[x] + others
    BY <1>1, <2>1, SumTakesOut
  <2> QED BY <1>2, <2>2
<1>4. others \in Int
  BY <1>1, <1>2, SumIsInt
<1>5. others <= (m - 1) * e
  BY <1>1, <1>2, SumWithin
<1> HIDE DEF others, m
<1>6. (m - 1) * e + e = m * e /\ (m - 1) * e \in Int /\ m * e \in Int
  BY <1>1
<1>7. paid + SumFunctionOnSet(g, Payers) <= m * e
  BY <1>2, <1>3, <1>4, <1>5, <1>6
<1>8. Covers(e, paid, g)
  BY <1>2, <1>7 DEF Covers, m
<1> QED BY <1>8 DEF g

(* Appending a payout moves its amount to what is paid.                    *)
LEMMA PayoutMoves ==
    ASSUME BooksAssumption, NEW e \in Nat, NEW paid, NEW pending, Covers(e, paid, pending),
           NEW x \in Payers
    PROVE Covers(e, paid + pending[x], [pending EXCEPT ![x] = 0])
<1> DEFINE g == [pending EXCEPT ![x] = 0]
<1>1. paid \in Nat /\ pending \in [Payers -> Nat] /\ \A y \in Payers : pending[y] <= e
  BY DEF Covers
<1>2. /\ g[x] = 0 /\ g \in [Payers -> Nat]
      /\ \A y \in Payers : g[y] <= e
      /\ \A y \in Payers \ {x} : g[y] = pending[y]
  BY <1>1
<1>3. IsFiniteSet(Payers)
  BY DEF BooksAssumption
<1> HIDE DEF g
<1>4. SumFunctionOnSet(g, Payers) = SumFunctionOnSet(pending, Payers) - pending[x] + g[x]
  <2>1. \A y \in Payers : pending[y] \in Int /\ g[y] \in Int
    BY <1>1, <1>2
  <2>2. \A y \in Payers \ {x} : g[y] = pending[y]
    BY <1>2
  <2>3. IsFiniteSet(Payers \ {x})
    BY <1>3, FS_Subset
  <2>4. SumFunctionOnSet(g, Payers \ {x}) = SumFunctionOnSet(pending, Payers \ {x})
    BY <2>2, <2>3, SumSame
  <2>5. SumFunctionOnSet(pending, Payers \ {x}) \in Int
    BY <2>1, <2>3, SumIsInt
  <2>6. SumFunctionOnSet(pending, Payers) = pending[x] + SumFunctionOnSet(pending, Payers \ {x})
    BY <1>3, <2>1, SumTakesOut
  <2>7. SumFunctionOnSet(g, Payers) = g[x] + SumFunctionOnSet(g, Payers \ {x})
    BY <1>3, <2>1, SumTakesOut
  <2> QED BY <2>1, <2>4, <2>5, <2>6, <2>7
<1>5. SumFunctionOnSet(pending, Payers) \in Int
  BY <1>1, <1>3, SumIsInt
<1>6. paid + pending[x] + SumFunctionOnSet(g, Payers) = paid + SumFunctionOnSet(pending, Payers)
  BY <1>1, <1>2, <1>4, <1>5
<1>7. paid + pending[x] \in Nat
  BY <1>1
<1>8. paid + SumFunctionOnSet(pending, Payers) <= Cardinality(Payers) * e
  BY DEF Covers
<1>9. Covers(e, paid + pending[x], g)
  BY <1>2, <1>6, <1>7, <1>8 DEF Covers
<1> QED BY <1>9 DEF g

(* Whoever registers payouts, and whatever is refunded meanwhile, payouts  *)
(* stay covered.                                                           *)
LEMMA PayoutsKept ==
    ASSUME BooksAssumption, BaseInv, BaseInv', PayoutsCovered, [Next]_vars PROVE PayoutsCovered'
<1>1. /\ paidOut \in [Promoters \cup {"PRODUCER"} -> Int] /\ "PRODUCER" \notin Promoters
      /\ payer \in [Payers -> Payer]
  BY DEF BooksAssumption, BaseInv, Typed, BooksTyped, RequestsTyped
<1>2. \A p \in Promoters : EarnedEver(p) \in Nat /\ EarnedEver(p)' \in Nat /\ EarnedEver(p) <= EarnedEver(p)'
  <2> TAKE p \in Promoters
  <2>1. EarnedEver(p) \in Nat
    BY EarnedIsNat
  <2>2. EarnedEver(p) <= EarnedEver(p)' /\ EarnedEver(p)' \in Int
    BY EarnedGrows
  <2> QED BY <2>1, <2>2
<1> DEFINE Amounts == \A x \in Payers : payer[x].step # "idle" => payer[x].amount \in Nat
           Covered == (\A p \in Promoters : Covers(EarnedEver(p), paidOut'[p], Pending(p)')) /\ Amounts'
<1>3. Amounts /\ \A p \in Promoters : Covers(EarnedEver(p), paidOut[p], Pending(p))
  BY DEF PayoutsCovered
<1>4. ASSUME \A p \in Promoters : paidOut'[p] = paidOut[p], payer' = payer PROVE Covered
  BY <1>3, <1>4 DEF Pending
<1>5. ASSUME NEW amount \in PayoutAmounts, registerExternalPayout(amount) PROVE Covered
  <2>1. (\A p \in Promoters : paidOut'[p] = paidOut[p]) /\ payer' = payer
    BY <1>1, <1>5 DEF registerExternalPayout, staff
  <2> QED BY <1>4, <2>1
<1>6. ASSUME NEW x \in Payers, NEW q \in Promoters, openPayout(x, q) PROVE Covered
  <2>1. paidOut' = paidOut /\ owed(q) > 0
        /\ payer' = [payer EXCEPT ![x] = [step |-> "confirming", promoter |-> q, amount |-> owed(q)]]
        /\ payer[x].step = "idle"
    BY <1>6 DEF openPayout, book, NoRequest
  <2>2. owed(q) \in Nat
    <3>1. payable(q) \in Int /\ paidOut[q] \in Int
      BY <1>1, PayableWithin
    <3> QED BY <2>1, <3>1 DEF owed
  <2>3. Amounts'
    BY <1>1, <1>3, <2>1, <2>2
  <2>4. \A p \in Promoters : Pending(p)' = Pending(p)
    BY <1>1, <2>1 DEF Pending
  <2> QED BY <1>3, <2>1, <2>3, <2>4
<1>7. ASSUME NEW x \in Payers, registerPromoterPayout(x) PROVE Covered
  <2>1. paidOut' = paidOut /\ payer[x].step = "confirming"
    BY <1>7 DEF registerPromoterPayout, book
  <2>2. payer[x] \in [step : {"confirming", "appending"}, promoter : Promoters, amount : Int]
    BY <1>1, <2>1 DEF Payer, NoRequest
  <2> PICK q \in Promoters, n \in Nat : q = payer[x].promoter /\ n = payer[x].amount
    BY <1>3, <2>1, <2>2
  <2>3. CASE ~(n <= owed(q))
    <3>1. payer' = [payer EXCEPT ![x] = NoRequest]
      BY <1>7, <2>3 DEF registerPromoterPayout
    <3>2. Amounts' /\ \A p \in Promoters : Pending(p)' = Pending(p)
      BY <1>1, <1>3, <2>1, <3>1 DEF Pending, NoRequest
    <3> QED BY <1>3, <2>1, <3>2
  <2>4. CASE n <= owed(q)
    <3>1. payer' = [payer EXCEPT ![x] = [payer[x] EXCEPT !.step = "appending"]]
      BY <1>7, <2>4 DEF registerPromoterPayout
    <3>2. [payer[x] EXCEPT !.step = "appending"] = [step |-> "appending", promoter |-> q, amount |-> n]
      <4>1. payer[x] = [step |-> payer[x].step, promoter |-> q, amount |-> n]
        BY <2>2
      <4> PICK s : s = payer[x].step
        OBVIOUS
      <4>2. payer[x] = [step |-> s, promoter |-> q, amount |-> n]
        BY <4>1
      <4> QED BY <4>2
    <3>3. payer' = [payer EXCEPT ![x] = [step |-> "appending", promoter |-> q, amount |-> n]]
      BY <3>1, <3>2
    <3>4. Amounts' /\ \A p \in Promoters \ {q} : Pending(p)' = Pending(p)
      BY <1>1, <1>3, <2>1, <2>2, <3>3 DEF Pending
    <3>5. paidOut[q] + n <= EarnedEver(q)
      <4>1. payable(q) \in Int /\ EarnedEver(q) \in Int /\ payable(q) <= EarnedEver(q)
        BY PayableWithin
      <4>2. n <= payable(q) - paidOut[q] /\ paidOut[q] \in Int
        BY <1>1, <2>4 DEF owed
      <4> QED BY <4>1, <4>2
    <3>6. Pending(q)' = [Pending(q) EXCEPT ![x] = n]
      BY <1>1, <3>3 DEF Pending
    <3>7. Covers(EarnedEver(q), paidOut[q], [Pending(q) EXCEPT ![x] = n])
      BY <1>2, <1>3, <3>5, PayoutFits
    <3>8. Covers(EarnedEver(q), paidOut'[q], Pending(q)')
      BY <2>1, <3>6, <3>7
    <3> QED BY <1>3, <2>1, <3>4, <3>8
  <2> QED BY <2>3, <2>4
<1>8. ASSUME NEW x \in Payers, appendPayout(x) PROVE Covered
  <2>1. payer[x].step = "appending" /\ payer' = [payer EXCEPT ![x] = NoRequest]
        /\ paidOut' = [paidOut EXCEPT ![payer[x].promoter] = @ + payer[x].amount]
    BY <1>8 DEF appendPayout
  <2>2. payer[x] \in [step : {"confirming", "appending"}, promoter : Promoters, amount : Int]
    BY <1>1, <2>1 DEF Payer, NoRequest
  <2> PICK q \in Promoters, n \in Nat : q = payer[x].promoter /\ n = payer[x].amount
    BY <1>3, <2>1, <2>2
  <2>3. paidOut'[q] = paidOut[q] + n /\ \A p \in Promoters \ {q} : paidOut'[p] = paidOut[p]
    BY <1>1, <2>1
  <2>4. Amounts' /\ \A p \in Promoters \ {q} : Pending(p)' = Pending(p)
    BY <1>1, <1>3, <2>1 DEF Pending, NoRequest
  <2>5. Pending(q)[x] = n /\ Pending(q)' = [Pending(q) EXCEPT ![x] = 0]
    BY <1>1, <2>1 DEF Pending, NoRequest
  <2>6. Covers(EarnedEver(q), paidOut[q] + Pending(q)[x], [Pending(q) EXCEPT ![x] = 0])
    BY <1>2, <1>3, PayoutMoves
  <2>7. Covers(EarnedEver(q), paidOut'[q], Pending(q)')
    BY <2>3, <2>5, <2>6
  <2> QED BY <1>3, <2>3, <2>4, <2>7
<1>9. Covered
  <2>1. ASSUME <<redemptions, assigned, rules, fee, paidOut, payer, manager>>'
                 # <<redemptions, assigned, rules, fee, paidOut, payer, manager>>
        PROVE Covered
    <3>1. ASSUME NEW w \in Workers, tryIncrementRedemption(w) PROVE Covered
      BY <1>4, <3>1 DEF tryIncrementRedemption, book, staff
    <3>2. ASSUME \/ \E p \in Promoters : linkPromoterToEvent(p)
                 \/ \E f \in Fees : updateFee(f)
          PROVE Covered
      BY <1>4, <3>2 DEF linkPromoterToEvent, updateFee, book, staff
    <3>3. ASSUME NEW m \in Managers, createSuperseding(m) \/ \E r \in NewRules : createCommissionRule(m, r)
          PROVE Covered
      BY <1>4, <3>3 DEF createSuperseding, createCommissionRule, book
    <3> HIDE DEF Covered
    <3> QED BY <1>5, <1>6, <1>7, <1>8, <2>1, <3>1, <3>2, <3>3, StaffSteps
  <2> HIDE DEF Covered
  <2> QED BY <1>4, <2>1
<1>10. ASSUME NEW p \in Promoters PROVE Covers(EarnedEver(p)', paidOut'[p], Pending(p)')
  <2> PICK e, f, paid, g : e \in Nat /\ f \in Nat /\
         e = EarnedEver(p) /\ f = EarnedEver(p)' /\ paid = paidOut'[p] /\ g = Pending(p)'
    BY <1>2
  <2>1. e <= f /\ Covers(e, paid, g)
    BY <1>2, <1>9
  <2> QED BY <2>1, MoreEarned
<1> QED BY <1>9, <1>10 DEF PayoutsCovered, Covers

--------------------------------------------------------------------------------
(* Coupons.                                                                *)
LEMMA RulesOnlyGrow ==
    ASSUME BooksAssumption, Typed, RulesGrow, [Next]_vars
    PROVE RulesGrow' /\ (SameRules' => SameRules /\ rules' = rules)
<1>1. rules \in Seq(CommissionRule) /\ FirstRules \in Seq(CommissionRule)
  BY DEF Typed, OffersTyped, BooksAssumption
<1>2. CASE rules' = rules
  BY <1>2 DEF RulesGrow, SameRules
<1>3. ASSUME NEW m \in Managers, createSuperseding(m)
      PROVE Len(rules') > Len(FirstRules) /\ rules' # FirstRules
  <2> DEFINE past == [i \in DOMAIN rules |-> [rules[i] EXCEPT !.active = @ /\ i \notin manager[m].found]]
  <2>1. rules' = Append(past, manager[m].rule)
    BY <1>3 DEF createSuperseding
  <2>2. past \in Seq(Range(past)) /\ Len(past) = Len(rules)
    <3>1. DOMAIN past = 1..Len(rules) /\ Len(rules) \in Nat
      BY <1>1
    <3>2. past = [i \in 1..Len(rules) |-> past[i]]
      BY <3>1
    <3> HIDE DEF past
    <3>3. \A i \in 1..Len(rules) : past[i] \in Range(past)
      BY <3>1 DEF Range
    <3>4. past \in [1..Len(rules) -> Range(past)]
      BY <3>2, <3>3
    <3> QED BY <3>1, <3>4, LenProperties
  <2> HIDE DEF past
  <2>3. Len(rules') = Len(rules) + 1
    BY <2>1, <2>2
  <2>4. Len(rules) \in Nat /\ Len(FirstRules) \in Nat /\ Len(rules) >= Len(FirstRules)
    BY <1>1 DEF RulesGrow, SameRules
  <2>5. Len(rules') > Len(FirstRules)
    BY <2>3, <2>4
  <2> QED BY <2>4, <2>5
<1>4. rules' # rules => \E m \in Managers : createSuperseding(m)
  <2> SUFFICES ASSUME rules' # rules PROVE \E m \in Managers : createSuperseding(m)
    OBVIOUS
  <2>1. ASSUME \/ \E w \in Workers : tryIncrementRedemption(w)
               \/ \E p \in Promoters : linkPromoterToEvent(p)
               \/ \E f \in Fees : updateFee(f)
               \/ \E amount \in PayoutAmounts : registerExternalPayout(amount)
               \/ \E m \in Managers, r \in NewRules : createCommissionRule(m, r)
        PROVE rules' = rules
    BY <2>1 DEF tryIncrementRedemption, linkPromoterToEvent, updateFee, registerExternalPayout,
          createCommissionRule, offer
  <2>2. ASSUME NEW x \in Payers, \/ registerPromoterPayout(x) \/ appendPayout(x)
                                 \/ \E p \in Promoters : openPayout(x, p)
        PROVE rules' = rules
    BY <2>2 DEF registerPromoterPayout, appendPayout, openPayout, offer
  <2> QED BY <2>1, <2>2, StaffSteps
<1> QED BY <1>2, <1>3, <1>4 DEF RulesGrow, SameRules

(* What an order would earn is settled with its checkout.                  *)
LEMMA AccrualStays ==
    ASSUME Typed, [Next]_vars, rules' = rules, NEW o \in Orders, checkout[o] = "done"
    PROVE accrual(o)' = accrual(o) /\ attribution'[o] = attribution[o]
<1>1. /\ order'[o].subtotal = order[o].subtotal /\ order'[o].discount = order[o].discount
      /\ attribution'[o] = attribution[o]
  <2>1. CASE Same(o)
    BY <2>1 DEF Same, SameSale
  <2>2. ASSUME NEW w \in Workers, markOrderPaid(w, o) \/ settleRefund(w, o)
        PROVE /\ order'[o].subtotal = order[o].subtotal /\ order'[o].discount = order[o].discount
              /\ attribution'[o] = attribution[o]
    <3>1. \E s \in {"PAID", "REFUNDED"} : Moved(o, s)
      BY <2>2, OrderMoves
    <3> QED BY <3>1, MovedFields DEF Moved
  <2>3. ASSUME NEW w \in Workers, \/ createAccrual(w) \/ createSaleEntries(w) \/ createReversal(w)
                                  \/ reverseCommission(w)
        PROVE order' = order /\ attribution' = attribution
    BY <2>3 DEF createAccrual, createSaleEntries, createReversal, reverseCommission, sale
  <2>4. /\ \A i \in Inputs : ~createOrder(o, i.coupon, i.ref)
        /\ ~recordAttribution(o) /\ ~attributionFails(o)
    BY DEF createOrder, recordAttribution, attributionFails
  <2> QED BY <2>1, <2>2, <2>3, <2>4, OrderSteps
<1> QED BY <1>1 DEF accrual

(* An order is paid after its checkout.                                    *)
LEMMA PaidIsDone == ASSUME BaseInv, NEW o \in Orders, Paid(o) PROVE checkout[o] = "done"
BY DEF BaseInv, OrderInv, Ordered

(* How a request comes to count the coupon of an order.                    *)
LEMMA RedeemEntered ==
    ASSUME BaseInv, [Next]_vars, NEW w \in Workers, NEW o \in Orders,
           worker'[w].step = "redeem", worker'[w].order = o, worker'[w] # worker[w]
    PROVE /\ On(w) = o /\ Paid(o)
          /\ \/ accrueForPaidOrder(w) /\ accrual(o) = NoCommission
             \/ createAccrual(w) /\ earned(o) = NoCommission
<1>1. Typed /\ worker \in [Workers -> Worker] /\ WorkerInv(w)
  BY DEF BaseInv, Typed, RequestsTyped
<1>2. ASSUME NEW s, NEW q, NEW e, NEW rows, worker'[w] = Handler(s, q, e, rows) PROVE s = "redeem" /\ q = o
  BY <1>2 DEF Handler
<1>3. \A q \in Orders : ~markOrderPaid(w, q) /\ ~settleRefund(w, q) /\ ~settlementThrows(w, q)
  <2> SUFFICES ASSUME NEW q \in Orders,
                      markOrderPaid(w, q) \/ settleRefund(w, q) \/ settlementThrows(w, q)
               PROVE FALSE
    OBVIOUS
  <2>1. \E s \in {"accrue", "reverse", "unaccrue"} : worker'[w] = Busy(s, q)
    BY <1>1 DEF markOrderPaid, settleRefund, settlementThrows, start
  <2> QED BY <1>2, <2>1 DEF Busy
<1>4. \A s : Go(w, s) => s = "redeem" /\ On(w) = o
  BY <1>1, <1>2 DEF Go, Busy
<1>5. ~Done(w)
  BY <1>1, <1>2 DEF Done, Idle
<1>6. \A s, e, rows : Hold(w, s, e, rows) => s = "redeem"
  BY <1>1, <1>2 DEF Hold
<1>7. ~Fails(w)
  BY <1>4, <1>5 DEF Fails, Recovery
<1>8. Handle(w)
  BY <1>1, <1>3, <1>7, WorkerSteps
<1>9. \/ accrueForPaidOrder(w) /\ Go(w, "redeem") /\ accrual(On(w)) = NoCommission
      \/ createAccrual(w) /\ Go(w, "redeem") /\ earned(On(w)) = NoCommission
  BY <1>4, <1>5, <1>6, <1>8 DEF Handle, accrueForPaidOrder, createAccrual, tryIncrementRedemption,
      postForPaidOrder, createSaleEntries, reverseForOrder, createReversal, reverseCommission
<1>10. On(w) = o
  BY <1>4, <1>9
<1>11. worker[w].step # "idle"
  BY <1>9 DEF accrueForPaidOrder, createAccrual, At
<1> QED BY <1>1, <1>9, <1>10, <1>11 DEF WorkerInv, WorkerFits

(* A request that will accrue has found commission to accrue.              *)
LEMMA AccrualEntered ==
    ASSUME BaseInv, [Next]_vars, NEW w \in Workers, At(w, "accrue.create")', worker'[w] # worker[w]
    PROVE On(w) \in Orders /\ On(w)' = On(w) /\ Paid(On(w)) /\ Earns(On(w))
<1>1. Typed /\ worker \in [Workers -> Worker] /\ WorkerInv(w) /\ worker'[w].step = "accrue.create"
  BY DEF BaseInv, Typed, RequestsTyped, At
<1>2. ASSUME NEW s, NEW q, NEW e, NEW rows, worker'[w] = Handler(s, q, e, rows)
      PROVE s = "accrue.create" /\ worker'[w].order = q
  BY <1>1, <1>2 DEF Handler
<1>3. \A q \in Orders : ~markOrderPaid(w, q) /\ ~settleRefund(w, q) /\ ~settlementThrows(w, q)
  <2> SUFFICES ASSUME NEW q \in Orders,
                      markOrderPaid(w, q) \/ settleRefund(w, q) \/ settlementThrows(w, q)
               PROVE FALSE
    OBVIOUS
  <2>1. \E s \in {"accrue", "reverse", "unaccrue"} : worker'[w] = Busy(s, q)
    BY <1>1 DEF markOrderPaid, settleRefund, settlementThrows, start
  <2> QED BY <1>2, <2>1 DEF Busy
<1>4. \A s : Go(w, s) => s = "accrue.create"
  BY <1>1, <1>2 DEF Go, Busy
<1>5. ~Done(w)
  BY <1>1, <1>2 DEF Done, Idle
<1>6. \A s, e, rows : Hold(w, s, e, rows) => s = "accrue.create" /\ On(w)' = On(w)
  BY <1>1, <1>2 DEF Hold, On
<1>7. ~Fails(w)
  BY <1>4, <1>5 DEF Fails, Recovery
<1>8. Handle(w)
  BY <1>1, <1>3, <1>7, WorkerSteps
<1>9. accrueForPaidOrder(w) /\ accrual(On(w)) # NoCommission /\ On(w)' = On(w)
  BY <1>4, <1>5, <1>6, <1>8 DEF Handle, accrueForPaidOrder, createAccrual, tryIncrementRedemption,
      postForPaidOrder, createSaleEntries, reverseForOrder, createReversal, reverseCommission
<1>10. worker[w].step # "idle"
  BY <1>9 DEF accrueForPaidOrder, At
<1> QED BY <1>1, <1>9, <1>10 DEF WorkerInv, WorkerFits, Earns

(* While the rules stay, an order earns what it earned before.             *)
LEMMA EarnsSameKept ==
    ASSUME BooksAssumption, BaseInv, BaseInv', RulesGrow, EarnsSame, [Next]_vars PROVE EarnsSame'
<1> SUFFICES ASSUME SameRules' PROVE
        /\ \A o \in Orders : earned(o)' # NoCommission => Earns(o)'
        /\ \A w \in Workers : At(w, "accrue.create")' => Earns(On(w))'
        /\ \A w \in Workers : At(w, "redeem")' /\ Earns(On(w))' =>
              /\ earned(On(w))' # NoCommission
              /\ \A x \in Workers : At(x, "redeem")' /\ On(x)' = On(w)' => x = w
  BY DEF EarnsSame
<1>1. Typed /\ (\A w \in Workers : WorkerInv(w) /\ WorkerInv(w)') /\ SameRules /\ rules' = rules
  BY RulesOnlyGrow DEF BaseInv
<1>2. ASSUME NEW o \in Orders, Paid(o) PROVE Earns(o)' <=> Earns(o)
  BY <1>1, <1>2, PaidIsDone, AccrualStays DEF Earns
<1>3. /\ \A o \in Orders : earned(o) # NoCommission => Earns(o)
      /\ \A w \in Workers : At(w, "accrue.create") => Earns(On(w))
      /\ \A w \in Workers : At(w, "redeem") /\ Earns(On(w)) =>
            /\ earned(On(w)) # NoCommission
            /\ \A x \in Workers : At(x, "redeem") /\ On(x) = On(w) => x = w
  BY <1>1 DEF EarnsSame
<1>4. ASSUME NEW w \in Workers, worker[w].step # "idle" PROVE On(w) \in Orders /\ Paid(On(w))
  BY <1>1, <1>4 DEF WorkerInv, WorkerFits
<1>5. ASSUME NEW o \in Orders, earned(o)' # NoCommission PROVE Earns(o)'
  <2>1. CASE earned(o) # NoCommission
    BY <1>2, <1>3, <2>1, AccruedStays
  <2>2. CASE earned(o) = NoCommission
    <3>1. PICK w \in Workers : On(w) = o /\ createAccrual(w)
      <4>1. Same(o) => earned(o)' = earned(o)
        BY DEF Same, SameBooks, earned
      <4>2. ASSUME NEW w \in Workers, On(w) = o, \/ createSaleEntries(w) \/ createReversal(w)
                                                 \/ reverseCommission(w)
            PROVE earned(o)' = earned(o)
        BY <1>1, <4>2, PostingLeaves, OrderUnaccrued DEF earned, BaseInv
      <4>3. ASSUME \/ \E i \in Inputs : createOrder(o, i.coupon, i.ref)
                   \/ recordAttribution(o) \/ attributionFails(o)
                   \/ \E w \in Workers : markOrderPaid(w, o) \/ settleRefund(w, o)
            PROVE earned(o)' = earned(o)
        BY <4>3 DEF createOrder, recordAttribution, attributionFails, markOrderPaid, settleRefund, book,
              earned
      <4> QED BY <1>1, <1>5, <2>2, <4>1, <4>2, <4>3, OrderSteps
    <3>2. At(w, "accrue.create")
      BY <3>1 DEF createAccrual
    <3> QED BY <1>2, <1>3, <1>4, <3>1, <3>2 DEF At
  <2> QED BY <2>1, <2>2
<1>6. ASSUME NEW w \in Workers, At(w, "accrue.create")' PROVE Earns(On(w))'
  <2> PICK o \in Orders : On(w) = o /\ On(w)' = o /\ Paid(o) /\ Earns(o)
    <3>1. CASE worker'[w] = worker[w]
      BY <1>3, <1>4, <1>6, <3>1 DEF At, On
    <3>2. CASE worker'[w] # worker[w]
      BY <1>6, <3>2, AccrualEntered
    <3> QED BY <3>1, <3>2
  <2>1. Earns(o)'
    BY <1>2
  <2> QED BY <2>1 DEF Earns, accrual
<1>7. ASSUME NEW w \in Workers, NEW o \in Orders, worker'[w].step = "redeem", worker'[w].order = o,
             Earns(o)'
      PROVE earned(o)' # NoCommission /\ (earned(o) # NoCommission => worker'[w] = worker[w])
  <2>1. CASE worker'[w] = worker[w]
    <3>1. At(w, "redeem") /\ On(w) = o /\ Earns(o)
      BY <1>2, <1>4, <1>7, <2>1 DEF At, On
    <3> QED BY <1>3, <2>1, <3>1, AccruedStays
  <2>2. CASE worker'[w] # worker[w]
    <3>1. Paid(o) /\ On(w) = o /\ (\/ accrueForPaidOrder(w) /\ accrual(o) = NoCommission
                                   \/ createAccrual(w) /\ earned(o) = NoCommission)
      BY <1>7, <2>2, RedeemEntered
    <3>2. createAccrual(w) /\ earned(o) = NoCommission
      BY <1>2, <1>7, <3>1 DEF Earns
    <3>3. earned(o)' = worker[w].earned /\ worker[w].earned # NoCommission
      BY <1>1, <3>1, <3>2 DEF createAccrual, earned, Typed, BooksTyped, WorkerInv, AccrualHeld
    <3> QED BY <3>2, <3>3
  <2> QED BY <2>1, <2>2
<1>8. ASSUME NEW w \in Workers, NEW x \in Workers, NEW o \in Orders, Earns(o)',
             worker'[w].step = "redeem", worker'[w].order = o,
             worker'[x].step = "redeem", worker'[x].order = o
      PROVE x = w
  <2>1. ASSUME NEW y \in Workers, worker'[y] = worker[y], worker'[y].step = "redeem",
               worker'[y].order = o
        PROVE At(y, "redeem") /\ On(y) = o /\ Earns(o) /\ earned(o) # NoCommission
              /\ \A z \in Workers : At(z, "redeem") /\ On(z) = o => z = y
    <3>1. At(y, "redeem") /\ On(y) = o /\ Earns(o)
      BY <1>2, <1>4, <1>8, <2>1 DEF At, On
    <3> QED BY <1>3, <3>1
  <2>2. CASE worker'[w] = worker[w]
    <3>1. worker'[x] = worker[x]
      BY <1>7, <1>8, <2>1, <2>2
    <3> QED BY <1>8, <2>1, <2>2, <3>1
  <2>3. CASE worker'[x] = worker[x]
    <3>1. worker'[w] = worker[w]
      BY <1>7, <1>8, <2>1, <2>3
    <3> QED BY <1>8, <2>1, <2>2, <3>1
  <2>4. CASE worker'[w] # worker[w] /\ worker'[x] # worker[x]
    <3>1. \A y \in {w, x} : createAccrual(y) \/ accrueForPaidOrder(y)
      BY <1>8, <2>4, RedeemEntered
    <3>2. \A y \in {w, x} : \E s, e, rows : worker' = [worker EXCEPT ![y] = Handler(s, On(y), e, rows)]
      BY <3>1 DEF createAccrual, accrueForPaidOrder, Go, Hold, Busy
    <3> QED BY <1>1, <2>4, <3>2 DEF Typed, RequestsTyped
  <2> QED BY <2>2, <2>3, <2>4
<1>9. ASSUME NEW w \in Workers, At(w, "redeem")', Earns(On(w))'
      PROVE /\ earned(On(w))' # NoCommission
            /\ \A x \in Workers : At(x, "redeem")' /\ On(x)' = On(w)' => x = w
  <2> PICK o \in Orders : o = On(w)'
    BY <1>1, <1>9 DEF WorkerInv, WorkerFits, At, On
  <2>1. worker'[w].step = "redeem" /\ worker'[w].order = o
    BY <1>9 DEF At, On
  <2>2. Earns(o)'
    BY <1>9 DEF Earns, accrual
  <2>3. earned(o)' # NoCommission
    BY <1>7, <2>1, <2>2
  <2>4. earned(On(w))' = earned(o)'
    BY DEF earned
  <2> QED BY <1>8, <2>1, <2>2, <2>3, <2>4 DEF At, On
<1> QED BY <1>5, <1>6, <1>9

(* Only the count of a redemption changes a coupon's, and then by one.     *)
LEMMA RedemptionCounted ==
    ASSUME Typed, [Next]_vars, NEW c \in Coupons, redemptions'[c] # redemptions[c]
    PROVE \E w \in Workers :
            /\ tryIncrementRedemption(w) /\ attribution[On(w)].coupon = c /\ ~exhausted(c)
            /\ redemptions'[c] = redemptions[c] + 1
<1>1. redemptions' # redemptions
  OBVIOUS
<1>2. ASSUME \/ \E p \in Promoters : linkPromoterToEvent(p)
             \/ \E f \in Fees : updateFee(f)
             \/ \E amount \in PayoutAmounts : registerExternalPayout(amount)
             \/ \E m \in Managers : createSuperseding(m) \/ \E r \in NewRules : createCommissionRule(m, r)
      PROVE redemptions' = redemptions
  BY <1>2 DEF linkPromoterToEvent, updateFee, registerExternalPayout, createSuperseding,
      createCommissionRule, offer
<1>3. ASSUME NEW x \in Payers, \/ registerPromoterPayout(x) \/ appendPayout(x)
                               \/ \E p \in Promoters : openPayout(x, p)
      PROVE redemptions' = redemptions
  BY <1>3 DEF registerPromoterPayout, appendPayout, openPayout, offer
<1>4. PICK w \in Workers : tryIncrementRedemption(w)
  BY <1>1, <1>2, <1>3, StaffSteps
<1>5. redemptions \in [Coupons -> Nat]
  BY DEF Typed, OffersTyped
<1>6. attribution[On(w)].coupon = c /\ ~exhausted(c) /\ redemptions'[c] = redemptions[c] + 1
  BY <1>4, <1>5 DEF tryIncrementRedemption
<1> QED BY <1>4, <1>6

(* A coupon at its limit is not counted again.                             *)
LEMMA WithinKept == ASSUME BooksAssumption, Typed, Within, [Next]_vars PROVE Within'
<1> SUFFICES ASSUME NEW c \in Coupons, CouponOf[c].max # 0
             PROVE redemptions'[c] <= CouponOf[c].max
  BY DEF Within
<1>1. redemptions[c] \in Nat /\ CouponOf[c].max \in Nat /\ redemptions[c] <= CouponOf[c].max
  BY DEF Typed, OffersTyped, BooksAssumption, Coupon, Within
<1>2. redemptions'[c] = redemptions[c]
      \/ (redemptions'[c] = redemptions[c] + 1 /\ ~exhausted(c))
  BY RedemptionCounted
<1> QED BY <1>1, <1>2 DEF exhausted

(* An order that carries a coupon carries it for good.                     *)
LEMMA CarriersStay ==
    ASSUME BooksAssumption, BaseInv, [Next]_vars, rules' = rules, NEW c \in Coupons,
           NEW o \in CarriersOf(c)
    PROVE o \in CarriersOf(c)' /\ accrual(o)' = accrual(o)
<1>1. o \in Orders /\ attribution[o].coupon = c /\ c # "none"
  BY DEF CarriersOf, BooksAssumption
<1>2. checkout[o] = "done"
  <2>1. attribution[o] # NoAttribution
    BY <1>1 DEF NoAttribution
  <2> QED BY <1>1, <2>1 DEF BaseInv, OrderInv, Ordered
<1> QED BY <1>1, <1>2, AccrualStays DEF CarriersOf, BaseInv

(* An order counted for its coupon stays so, and is not counted again.     *)
LEMMA CountedStays ==
    ASSUME BooksAssumption, BaseInv, [Next]_vars, rules' = rules, NEW c \in Coupons,
           NEW o \in CountedFor(c), Earns(o)
    PROVE o \in CountedFor(c)'
<1>1. o \in Orders /\ o \in CarriersOf(c) /\ earned(o) # NoCommission /\ ~Doing(o, {"redeem"})
  BY DEF CountedFor, CarriersOf
<1>2. o \in CarriersOf(c)' /\ earned(o)' # NoCommission
  BY <1>1, CarriersStay, AccruedStays
<1>3. ASSUME NEW w \in Workers, worker'[w].order = o, worker'[w].step = "redeem" PROVE FALSE
  <2>1. worker'[w] # worker[w]
    BY <1>1, <1>3 DEF Doing, On
  <2> QED BY <1>1, <1>3, <2>1, RedeemEntered DEF Earns
<1>4. ~Doing(o, {"redeem"})'
  BY <1>3 DEF Doing, On
<1> QED BY <1>2, <1>4 DEF CountedFor

(* The coupon of an order is counted by the one request that made the      *)
(* accrual.                                                                *)
LEMMA CountedOnce ==
    ASSUME BaseInv, EarnsSame, SameRules, [Next]_vars, rules' = rules, NEW c \in Coupons,
           NEW w \in Workers, tryIncrementRedemption(w), On(w) \in CarriersOf(c), Earns(On(w))
    PROVE On(w) \notin CountedFor(c) /\ On(w) \in CountedFor(c)'
<1> PICK o \in Orders : o = On(w)
  BY DEF CarriersOf
<1>1. worker \in [Workers -> Worker] /\ worker[w].step = "redeem" /\ worker[w].order = o
  BY DEF BaseInv, Typed, RequestsTyped, tryIncrementRedemption, At, On
<1>2. earned(o) # NoCommission /\ \A x \in Workers : At(x, "redeem") /\ On(x) = o => x = w
  BY <1>1 DEF EarnsSame, At, On
<1>3. o \notin CountedFor(c)
  BY <1>1 DEF CountedFor, Doing, On
<1>4. attribution' = attribution /\ commission' = commission /\ Go(w, "post")
  BY DEF tryIncrementRedemption, sale, book
<1>5. worker'[w].step = "post" /\ \A x \in Workers \ {w} : worker'[x] = worker[x]
  BY <1>1, <1>4 DEF Go, Busy, Handler
<1>6. ~Doing(o, {"redeem"})'
  BY <1>2, <1>5 DEF Doing, At, On
<1>7. o \in CarriersOf(c)' /\ earned(o)' # NoCommission
  BY <1>2, <1>4 DEF CarriersOf, earned
<1> QED BY <1>3, <1>6, <1>7 DEF CountedFor

(* While the rules stay, a coupon is counted once for an order.            *)
LEMMA CountsOnceKept ==
    ASSUME BooksAssumption, BaseInv, RulesGrow, EarnsSame, CountsOnce, [Next]_vars
    PROVE CountsOnce'
<1> SUFFICES ASSUME SameRules', NEW c \in Coupons, \A o \in CarriersOf(c)' : Earns(o)'
             PROVE redemptions'[c] <= Cardinality(CountedFor(c)')
  BY DEF CountsOnce
<1>1. Typed /\ SameRules /\ rules' = rules
  BY RulesOnlyGrow DEF BaseInv
<1>2. \A o \in CarriersOf(c) : Earns(o)
  BY <1>1, CarriersStay DEF Earns
<1> PICK A, B : A = CountedFor(c) /\ B = CountedFor(c)'
  OBVIOUS
<1>3. A \subseteq Orders /\ B \subseteq Orders /\ IsFiniteSet(Orders)
  BY DEF CountedFor, CarriersOf, BooksAssumption
<1>4. A \subseteq B
  BY <1>1, <1>2, CountedStays DEF CountedFor
<1>5. IsFiniteSet(A) /\ IsFiniteSet(B)
  BY <1>3, FS_Subset
<1>6. Cardinality(A) \in Nat /\ Cardinality(B) \in Nat /\ Cardinality(A) <= Cardinality(B)
  BY <1>4, <1>5, FS_Subset, FS_CardinalityType
<1>7. redemptions[c] \in Nat /\ redemptions[c] <= Cardinality(A)
  BY <1>1, <1>2 DEF CountsOnce, Typed, OffersTyped
<1>8. CASE redemptions'[c] = redemptions[c]
  BY <1>6, <1>7, <1>8
<1>9. CASE redemptions'[c] # redemptions[c]
  <2>1. PICK w \in Workers : /\ tryIncrementRedemption(w) /\ attribution[On(w)].coupon = c
                             /\ redemptions'[c] = redemptions[c] + 1
    BY <1>1, <1>9, RedemptionCounted
  <2> PICK o \in Orders : o = On(w)
    BY <2>1, IdleTyped DEF BaseInv, WorkerInv, WorkerFits, tryIncrementRedemption, At
  <2>2. o \in CarriersOf(c)
    BY <2>1 DEF CarriersOf
  <2>3. o \notin A /\ o \in B
    BY <1>1, <1>2, <2>1, <2>2, CountedOnce
  <2>4. Cardinality(A \cup {o}) = Cardinality(A) + 1
    BY <1>5, <2>3, FS_AddElement
  <2>5. Cardinality(A \cup {o}) <= Cardinality(B)
    BY <1>4, <1>5, <2>3, FS_Subset
  <2> QED BY <1>6, <1>7, <2>1, <2>4, <2>5
<1> QED BY <1>8, <1>9

(* Every step keeps what is known of coupons.                              *)
LEMMA CouponKept ==
    ASSUME BooksAssumption, BaseInv, BaseInv', CouponInv, [Next]_vars PROVE CouponInv'
<1>1. Within'
  BY WithinKept DEF CouponInv, BaseInv
<1>2. RulesGrow'
  BY RulesOnlyGrow DEF CouponInv, BaseInv
<1>3. EarnsSame'
  BY EarnsSameKept DEF CouponInv
<1>4. CountsOnce'
  BY CountsOnceKept DEF CouponInv
<1> QED BY <1>1, <1>2, <1>3, <1>4 DEF CouponInv

(* No coupon was counted at the start.                                     *)
LEMMA CouponStarts == BooksAssumption /\ Init => CouponInv
<1> SUFFICES ASSUME BooksAssumption, Init PROVE CouponInv
  OBVIOUS
<1>1. Within
  BY DEF Within, Init, BooksAssumption, Coupon
<1>2. RulesGrow
  BY DEF RulesGrow, SameRules, Init
<1>3. EarnsSame
  <2>1. \A o \in Orders : earned(o) = NoCommission
    BY DEF Init, earned
  <2>2. \A w \in Workers : ~At(w, "accrue.create") /\ ~At(w, "redeem")
    BY IdleTyped DEF Init, At
  <2> QED BY <2>1, <2>2 DEF EarnsSame
<1>4. CountsOnce
  <2>1. \A c \in Coupons : redemptions[c] = 0
    BY DEF Init
  <2>2. \A c \in Coupons : Cardinality(CountedFor(c)) \in Nat
    <3>1. \A c \in Coupons : CountedFor(c) \in SUBSET Orders
      BY DEF CountedFor, CarriersOf
    <3>2. \A A \in SUBSET Orders : Cardinality(A) \in Nat
      BY FS_Subset, FS_CardinalityType DEF BooksAssumption
    <3> QED BY <3>1, <3>2
  <2> QED BY <2>1, <2>2 DEF CountsOnce
<1> QED BY <1>1, <1>2, <1>3, <1>4 DEF CouponInv

(* What a coupon was counted for is at most the orders that carry it.      *)
LEMMA CouponCounts == BooksAssumption /\ BaseInv /\ CouponInv => CouponWithinLimit
<1> SUFFICES ASSUME BooksAssumption, BaseInv, CouponInv, NEW c \in Coupons
             PROVE /\ CouponOf[c].max # 0 => redemptions[c] <= CouponOf[c].max
                   /\ rules = FirstRules /\ (\A o \in CarriersOf(c) : earned(o) # NoCommission)
                        => redemptions[c] <= Cardinality(CarriersOf(c))
  BY DEF CouponWithinLimit, CarriersOf
<1>1. CouponOf[c].max # 0 => redemptions[c] <= CouponOf[c].max
  BY DEF CouponInv, Within
<1>2. ASSUME SameRules, \A o \in CarriersOf(c) : earned(o) # NoCommission
      PROVE redemptions[c] <= Cardinality(CarriersOf(c))
  <2>1. \A o \in CarriersOf(c) : Earns(o)
    BY <1>2 DEF CouponInv, EarnsSame, CarriersOf
  <2>2. redemptions[c] <= Cardinality(CountedFor(c)) /\ redemptions[c] \in Nat
    BY <1>2, <2>1 DEF CouponInv, CountsOnce, BaseInv, Typed, OffersTyped
  <2>3. CarriersOf(c) \subseteq Orders /\ CountedFor(c) \subseteq CarriersOf(c)
    BY DEF CarriersOf, CountedFor
  <2>4. IsFiniteSet(CarriersOf(c))
    BY <2>3, FS_Subset DEF BooksAssumption
  <2>5. IsFiniteSet(CountedFor(c)) /\ Cardinality(CountedFor(c)) <= Cardinality(CarriersOf(c))
    BY <2>3, <2>4, FS_Subset
  <2>6. Cardinality(CountedFor(c)) \in Nat /\ Cardinality(CarriersOf(c)) \in Nat
    BY <2>4, <2>5, FS_CardinalityType
  <2> QED BY <2>2, <2>5, <2>6
<1> QED BY <1>1, <1>2 DEF SameRules

(* Nothing was paid out at the start.                                      *)
LEMMA PayoutsStart == BooksAssumption /\ BaseInv /\ Init => PayoutsCovered
<1> SUFFICES ASSUME BooksAssumption, BaseInv, Init PROVE PayoutsCovered
  OBVIOUS
<1>1. IsFiniteSet(Payers) /\ Cardinality(Payers) \in Nat
  BY FS_CardinalityType DEF BooksAssumption
<1>2. ASSUME NEW p \in Promoters PROVE Covers(EarnedEver(p), paidOut[p], Pending(p))
  <2>1. paidOut[p] = 0 /\ Pending(p) \in [Payers -> Nat] /\ \A x \in Payers : Pending(p)[x] = 0
    BY <1>2 DEF Init, Pending, NoRequest
  <2>2. SumFunctionOnSet(Pending(p), Payers) = 0
    BY <1>1, <2>1, SumOfZeros
  <2>3. EarnedEver(p) \in Nat
    BY EarnedIsNat
  <2>4. \A m \in Nat, n \in Nat : m * n >= 0
    OBVIOUS
  <2>5. 0 <= Cardinality(Payers) * EarnedEver(p)
    BY <1>1, <2>3, <2>4
  <2> QED BY <2>1, <2>2, <2>3, <2>5 DEF Covers
<1>3. \A x \in Payers : payer[x].step = "idle"
  BY DEF Init, NoRequest
<1> QED BY <1>2, <1>3 DEF PayoutsCovered

--------------------------------------------------------------------------------
(* Theorems.                                                               *)

(* The inductive invariant holds in every state of the books.              *)
THEOREM Invariance == Spec => []Inv
<1>1. Init => Inv
  BY BooksAssumption, BaseStarts, FlowStarts, CouponStarts, PayoutsStart DEF Inv
<1>2. Inv /\ [Next]_vars => Inv'
  <2> SUFFICES ASSUME Inv, [Next]_vars PROVE Inv'
    OBVIOUS
  <2>1. BaseInv /\ BaseInv'
    BY BooksAssumption, BaseKept DEF Inv
  <2>2. FlowInv'
    BY <2>1, FlowKept DEF Inv
  <2>3. CouponInv'
    BY BooksAssumption, <2>1, CouponKept DEF Inv
  <2>4. PayoutsCovered'
    BY BooksAssumption, <2>1, PayoutsKept DEF Inv
  <2> QED BY <2>1, <2>2, <2>3, <2>4 DEF Inv
<1> QED BY <1>1, <1>2, PTL DEF Spec

(* Amounts, attributions, entries, commission and coupons are what their   *)
(* columns allow; in particular no discount or commission is negative      *)
(* (promoters/service.ts, orders/service.ts).                              *)
THEOREM TypesHold == Spec => []TypeOK
<1>1. Inv => TypeOK
  BY BooksAssumption, BaseTypesHold DEF Inv
<1> QED BY <1>1, Invariance, PTL

(* Every cent of a sale is somebody's, and the event's summary adds up,    *)
(* for any prices, fees, coupons and rules (finance/service.ts             *)
(* postForPaidOrder, reverseForOrder, computeEventSummary).                *)
THEOREM CentsAccountedFor == Spec => []MoneyConserved
<1>1. Inv => MoneyConserved
  BY BooksAssumption, BaseConserves DEF Inv
<1> QED BY <1>1, Invariance, PTL

(* The ledger credits a promoter with the commission accrued to it, and    *)
(* without failures its report and its payable agree at rest (promoters    *)
(* accrueForPaidOrder, buildReport; finance postForPaidOrder).             *)
THEOREM CommissionInBothBooks == Spec => []LedgerMatchesCommission
<1>1. Inv => LedgerMatchesCommission
  BY BooksAssumption, FlowMatches DEF Inv
<1> QED BY <1>1, Invariance, PTL

(* A refund that met neither a fulfilment nor a failure leaves every       *)
(* account and the commission of its order at zero (finance/service.ts     *)
(* reverseForOrder, promoters reverseForRefundedOrder).                    *)
THEOREM RefundsUndoSales == Spec => []RefundNetsToZero
<1>1. Inv => RefundNetsToZero
  BY BooksAssumption, FlowSettles DEF Inv
<1> QED BY <1>1, Invariance, PTL

(* A coupon is never counted beyond its limit, nor twice for an order that *)
(* earns commission (promoters/service.ts accrueForPaidOrder,              *)
(* tryIncrementRedemption).                                                *)
THEOREM CouponsCountedOnce == Spec => []CouponWithinLimit
<1>1. Inv => CouponWithinLimit
  BY BooksAssumption, CouponCounts DEF Inv
<1> QED BY <1>1, Invariance, PTL

(* However many people register payouts at once, each pays a promoter at   *)
(* most the commission it ever earned; one person alone never pays more    *)
(* than that (finance/service.ts registerPromoterPayout).                  *)
THEOREM PayoutsBounded == Spec => []PaidOutWithinEarned
<1>1. ASSUME Inv PROVE PaidOutWithinEarned
  <2> SUFFICES ASSUME NEW p \in Promoters PROVE paidOut[p] <= Cardinality(Payers) * EarnedEver(p)
    BY DEF PaidOutWithinEarned, EarnedEver
  <2> PICK e, paid, f : e = EarnedEver(p) /\ paid = paidOut[p] /\ f = Pending(p)
    OBVIOUS
  <2>1. Covers(e, paid, f) /\ e \in Nat
    BY <1>1, BooksAssumption, EarnedIsNat DEF Inv, PayoutsCovered
  <2>2. IsFiniteSet(Payers) /\ Cardinality(Payers) \in Nat
    BY BooksAssumption, FS_CardinalityType DEF BooksAssumption
  <2>3. SumFunctionOnSet(f, Payers) \in Nat
    BY <2>1, <2>2, SumIsNat DEF Covers
  <2>4. Cardinality(Payers) * e \in Int
    BY <2>1, <2>2
  <2>5. paid <= Cardinality(Payers) * e
    BY <2>1, <2>3, <2>4 DEF Covers
  <2> QED BY <2>5
<1> QED BY <1>1, Invariance, PTL

================================================================================
