--------------------------------- MODULE Books ---------------------------------
(***************************************************************************)
(* The money of an event's sales: prices and coupons at checkout,          *)
(* attribution to promoters, commission and ledger entries when an order   *)
(* is paid or refunded, and payouts to promoters (packages/core promoters, *)
(* finance and orders, composed by the fulfiller and the refund            *)
(* coordinator of apps/web/src/lib/services.ts).                           *)
(*                                                                         *)
(* A worker handles one notification of the provider, one statement a      *)
(* step; a payer and a manager are staff with a request in flight.         *)
(***************************************************************************)
EXTENDS Pricing, FiniteSets

CONSTANTS
    Orders, Promoters, Coupons, Tickets,
    Cart,         \* per order: [units: sequence of [ticket, price], products: cents]
    CouponOf,     \* per coupon: [kind, value, promoter, max], max 0 for no limit
    Inputs,       \* what buyers send with an order: [coupon, ref], "none" for neither
    FirstFee,     \* the fee setting of the event when it opens
    Fees,         \* the fee settings an administrator chooses from: [bps, mode]
    FirstRules,   \* the commission rules at the start
    NewRules,     \* rules a manager may add
    Workers, Payers, Managers,
    PayoutAmounts,\* amounts an administrator registers as paid to the producer
    MaxChanges,   \* bound: changes of rules, fee, team and offers
    MaxPayouts,   \* bound: payouts asked for
    MaxDeliveries,\* bound: notifications handled
    MaxFaults     \* bound: calls that fail and requests that stop

(* A fee setting, a commission rule and a coupon, as their schemas have it. *)
Fee == [bps : 0..Bps, mode : {"BUYER", "PRODUCER"}]
CommissionRule ==
    [promoter : Promoters \cup {"any"}, ticket : Tickets \cup {"any"},
     scope : {"event", "organization"}, kind : {"PERCENT", "FIXED"}, value : Nat,
     base : {"NOMINAL", "AFTER_DISCOUNT"}, active : BOOLEAN]
Coupon ==
    [kind : {"PERCENT", "FIXED"}, value : Nat, promoter : Promoters \cup {"none"}, max : Nat]

ASSUME BooksAssumption ==
    /\ MaxChanges \in Nat /\ MaxPayouts \in Nat
    /\ MaxDeliveries \in Nat /\ MaxFaults \in Nat
    /\ IsFiniteSet(Orders) /\ IsFiniteSet(Promoters) /\ IsFiniteSet(Payers)
    /\ "none" \notin Orders \cup Promoters \cup Coupons /\ "PRODUCER" \notin Promoters
    /\ Cart \in [Orders -> [units : Seq([ticket : Tickets, price : Nat]), products : Nat]]
    /\ CouponOf \in [Coupons -> Coupon]
    /\ Inputs \subseteq [coupon : Coupons \cup {"none"}, ref : Promoters \cup {"none"}]
    /\ FirstFee \in Fee /\ Fees \subseteq Fee
    /\ FirstRules \in Seq(CommissionRule) /\ NewRules \subseteq CommissionRule
    /\ PayoutAmounts \subseteq Nat

VARIABLES
    order,       \* Order: status and amounts; "none" before the checkout
    checkout,    \* per order, how far its checkout is
    attribution, \* OrderAttribution: promoter and coupon
    redemptions, \* Coupon.redemptions
    lapsed,      \* coupons whose window has ended
    assigned,    \* promoters with an active PromoterAssignment
    rules,       \* CommissionRule rows, oldest first
    fee,         \* Event.platformFeeBps and feeMode
    commission,  \* per order, its CommissionEntry rows: unique per order and type
    ledger,      \* per order, its LedgerEntry rows: unique per order, account and type
    paidOut,     \* the sum of the PAYOUT entries of each promoter and of "PRODUCER"
    worker, payer, manager,
    count,       \* what the bounds count
    overlap,     \* orders whose refund met a fulfilment in progress
    failed       \* orders of which a call of a refund failed

sale == <<order, checkout, attribution>>
offer == <<redemptions, lapsed, assigned, rules, fee>>
book == <<commission, ledger, paidOut>>
staff == <<payer, manager>>
trouble == <<overlap, failed>>
vars == <<sale, offer, book, worker, staff, count, trouble>>

NoOrder == [status |-> "none", ref |-> "none", coupon |-> "none", subtotal |-> 0,
            discount |-> 0, fee |-> 0, mode |-> "PRODUCER", total |-> 0]
NoAttribution == [promoter |-> "none", coupon |-> "none"]

Accounts == {"PRODUCER", "PLATFORM", "PROMOTER"}
EntryTypes == {"SALE", "DISCOUNT", "FEE", "COMMISSION", "REFUND"}
Keys == Accounts \X EntryTypes

(* A row of the ledger, and of an order's commission.  Neither table keeps *)
(* rows of 0 cents, a sale of nothing aside, and that row adds nothing.    *)
Row(promoter, amount) == [promoter |-> promoter, amount |-> amount]
NoRow == Row("none", 0)
NoRows == [k \in Keys |-> NoRow]
NoCommission == [promoter |-> "none", base |-> 0, amount |-> 0]

(* A worker: where its handler is, with the commission or rows it will write. *)
Handler(step, o, e, rows) == [step |-> step, order |-> o, earned |-> e, rows |-> rows]
Idle == Handler("idle", "none", NoCommission, NoRows)
NoRequest == [step |-> "idle"]

entry(o, account, type) == ledger[o][<<account, type>>]
Balance(o, account) ==
    LET of(type) == entry(o, account, type).amount
    IN of("SALE") + of("DISCOUNT") + of("FEE") + of("COMMISSION") + of("REFUND")

Init ==
    /\ order = [o \in Orders |-> NoOrder]
    /\ checkout = [o \in Orders |-> "none"]
    /\ attribution = [o \in Orders |-> NoAttribution]
    /\ redemptions = [c \in Coupons |-> 0]
    /\ lapsed = {}
    /\ assigned \in SUBSET Promoters
    /\ rules = FirstRules
    /\ fee = FirstFee
    /\ commission = [o \in Orders |-> [ACCRUAL |-> NoCommission, REVERSAL |-> NoCommission]]
    /\ ledger = [o \in Orders |-> NoRows]
    /\ paidOut = [p \in Promoters \cup {"PRODUCER"} |-> 0]
    /\ worker = [w \in Workers |-> Idle]
    /\ payer = [p \in Payers |-> NoRequest]
    /\ manager = [m \in Managers |-> NoRequest]
    /\ count = [changes |-> 0, payouts |-> 0, faults |-> 0, deliveries |-> 0]
    /\ overlap = {} /\ failed = {}

(***************************************************************************)
(* Checkout                                                                *)
(***************************************************************************)

exhausted(c) == CouponOf[c].max # 0 /\ redemptions[c] >= CouponOf[c].max
validateCoupon(c) == c \notin lapsed /\ ~exhausted(c)

ticketSubtotal(o) == Total(Cart[o].units, LAMBDA u : u.price)

resolveDiscount(o, c) ==
    IF c = "none" THEN 0 ELSE couponDiscountCents(CouponOf[c], ticketSubtotal(o))

(* createOrder: an invalid coupon refuses the checkout.                    *)
createOrder(o, c, ref) ==
    /\ checkout[o] = "none"
    /\ c # "none" => validateCoupon(c)
    /\ LET t == orderTotals(ticketSubtotal(o), Cart[o].products, resolveDiscount(o, c), fee)
       IN order' = [order EXCEPT ![o] =
              [status |-> "AWAITING_PAYMENT", ref |-> ref, coupon |-> c,
               subtotal |-> t.subtotal, discount |-> t.discount, fee |-> t.fee,
               mode |-> t.mode, total |-> t.total]]
    /\ checkout' = [checkout EXCEPT ![o] = "attributing"]
    /\ UNCHANGED <<attribution, offer, book, worker, staff, count, trouble>>

(* A promoter's own coupon before its link; only while it is assigned.  The *)
(* coupon is validated again, at the time the checkout began.              *)
credited(o) ==
    LET c == order[o].coupon
        valid == c # "none" /\ ~exhausted(c)
        owner == IF valid THEN CouponOf[c].promoter ELSE "none"
        promoter == IF owner # "none" THEN owner ELSE order[o].ref
    IN [promoter |-> IF promoter \in assigned THEN promoter ELSE "none",
        coupon |-> IF valid THEN c ELSE "none"]

recordAttribution(o) ==
    /\ checkout[o] = "attributing"
    /\ checkout' = [checkout EXCEPT ![o] = "done"]
    /\ attribution' = [attribution EXCEPT ![o] = credited(o)]
    /\ UNCHANGED <<order, offer, book, worker, staff, count, trouble>>

(* A failure is recorded in the audit log, and the purchase goes on.       *)
attributionFails(o) ==
    /\ checkout[o] = "attributing"
    /\ count.faults < MaxFaults
    /\ count' = [count EXCEPT !.faults = @ + 1]
    /\ checkout' = [checkout EXCEPT ![o] = "done"]
    /\ UNCHANGED <<order, attribution, offer, book, worker, staff, trouble>>

couponEnds(c) ==
    /\ lapsed' = lapsed \cup {c}
    /\ lapsed' # lapsed
    /\ count.changes < MaxChanges
    /\ count' = [count EXCEPT !.changes = @ + 1]
    /\ UNCHANGED <<sale, redemptions, assigned, rules, fee, book, worker, staff, trouble>>

(***************************************************************************)
(* A notification of an approval: the order is paid, then fulfilled.       *)
(***************************************************************************)
At(w, step) == worker[w].step = step
On(w) == worker[w].order
Busy(step, o) == Handler(step, o, NoCommission, NoRows)
Go(w, step) == worker' = [worker EXCEPT ![w] = Busy(step, On(w))]
Hold(w, step, e, rows) == worker' = [worker EXCEPT ![w] = Handler(step, On(w), e, rows)]
Done(w) == worker' = [worker EXCEPT ![w] = Idle]

start(w, o, step) ==
    /\ worker[w] = Idle
    /\ count.deliveries < MaxDeliveries
    /\ count' = [count EXCEPT !.deliveries = @ + 1]
    /\ worker' = [worker EXCEPT ![w] = Busy(step, o)]

(* markOrderPaid, and fulfil when the order is PAID after it.              *)
markOrderPaid(w, o) ==
    /\ checkout[o] = "done"
    /\ order[o].status \in {"AWAITING_PAYMENT", "PAID"}
    /\ start(w, o, "accrue")
    /\ order' = [order EXCEPT ![o].status = "PAID"]
    /\ UNCHANGED <<checkout, attribution, offer, book, staff, trouble>>

accrual(o) ==
    LET promoter == attribution[o].promoter
        sum == computeCommission(Cart[o].units, rules, promoter,
                                 order[o].subtotal, order[o].discount)
    IN IF promoter # "none" /\ sum.amount > 0
       THEN [promoter |-> promoter, base |-> sum.base, amount |-> sum.amount]
       ELSE NoCommission

accrueForPaidOrder(w) ==
    /\ At(w, "accrue")
    /\ IF order[On(w)].status # "PAID" THEN Go(w, "post")
       ELSE IF accrual(On(w)) = NoCommission THEN Go(w, "redeem")
       ELSE Hold(w, "accrue.create", accrual(On(w)), NoRows)
    /\ UNCHANGED <<sale, offer, book, staff, count, trouble>>

earned(o) == commission[o].ACCRUAL

(* Mutants: a later notification replaces the accrual; or counts the       *)
(* coupon again.                                                           *)
createAccrualAnew(w) ==
    /\ At(w, "accrue.create")
    /\ commission' = [commission EXCEPT ![On(w)].ACCRUAL = worker[w].earned]
    /\ Go(w, "redeem")
    /\ UNCHANGED <<sale, offer, ledger, paidOut, staff, count, trouble>>

createAccrualCounting(w) ==
    /\ At(w, "accrue.create")
    /\ commission' = IF earned(On(w)) = NoCommission
                     THEN [commission EXCEPT ![On(w)].ACCRUAL = worker[w].earned] ELSE commission
    /\ Go(w, "redeem")
    /\ UNCHANGED <<sale, offer, ledger, paidOut, staff, count, trouble>>

(* entries.create: the unique (order, type) makes it happen once; only the *)
(* first accrual counts the coupon.                                        *)
createAccrual(w) ==
    /\ At(w, "accrue.create")
    /\ IF earned(On(w)) = NoCommission
       THEN /\ commission' = [commission EXCEPT ![On(w)].ACCRUAL = worker[w].earned]
            /\ Go(w, "redeem")
       ELSE commission' = commission /\ Go(w, "post")
    /\ UNCHANGED <<sale, offer, ledger, paidOut, staff, count, trouble>>

tryIncrementRedemption(w) ==
    LET c == attribution[On(w)].coupon
    IN /\ At(w, "redeem")
       /\ redemptions' = IF c # "none" /\ ~exhausted(c)
                         THEN [redemptions EXCEPT ![c] = @ + 1] ELSE redemptions
       /\ Go(w, "post")
       /\ UNCHANGED <<sale, lapsed, assigned, rules, fee, book, staff, count, trouble>>

(* Mutant: the producer is charged the fee in either mode.                 *)
saleEntriesFeeTwice(o) ==
    [k \in Keys |->
        CASE k = <<"PRODUCER", "SALE">> -> Row("none", order[o].subtotal)
          [] k = <<"PRODUCER", "DISCOUNT">> -> Row("none", -order[o].discount)
          [] k = <<"PLATFORM", "FEE">> -> Row("none", order[o].fee)
          [] k = <<"PRODUCER", "FEE">> -> Row("none", -order[o].fee)
          [] OTHER -> NoRow]

(* What an order posts.  The provider's cost is always 0 (services.ts).    *)
saleEntries(o) ==
    [k \in Keys |->
        CASE k = <<"PRODUCER", "SALE">> -> Row("none", order[o].subtotal)
          [] k = <<"PRODUCER", "DISCOUNT">> -> Row("none", -order[o].discount)
          [] k = <<"PLATFORM", "FEE">> -> Row("none", order[o].fee)
          [] k = <<"PRODUCER", "FEE">> /\ order[o].mode = "PRODUCER" -> Row("none", -order[o].fee)
          [] k = <<"PRODUCER", "COMMISSION">> -> Row(earned(o).promoter, -earned(o).amount)
          [] k = <<"PROMOTER", "COMMISSION">> -> Row(earned(o).promoter, earned(o).amount)
          [] OTHER -> NoRow]

postForPaidOrder(w) ==
    /\ At(w, "post")
    /\ IF order[On(w)].status = "PAID"
       THEN Hold(w, "post.create", NoCommission, saleEntries(On(w))) ELSE Done(w)
    /\ UNCHANGED <<sale, offer, book, staff, count, trouble>>

(* createMany with skipDuplicates on (order, account, type).               *)
postForOrder(o, rows) ==
    ledger' = [ledger EXCEPT ![o] = [k \in Keys |-> IF @[k] = NoRow THEN rows[k] ELSE @[k]]]

createSaleEntries(w) ==
    /\ At(w, "post.create")
    /\ postForOrder(On(w), worker[w].rows)
    /\ Done(w)
    /\ UNCHANGED <<sale, offer, commission, paidOut, staff, count, trouble>>

(* The stages of a fulfilment.                                             *)
Fulfilment == {"accrue", "accrue.create", "redeem", "post", "post.create"}

(***************************************************************************)
(* A notification of a refund: order and tickets, ledger, commission.      *)
(***************************************************************************)
settleRefund(w, o) ==
    /\ order[o].status \in {"PAID", "REFUNDED"}
    /\ start(w, o, "reverse")
    /\ order' = [order EXCEPT ![o].status = "REFUNDED"]
    /\ overlap' = IF \E x \in Workers : worker[x].step \in Fulfilment /\ On(x) = o
                  THEN overlap \cup {o} ELSE overlap
    /\ UNCHANGED <<checkout, attribution, offer, book, staff, failed>>

(* When the order's update throws, tickets and ledger are left as they     *)
(* are, and the commission is reversed all the same.                       *)
settlementThrows(w, o) ==
    /\ order[o].status \in {"PAID", "REFUNDED"}
    /\ worker[w] = Idle
    /\ count.deliveries < MaxDeliveries /\ count.faults < MaxFaults
    /\ count' = [count EXCEPT !.deliveries = @ + 1, !.faults = @ + 1]
    /\ worker' = [worker EXCEPT ![w] = Busy("unaccrue", o)]
    /\ failed' = failed \cup {o}
    /\ UNCHANGED <<sale, offer, book, staff, overlap>>

(* Mutant: commission stays with the promoter, at the platform's cost.     *)
reversalForProducer(o) ==
    LET back(a) == IF a = "PRODUCER" THEN Balance(o, a)
                   ELSE IF a = "PLATFORM" THEN Balance(o, a) + Balance(o, "PROMOTER") ELSE 0
    IN [k \in Keys |-> IF k[2] = "REFUND" THEN Row("none", -back(k[1])) ELSE NoRow]

(* One REFUND entry per account that does not balance, for the promoter    *)
(* its entries name.                                                       *)
reversal(o) ==
    [k \in Keys |->
        IF k[2] = "REFUND" /\ Balance(o, k[1]) # 0
        THEN Row(entry(o, k[1], "COMMISSION").promoter, -Balance(o, k[1])) ELSE NoRow]

reversed(o) == \E a \in Accounts : entry(o, a, "REFUND") # NoRow

reverseForOrder(w) ==
    /\ At(w, "reverse")
    /\ IF reversed(On(w)) THEN Go(w, "unaccrue")
       ELSE Hold(w, "reverse.create", NoCommission, reversal(On(w)))
    /\ UNCHANGED <<sale, offer, book, staff, count, trouble>>

createReversal(w) ==
    /\ At(w, "reverse.create")
    /\ postForOrder(On(w), worker[w].rows)
    /\ Go(w, "unaccrue")
    /\ UNCHANGED <<sale, offer, commission, paidOut, staff, count, trouble>>

Negated(e) == [promoter |-> e.promoter, base |-> -e.base, amount |-> -e.amount]

(* The accrual is immutable, so that its read and the entry are one step.  *)
reverseCommission(w) ==
    /\ At(w, "unaccrue")
    /\ commission' = IF commission[On(w)].REVERSAL # NoCommission THEN commission
                     ELSE [commission EXCEPT ![On(w)].REVERSAL = Negated(earned(On(w)))]
    /\ Done(w)
    /\ UNCHANGED <<sale, offer, ledger, paidOut, staff, count, trouble>>

(* Where a handler goes on when a call throws: errors of accrual, posting  *)
(* and settlement are dropped one by one.                                  *)
Recovery(step) ==
    CASE step \in {"accrue", "accrue.create", "redeem"} -> "post"
      [] step \in {"reverse", "reverse.create"} -> "unaccrue"
      [] OTHER -> "idle"

Fails(w) ==
    /\ worker[w] # Idle
    /\ count.faults < MaxFaults
    /\ count' = [count EXCEPT !.faults = @ + 1]
    /\ failed' = IF worker[w].step \in Fulfilment THEN failed ELSE failed \cup {On(w)}
    /\ \/ Recovery(worker[w].step) # "idle" /\ Go(w, Recovery(worker[w].step))
       \/ Done(w)
    /\ UNCHANGED <<sale, offer, book, staff, overlap>>

(***************************************************************************)
(* Staff                                                                   *)
(***************************************************************************)
linkPromoterToEvent(p) ==
    /\ p \notin assigned
    /\ count.changes < MaxChanges
    /\ count' = [count EXCEPT !.changes = @ + 1]
    /\ assigned' = assigned \cup {p}
    /\ UNCHANGED <<sale, redemptions, lapsed, rules, fee, book, worker, staff, trouble>>

updateFee(f) ==
    /\ f # fee
    /\ count.changes < MaxChanges
    /\ count' = [count EXCEPT !.changes = @ + 1]
    /\ fee' = f
    /\ UNCHANGED <<sale, redemptions, lapsed, assigned, rules, book, worker, staff, trouble>>

sameScope(r, s) == r.promoter = s.promoter /\ r.ticket = s.ticket /\ r.scope = s.scope

(* createSuperseding is a transaction, but the rows its UPDATE finds are   *)
(* those committed when it starts; a rule added meanwhile is not among     *)
(* them.                                                                   *)
createCommissionRule(m, r) ==
    /\ manager[m] = NoRequest
    /\ count.changes < MaxChanges
    /\ count' = [count EXCEPT !.changes = @ + 1]
    /\ manager' = [manager EXCEPT ![m] =
           [step |-> "superseding", rule |-> r,
            found |-> {i \in DOMAIN rules : rules[i].active /\ sameScope(rules[i], r)}]]
    /\ UNCHANGED <<sale, offer, book, worker, payer, trouble>>

createSuperseding(m) ==
    /\ manager[m] # NoRequest
    /\ rules' = Append([i \in DOMAIN rules |->
                            [rules[i] EXCEPT !.active = @ /\ i \notin manager[m].found]],
                       manager[m].rule)
    /\ manager' = [manager EXCEPT ![m] = NoRequest]
    /\ UNCHANGED <<sale, redemptions, lapsed, assigned, fee, book, worker, payer, count, trouble>>

(* What an entry of order o counts for promoter p.                         *)
share(row, p) == IF row.promoter = p THEN row.amount ELSE 0

(* A promoter's report: the sum of its commission entries.                 *)
summaryForPromoter(p) ==
    SumFunction([o \in Orders |-> share(commission[o].ACCRUAL, p) + share(commission[o].REVERSAL, p)])

(* getEventPromoterPayables: the balance of the promoter's account, which  *)
(* has entries of two types.                                               *)
credit(o, p) ==
    share(entry(o, "PROMOTER", "COMMISSION"), p) + share(entry(o, "PROMOTER", "REFUND"), p)
payable(p) == SumFunction([o \in Orders |-> credit(o, p)])

(* Mutant: payouts are not taken off.                                      *)
owedEver(p) == payable(p)

owed(p) == payable(p) - paidOut[p]

(* registerExternalPayout(AsPlatformAdmin): nothing limits the amount.      *)
registerExternalPayout(amount) ==
    /\ count.changes < MaxChanges
    /\ count' = [count EXCEPT !.changes = @ + 1]
    /\ paidOut' = [paidOut EXCEPT !["PRODUCER"] = @ + amount]
    /\ UNCHANGED <<sale, offer, commission, ledger, worker, staff, trouble>>

(* The finance page shows what is owed; the button asks for all of it.     *)
openPayout(x, p) ==
    /\ payer[x] = NoRequest
    /\ owed(p) > 0
    /\ count.payouts < MaxPayouts
    /\ count' = [count EXCEPT !.payouts = @ + 1]
    /\ payer' = [payer EXCEPT ![x] = [step |-> "confirming", promoter |-> p, amount |-> owed(p)]]
    /\ UNCHANGED <<sale, offer, book, worker, manager, trouble>>

registerPromoterPayout(x) ==
    /\ payer[x].step = "confirming"
    /\ payer' = [payer EXCEPT ![x] =
           IF @.amount <= owed(@.promoter) THEN [@ EXCEPT !.step = "appending"] ELSE NoRequest]
    /\ UNCHANGED <<sale, offer, book, worker, manager, count, trouble>>

appendPayout(x) ==
    /\ payer[x].step = "appending"
    /\ paidOut' = [paidOut EXCEPT ![payer[x].promoter] = @ + payer[x].amount]
    /\ payer' = [payer EXCEPT ![x] = NoRequest]
    /\ UNCHANGED <<sale, offer, commission, ledger, worker, manager, count, trouble>>

--------------------------------------------------------------------------------
Handle(w) ==
    \/ accrueForPaidOrder(w) \/ createAccrual(w) \/ tryIncrementRedemption(w)
    \/ postForPaidOrder(w) \/ createSaleEntries(w)
    \/ reverseForOrder(w) \/ createReversal(w) \/ reverseCommission(w)

Next ==
    \/ \E o \in Orders :
        \/ \E i \in Inputs : createOrder(o, i.coupon, i.ref)
        \/ recordAttribution(o) \/ attributionFails(o)
        \/ \E w \in Workers : markOrderPaid(w, o) \/ settleRefund(w, o) \/ settlementThrows(w, o)
    \/ \E w \in Workers : Handle(w) \/ Fails(w)
    \/ \E c \in Coupons : couponEnds(c)
    \/ \E p \in Promoters : linkPromoterToEvent(p)
    \/ \E f \in Fees : updateFee(f)
    \/ \E amount \in PayoutAmounts : registerExternalPayout(amount)
    \/ \E m \in Managers : createSuperseding(m) \/ \E r \in NewRules : createCommissionRule(m, r)
    \/ \E x \in Payers : registerPromoterPayout(x) \/ appendPayout(x)
                         \/ \E p \in Promoters : openPayout(x, p)

Spec == Init /\ [][Next]_vars

(* A handler that is alive goes on.                                        *)
Fairness == \A w \in Workers : WF_vars(Handle(w))
FairSpec == Spec /\ Fairness

--------------------------------------------------------------------------------
(* What the finance page shows of an event: sums of its ledger.            *)
EventSummary ==
    LET of(account) == SumFunction([o \in Orders |-> Balance(o, account)])
        promoters == SumFunctionOnSet(paidOut, Promoters)
    IN [producerPayable |-> of("PRODUCER") - paidOut["PRODUCER"],
        platformNet |-> of("PLATFORM"),
        promoterPayable |-> of("PROMOTER") - promoters,
        payouts |-> paidOut["PRODUCER"] + promoters]

--------------------------------------------------------------------------------
(* Types of the rows and of the requests in flight.                        *)
TypeOK ==
    /\ \A o \in Orders :
        /\ order[o].status \in {"none", "AWAITING_PAYMENT", "PAID", "REFUNDED"}
        /\ {order[o].subtotal, order[o].discount, order[o].fee, order[o].total} \subseteq Nat
        /\ attribution[o] \in [promoter : Promoters \cup {"none"}, coupon : Coupons \cup {"none"}]
        /\ ledger[o] \in [Keys -> [promoter : Promoters \cup {"none"}, amount : Int]]
        /\ {commission[o].ACCRUAL.promoter, commission[o].REVERSAL.promoter}
              \subseteq Promoters \cup {"none"}
        /\ commission[o].ACCRUAL.amount \in Nat /\ -commission[o].REVERSAL.amount \in Nat
    /\ redemptions \in [Coupons -> Nat]
    /\ \A w \in Workers : worker[w] = Idle \/ On(w) \in Orders

kept == {o \in Orders : ledger[o] # NoRows /\ ~reversed(o)}
Working(o) == \E w \in Workers : ~At(w, "idle") /\ On(w) = o

(* Every cent of a sale is somebody's: what an order's entries credit to   *)
(* producer, platform and promoter is what the buyer pays, whatever rules, *)
(* fees, coupons and commission it met, and nothing once it is reversed;   *)
(* and the figures of the event's summary, with what was paid out, add up  *)
(* to the sales it keeps.  The order whose refund met an unfinished        *)
(* fulfilment is excepted once it is reversed: two reversals of different  *)
(* balances may then be mixed (finance/service.ts postForPaidOrder,        *)
(* reverseForOrder, computeEventSummary).                                  *)
MoneyConserved ==
    LET s == EventSummary
        mixed == {o \in overlap : reversed(o)}
    IN /\ \A o \in Orders \ mixed :
            Balance(o, "PRODUCER") + Balance(o, "PLATFORM") + Balance(o, "PROMOTER")
                = IF o \in kept THEN order[o].total ELSE 0
       /\ mixed = {} =>
            s.producerPayable + s.platformNet + s.promoterPayable + s.payouts
                = SumFunction([o \in kept |-> order[o].total])

(* The ledger credits a promoter with exactly the commission accrued to it *)
(* for the order, though rules change and notifications are handled twice; *)
(* and when nothing is in flight and nothing failed, a promoter's report   *)
(* shows what the ledger owes it before payouts (promoters/service.ts      *)
(* accrueForPaidOrder, buildReport; finance postForPaidOrder).             *)
LedgerMatchesCommission ==
    /\ \A o \in Orders :
        entry(o, "PROMOTER", "COMMISSION") \in {NoRow, Row(earned(o).promoter, earned(o).amount)}
    /\ count.faults = 0 /\ overlap = {} /\ (\A o \in Orders : ~Working(o)) =>
        \A p \in Promoters : summaryForPromoter(p) = payable(p)

(* After a refund is settled, every account of the order and the           *)
(* commission net to zero, unless the refund met an unfinished fulfilment  *)
(* or a failed call (finance/service.ts:117-121).                          *)
RefundNetsToZero ==
    \A o \in Orders \ (overlap \cup failed) :
        order[o].status = "REFUNDED" /\ ~Working(o) =>
            /\ \A a \in Accounts : Balance(o, a) = 0
            /\ commission[o].ACCRUAL.amount + commission[o].REVERSAL.amount = 0

(* A limited coupon is counted at most as often as it may be used, and no  *)
(* more often than orders carry it, however often a notification is        *)
(* handled, when those orders all made commission and the rules did not    *)
(* change meanwhile (promoters/service.ts accrueForPaidOrder,              *)
(* tryIncrementRedemption).                                                *)
CouponWithinLimit ==
    \A c \in Coupons :
        LET sales == {o \in Orders : attribution[o].coupon = c}
        IN /\ CouponOf[c].max # 0 => redemptions[c] <= CouponOf[c].max
           /\ rules = FirstRules /\ (\A o \in sales : earned(o) # NoCommission)
                => redemptions[c] <= Cardinality(sales)

(* Every person who registers payouts pays a promoter at most the          *)
(* commission it ever earned: one person alone never pays more than that,  *)
(* though a refund makes the balance on screen stale, and n people who pay *)
(* at once never more than n times it.  The check of what is owed and the  *)
(* entry are two statements, so that for more people nothing better holds  *)
(* (finance registerPromoterPayout, "Guards against over-payout").         *)
PaidOutWithinEarned ==
    \A p \in Promoters :
        paidOut[p] <= Cardinality(Payers)
            * SumFunction([o \in Orders |-> share(entry(o, "PROMOTER", "COMMISSION"), p)])
================================================================================
