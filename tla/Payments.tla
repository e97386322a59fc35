------------------------------- MODULE Payments -------------------------------
(***************************************************************************)
(* Payment of one order: charges, provider notifications, reconciliation,  *)
(* fulfilment and refund settlement (packages/core payments, composed with *)
(* orders, tickets, promoters and finance in apps/web/src/lib/services.ts).*)
(*                                                                         *)
(* A worker is one HTTP request: a charge, a webhook delivery or a status  *)
(* lookup that reconciles.  Each of its statements is a step; between two  *)
(* of them other workers run, the call may fail, or the worker may stop.   *)
(* The provider's side (tx, notice being sent) is external.                *)
(***************************************************************************)
EXTENDS Naturals, Sequences, FiniteSets

CONSTANTS
    Workers,      \* requests running at the same time
    Methods,      \* payment methods offered
    MaxAttempts,  \* bound: charge attempts
    Outcomes,     \* what the provider may make of a charge
    Items,        \* TICKET items of the order
    MaxCrashes,   \* bound: workers that may stop half-way
    MaxFailures   \* bound: calls that may fail

TxStatus ==
    {"approved", "rejected", "cancelled", "expired", "refunded", "charged_back"}

ASSUME PaymentsAssumption ==
    /\ IsFiniteSet(Workers)
    /\ Methods \subseteq {"PIX", "CARD"}
    /\ Outcomes \subseteq TxStatus
    /\ MaxAttempts \in Nat \ {0} /\ MaxCrashes \in Nat /\ MaxFailures \in Nat

(* An idempotency key `method:order:attempt` names a charge.               *)
Charges == Methods \X (0..MaxAttempts - 1)

VARIABLES
    tx,          \* per charge, the provider's status, "none" before the call
    notice,      \* per charge and outcome, the PaymentEvent of its notification
    payment,     \* per charge, Payment.status, "NONE" before the row exists
    made,        \* the charges with a Payment row, oldest first
    routed,      \* charges with a PROVIDER_TX reference on the platform
    order, due,  \* Order.status, and whether expiresAt has passed
    ticket,      \* per item, Ticket.status, "NONE" before the row exists
    commission,  \* types of the order's CommissionEntry rows
    ledger,      \* types of the order's LedgerEntry rows
    job,         \* per worker, what it is doing
    crashes, failures

provider == <<tx, notice>>
payments == <<payment, made, routed>>
goods == <<ticket, commission, ledger>>
faults == <<crashes, failures>>
vars == <<provider, payments, order, due, goods, job, faults>>

Idle == [kind |-> "idle"]
(* A request at `step`, about charge c, that saw status s at the provider. *)
Job(kind, step, c, s, k) ==
    [kind |-> kind, step |-> step, charge |-> c, saw |-> s, notice |-> k,
     priced |-> FALSE, todo |-> {}]

Refunded == {"refunded", "charged_back"}
Settled == {"PAID", "REFUNDED", "CHARGEBACK"}
Steps ==
    {"count", "call", "store", "route", "apply", "order", "fulfill", "accrue",
     "accrueWrite", "post", "postWrite", "issue", "create",
     "settle", "voidTickets", "books", "uncommission", "done"}

Init ==
    /\ tx = [c \in Charges |-> "none"]
    /\ notice = [c \in Charges |-> [k \in Outcomes |-> "UNSENT"]]
    /\ payment = [c \in Charges |-> "NONE"]
    /\ made = <<>> /\ routed = {}
    /\ order = "AWAITING_PAYMENT" /\ due = FALSE
    /\ ticket = [i \in Items |-> "NONE"]
    /\ commission = {} /\ ledger = {}
    /\ job = [p \in Workers |-> Idle]
    /\ crashes = 0 /\ failures = 0

at(p, step) == job[p] # Idle /\ job[p].step = step
goto(p, step) == job' = [job EXCEPT ![p].step = step]
ends(p) == job' = [job EXCEPT ![p] = Idle]

-------------------------------------------------------------------------------
(* The provider and the clock                                              *)

(* The provider tells each change of a charge in a notification of its own.*)
notify(c, s) == notice' = [notice EXCEPT ![c][s] = "UNSEEN"]

(* A Pix charge is given the order's expiry and cannot be paid after it.   *)
TxMoves(c, s) ==
    /\ \/ /\ tx[c] = "pending" /\ s \in Outcomes \ Refunded
          /\ c[1] = "PIX" /\ s = "approved" => ~due
       \/ tx[c] = "approved" /\ s \in Outcomes \cap Refunded
    /\ tx' = [tx EXCEPT ![c] = s]
    /\ notify(c, s)
    /\ UNCHANGED <<payments, order, due, goods, job, faults>>

HoldLapses ==
    /\ ~due /\ due' = TRUE
    /\ UNCHANGED <<provider, payments, order, goods, job, faults>>

(* Fault: the sweep does not look at the status it leaves. *)
expireAny ==
    /\ due /\ order' = "EXPIRED"
    /\ UNCHANGED <<provider, payments, due, goods, job, faults>>

(* expireDueOrders, for this order. *)
expire ==
    /\ due /\ order = "AWAITING_PAYMENT"
    /\ order' = "EXPIRED"
    /\ UNCHANGED <<provider, payments, due, goods, job, faults>>

-------------------------------------------------------------------------------
(* Charges                                                                 *)

(* Fault: the pending charge is not looked up. *)
nothingReusable == {}
(* findReusablePixForOrder; the charge expires with the order. *)
reusablePix == {c \in Charges : c[1] = "PIX" /\ payment[c] \in {"CREATED", "PROCESSING"}}

(* The checks that open createCardChargeForOrder and chargePix.  A reusable*)
(* Pix charge is returned as it is.                                        *)
openCharge(p, m) ==
    /\ job[p] = Idle
    /\ order = "AWAITING_PAYMENT" /\ ~due
    /\ m = "PIX" => reusablePix = {}
    /\ Len(made) < MaxAttempts
    /\ job' = [job EXCEPT ![p] = Job(m, "count", <<m, 0>>, "none", "none")]
    /\ UNCHANGED <<provider, payments, order, due, goods, faults>>

(* countByOrder gives the attempt, which gives the idempotency key.        *)
(* (Bound: a request beyond MaxAttempts is not followed.)                  *)
countByOrder(p) ==
    /\ at(p, "count")
    /\ IF Len(made) < MaxAttempts
       THEN job' = [job EXCEPT ![p].charge = <<job[p].kind, Len(made)>>, ![p].step = "call"]
       ELSE ends(p)
    /\ UNCHANGED <<provider, payments, order, due, goods, faults>>

(* createPixCharge or createCardCharge: the provider creates one charge    *)
(* per key and answers a repeated key with the charge it has.              *)
createCharge(p) ==
    LET c == job[p].charge
        answers == IF tx[c] # "none" THEN {tx[c]}
                   ELSE {"pending"} \cup
                        (IF c[1] = "CARD" THEN Outcomes \cap {"approved", "rejected"} ELSE {})
    IN  /\ at(p, "call")
        /\ \E s \in answers :
              /\ tx' = [tx EXCEPT ![c] = s]
              /\ IF s \in {tx[c], "pending"} THEN UNCHANGED notice ELSE notify(c, s)
              /\ job' = [job EXCEPT ![p].saw = s, ![p].step = "store"]
        /\ UNCHANGED <<payments, order, due, goods, faults>>

(* Fault: the idempotency key is not unique. *)
storeAgain(p) ==
    LET c == job[p].charge IN
    /\ at(p, "store")
    /\ payment' = [payment EXCEPT ![c] = "CREATED"]
    /\ made' = Append(made, c)
    /\ goto(p, "route")
    /\ UNCHANGED <<provider, routed, order, due, goods, faults>>

(* payments.create; the unique key refuses a second row for the charge. *)
storePayment(p) ==
    LET c == job[p].charge IN
    /\ at(p, "store")
    /\ \/ /\ payment[c] = "NONE"
          /\ payment' = [payment EXCEPT ![c] = "CREATED"]
          /\ made' = Append(made, c)
          /\ goto(p, "route")
       \/ /\ payment[c] # "NONE"
          /\ ends(p)
          /\ UNCHANGED <<payment, made>>
    /\ UNCHANGED <<provider, routed, order, due, goods, faults>>

(* refs.reserve; a card goes on with the answer of its call. *)
reserveRef(p) ==
    /\ at(p, "route")
    /\ routed' = routed \cup {job[p].charge}
    /\ goto(p, IF job[p].kind = "CARD" THEN "apply" ELSE "done")
    /\ UNCHANGED <<provider, payment, made, order, due, goods, faults>>

-------------------------------------------------------------------------------
(* Notifications and reconciliation                                        *)

(* Fault: only a FAILED event may be claimed again. *)
ClaimableFailed == {"UNSEEN", "FAILED"}
Claimable == {"UNSEEN", "RECEIVED", "FAILED"}

(* A delivery: read the charge's status at the provider, then claim the    *)
(* event.  Without a reference the route answers 500 and nothing happens;  *)
(* an event already PROCESSED is a duplicate.                              *)
deliver(p, c, k) ==
    /\ job[p] = Idle
    /\ c \in routed
    /\ notice[c][k] \in Claimable
    /\ notice' = [notice EXCEPT ![c][k] = IF @ = "UNSEEN" THEN "RECEIVED" ELSE @]
    /\ job' = [job EXCEPT ![p] = Job("webhook", "apply", c, tx[c], k)]
    /\ UNCHANGED <<tx, payments, order, due, goods, faults>>

(* reconcileOrder, from the status lookup of an order still awaiting:      *)
(* the newest pending charge is asked for at the provider.                 *)
reconcileOrder(p) ==
    LET pending == {n \in DOMAIN made : payment[made[n]] \in {"CREATED", "PROCESSING"}} IN
    /\ job[p] = Idle
    /\ order = "AWAITING_PAYMENT" /\ ~due
    /\ \E n \in pending :
          /\ \A other \in pending : other <= n
          /\ tx[made[n]] # "pending"
          /\ job' = [job EXCEPT ![p] = Job("reconcile", "apply", made[n], tx[made[n]], "none")]
    /\ UNCHANGED <<provider, payments, order, due, goods, faults>>

(* The payment status a provider status leads to: the event types of       *)
(* applyEvent, and the synchronous answer of a card charge.                *)
Target(kind, s) ==
    IF kind = "CARD"
    THEN CASE s = "approved" -> "APPROVED"
           [] s \in {"rejected", "cancelled"} -> "REJECTED"
           [] OTHER -> "PROCESSING"
    ELSE CASE s = "approved" -> "APPROVED"
           [] s = "rejected" -> "REJECTED"
           [] s \in {"expired", "cancelled"} -> "EXPIRED"
           [] s = "refunded" -> "REFUNDED"
           [] s = "charged_back" -> "CHARGED_BACK"

(* Faults: a payment left PROCESSING is forgotten; an approval overwrites. *)
FromCreated(kind, s) == IF kind # "CARD" /\ s \in Refunded THEN {"APPROVED"} ELSE {"CREATED"}
FromAny(kind, s) == {"CREATED", "PROCESSING", "APPROVED", "REFUNDED", "CHARGED_BACK"}
(* The statuses the guarded transition may leave. *)
From(kind, s) ==
    CASE kind = "CARD" -> {"CREATED"}
      [] kind # "CARD" /\ s \in Refunded -> {"APPROVED", "PARTIALLY_REFUNDED", "DISPUTED"}
      [] OTHER -> {"CREATED", "PROCESSING"}

applyEvent(p) ==
    LET j == job[p] IN
    /\ at(p, "apply")
    /\ payment' = [payment EXCEPT ![j.charge] =
                      IF @ \in From(j.kind, j.saw) THEN Target(j.kind, j.saw) ELSE @]
    /\ goto(p, CASE j.saw = "approved" -> "order"
                 [] j.kind # "CARD" /\ j.saw \in Refunded -> "settle"
                 [] OTHER -> "done")
    /\ UNCHANGED <<provider, made, routed, order, due, goods, faults>>

(* markOrderPaid (its confirmation of the units is Inventory's). *)
markOrderPaid(p) ==
    /\ at(p, "order")
    /\ order' = IF order = "AWAITING_PAYMENT" THEN "PAID" ELSE order
    /\ goto(p, "fulfill")
    /\ UNCHANGED <<provider, payments, due, goods, faults>>

(* markOutcome PROCESSED, and the answer 200. *)
markProcessed(p) ==
    LET j == job[p] IN
    /\ at(p, "done")
    /\ ends(p)
    /\ IF j.kind = "webhook"
       THEN notice' = [notice EXCEPT ![j.charge][j.notice] = "PROCESSED"]
       ELSE UNCHANGED notice
    /\ UNCHANGED <<tx, payments, order, due, goods, faults>>

-------------------------------------------------------------------------------
(* Fulfilment: commission, ledger, tickets.  Every part looks at           *)
(* the order again before it writes.                                       *)

(* The reads: fulfil at all?  accrue?  post? *)
readOrder(p, step, yes, no) ==
    /\ at(p, step)
    /\ job' = [job EXCEPT ![p].step = IF order = "PAID" THEN yes ELSE no,
                          ![p].priced = (step = "post" /\ "ACCRUAL" \in commission)]
    /\ UNCHANGED <<provider, payments, order, due, goods, faults>>

fulfill(p) == readOrder(p, "fulfill", "accrue", "done")
accrueForPaidOrder(p) == readOrder(p, "accrue", "accrueWrite", "post")
postForPaidOrder(p) == readOrder(p, "post", "postWrite", "issue")

accrueWrites(p) ==
    /\ at(p, "accrueWrite")
    /\ commission' = commission \cup {"ACCRUAL"}
    /\ goto(p, "post")
    /\ UNCHANGED <<provider, payments, order, due, ticket, ledger, faults>>

postWrites(p) ==
    /\ at(p, "postWrite")
    /\ ledger' = ledger \cup {"SALE"} \cup (IF job[p].priced THEN {"COMMISSION"} ELSE {})
    /\ goto(p, "issue")
    /\ UNCHANGED <<provider, payments, order, due, ticket, commission, faults>>

(* The webhook's catch: markOutcome FAILED, and the answer 500. *)
throws(p) ==
    /\ ends(p)
    /\ notice' = IF job[p].kind = "webhook"
                 THEN [notice EXCEPT ![job[p].charge][job[p].notice] = "FAILED"] ELSE notice

(* issueForOrder reads the order, its items and its tickets. *)
issueForOrder(p) ==
    LET missing == {i \in Items : ticket[i] = "NONE"} IN
    /\ at(p, "issue")
    /\ \/ /\ order # "PAID"
          /\ throws(p)
       \/ /\ order = "PAID"
          /\ job' = [job EXCEPT ![p].todo = missing,
                                ![p].step = IF missing = {} THEN "done" ELSE "create"]
          /\ UNCHANGED notice
    /\ UNCHANGED <<tx, payments, order, due, goods, faults>>

(* createForOrderItem: the unique orderItemId lets one issuer win.  (The   *)
(* e-mail that follows keeps no state that anything reads.)                *)
createForOrderItem(p, i) ==
    /\ at(p, "create")
    /\ i \in job[p].todo
    /\ ticket' = [ticket EXCEPT ![i] = IF @ = "NONE" THEN "VALID" ELSE @]
    /\ job' = [job EXCEPT ![p].todo = @ \ {i},
                          ![p].step = IF job[p].todo = {i} THEN "done" ELSE "create"]
    /\ UNCHANGED <<provider, payments, order, due, commission, ledger, faults>>

-------------------------------------------------------------------------------
(* Refund settlement                                                       *)

(* Fault: the coordinator stops when the order had already moved. *)
settleOnce(p) ==
    /\ at(p, "settle")
    /\ order' = IF order = "PAID"
                THEN (IF job[p].saw = "refunded" THEN "REFUNDED" ELSE "CHARGEBACK") ELSE order
    /\ goto(p, IF order = "PAID" THEN "voidTickets" ELSE "uncommission")
    /\ UNCHANGED <<provider, payments, due, goods, faults>>

settleRefund(p) ==
    /\ at(p, "settle")
    /\ order' = IF order = "PAID"
                THEN (IF job[p].saw = "refunded" THEN "REFUNDED" ELSE "CHARGEBACK") ELSE order
    /\ goto(p, "voidTickets")
    /\ UNCHANGED <<provider, payments, due, goods, faults>>

refundTicketsForOrder(p) ==
    /\ at(p, "voidTickets")
    /\ ticket' = [i \in Items |-> IF ticket[i] = "VALID" THEN "REFUNDED" ELSE ticket[i]]
    /\ goto(p, "books")
    /\ UNCHANGED <<provider, payments, order, due, commission, ledger, faults>>

(* finance.reverseForOrder: nothing to do without entries. *)
reverseLedger(p) ==
    /\ at(p, "books")
    /\ ledger' = IF ledger = {} THEN ledger ELSE ledger \cup {"REFUND"}
    /\ goto(p, "uncommission")
    /\ UNCHANGED <<provider, payments, order, due, ticket, commission, faults>>

(* promoters.reverseForOrder: nothing to do without an accrual. *)
reverseCommission(p) ==
    /\ at(p, "uncommission")
    /\ commission' = IF "ACCRUAL" \in commission THEN commission \cup {"REVERSAL"} ELSE commission
    /\ goto(p, "done")
    /\ UNCHANGED <<provider, payments, order, due, ticket, ledger, faults>>

-------------------------------------------------------------------------------
(* Faults                                                                  *)

(* Fault: an issue that fails is dropped like a commission that fails. *)
SwallowedIssue(p) == [s \in {"issue", "create"} |-> "done"]
(* The steps whose errors are caught and dropped, with where the code goes *)
(* on.                                                                     *)
Swallowed(p) ==
    [route |-> IF job[p].kind = "CARD" THEN "apply" ELSE "done",
     accrue |-> "post", accrueWrite |-> "post", post |-> "issue", postWrite |-> "issue",
     settle |-> "uncommission", voidTickets |-> "uncommission", books |-> "uncommission",
     uncommission |-> "done"]

Fails(p) ==
    /\ failures < MaxFailures
    /\ job[p] # Idle
    /\ failures' = failures + 1
    /\ IF job[p].step \in DOMAIN Swallowed(p)
       THEN goto(p, Swallowed(p)[job[p].step]) /\ UNCHANGED notice
       ELSE throws(p)
    /\ UNCHANGED <<tx, payments, order, due, goods, crashes>>

Dies(p) ==
    /\ crashes < MaxCrashes
    /\ job[p] # Idle
    /\ ends(p)
    /\ crashes' = crashes + 1
    /\ UNCHANGED <<provider, payments, order, due, goods, failures>>

-------------------------------------------------------------------------------
(* The next statement of a worker. *)
Continue(p) ==
    \/ countByOrder(p) \/ createCharge(p) \/ storePayment(p) \/ reserveRef(p)
    \/ applyEvent(p) \/ markOrderPaid(p) \/ markProcessed(p)
    \/ fulfill(p) \/ accrueForPaidOrder(p) \/ accrueWrites(p)
    \/ postForPaidOrder(p) \/ postWrites(p)
    \/ issueForOrder(p) \/ (\E i \in Items : createForOrderItem(p, i))
    \/ settleRefund(p) \/ refundTicketsForOrder(p) \/ reverseLedger(p) \/ reverseCommission(p)

Next ==
    \/ HoldLapses \/ expire
    \/ \E c \in Charges, s \in Outcomes : TxMoves(c, s)
    \/ \E p \in Workers :
          \/ \E m \in Methods : openCharge(p, m)
          \/ \E c \in Charges, k \in Outcomes : deliver(p, c, k)
          \/ reconcileOrder(p) \/ Continue(p) \/ Fails(p) \/ Dies(p)

Spec == Init /\ [][Next]_vars

(* Time passes, the sweep is scheduled, a worker that is alive goes on, and*)
(* the provider repeats a notification until it is answered with 200.      *)
(* Nobody is obliged to pay, to refund or to look the order up.            *)
Fairness ==
    /\ WF_vars(HoldLapses) /\ WF_vars(expire)
    /\ \A p \in Workers : WF_vars(Continue(p))
    /\ \A c \in Charges, k \in Outcomes : WF_vars(\E p \in Workers : deliver(p, c, k))

FairSpec == Spec /\ Fairness

-------------------------------------------------------------------------------
(* Safety                                                                  *)

PaymentStatus ==
    {"NONE", "CREATED", "PROCESSING", "APPROVED", "REJECTED", "EXPIRED", "REFUNDED", "CHARGED_BACK"}
WorkerJob ==
    {Idle} \cup
    [kind : Methods \cup {"webhook", "reconcile"}, step : Steps, charge : Charges,
     saw : TxStatus \cup {"none", "pending"}, notice : Outcomes \cup {"none"},
     priced : BOOLEAN, todo : SUBSET Items]

(* Types; one row per idempotency key, and a status only for a charge that *)
(* has a row.                                                              *)
TypeOK ==
    /\ tx \in [Charges -> TxStatus \cup {"none", "pending"}]
    /\ notice \in [Charges -> [Outcomes -> {"UNSENT", "UNSEEN", "RECEIVED", "FAILED", "PROCESSED"}]]
    /\ payment \in [Charges -> PaymentStatus]
    /\ made \in Seq(Charges)
    /\ {made[n] : n \in DOMAIN made} = {c \in Charges : payment[c] # "NONE"}
    /\ \A m, n \in DOMAIN made : made[m] = made[n] => m = n
    /\ routed \subseteq {c \in Charges : payment[c] # "NONE"}
    /\ order \in {"AWAITING_PAYMENT", "PAID", "EXPIRED", "REFUNDED", "CHARGEBACK"}
    /\ due \in BOOLEAN
    /\ ticket \in [Items -> {"NONE", "VALID", "REFUNDED"}]
    /\ commission \subseteq {"ACCRUAL", "REVERSAL"}
    /\ ledger \subseteq {"SALE", "COMMISSION", "REFUND"}
    /\ job \in [Workers -> WorkerJob]
    /\ crashes \in 0..MaxCrashes /\ failures \in 0..MaxFailures

AllIssued == \A i \in Items : ticket[i] # "NONE"

(* BR-PAY-001: an order that was ever paid has a payment the provider      *)
(* approved, whichever of card answer, webhook and reconciliation paid it. *)
PaidMeansApproved ==
    order \in Settled =>
        \E c \in Charges : payment[c] \in {"APPROVED", "REFUNDED", "CHARGED_BACK"}

(* "An event out of order does not regress the state" (PRD 11.3): a payment*)
(* moves only forward, also when a worker applies an answer it read before *)
(* another one moved on (payments/service.ts, applyEvent).                 *)
PaymentNeverRegresses ==
    [][\A c \in Charges : payment'[c] # payment[c] =>
          <<payment[c], payment'[c]>> \in
              {"NONE"} \X {"CREATED"}
              \cup {"CREATED"} \X {"PROCESSING", "APPROVED", "REJECTED", "EXPIRED"}
              \cup {"PROCESSING"} \X {"APPROVED", "REJECTED", "EXPIRED"}
              \cup {"APPROVED"} \X {"REFUNDED", "CHARGED_BACK"}]_vars

(* BR-PAY-003: tickets exist only for an order that was paid, although the *)
(* sweep, the payment and the issue race each other.                       *)
TicketsOnlyForPaid == (\E i \in Items : ticket[i] # "NONE") => order \in Settled

(* Once the provider was told 200 for an approval that still stands,       *)
(* nothing of it is left undone: the payment is approved, the order no     *)
(* longer waits, and a paid order has all its tickets (processWebhook).    *)
AcknowledgedIsApplied ==
    \A c \in Charges :
        "approved" \in Outcomes /\ tx[c] = "approved" /\ notice[c]["approved"] = "PROCESSED" =>
            /\ payment[c] = "APPROVED"
            /\ order # "AWAITING_PAYMENT"
            /\ order = "PAID" => AllIssued

(* FR-CHK-016 wants one Pix charge of an order at most to wait to be paid, *)
(* however often the page is refreshed (chargePix).                        *)
PendingPix == {c \in Charges : c[1] = "PIX" /\ tx[c] = "pending"}
OnePendingPix == Cardinality(PendingPix) <= 1

(* Refreshes at the same time break that, and so does a card between two   *)
(* of them.  What holds is a bound that no number of refreshes, of requests*)
(* that stop half-way or of calls that fail moves: as many charges wait as *)
(* requests run at a time, and one more for each card that was tried, which*)
(* takes the number of a charge that a stopped request left behind.        *)
PendingPixBounded ==
    Cardinality(PendingPix) <=
        Cardinality(Workers) + Cardinality({c \in Charges : c[1] = "CARD" /\ payment[c] # "NONE"})

-------------------------------------------------------------------------------
(* Liveness                                                                *)

(* "A crash between transition and fulfillment must heal on the next       *)
(* delivery": a paid order gets all its tickets, or is refunded.           *)
PaidGetsTickets == (order = "PAID") ~> (AllIssued \/ order # "PAID")

(* Every payment of the order was refunded, and we can be told so. *)
MoneyReturned ==
    /\ \E c \in Charges : tx[c] \in Refunded
    /\ \A c \in Charges : tx[c] # "approved" /\ (tx[c] \in Refunded => c \in routed)

(* FR-PAY-013: when the money went back, this reaches the order, its       *)
(* tickets, the commission and the ledger.                                 *)
RefundReachesOrder ==
    MoneyReturned ~> \/ ~MoneyReturned
                     \/ /\ order # "PAID"
                        /\ \A i \in Items : ticket[i] # "VALID"
                        /\ "ACCRUAL" \in commission => "REVERSAL" \in commission
                        /\ ledger # {} => "REFUND" \in ledger

===============================================================================
