------------------------------- MODULE Inventory -------------------------------
(***************************************************************************)
(* Checkout inventory of one event: orders, reservation rows and the       *)
(* counters of the sales batches, as packages/core moves them.             *)
(*                                                                         *)
(* Processes: buyers creating orders; handlers that mark an order paid     *)
(* (webhook deliveries and reconciliations); sweepers that expire due      *)
(* orders (the scheduled job, and the lazy sweep of checkout and lookup);  *)
(* editors, staff requests that change quantities, capacity and status.    *)
(* A database transaction or single statement is one step; a process may   *)
(* stop between two of its steps (serverless timeout, failed call).        *)
(***************************************************************************)
EXTENDS Carts, Functions

CONSTANTS
    Handlers,         \* requests that may mark an order paid
    Sweepers,         \* runs of expireDueOrders
    Editors,          \* staff requests on the event and its batches
    NoOrder,          \* "no order in hand"
    SweepLimit,       \* the sweep's `limit`: orders taken per run
    InitialStatus,    \* InitialStatus[b], "ABSENT" for a batch not yet created
    InitialTotal,     \* InitialTotal[b], 0 for a batch not yet created
    InitialCapacity,  \* the event's capacityTotal, or NoCapacity
    Quantities,       \* the quantities of a batch that staff may type
    Capacities,       \* the capacities of the event that staff may type
    MaxCrashes,       \* bound: processes that may stop half-way
    MaxEdits          \* bound: staff requests started

NoCapacity == -1
BatchStatus == {"ABSENT", "SCHEDULED", "OPEN", "CLOSED", "SOLD_OUT"}

ASSUME InventoryAssumption ==
    /\ IsFiniteSet(Batches)
    /\ NoOrder \notin Orders
    /\ SweepLimit \in Nat \ {0}
    /\ InitialStatus \in [Batches -> BatchStatus]
    /\ InitialTotal \in [Batches -> Nat]
    /\ InitialCapacity \in Nat \cup {NoCapacity}
    /\ Quantities \subseteq Nat /\ Capacities \subseteq Nat
    /\ MaxCrashes \in Nat
    /\ MaxEdits \in Nat

VARIABLES
    status, total, sold, reserved,  \* the SalesBatch columns, per batch
    capacity,                       \* Event.capacityTotal
    order,                          \* Order.status, "NONE" before creation
    row,                            \* row[o][b]: the InventoryReservation of a line
    due,                            \* orders whose expiresAt has passed
    confirming,                     \* per handler, the order it set to PAID and must confirm
    queue, releasing,               \* per sweeper, orders left to visit; order to release
    editor,                         \* per staff request, what it has read and will write
    crashes, edits                  \* used up of MaxCrashes and MaxEdits

batchVars == <<status, total, sold, reserved, capacity>>
orderVars == <<order, row, due>>
procVars == <<confirming, queue, releasing, editor>>
vars == <<batchVars, orderVars, procVars, crashes, edits>>

OrderStatus ==
    {"NONE", "AWAITING_PAYMENT", "PAID", "EXPIRED", "REFUNDED", "CHARGEBACK"}
Settled == {"PAID", "REFUNDED", "CHARGEBACK"}

Idle == [op |-> "idle"]
EditorState ==
    {Idle}
    \cup [op : {"status"}, step : {"write"}, batch : Batches, to : BatchStatus]
    \cup [op : {"quantity", "create"}, step : {"check", "write"},
          batch : Batches, n : Quantities, cap : Nat \cup {NoCapacity}]
    \cup [op : {"capacity"}, step : {"check", "write"}, n : Capacities]

committed(b) == sold[b] + reserved[b]
ActiveLines(o) == {b \in LinesOf(o) : row[o][b] = "ACTIVE"}
DueOrders == {o \in due : ActiveLines(o) # {}}

TypeOK ==
    /\ status \in [Batches -> BatchStatus]
    /\ total \in [Batches -> Nat]
    /\ sold \in [Batches -> Nat]
    /\ reserved \in [Batches -> Nat]
    /\ capacity \in Nat \cup {NoCapacity}
    /\ order \in [Orders -> OrderStatus]
    /\ row \in [Orders -> [Batches -> RowStatus]]
    /\ due \subseteq Orders
    /\ confirming \in [Handlers -> Orders \cup {NoOrder}]
    /\ queue \in [Sweepers -> SUBSET Orders]
    /\ releasing \in [Sweepers -> Orders \cup {NoOrder}]
    /\ editor \in [Editors -> EditorState]
    /\ crashes \in 0..MaxCrashes
    /\ edits \in 0..MaxEdits

Init ==
    /\ status = InitialStatus
    /\ total = InitialTotal
    /\ sold = [b \in Batches |-> 0]
    /\ reserved = [b \in Batches |-> 0]
    /\ capacity = InitialCapacity
    /\ order = [o \in Orders |-> "NONE"]
    /\ row = [o \in Orders |-> [b \in Batches |-> "NONE"]]
    /\ due = {}
    /\ confirming = [h \in Handlers |-> NoOrder]
    /\ queue = [s \in Sweepers |-> {}]
    /\ releasing = [s \in Sweepers |-> NoOrder]
    /\ editor = [e \in Editors |-> Idle]
    /\ crashes = 0
    /\ edits = 0

-------------------------------------------------------------------------------
(* Statements shared by the handlers.                                      *)

(* The guarded updateMany every order transition goes through. *)
transitionStatus(o, from, to) ==
    /\ order[o] \in from
    /\ order' = [order EXCEPT ![o] = to]

(* Fault: only one of the rows is claimed. *)
claimOneRow(o, to) ==
    row' = [row EXCEPT ![o] = [b \in Batches |->
               IF ActiveLines(o) # {} /\ b = (CHOOSE x \in ActiveLines(o) : TRUE)
               THEN to ELSE row[o][b]]]

(* The ACTIVE rows of order o move to state `to`, each claimed once. *)
claimRows(o, to) ==
    row' = [row EXCEPT ![o] = [b \in Batches |->
               IF b \in ActiveLines(o) THEN to ELSE row[o][b]]]

(* The counter loses or gains the units of the ACTIVE lines of o. *)
minusLines(counter, o) ==
    [b \in Batches |-> counter[b] - (IF b \in ActiveLines(o) THEN Cart[o][b] ELSE 0)]
(* Fault: counts rows instead of their quantities. *)
plusRows(counter, o) ==
    [b \in Batches |-> counter[b] + (IF b \in ActiveLines(o) THEN 1 ELSE 0)]
plusLines(counter, o) ==
    [b \in Batches |-> counter[b] + (IF b \in ActiveLines(o) THEN Cart[o][b] ELSE 0)]

(* Fault: the holds of other orders are left out. *)
fitsIgnoringHolds(o) ==
    \A b \in LinesOf(o) : status[b] = "OPEN" /\ sold[b] + Cart[o][b] <= total[b]

(* The WHERE clause of the conditional UPDATE, for every line of the order. *)
fits(o) ==
    \A b \in LinesOf(o) : status[b] = "OPEN" /\ committed(b) + Cart[o][b] <= total[b]

(* The counters can give the lines back; otherwise the transaction throws. *)
countersCover(o) == \A b \in ActiveLines(o) : reserved[b] >= Cart[o][b]

-------------------------------------------------------------------------------
(* Checkout, payment, refund                                               *)

(* Fault: the order keeps the status of a draft. *)
createDraft(o) ==
    /\ order[o] = "NONE"
    /\ fits(o)
    /\ order' = [order EXCEPT ![o] = "CREATED"]
    /\ UNCHANGED <<batchVars, row, due, procVars, crashes, edits>>

(* createOrder down to its transaction: the order row, its items and one   *)
(* reservation per line, or nothing when a line does not fit.              *)
createOrder(o) ==
    /\ order[o] = "NONE"
    /\ fits(o)
    /\ order' = [order EXCEPT ![o] = "AWAITING_PAYMENT"]
    /\ row' = [row EXCEPT ![o] = [b \in Batches |->
                  IF b \in LinesOf(o) THEN "ACTIVE" ELSE "NONE"]]
    /\ reserved' = [b \in Batches |-> reserved[b] + Cart[o][b]]
    /\ UNCHANGED <<status, total, sold, capacity, due, procVars, crashes, edits>>

(* The hold's thirty minutes are over. *)
HoldLapses(o) ==
    /\ order[o] # "NONE"
    /\ o \notin due
    /\ due' = due \cup {o}
    /\ UNCHANGED <<batchVars, order, row, procVars, crashes, edits>>

(* Fault: the caller is told the order is paid before the units are confirmed. *)
markPaidOnly(h, o) ==
    /\ confirming[h] = NoOrder
    /\ transitionStatus(o, {"AWAITING_PAYMENT"}, "PAID")
    /\ UNCHANGED <<batchVars, row, due, procVars, crashes, edits>>

(* markOrderPaid, first statement: an approval reached us, any number of   *)
(* times and however late.  An order that is not AWAITING_PAYMENT is left  *)
(* alone (the call only writes an audit record).                           *)
markOrderPaid(h, o) ==
    /\ confirming[h] = NoOrder
    /\ transitionStatus(o, {"AWAITING_PAYMENT"}, "PAID")
    /\ confirming' = [confirming EXCEPT ![h] = o]
    /\ UNCHANGED <<batchVars, row, due, queue, releasing, editor, crashes, edits>>

(* markOrderPaid, second statement: the transaction of confirmForOrder,    *)
(* with the automatic flip to SOLD_OUT.                                    *)
confirmForOrder(h) ==
    LET o == confirming[h] IN
    /\ o # NoOrder
    /\ countersCover(o)
    /\ claimRows(o, "CONFIRMED")
    /\ reserved' = minusLines(reserved, o)
    /\ sold' = plusLines(sold, o)
    /\ status' = [b \in Batches |->
           IF b \in ActiveLines(o) /\ status[b] = "OPEN" /\ sold'[b] >= total[b]
           THEN "SOLD_OUT" ELSE status[b]]
    /\ confirming' = [confirming EXCEPT ![h] = NoOrder]
    /\ UNCHANGED <<total, capacity, order, due, queue, releasing, editor, crashes, edits>>

settleRefund(o) ==
    /\ \E kind \in {"REFUNDED", "CHARGEBACK"} : transitionStatus(o, {"PAID", "PARTIALLY_REFUNDED"}, kind)
    /\ UNCHANGED <<batchVars, row, due, procVars, crashes, edits>>

(* The handler stops between the two statements of markOrderPaid, or the   *)
(* second one throws.                                                      *)
HandlerDies(h) ==
    /\ crashes < MaxCrashes
    /\ confirming[h] # NoOrder
    /\ confirming' = [confirming EXCEPT ![h] = NoOrder]
    /\ crashes' = crashes + 1
    /\ UNCHANGED <<batchVars, orderVars, queue, releasing, editor, edits>>

-------------------------------------------------------------------------------
(* expireDueOrders                                                         *)

(* Faults: the sweep may expire a paid order; it does not expire a waiting one. *)
ExpirableOrPaid == {"AWAITING_PAYMENT", "CREATED", "PAID"}
ExpirableDraft == {"CREATED"}

Expirable == {"AWAITING_PAYMENT", "CREATED"}

(* The list query: at most SweepLimit orders with a due ACTIVE row, in no  *)
(* particular order.                                                       *)
SweepList(s) ==
    /\ queue[s] = {} /\ releasing[s] = NoOrder
    /\ \E Q \in SUBSET DueOrders :
          /\ Cardinality(Q) <= SweepLimit
          /\ Q = DueOrders \/ Cardinality(Q) = SweepLimit
          /\ queue' = [queue EXCEPT ![s] = Q]
    /\ UNCHANGED <<batchVars, orderVars, confirming, releasing, editor, crashes, edits>>

SweepExpire(s, o) ==
    /\ o \in queue[s] /\ releasing[s] = NoOrder
    /\ transitionStatus(o, Expirable, "EXPIRED")
    /\ queue' = [queue EXCEPT ![s] = @ \ {o}]
    /\ releasing' = [releasing EXCEPT ![s] = o]
    /\ UNCHANGED <<batchVars, row, due, confirming, editor, crashes, edits>>

(* The order left AWAITING_PAYMENT after the list was read. *)
SweepSkip(s, o) ==
    /\ o \in queue[s] /\ releasing[s] = NoOrder
    /\ order[o] \notin Expirable
    /\ queue' = [queue EXCEPT ![s] = @ \ {o}]
    /\ UNCHANGED <<batchVars, orderVars, confirming, releasing, editor, crashes, edits>>

(* The transaction of releaseForOrder. *)
releaseForOrder(s) ==
    LET o == releasing[s] IN
    /\ o # NoOrder
    /\ countersCover(o)
    /\ claimRows(o, "EXPIRED")
    /\ reserved' = minusLines(reserved, o)
    /\ releasing' = [releasing EXCEPT ![s] = NoOrder]
    /\ UNCHANGED <<status, total, sold, capacity, order, due, confirming, queue,
                   editor, crashes, edits>>

SweeperDies(s) ==
    /\ crashes < MaxCrashes
    /\ queue[s] # {} \/ releasing[s] # NoOrder
    /\ queue' = [queue EXCEPT ![s] = {}]
    /\ releasing' = [releasing EXCEPT ![s] = NoOrder]
    /\ crashes' = crashes + 1
    /\ UNCHANGED <<batchVars, orderVars, confirming, editor, edits>>

-------------------------------------------------------------------------------
(* Staff: every request reads, decides on what it read, and writes without *)
(* looking again.                                                          *)

BATCH_TRANSITIONS ==
    [SCHEDULED |-> {"OPEN", "CLOSED"},
     OPEN      |-> {"CLOSED", "SOLD_OUT"},
     CLOSED    |-> {"OPEN"},
     SOLD_OUT  |-> {"OPEN"}]

sumTotal(S) == SumFunctionOnSet(total, S)

begin(e, state) ==
    /\ editor[e] = Idle
    /\ edits < MaxEdits
    /\ editor' = [editor EXCEPT ![e] = state]
    /\ edits' = edits + 1
    /\ UNCHANGED <<batchVars, orderVars, confirming, queue, releasing, crashes>>

(* createSalesBatch reads the event. *)
createSalesBatch(e, b, n) ==
    /\ status[b] = "ABSENT"
    /\ \A f \in Editors : editor[f] # Idle /\ editor[f].op = "create" => editor[f].batch # b
    /\ begin(e, [op |-> "create", step |-> "check", batch |-> b, n |-> n, cap |-> capacity])

(* updateBatchQuantity reads the batch and then the event, with a          *)
(* justification; the two reads are taken as one step.                     *)
updateBatchQuantity(e, b, n) ==
    /\ status[b] # "ABSENT"
    /\ n >= committed(b)
    /\ begin(e, [op |-> "quantity", step |-> "check", batch |-> b, n |-> n, cap |-> capacity])

(* changeEventCapacity reads what is committed. *)
changeEventCapacity(e, n) ==
    /\ n > 0
    /\ n >= SumFunction([b \in Batches |-> committed(b)])
    /\ begin(e, [op |-> "capacity", step |-> "check", n |-> n])

(* openBatch and closeBatch read the batch. *)
transitionBatch(e, b, to) ==
    /\ status[b] # "ABSENT"
    /\ to \in BATCH_TRANSITIONS[status[b]]
    /\ to = "OPEN" => committed(b) < total[b]
    /\ begin(e, [op |-> "status", step |-> "write", batch |-> b, to |-> to])

(* Fault: compares the edited batch alone with the capacity. *)
withinCapacityAlone(req) ==
    req.op = "capacity" \/ req.cap = NoCapacity \/ req.n <= req.cap

(* The second read: do the batches' totals still fit the capacity? *)
withinCapacity(req) ==
    CASE req.op = "capacity" -> req.n >= sumTotal(Batches)
      [] req.op = "create"   -> req.cap = NoCapacity \/ sumTotal(Batches) + req.n <= req.cap
      [] req.op = "quantity" ->
            req.cap = NoCapacity \/ sumTotal(Batches \ {req.batch}) + req.n <= req.cap

EditorChecks(e) ==
    /\ editor[e] # Idle
    /\ editor[e].step = "check"
    /\ editor' = [editor EXCEPT ![e] =
                     IF withinCapacity(@) THEN [@ EXCEPT !.step = "write"] ELSE Idle]
    /\ UNCHANGED <<batchVars, orderVars, confirming, queue, releasing, crashes, edits>>

(* The unconditional UPDATE (or INSERT) that ends the request. *)
EditorWrites(e) ==
    LET req == editor[e] IN
    /\ req # Idle
    /\ req.step = "write"
    /\ editor' = [editor EXCEPT ![e] = Idle]
    /\ \/ /\ req.op = "quantity"
          /\ total' = [total EXCEPT ![req.batch] = req.n]
          /\ UNCHANGED <<status, capacity>>
       \/ /\ req.op = "create"
          /\ total' = [total EXCEPT ![req.batch] = req.n]
          /\ status' = [status EXCEPT ![req.batch] = "SCHEDULED"]
          /\ UNCHANGED capacity
       \/ /\ req.op = "capacity"
          /\ capacity' = req.n
          /\ UNCHANGED <<total, status>>
       \/ /\ req.op = "status"
          /\ status' = [status EXCEPT ![req.batch] = req.to]
          /\ UNCHANGED <<total, capacity>>
    /\ UNCHANGED <<sold, reserved, orderVars, confirming, queue, releasing, crashes, edits>>

-------------------------------------------------------------------------------
BuyerStep == \E o \in Orders : createOrder(o) \/ HoldLapses(o) \/ settleRefund(o)
HandlerStep(h) ==
    (\E o \in Orders : markOrderPaid(h, o)) \/ confirmForOrder(h) \/ HandlerDies(h)
SweepStep(s) ==
    SweepList(s) \/ (\E o \in Orders : SweepExpire(s, o) \/ SweepSkip(s, o))
    \/ releaseForOrder(s)
EditorStep(e) ==
    \/ \E b \in Batches, n \in Quantities : createSalesBatch(e, b, n) \/ updateBatchQuantity(e, b, n)
    \/ \E n \in Capacities : changeEventCapacity(e, n)
    \/ \E b \in Batches, to \in {"OPEN", "CLOSED"} : transitionBatch(e, b, to)
    \/ EditorChecks(e) \/ EditorWrites(e)

Next ==
    \/ BuyerStep
    \/ \E h \in Handlers : HandlerStep(h)
    \/ \E s \in Sweepers : SweepStep(s) \/ SweeperDies(s)
    \/ \E e \in Editors : EditorStep(e)

Spec == Init /\ [][Next]_vars

(* The schedule runs the sweep every minute and a request that is alive    *)
(* goes on to its next statement; nobody is obliged to pay or to edit.     *)
Fairness ==
    /\ \A h \in Handlers : WF_vars(confirmForOrder(h))
    /\ \A s \in Sweepers : WF_vars(SweepStep(s))

FairSpec == Spec /\ Fairness

-------------------------------------------------------------------------------
(* Safety                                                                  *)

(* "A reservation exists if and only if the counters were incremented": at *)
(* every moment a batch's reserved and sold counters are the units of its  *)
(* ACTIVE and CONFIRMED rows, whatever interleaving of checkouts, payments,*)
(* sweeps, crashes and staff edits led there (inventory/reservations.ts).  *)
CountersMatchRows ==
    \A b \in Batches :
        /\ reserved[b] = Cardinality(UnitsOf(row, b, {"ACTIVE"}))
        /\ sold[b] = Cardinality(UnitsOf(row, b, {"CONFIRMED"}))

(* BR-INV-001: as long as nobody edits quantities, a batch never has more  *)
(* units sold and on hold than it has, with checkouts, confirmations and   *)
(* releases racing each other (the conditional UPDATE of reserveOrderLines).*)
NoOversell == \A b \in Batches : committed(b) <= total[b]

(* The hold follows the payment: an order that may still be paid has every *)
(* line on hold, a paid one never loses a unit to a sweep that listed it   *)
(* while it was unpaid, and nothing is sold to an order that was not paid  *)
(* (markOrderPaid against expireDueOrders).                                *)
HoldsFollowPayment ==
    \A o \in Orders : \A b \in LinesOf(o) :
        /\ order[o] = "AWAITING_PAYMENT" => row[o][b] = "ACTIVE"
        /\ order[o] \in Settled => row[o][b] \in {"ACTIVE", "CONFIRMED"}
        /\ order[o] = "EXPIRED" => row[o][b] \in {"ACTIVE", "EXPIRED"}

(* No step that gives out units takes a batch beyond its total, even while *)
(* staff are resizing it: a batch can be oversold only by an edit that     *)
(* shrinks it under units already given out.                               *)
SellsOnlyWithinTotal ==
    [][\A b \in Batches : committed(b)' > committed(b) => committed(b)' <= total'[b]]_vars

(* FR-INV-004 wants the batches of an event to fit its capacity.  Requests *)
(* at the same time decide on sums the others are changing, so that they   *)
(* need not; what holds is a bound on the excess: the batches never add up *)
(* to more than the highest capacity of the event, once for each staff     *)
(* request that runs at a time, however many batches there are and however *)
(* long staff go on, since a request that finds an excess does not add to  *)
(* it (createSalesBatch, updateBatchQuantity, changeEventCapacity).        *)
HighestCapacity ==
    LET all == {InitialCapacity} \cup Capacities IN CHOOSE n \in all : \A m \in all : m <= n
OverbookingBounded ==
    InitialCapacity # NoCapacity =>
        sumTotal(Batches) <= Cardinality(Editors) * HighestCapacity

(* The detailed system does what Allocation promises: all lines or none,   *)
(* only what fits, and each hold kept or returned exactly once.            *)
Alloc == INSTANCE Allocation WITH quota <- total, claim <- row
AllocationSpec == Alloc!Spec

-------------------------------------------------------------------------------
(* Liveness                                                                *)

(* FR-INV-007: the units of an order that was not paid in time come back:  *)
(* a due order ends up with no ACTIVE row, however many orders fall due at *)
(* once and however few each sweep takes.                                  *)
DueHoldsEnd == \A o \in Orders : (o \in due) ~> (ActiveLines(o) = {})

(* A paid order's units end up sold: its hold does not stay ACTIVE.        *)
PaidHoldsConfirmed == \A o \in Orders : (order[o] = "PAID") ~> (ActiveLines(o) = {})

===============================================================================
