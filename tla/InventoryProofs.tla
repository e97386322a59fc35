---------------------------- MODULE InventoryProofs ----------------------------
(***************************************************************************)
(* Inventory, for any number of orders, batches, handlers, sweepers and    *)
(* staff requests, any carts and any number of crashes: types, the safety  *)
(* invariants, and the refinement of Allocation.                           *)
(***************************************************************************)
EXTENDS Inventory, CartsProofs, Sums

(* What the status of an order says of its rows, and conversely. *)
RowsFollowOrder ==
    \A o \in Orders : \A b \in Batches :
        IF Cart[o][b] > 0
        THEN /\ order[o] = "NONE" <=> row[o][b] = "NONE"
             /\ order[o] = "AWAITING_PAYMENT" => row[o][b] = "ACTIVE"
             /\ order[o] \in Settled => row[o][b] \in {"ACTIVE", "CONFIRMED"}
             /\ order[o] = "EXPIRED" => row[o][b] \in {"ACTIVE", "EXPIRED"}
        ELSE row[o][b] = "NONE"

(* A process half-way through its work holds an order in the state that    *)
(* its first statement left it in, or one that only follows it.            *)
HandsOnDecided ==
    /\ \A h \in Handlers : confirming[h] # NoOrder => order[confirming[h]] \in Settled
    /\ \A s \in Sweepers : releasing[s] # NoOrder => order[releasing[s]] = "EXPIRED"

(* The inductive invariant. *)
Inv == TypeOK /\ CountersMatchRows /\ RowsFollowOrder /\ HandsOnDecided

-------------------------------------------------------------------------------
(* Types                                                                   *)

(* Carts hold natural numbers of units. *)
LEMMA CartNat == \A o \in Orders : \A b \in Batches : Cart[o][b] \in Nat
BY CartsAssumption

(* The initial state is well typed. *)
LEMMA TypeInit == Init => TypeOK
BY InventoryAssumption DEF Init, TypeOK, OrderStatus, RowStatus, EditorState

(* A buyer's step keeps the types. *)
LEMMA TypeBuyer == TypeOK /\ BuyerStep => TypeOK'
<1> SUFFICES ASSUME TypeOK, NEW o \in Orders,
                    createOrder(o) \/ HoldLapses(o) \/ settleRefund(o)
             PROVE  TypeOK'
    BY DEF BuyerStep
<1>1. CASE createOrder(o)
    <2>1. reserved' \in [Batches -> Nat]
        BY <1>1, CartNat DEF createOrder, TypeOK
    <2>2. row' \in [Orders -> [Batches -> RowStatus]]
        BY <1>1 DEF createOrder, TypeOK, RowStatus
    <2>3. order' \in [Orders -> OrderStatus]
        BY <1>1 DEF createOrder, TypeOK, OrderStatus
    <2>4. QED
        BY <1>1, <2>1, <2>2, <2>3 DEF createOrder, TypeOK, procVars
<1>2. CASE HoldLapses(o)
    BY <1>2 DEF HoldLapses, TypeOK, batchVars, procVars
<1>3. CASE settleRefund(o)
    <2>1. order' \in [Orders -> OrderStatus]
        BY <1>3 DEF settleRefund, transitionStatus, TypeOK, OrderStatus
    <2>2. QED
        BY <1>3, <2>1 DEF settleRefund, TypeOK, batchVars, procVars
<1>4. QED
    BY <1>1, <1>2, <1>3

(* Claiming rows keeps their type. *)
LEMMA TypeClaim ==
    ASSUME TypeOK, NEW o \in Orders, NEW to \in RowStatus, claimRows(o, to)
    PROVE  row' \in [Orders -> [Batches -> RowStatus]]
BY DEF claimRows, TypeOK

(* A counter that covers the lines stays natural when they leave it. *)
LEMMA TypeMinus ==
    ASSUME TypeOK, NEW o \in Orders, countersCover(o)
    PROVE  minusLines(reserved, o) \in [Batches -> Nat]
BY CartNat DEF minusLines, countersCover, TypeOK

(* A counter stays natural when lines enter it. *)
LEMMA TypePlus ==
    ASSUME TypeOK, NEW o \in Orders
    PROVE  plusLines(sold, o) \in [Batches -> Nat]
BY CartNat DEF plusLines, TypeOK

(* A handler's step keeps the types. *)
LEMMA TypeHandler ==
    ASSUME TypeOK, NEW h \in Handlers, HandlerStep(h)
    PROVE  TypeOK'
<1>1. ASSUME NEW o \in Orders, markOrderPaid(h, o) PROVE TypeOK'
    <2>1. order' \in [Orders -> OrderStatus]
        BY <1>1 DEF markOrderPaid, transitionStatus, TypeOK, OrderStatus
    <2>2. confirming' \in [Handlers -> Orders \cup {NoOrder}]
        BY <1>1 DEF markOrderPaid, TypeOK
    <2>3. QED
        BY <1>1, <2>1, <2>2 DEF markOrderPaid, TypeOK, batchVars
<1>2. CASE confirmForOrder(h)
    <2> DEFINE o == confirming[h]
    <2>1. o \in Orders
        BY <1>2 DEF confirmForOrder, TypeOK
    <2>2. row' \in [Orders -> [Batches -> RowStatus]]
        BY <1>2, <2>1, TypeClaim DEF confirmForOrder, RowStatus
    <2>3. reserved' \in [Batches -> Nat] /\ sold' \in [Batches -> Nat]
        BY <1>2, <2>1, TypeMinus, TypePlus DEF confirmForOrder
    <2>4. status' \in [Batches -> BatchStatus]
        BY <1>2 DEF confirmForOrder, TypeOK, BatchStatus
    <2>5. confirming' \in [Handlers -> Orders \cup {NoOrder}]
        BY <1>2 DEF confirmForOrder, TypeOK
    <2>6. QED
        BY <1>2, <2>2, <2>3, <2>4, <2>5 DEF confirmForOrder, TypeOK
<1>3. CASE HandlerDies(h)
    BY <1>3, InventoryAssumption DEF HandlerDies, TypeOK, batchVars, orderVars
<1>4. QED
    BY <1>1, <1>2, <1>3 DEF HandlerStep

(* A sweeper's step keeps the types. *)
LEMMA TypeSweeper ==
    ASSUME TypeOK, NEW s \in Sweepers, SweepStep(s) \/ SweeperDies(s)
    PROVE  TypeOK'
<1>1. CASE SweepList(s)
    <2>1. DueOrders \subseteq Orders
        BY DEF DueOrders, TypeOK
    <2>2. queue' \in [Sweepers -> SUBSET Orders]
        BY <1>1, <2>1 DEF SweepList, TypeOK
    <2>3. QED
        BY <1>1, <2>2 DEF SweepList, TypeOK, batchVars, orderVars
<1>2. ASSUME NEW o \in Orders, SweepExpire(s, o) PROVE TypeOK'
    <2>1. order' \in [Orders -> OrderStatus]
        BY <1>2 DEF SweepExpire, transitionStatus, TypeOK, OrderStatus
    <2>2. /\ queue' \in [Sweepers -> SUBSET Orders]
          /\ releasing' \in [Sweepers -> Orders \cup {NoOrder}]
        BY <1>2 DEF SweepExpire, TypeOK
    <2>3. QED
        BY <1>2, <2>1, <2>2 DEF SweepExpire, TypeOK, batchVars
<1>3. ASSUME NEW o \in Orders, SweepSkip(s, o) PROVE TypeOK'
    BY <1>3 DEF SweepSkip, TypeOK, batchVars, orderVars
<1>4. CASE releaseForOrder(s)
    <2> DEFINE o == releasing[s]
    <2>1. o \in Orders
        BY <1>4 DEF releaseForOrder, TypeOK
    <2>2. row' \in [Orders -> [Batches -> RowStatus]]
        BY <1>4, <2>1, TypeClaim DEF releaseForOrder, RowStatus
    <2>3. reserved' \in [Batches -> Nat]
        BY <1>4, <2>1, TypeMinus DEF releaseForOrder
    <2>4. QED
        BY <1>4, <2>2, <2>3 DEF releaseForOrder, TypeOK
<1>5. CASE SweeperDies(s)
    BY <1>5, InventoryAssumption DEF SweeperDies, TypeOK, batchVars, orderVars
<1>6. QED
    BY <1>1, <1>2, <1>3, <1>4, <1>5 DEF SweepStep

(* What a staff request carries is well typed. *)
LEMMA EditorFields ==
    ASSUME TypeOK, NEW e \in Editors, editor[e] # Idle
    PROVE  /\ editor[e].op \in {"status", "quantity", "create", "capacity"}
           /\ editor[e].op \in {"quantity", "create"} => editor[e].n \in Quantities
           /\ editor[e].op = "capacity" => editor[e].n \in Capacities
           /\ editor[e].op = "status" => editor[e].to \in BatchStatus
           /\ editor[e].op # "capacity" => editor[e].batch \in Batches
BY DEF TypeOK, EditorState

(* A staff request's step keeps the types. *)
LEMMA TypeEditor ==
    ASSUME TypeOK, NEW e \in Editors, EditorStep(e)
    PROVE  TypeOK'
<1>1. ASSUME NEW state \in EditorState, begin(e, state) PROVE TypeOK'
    <2>1. editor' \in [Editors -> EditorState]
        BY <1>1 DEF begin, TypeOK
    <2>2. QED
        BY <1>1, <2>1, InventoryAssumption DEF begin, TypeOK, batchVars, orderVars
<1>2. ASSUME NEW b \in Batches, NEW n \in Quantities, createSalesBatch(e, b, n)
      PROVE  TypeOK'
    BY <1>1, <1>2 DEF createSalesBatch, EditorState, TypeOK
<1>3. ASSUME NEW b \in Batches, NEW n \in Quantities, updateBatchQuantity(e, b, n)
      PROVE  TypeOK'
    BY <1>1, <1>3 DEF updateBatchQuantity, EditorState, TypeOK
<1>4. ASSUME NEW n \in Capacities, changeEventCapacity(e, n) PROVE TypeOK'
    BY <1>1, <1>4 DEF changeEventCapacity, EditorState
<1>5. ASSUME NEW b \in Batches, NEW to \in {"OPEN", "CLOSED"}, transitionBatch(e, b, to)
      PROVE  TypeOK'
    BY <1>1, <1>5 DEF transitionBatch, EditorState, BatchStatus
<1>6. CASE EditorChecks(e)
    <2>1. [editor[e] EXCEPT !.step = "write"] \in EditorState
        BY ZenonT(40), <1>6 DEF EditorChecks, TypeOK, EditorState, Idle
    <2>2. Idle \in EditorState
        BY DEF EditorState
    <2>3. editor' \in [Editors -> EditorState]
        BY <1>6, <2>1, <2>2 DEF EditorChecks, TypeOK
    <2>4. QED
        BY <1>6, <2>3 DEF EditorChecks, TypeOK, batchVars, orderVars
<1>7. CASE EditorWrites(e)
    <2>1. editor' \in [Editors -> EditorState]
        BY <1>7 DEF EditorWrites, TypeOK, EditorState
    <2>2. /\ total' \in [Batches -> Nat]
          /\ status' \in [Batches -> BatchStatus]
          /\ capacity' \in Nat \cup {NoCapacity}
        BY <1>7, EditorFields, InventoryAssumption DEF EditorWrites, TypeOK, BatchStatus
    <2>3. QED
        BY <1>7, <2>1, <2>2 DEF EditorWrites, TypeOK, orderVars
<1>8. QED
    BY <1>2, <1>3, <1>4, <1>5, <1>6, <1>7 DEF EditorStep

(* Every step keeps the types. *)
LEMMA TypeNext == TypeOK /\ [Next]_vars => TypeOK'
<1> SUFFICES ASSUME TypeOK, [Next]_vars PROVE TypeOK'
    OBVIOUS
<1>1. CASE UNCHANGED vars
    BY <1>1 DEF TypeOK, vars, batchVars, orderVars, procVars
<1>2. QED
    BY <1>1, TypeBuyer, TypeHandler, TypeSweeper, TypeEditor DEF Next

(* Every reachable state is well typed; above all the counters are natural *)
(* numbers, so no confirmation or release ever takes one below zero.       *)
THEOREM TypeCorrect == Spec => []TypeOK
<1>1. Init => TypeOK
    BY TypeInit
<1>2. TypeOK /\ [Next]_vars => TypeOK'
    BY TypeNext
<1>3. QED
    BY <1>1, <1>2, PTL DEF Spec

-------------------------------------------------------------------------------
(* Counters and rows                                                       *)

(* The units that claiming the rows of order o moves in batch b. *)
moved(o, b) == IF b \in ActiveLines(o) THEN Cart[o][b] ELSE 0

(* Claiming rows takes exactly the moved units out of ACTIVE, and puts     *)
(* them in CONFIRMED when that is where they go.                           *)
LEMMA ClaimCounts ==
    ASSUME TypeOK, NEW o \in Orders, NEW b \in Batches,
           NEW to \in {"CONFIRMED", "EXPIRED"}, claimRows(o, to)
    PROVE  /\ Cardinality(UnitsOf(row, b, {"ACTIVE"})) =
                  Cardinality(UnitsOf(row', b, {"ACTIVE"})) + moved(o, b)
           /\ to = "CONFIRMED" =>
                  Cardinality(UnitsOf(row', b, {"CONFIRMED"})) =
                  Cardinality(UnitsOf(row, b, {"CONFIRMED"})) + moved(o, b)
           /\ to = "EXPIRED" =>
                  UnitsOf(row', b, {"CONFIRMED"}) = UnitsOf(row, b, {"CONFIRMED"})
<1>1. /\ \A p \in Orders \ {o} : row'[p][b] = row[p][b]
      /\ row'[o][b] = IF b \in ActiveLines(o) THEN to ELSE row[o][b]
    BY DEF claimRows, TypeOK
<1>2. CASE b \in ActiveLines(o)
    <2>1. row[o][b] = "ACTIVE" /\ row'[o][b] = to
        BY <1>1, <1>2 DEF ActiveLines
    <2>2. Cardinality(UnitsOf(row, b, {"ACTIVE"})) =
              Cardinality(UnitsOf(row', b, {"ACTIVE"})) + Cart[o][b]
        BY <1>1, <2>1, UnitsEnter
    <2>3. to = "CONFIRMED" =>
              Cardinality(UnitsOf(row', b, {"CONFIRMED"})) =
              Cardinality(UnitsOf(row, b, {"CONFIRMED"})) + Cart[o][b]
        BY <1>1, <2>1, UnitsEnter
    <2>4. to = "EXPIRED" =>
              UnitsOf(row', b, {"CONFIRMED"}) = UnitsOf(row, b, {"CONFIRMED"})
        BY <1>1, <2>1, UnitsUnmoved
    <2>5. QED
        BY <1>2, <2>2, <2>3, <2>4 DEF moved
<1>3. CASE b \notin ActiveLines(o)
    <2>1. \A p \in Orders : row'[p][b] = row[p][b]
        BY <1>1, <1>3
    <2>2. \A S : UnitsOf(row', b, S) = UnitsOf(row, b, S)
        BY <2>1 DEF UnitsOf
    <2>3. Cardinality(UnitsOf(row, b, {"ACTIVE"})) \in Nat
          /\ Cardinality(UnitsOf(row, b, {"CONFIRMED"})) \in Nat
        BY UnitsFinite
    <2>4. QED
        BY <1>3, <2>2, <2>3 DEF moved
<1>4. QED
    BY <1>2, <1>3

(* A new order's rows add its cart to the units on hold. *)
LEMMA CreateCounts ==
    ASSUME TypeOK, RowsFollowOrder, NEW o \in Orders, NEW b \in Batches, createOrder(o)
    PROVE  /\ Cardinality(UnitsOf(row', b, {"ACTIVE"})) =
                  Cardinality(UnitsOf(row, b, {"ACTIVE"})) + Cart[o][b]
           /\ UnitsOf(row', b, {"CONFIRMED"}) = UnitsOf(row, b, {"CONFIRMED"})
<1>1. /\ \A p \in Orders \ {o} : row'[p][b] = row[p][b]
      /\ row'[o][b] = IF b \in LinesOf(o) THEN "ACTIVE" ELSE "NONE"
      /\ row[o][b] = "NONE"
    BY CartNat DEF createOrder, TypeOK, RowsFollowOrder
<1>2. UnitsOf(row', b, {"CONFIRMED"}) = UnitsOf(row, b, {"CONFIRMED"})
    BY <1>1, UnitsUnmoved
<1>3. CASE b \in LinesOf(o)
    <2>1. row[o][b] \notin {"ACTIVE"} /\ row'[o][b] \in {"ACTIVE"}
        BY <1>1, <1>3
    <2>2. Cardinality(UnitsOf(row', b, {"ACTIVE"})) =
              Cardinality(UnitsOf(row, b, {"ACTIVE"})) + Cart[o][b]
        BY <1>1, <2>1, UnitsEnter
    <2>3. QED
        BY <1>2, <2>2
<1>4. CASE b \notin LinesOf(o)
    <2>1. Cart[o][b] = 0
        BY <1>4, CartNat DEF LinesOf
    <2>2. UnitsOf(row', b, {"ACTIVE"}) = UnitsOf(row, b, {"ACTIVE"})
        BY <1>1, <1>4, UnitsUnmoved
    <2>3. QED
        BY <1>2, <2>1, <2>2, UnitsFinite
<1>5. QED
    BY <1>3, <1>4

(* The steps that move units: a checkout, a confirmation, a release. *)
Moves ==
    \/ \E o \in Orders : createOrder(o)
    \/ \E h \in Handlers : confirmForOrder(h)
    \/ \E s \in Sweepers : releaseForOrder(s)

(* Every other step leaves the rows and the counters alone. *)
LEMMA OthersLeaveUnits ==
    ASSUME [Next]_vars, ~Moves
    PROVE  UNCHANGED <<row, sold, reserved>>
BY DEF Next, Moves, BuyerStep, HandlerStep, SweepStep, EditorStep, vars, batchVars, orderVars,
       HoldLapses, settleRefund, markOrderPaid, HandlerDies, SweepList, SweepExpire, SweepSkip,
       SweeperDies, createSalesBatch, updateBatchQuantity, changeEventCapacity, transitionBatch,
       begin, EditorChecks, EditorWrites

(* Every step keeps the counters equal to the units of the rows. *)
LEMMA CountersNext ==
    Inv /\ [Next]_vars => CountersMatchRows'
<1> SUFFICES ASSUME Inv, [Next]_vars, NEW b \in Batches
             PROVE  /\ reserved'[b] = Cardinality(UnitsOf(row', b, {"ACTIVE"}))
                    /\ sold'[b] = Cardinality(UnitsOf(row', b, {"CONFIRMED"}))
    BY DEF CountersMatchRows, UnitsOf
<1> USE DEF Inv
<1>1. /\ reserved[b] = Cardinality(UnitsOf(row, b, {"ACTIVE"}))
      /\ sold[b] = Cardinality(UnitsOf(row, b, {"CONFIRMED"}))
    BY DEF CountersMatchRows
<1>2. /\ reserved[b] \in Nat /\ sold[b] \in Nat
      /\ Cardinality(UnitsOf(row', b, {"ACTIVE"})) \in Nat
    BY UnitsFinite DEF TypeOK
<1>3. ASSUME NEW o \in Orders, createOrder(o)
      PROVE  /\ reserved'[b] = Cardinality(UnitsOf(row', b, {"ACTIVE"}))
             /\ sold'[b] = Cardinality(UnitsOf(row', b, {"CONFIRMED"}))
    <2>1. reserved'[b] = reserved[b] + Cart[o][b] /\ sold'[b] = sold[b]
        BY <1>3 DEF createOrder
    <2>2. QED
        BY <1>1, <1>3, <2>1, CreateCounts
<1>4. ASSUME NEW h \in Handlers, confirmForOrder(h)
      PROVE  /\ reserved'[b] = Cardinality(UnitsOf(row', b, {"ACTIVE"}))
             /\ sold'[b] = Cardinality(UnitsOf(row', b, {"CONFIRMED"}))
    <2> DEFINE o == confirming[h]
    <2>1. o \in Orders
        BY <1>4 DEF confirmForOrder, TypeOK
    <2>2. /\ reserved'[b] = reserved[b] - moved(o, b)
          /\ sold'[b] = sold[b] + moved(o, b)
        BY <1>4 DEF confirmForOrder, minusLines, plusLines, moved
    <2>3. claimRows(o, "CONFIRMED")
        BY <1>4 DEF confirmForOrder
    <2>4. moved(o, b) \in Nat
        BY <2>1, CartNat DEF moved
    <2>5. /\ reserved[b] = Cardinality(UnitsOf(row', b, {"ACTIVE"})) + moved(o, b)
          /\ Cardinality(UnitsOf(row', b, {"CONFIRMED"})) = sold[b] + moved(o, b)
        BY <1>1, <2>1, <2>3, ClaimCounts
    <2>6. QED
        BY <1>2, <2>2, <2>4, <2>5
<1>5. ASSUME NEW s \in Sweepers, releaseForOrder(s)
      PROVE  /\ reserved'[b] = Cardinality(UnitsOf(row', b, {"ACTIVE"}))
             /\ sold'[b] = Cardinality(UnitsOf(row', b, {"CONFIRMED"}))
    <2> DEFINE o == releasing[s]
    <2>1. o \in Orders
        BY <1>5 DEF releaseForOrder, TypeOK
    <2>2. reserved'[b] = reserved[b] - moved(o, b) /\ sold'[b] = sold[b]
        BY <1>5 DEF releaseForOrder, minusLines, moved
    <2>3. claimRows(o, "EXPIRED")
        BY <1>5 DEF releaseForOrder
    <2>4. moved(o, b) \in Nat
        BY <2>1, CartNat DEF moved
    <2>5. /\ reserved[b] = Cardinality(UnitsOf(row', b, {"ACTIVE"})) + moved(o, b)
          /\ UnitsOf(row', b, {"CONFIRMED"}) = UnitsOf(row, b, {"CONFIRMED"})
        BY <1>1, <2>1, <2>3, ClaimCounts
    <2>6. QED
        BY <1>1, <1>2, <2>2, <2>4, <2>5
<1>6. CASE ~Moves
    BY <1>1, <1>6, OthersLeaveUnits
<1>7. QED
    BY <1>3, <1>4, <1>5, <1>6 DEF Moves

-------------------------------------------------------------------------------
(* Orders and rows                                                         *)

(* A buyer's step keeps rows and statuses together. *)
LEMMA RowsBuyer ==
    ASSUME Inv, BuyerStep
    PROVE  RowsFollowOrder'
<1> USE DEF Inv
<1>1. ASSUME NEW o \in Orders, createOrder(o) PROVE RowsFollowOrder'
    BY <1>1, CartNat DEF createOrder, RowsFollowOrder, TypeOK, LinesOf, Settled
<1>2. ASSUME NEW o \in Orders, HoldLapses(o) PROVE RowsFollowOrder'
    BY <1>2 DEF HoldLapses, RowsFollowOrder
<1>3. ASSUME NEW o \in Orders, settleRefund(o) PROVE RowsFollowOrder'
    BY <1>3 DEF settleRefund, transitionStatus, RowsFollowOrder, TypeOK, Settled, OrderStatus
<1>4. QED
    BY <1>1, <1>2, <1>3 DEF BuyerStep

(* A handler only marks orders whose units are all on hold, and only       *)
(* confirms the units of orders that were paid.                            *)
LEMMA RowsHandler ==
    ASSUME Inv, NEW h \in Handlers, HandlerStep(h)
    PROVE  RowsFollowOrder'
<1> USE DEF Inv
<1>1. ASSUME NEW o \in Orders, markOrderPaid(h, o) PROVE RowsFollowOrder'
    BY <1>1 DEF markOrderPaid, transitionStatus, RowsFollowOrder, TypeOK, Settled
<1>2. CASE confirmForOrder(h)
    <2> DEFINE o == confirming[h]
    <2>1. o \in Orders /\ order[o] \in Settled
        BY <1>2 DEF confirmForOrder, TypeOK, HandsOnDecided
    <2>2. /\ order' = order
          /\ \A p \in Orders, b \in Batches :
                row'[p][b] = IF p = o /\ b \in ActiveLines(o) THEN "CONFIRMED" ELSE row[p][b]
        BY <1>2, <2>1 DEF confirmForOrder, claimRows, TypeOK
    <2>3. QED
        BY <2>1, <2>2 DEF RowsFollowOrder, ActiveLines, LinesOf, Settled
<1>3. CASE HandlerDies(h)
    BY <1>3 DEF HandlerDies, orderVars, RowsFollowOrder
<1>4. QED
    BY <1>1, <1>2, <1>3 DEF HandlerStep

(* A sweeper only expires orders that wait, and only releases the units of *)
(* orders that it expired.                                                 *)
LEMMA RowsSweeper ==
    ASSUME Inv, NEW s \in Sweepers, SweepStep(s) \/ SweeperDies(s)
    PROVE  RowsFollowOrder'
<1> USE DEF Inv
<1>1. CASE SweepList(s) \/ SweeperDies(s) \/ \E o \in Orders : SweepSkip(s, o)
    BY <1>1 DEF SweepList, SweeperDies, SweepSkip, orderVars, RowsFollowOrder
<1>2. ASSUME NEW o \in Orders, SweepExpire(s, o) PROVE RowsFollowOrder'
    <2>1. order[o] = "AWAITING_PAYMENT"
        BY <1>2 DEF SweepExpire, transitionStatus, Expirable, TypeOK, OrderStatus
    <2>2. QED
        BY <1>2, <2>1 DEF SweepExpire, transitionStatus, RowsFollowOrder, TypeOK, Settled
<1>3. CASE releaseForOrder(s)
    <2> DEFINE o == releasing[s]
    <2>1. o \in Orders /\ order[o] = "EXPIRED"
        BY <1>3 DEF releaseForOrder, TypeOK, HandsOnDecided
    <2>2. /\ order' = order
          /\ \A p \in Orders, b \in Batches :
                row'[p][b] = IF p = o /\ b \in ActiveLines(o) THEN "EXPIRED" ELSE row[p][b]
        BY <1>3, <2>1 DEF releaseForOrder, claimRows, TypeOK
    <2>3. QED
        BY <2>1, <2>2 DEF RowsFollowOrder, ActiveLines, LinesOf, Settled
<1>4. QED
    BY <1>1, <1>2, <1>3 DEF SweepStep

(* A staff request never touches an order. *)
LEMMA EditorLeavesOrders ==
    ASSUME NEW e \in Editors, EditorStep(e)
    PROVE  UNCHANGED <<order, row, confirming, releasing>>
BY DEF EditorStep, createSalesBatch, updateBatchQuantity, changeEventCapacity, transitionBatch,
       begin, EditorChecks, EditorWrites, orderVars

(* Every step keeps rows and statuses together. *)
LEMMA RowsNext == Inv /\ [Next]_vars => RowsFollowOrder'
<1> SUFFICES ASSUME Inv, [Next]_vars PROVE RowsFollowOrder'
    OBVIOUS
<1>1. CASE UNCHANGED vars
    BY <1>1 DEF vars, orderVars, RowsFollowOrder, Inv
<1>2. CASE \E e \in Editors : EditorStep(e)
    BY <1>2, EditorLeavesOrders DEF RowsFollowOrder, Inv
<1>3. QED
    BY <1>1, <1>2, RowsBuyer, RowsHandler, RowsSweeper DEF Next

(* Only a waiting order leaves its status other than by a refund, so what  *)
(* a process decided stays decided.                                        *)
LEMMA StatusesSettle ==
    ASSUME Inv, [Next]_vars, NEW o \in Orders
    PROVE  /\ order[o] \in Settled => order'[o] \in Settled
           /\ order[o] = "EXPIRED" => order'[o] = "EXPIRED"
<1> USE DEF Inv, TypeOK
<1>1. CASE \E p \in Orders : createOrder(p)
    BY <1>1 DEF createOrder, Settled
<1>2. CASE \E p \in Orders : settleRefund(p)
    BY <1>2 DEF settleRefund, transitionStatus, Settled
<1>3. CASE \E h \in Handlers, p \in Orders : markOrderPaid(h, p)
    <2>1. PICK p \in Orders : transitionStatus(p, {"AWAITING_PAYMENT"}, "PAID")
        BY <1>3 DEF markOrderPaid
    <2>2. QED
        BY <2>1 DEF transitionStatus, Settled
<1>4. CASE \E s \in Sweepers, p \in Orders : SweepExpire(s, p)
    <2>1. PICK p \in Orders : transitionStatus(p, Expirable, "EXPIRED")
        BY <1>4 DEF SweepExpire
    <2>2. QED
        BY <2>1 DEF transitionStatus, Settled, Expirable
<1>5. CASE UNCHANGED order
    BY <1>5
<1>6. QED
    BY <1>1, <1>2, <1>3, <1>4, <1>5, EditorLeavesOrders
    DEF Next, BuyerStep, HandlerStep, SweepStep, HoldLapses, confirmForOrder, HandlerDies,
        SweepList, SweepSkip, releaseForOrder, SweeperDies, vars, orderVars

(* A process takes up an order in the step that decides it. *)
LEMMA HandsTakeDecided ==
    ASSUME Inv, [Next]_vars
    PROVE  /\ \A h \in Handlers : confirming'[h] \in {NoOrder, confirming[h]}
                                     \/ order'[confirming'[h]] \in Settled
           /\ \A s \in Sweepers : releasing'[s] \in {NoOrder, releasing[s]}
                                     \/ order'[releasing'[s]] = "EXPIRED"
<1> USE DEF Inv, TypeOK
<1>1. ASSUME NEW h \in Handlers, HandlerStep(h)
      PROVE  /\ releasing' = releasing
             /\ \A g \in Handlers : confirming'[g] \in {NoOrder, confirming[g]}
                                       \/ order'[confirming'[g]] \in Settled
    <2>1. ASSUME NEW o \in Orders, markOrderPaid(h, o)
          PROVE  /\ releasing' = releasing
                 /\ \A g \in Handlers : confirming'[g] = confirming[g]
                                           \/ order'[confirming'[g]] \in Settled
        BY <2>1 DEF markOrderPaid, transitionStatus, Settled
    <2>2. CASE confirmForOrder(h) \/ HandlerDies(h)
        BY <2>2 DEF confirmForOrder, HandlerDies
    <2>3. QED
        BY <1>1, <2>1, <2>2 DEF HandlerStep
<1>2. ASSUME NEW s \in Sweepers, SweepStep(s) \/ SweeperDies(s)
      PROVE  /\ confirming' = confirming
             /\ \A t \in Sweepers : releasing'[t] \in {NoOrder, releasing[t]}
                                       \/ order'[releasing'[t]] = "EXPIRED"
    <2>1. ASSUME NEW o \in Orders, SweepExpire(s, o)
          PROVE  /\ confirming' = confirming
                 /\ \A t \in Sweepers : releasing'[t] = releasing[t]
                                           \/ order'[releasing'[t]] = "EXPIRED"
        BY <2>1 DEF SweepExpire, transitionStatus
    <2>2. CASE releaseForOrder(s) \/ SweeperDies(s)
        BY <2>2 DEF releaseForOrder, SweeperDies
    <2>3. CASE SweepList(s) \/ \E o \in Orders : SweepSkip(s, o)
        BY <2>3 DEF SweepList, SweepSkip
    <2>4. QED
        BY <1>2, <2>1, <2>2, <2>3 DEF SweepStep
<1>3. CASE UNCHANGED <<confirming, releasing>>
    BY <1>3
<1>4. QED
    BY <1>1, <1>2, <1>3, EditorLeavesOrders
    DEF Next, BuyerStep, createOrder, HoldLapses, settleRefund, vars, procVars

(* Every step keeps what the processes hold decided. *)
LEMMA HandsNext == Inv /\ [Next]_vars => HandsOnDecided'
<1> SUFFICES ASSUME Inv, [Next]_vars PROVE HandsOnDecided'
    OBVIOUS
<1>1. ASSUME NEW h \in Handlers, confirming'[h] # NoOrder
      PROVE  order'[confirming'[h]] \in Settled
    <2>1. CASE confirming'[h] = confirming[h]
        BY <1>1, <2>1, StatusesSettle DEF Inv, HandsOnDecided, TypeOK
    <2>2. QED
        BY <1>1, <2>1, HandsTakeDecided
<1>2. ASSUME NEW s \in Sweepers, releasing'[s] # NoOrder
      PROVE  order'[releasing'[s]] = "EXPIRED"
    <2>1. CASE releasing'[s] = releasing[s]
        BY <1>2, <2>1, StatusesSettle DEF Inv, HandsOnDecided, TypeOK
    <2>2. QED
        BY <1>2, <2>1, HandsTakeDecided
<1>3. QED
    BY <1>1, <1>2 DEF HandsOnDecided

(* The initial state satisfies the inductive invariant. *)
LEMMA InvInit == Init => Inv
<1> SUFFICES ASSUME Init PROVE Inv
    OBVIOUS
<1>1. TypeOK
    BY TypeInit
<1>2. CountersMatchRows
    <2>1. ASSUME NEW b \in Batches PROVE UnitsOf(row, b, {"ACTIVE"}) = {}
        BY <2>1 DEF Init, UnitsOf
    <2>2. ASSUME NEW b \in Batches PROVE UnitsOf(row, b, {"CONFIRMED"}) = {}
        BY <2>2 DEF Init, UnitsOf
    <2>3. QED
        BY <2>1, <2>2, FS_EmptySet DEF Init, CountersMatchRows
<1>3. RowsFollowOrder
    BY DEF Init, RowsFollowOrder, Settled
<1>4. HandsOnDecided
    BY DEF Init, HandsOnDecided
<1>5. QED
    BY <1>1, <1>2, <1>3, <1>4 DEF Inv

(* The inductive invariant holds in every reachable state. *)
THEOREM Invariant == Spec => []Inv
<1>1. Inv /\ [Next]_vars => Inv'
    BY TypeNext, CountersNext, RowsNext, HandsNext DEF Inv
<1>2. QED
    BY InvInit, <1>1, PTL DEF Spec

(* The counters of every batch are the units of its rows, whatever the     *)
(* interleaving of checkouts, payments, sweeps, crashes and edits.         *)
THEOREM CountersCorrect == Spec => []CountersMatchRows
<1>1. Inv => CountersMatchRows
    BY DEF Inv
<1>2. QED
    BY Invariant, <1>1, PTL

(* The hold of an order follows its payment: a paid order never loses a    *)
(* unit to a sweep, and only paid orders have units sold.                  *)
THEOREM HoldsCorrect == Spec => []HoldsFollowPayment
<1>1. Inv => HoldsFollowPayment
    BY DEF Inv, HoldsFollowPayment, RowsFollowOrder, LinesOf
<1>2. QED
    BY Invariant, <1>1, PTL

-------------------------------------------------------------------------------
(* What is given out                                                       *)

(* Confirming and releasing never raise what a batch has committed. *)
LEMMA OnlyCheckoutCommits ==
    ASSUME Inv, [Next]_vars, NEW b \in Batches, committed(b)' > committed(b)
    PROVE  \E o \in Orders : createOrder(o)
<1> USE DEF Inv, TypeOK
<1>1. reserved[b] \in Nat /\ sold[b] \in Nat
    OBVIOUS
<1>2. ASSUME NEW h \in Handlers, confirmForOrder(h) PROVE committed(b)' = committed(b)
    <2> DEFINE o == confirming[h]
    <2>1. o \in Orders
        BY <1>2 DEF confirmForOrder
    <2>2. /\ reserved'[b] = reserved[b] - moved(o, b)
          /\ sold'[b] = sold[b] + moved(o, b)
        BY <1>2 DEF confirmForOrder, minusLines, plusLines, moved
    <2>3. moved(o, b) \in Nat
        BY <2>1, CartNat DEF moved
    <2>4. QED
        BY <1>1, <2>2, <2>3 DEF committed
<1>3. ASSUME NEW s \in Sweepers, releaseForOrder(s) PROVE committed(b)' <= committed(b)
    <2> DEFINE o == releasing[s]
    <2>1. o \in Orders
        BY <1>3 DEF releaseForOrder
    <2>2. /\ reserved'[b] = reserved[b] - moved(o, b)
          /\ sold'[b] = sold[b]
        BY <1>3 DEF releaseForOrder, minusLines, moved
    <2>3. moved(o, b) \in Nat
        BY <2>1, CartNat DEF moved
    <2>4. QED
        BY <1>1, <2>2, <2>3 DEF committed
<1>4. CASE ~Moves
    BY <1>1, <1>4, OthersLeaveUnits DEF committed
<1>5. committed(b) \in Nat /\ committed(b)' \in Nat
    BY <1>1, TypeNext DEF committed
<1>6. QED
    BY <1>2, <1>3, <1>4, <1>5 DEF Moves

(* A checkout takes a batch at most to its total. *)
LEMMA CheckoutFits ==
    ASSUME Inv, NEW o \in Orders, createOrder(o), NEW b \in Batches
    PROVE  committed(b)' <= total'[b] \/ committed(b)' = committed(b)
<1>1. reserved'[b] = reserved[b] + Cart[o][b] /\ sold'[b] = sold[b] /\ total' = total
    BY DEF createOrder
<1>2. reserved[b] \in Nat /\ sold[b] \in Nat /\ total[b] \in Nat /\ Cart[o][b] \in Nat
    BY CartNat DEF Inv, TypeOK
<1>3. CASE Cart[o][b] > 0
    BY <1>1, <1>2, <1>3 DEF createOrder, fits, committed, LinesOf
<1>4. CASE Cart[o][b] = 0
    BY <1>1, <1>2, <1>4 DEF committed
<1>5. QED
    BY <1>2, <1>3, <1>4

(* No step that gives out units takes a batch beyond its total, even with  *)
(* staff resizing it at the same time.                                     *)
THEOREM SalesWithinTotal == Spec => SellsOnlyWithinTotal
<1>1. ASSUME Inv, [Next]_vars, NEW b \in Batches, committed(b)' > committed(b)
      PROVE  committed(b)' <= total'[b]
    <2>1. PICK o \in Orders : createOrder(o)
        BY <1>1, OnlyCheckoutCommits
    <2>2. committed(b) \in Nat
        BY <1>1 DEF Inv, TypeOK, committed
    <2>3. QED
        BY <1>1, <2>1, <2>2, CheckoutFits
<1>2. Inv /\ [Next]_vars =>
          [\A b \in Batches : committed(b)' > committed(b) => committed(b)' <= total'[b]]_vars
    BY <1>1
<1>3. QED
    BY Invariant, <1>2, PTL DEF Spec, SellsOnlyWithinTotal

(* With no staff edits, checkout alone never oversells a batch (BR-INV-001).*)
THEOREM NeverOversold ==
    ASSUME Editors = {}
    PROVE  Spec => []NoOversell
<1>1. Init => NoOversell
    BY InventoryAssumption DEF Init, NoOversell, committed
<1>2. ASSUME Inv, NoOversell, [Next]_vars PROVE NoOversell'
    <2>1. total' = total
        BY <1>2 DEF Next, BuyerStep, HandlerStep, SweepStep, vars, batchVars, createOrder,
            HoldLapses, settleRefund, markOrderPaid, confirmForOrder, HandlerDies, SweepList,
            SweepExpire, SweepSkip, releaseForOrder, SweeperDies
    <2>2. ASSUME NEW b \in Batches PROVE committed(b)' <= total'[b]
        <3>1. committed(b) <= total[b] /\ total[b] \in Nat
              /\ committed(b) \in Nat /\ committed(b)' \in Nat
            BY SMTT(30), <1>2, TypeNext DEF Inv, TypeOK, NoOversell, committed
        <3>2. CASE committed(b)' > committed(b)
            <4>1. PICK o \in Orders : createOrder(o)
                BY <1>2, <3>2, OnlyCheckoutCommits
            <4>2. QED
                BY <1>2, <3>1, <3>2, <4>1, CheckoutFits
        <3>3. QED
            BY <2>1, <3>1, <3>2
    <2>3. QED
        BY <2>2 DEF NoOversell, committed
<1>3. QED
    BY Invariant, <1>1, <1>2, PTL DEF Spec

-------------------------------------------------------------------------------
(* Implementing Allocation                                                 *)

(* Allocation counts what the counters count. *)
LEMMA TakenIsCommitted ==
    ASSUME Inv, NEW b \in Batches
    PROVE  Alloc!Taken(b) = committed(b)
<1>1. {"ACTIVE", "CONFIRMED"} = {"ACTIVE"} \cup {"CONFIRMED"}
      /\ {"ACTIVE"} \cap {"CONFIRMED"} = {}
    OBVIOUS
<1>2. Cardinality(UnitsOf(row, b, {"ACTIVE", "CONFIRMED"})) =
          Cardinality(UnitsOf(row, b, {"ACTIVE"})) + Cardinality(UnitsOf(row, b, {"CONFIRMED"}))
    BY <1>1, UnitsSplit
<1>3. Cardinality(UnitsOf(row, b, {"ACTIVE", "CONFIRMED"})) = reserved[b] + sold[b]
    BY <1>2 DEF Inv, CountersMatchRows
<1>4. Alloc!Taken(b) = Cardinality(UnitsOf(row, b, {"ACTIVE", "CONFIRMED"}))
    <2>1. Alloc!UnitsOf(row, b, {"ACTIVE", "CONFIRMED"}) = UnitsOf(row, b, {"ACTIVE", "CONFIRMED"})
        BY DEF Alloc!UnitsOf, UnitsOf
    <2>2. \A S : Alloc!Cardinality(S) = Cardinality(S)
        BY DEF Alloc!Cardinality, Cardinality
    <2>3. QED
        BY <2>1, <2>2 DEF Alloc!Taken
<1>5. QED
    BY <1>3, <1>4 DEF committed, Inv, TypeOK

(* A checkout is a Hold. *)
LEMMA CheckoutHolds ==
    ASSUME Inv, NEW o \in Orders, createOrder(o)
    PROVE  Alloc!Hold(o)
<1>1. \A b \in Batches : row[o][b] = "NONE"
    BY CartNat DEF Inv, RowsFollowOrder, createOrder
<1>2. \A b \in LinesOf(o) : Alloc!Taken(b) + Cart[o][b] <= total[b]
    BY TakenIsCommitted DEF createOrder, fits, LinesOf
<1>3. [b \in Batches |-> IF b \in LinesOf(o) THEN "ACTIVE" ELSE "NONE"] =
      [b \in Batches |-> IF b \in LinesOf(o) /\ row[o][b] = "NONE" THEN "ACTIVE" ELSE row[o][b]]
    BY <1>1
<1>4. Alloc!MoveLines(o, "NONE", "ACTIVE")
    BY <1>3 DEF createOrder, Alloc!MoveLines, Alloc!LinesOf, LinesOf
<1>5. QED
    BY <1>1, <1>2, <1>4 DEF Alloc!Hold, createOrder, Alloc!LinesOf, LinesOf

(* Claiming an order's rows moves its lines. *)
LEMMA ClaimMoves ==
    ASSUME NEW o, NEW to, claimRows(o, to)
    PROVE  Alloc!MoveLines(o, "ACTIVE", to)
<1>1. [b \in Batches |-> IF b \in ActiveLines(o) THEN to ELSE row[o][b]] =
      [b \in Batches |-> IF b \in LinesOf(o) /\ row[o][b] = "ACTIVE" THEN to ELSE row[o][b]]
    BY DEF ActiveLines
<1>2. QED
    BY <1>1 DEF claimRows, Alloc!MoveLines, Alloc!LinesOf, LinesOf

(* A staff request's write resizes at most one batch. *)
LEMMA EditResizes ==
    ASSUME Inv, NEW e \in Editors, EditorStep(e)
    PROVE  UNCHANGED <<total, row>> \/ \E b \in Batches : Alloc!Resize(b)
<1>1. CASE EditorWrites(e)
    <2>1. CASE UNCHANGED total
        BY <1>1, <2>1 DEF EditorWrites, orderVars
    <2>2. CASE /\ editor[e].op \in {"quantity", "create"}
               /\ total' = [total EXCEPT ![editor[e].batch] = editor[e].n]
        <3> DEFINE b == editor[e].batch
        <3>1. b \in Batches /\ editor[e].n \in Nat
            BY <1>1, <2>2, EditorFields, InventoryAssumption DEF EditorWrites, Inv
        <3>2. total'[b] = editor[e].n
            BY <2>2, <3>1 DEF Inv, TypeOK
        <3>3. Alloc!Resize(b)
            BY <1>1, <2>2, <3>1, <3>2 DEF EditorWrites, orderVars, Alloc!Resize
        <3>4. QED
            BY <3>1, <3>3
    <2>3. QED
        BY <1>1, <2>1, <2>2 DEF EditorWrites
<1>2. CASE UNCHANGED <<total, row>>
    BY <1>2
<1>3. QED
    BY <1>1, <1>2 DEF EditorStep, createSalesBatch, updateBatchQuantity, changeEventCapacity,
        transitionBatch, begin, EditorChecks, batchVars, orderVars

(* The checkout inventory implements Allocation: all the lines of an order *)
(* or none, only what fits, each hold kept or returned exactly once.       *)
THEOREM ImplementsAllocation == Spec => AllocationSpec
<1>1. Init => Alloc!Init
    BY InventoryAssumption DEF Init, Alloc!Init
<1>2. ASSUME Inv, [Next]_vars PROVE [Alloc!Next]_(Alloc!vars)
    <2>1. ASSUME NEW o \in Orders, createOrder(o) PROVE Alloc!Next
        BY <1>2, <2>1, CheckoutHolds DEF Alloc!Next
    <2>2. ASSUME NEW h \in Handlers, confirmForOrder(h) PROVE Alloc!Next
        <3>1. Alloc!Keep(confirming[h]) /\ confirming[h] \in Orders
            BY <1>2, <2>2, ClaimMoves DEF confirmForOrder, Alloc!Keep, Inv, TypeOK
        <3>2. QED
            BY <3>1 DEF Alloc!Next
    <2>3. ASSUME NEW s \in Sweepers, releaseForOrder(s) PROVE Alloc!Next
        <3>1. Alloc!Return(releasing[s]) /\ releasing[s] \in Orders
            BY <1>2, <2>3, ClaimMoves DEF releaseForOrder, Alloc!Return, Inv, TypeOK
        <3>2. QED
            BY <3>1 DEF Alloc!Next
    <2>4. CASE \E e \in Editors : EditorStep(e)
        BY <1>2, <2>4, EditResizes DEF Alloc!Next, Alloc!vars
    <2>5. CASE UNCHANGED <<total, row>>
        BY <2>5 DEF Alloc!vars
    <2>6. QED
        BY <1>2, <2>1, <2>2, <2>3, <2>4, <2>5
        DEF Next, BuyerStep, HandlerStep, SweepStep, HoldLapses, settleRefund, markOrderPaid,
            HandlerDies, SweepList, SweepExpire, SweepSkip, SweeperDies, vars, batchVars, orderVars
<1>3. QED
    BY Invariant, <1>1, <1>2, PTL DEF Spec, AllocationSpec, Alloc!Spec

-------------------------------------------------------------------------------
(* The capacity of the event                                               *)

(* Staff are finitely many, and so are the capacities of the event, which  *)
(* has one; the batches it starts with fit it.                             *)
StaffAssumption ==
    /\ IsFiniteSet(Editors) /\ Editors # {}
    /\ IsFiniteSet(Capacities)
    /\ InitialCapacity # NoCapacity
    /\ SumFunctionOnSet(InitialTotal, Batches) <= InitialCapacity

(* A request that passed its check and will write a quantity for b.        *)
WillWrite(f, b) ==
    /\ editor[f] # Idle
    /\ editor[f].step = "write" /\ editor[f].op \in {"quantity", "create"} /\ editor[f].batch = b

(* Totals the batches may have without any further check: each batch has   *)
(* its own or one that a request is about to write.                        *)
MayBecome(g) ==
    /\ g \in [Batches -> Nat]
    /\ \A b \in Batches : g[b] = total[b] \/ \E f \in Editors : WillWrite(f, b) /\ editor[f].n = g[b]

(* The inductive invariant, for a capacity k the event never exceeds.      *)
CapacityRead(k) ==
    /\ capacity \in 0..k
    /\ \A e \in Editors : editor[e] # Idle /\ editor[e].op \in {"quantity", "create"} =>
           /\ editor[e].cap \in 0..k
           /\ editor[e].step = "write" => editor[e].n <= k
ExcessBounded(k) ==
    CapacityRead(k) /\ \A g : MayBecome(g) => SumFunctionOnSet(g, Batches) <= Cardinality(Editors) * k

(* Only staff requests change quantities and the capacity.                 *)
LEMMA OnlyEditorsResize ==
    ASSUME [Next]_vars
    PROVE  UNCHANGED <<total, capacity, editor>> \/ \E e \in Editors : EditorStep(e)
<1>1. CASE UNCHANGED vars
    BY <1>1 DEF vars, batchVars, procVars
<1>2. CASE BuyerStep
    BY <1>2 DEF BuyerStep, createOrder, HoldLapses, settleRefund, batchVars, procVars
<1>3. ASSUME NEW h \in Handlers, HandlerStep(h) PROVE UNCHANGED <<total, capacity, editor>>
    BY <1>3 DEF HandlerStep, markOrderPaid, confirmForOrder, HandlerDies, batchVars
<1>4. ASSUME NEW s \in Sweepers, SweepStep(s) \/ SweeperDies(s)
      PROVE  UNCHANGED <<total, capacity, editor>>
    BY <1>4 DEF SweepStep, SweepList, SweepExpire, SweepSkip, releaseForOrder, SweeperDies, batchVars
<1>5. QED
    BY <1>1, <1>2, <1>3, <1>4 DEF Next

(* Nothing new may be written, and a total was rewritten only as a request *)
(* had said: the batches may become no more than before.                   *)
LEMMA ExcessKept ==
    ASSUME NEW k, ExcessBounded(k), CapacityRead(k)',
           \A b \in Batches : \/ total'[b] = total[b]
                              \/ \E f \in Editors : WillWrite(f, b) /\ editor[f].n = total'[b],
           \A f \in Editors, b \in Batches :
               WillWrite(f, b)' => WillWrite(f, b) /\ editor'[f].n = editor[f].n
    PROVE  ExcessBounded(k)'
<1> SUFFICES ASSUME NEW g, MayBecome(g)'
             PROVE  SumFunctionOnSet(g, Batches) <= Cardinality(Editors) * k
    BY DEF ExcessBounded
<1>1. MayBecome(g)
    <2> SUFFICES ASSUME NEW b \in Batches
                 PROVE  g[b] = total[b] \/ \E f \in Editors : WillWrite(f, b) /\ editor[f].n = g[b]
        BY DEF MayBecome
    <2>1. g[b] = total'[b] \/ \E f \in Editors : WillWrite(f, b)' /\ editor'[f].n = g[b]
        BY DEF MayBecome
    <2>2. QED
        BY <2>1
<1>2. QED
    BY <1>1 DEF ExcessBounded

(* Of the other batches, those that may become other than they are have    *)
(* each a request of their own, so that at most k is added per request.    *)
LEMMA OthersMayAdd ==
    ASSUME NEW k \in Nat, StaffAssumption, TypeOK, CapacityRead(k), NEW e \in Editors, NEW c \in Batches,
           NEW g \in [Batches -> Nat],
           \A b \in Batches \ {c} :
               \/ g[b] = total[b]
               \/ \E f \in Editors \ {e} : WillWrite(f, b) /\ editor[f].n = g[b]
    PROVE  SumFunctionOnSet(g, Batches \ {c})
               <= sumTotal(Batches \ {c}) + (Cardinality(Editors) - 1) * k
<1> DEFINE Rest == Batches \ {c}
           D == {b \in Rest : g[b] # total[b]}
           by == [b \in D |-> CHOOSE f \in Editors \ {e} : WillWrite(f, b) /\ editor[f].n = g[b]]
           full == [b \in Rest |-> k]
           added == [b \in Rest |-> IF b \in D THEN full[b] ELSE 0]
           most == [b \in Rest |-> total[b] + added[b]]
<1>1. IsFiniteSet(Rest) /\ D \in SUBSET Rest /\ IsFiniteSet(D)
    BY InventoryAssumption, FS_Subset
<1>2. \A b \in Rest : total[b] \in Nat /\ g[b] \in Nat
    BY DEF TypeOK
<1>3. \A b \in D : by[b] \in Editors \ {e} /\ WillWrite(by[b], b) /\ editor[by[b]].n = g[b]
    OBVIOUS
<1>4. Cardinality(D) <= Cardinality(Editors) - 1 /\ Cardinality(D) \in Nat
    <2>1. by \in Injection(D, Editors \ {e})
        <3>1. by \in [D -> Editors \ {e}]
            BY <1>3
        <3>2. \A a, b \in D : by[a] = by[b] => a = b
            BY <1>3 DEF WillWrite
        <3>3. QED
            BY <3>1, <3>2 DEF Injection, IsInjective
    <2>2. /\ IsFiniteSet(Editors \ {e}) /\ Cardinality(Editors \ {e}) = Cardinality(Editors) - 1
        BY FS_RemoveElement DEF StaffAssumption
    <2> HIDE DEF by, D
    <2>3. QED
        BY <1>1, <2>1, <2>2, FS_Injection, FS_CardinalityType
<1>5. \A b \in Rest : g[b] <= most[b]
    <2> SUFFICES ASSUME NEW b \in Rest PROVE g[b] <= most[b]
        OBVIOUS
    <2>1. CASE b \in D
        <3>1. g[b] <= k
            BY <1>3, <2>1 DEF WillWrite, CapacityRead
        <3>2. most[b] = total[b] + k
            BY <2>1
        <3>3. QED
            BY <1>2, <3>1, <3>2
    <2>2. CASE b \notin D
        <3>1. g[b] = total[b] /\ most[b] = total[b] + 0
            BY <2>2
        <3>2. QED
            BY <1>2, <3>1
    <2>3. QED
        BY <2>1, <2>2
<1>6. SumFunctionOnSet(g, Rest) <= SumFunctionOnSet(most, Rest)
    <2>1. \A b \in Rest : most[b] \in Int
        BY <1>2
    <2> HIDE DEF most, Rest
    <2>2. QED
        BY <1>1, <1>2, <1>5, <2>1, SumAtMost
<1>7. SumFunctionOnSet(most, Rest) = SumFunctionOnSet(total, Rest) + SumFunctionOnSet(added, Rest)
    <2>1. \A b \in Rest : total[b] \in Int /\ added[b] \in Int /\ most[b] = total[b] + added[b]
        BY <1>2
    <2> HIDE DEF most, added, Rest
    <2>2. QED
        BY <1>1, <2>1, SumOfSums
<1>8. SumFunctionOnSet(added, Rest) <= (Cardinality(Editors) - 1) * k
    <2>1. \A b \in Rest : full[b] \in Int /\ added[b] = IF b \in D THEN full[b] ELSE 0
        OBVIOUS
    <2>2. \A b \in D : full[b] \in Int /\ full[b] <= k
        OBVIOUS
    <2> HIDE DEF added, full, D, Rest
    <2>3. SumFunctionOnSet(added, Rest) = SumFunctionOnSet(full, D)
        BY <1>1, <2>1, SumOfPart
    <2>4. SumFunctionOnSet(full, D) <= Cardinality(D) * k /\ SumFunctionOnSet(full, D) \in Int
        BY <1>1, <2>2, SumWithin, SumIsInt
    <2>5. Cardinality(Editors) \in Nat
        BY FS_CardinalityType DEF StaffAssumption
    <2>6. \A x, y \in Int : x <= y => x * k <= y * k
        OBVIOUS
    <2>7. Cardinality(D) * k <= (Cardinality(Editors) - 1) * k
        BY <1>4, <2>5, <2>6
    <2>8. Cardinality(D) * k \in Int /\ (Cardinality(Editors) - 1) * k \in Int
        BY <1>4, <2>5
    <2>9. QED
        BY <2>3, <2>4, <2>7, <2>8
<1>9. /\ SumFunctionOnSet(g, Rest) \in Int /\ SumFunctionOnSet(total, Rest) \in Int
      /\ SumFunctionOnSet(added, Rest) \in Int /\ (Cardinality(Editors) - 1) * k \in Int
    <2>1. \A b \in Rest : added[b] \in Int /\ total[b] \in Int /\ g[b] \in Int
        BY <1>2
    <2>2. Cardinality(Editors) \in Nat
        BY FS_CardinalityType DEF StaffAssumption
    <2> HIDE DEF added, Rest
    <2>3. QED
        BY <1>1, <2>1, <2>2, SumIsInt
<1> HIDE DEF most, added, Rest
<1>10. SumFunctionOnSet(g, Rest) <= SumFunctionOnSet(total, Rest) + (Cardinality(Editors) - 1) * k
    BY <1>6, <1>7, <1>8, <1>9
<1>11. QED
    BY <1>10 DEF Rest, sumTotal

(* A quantity that passes its check fits beside the totals of the moment;  *)
(* the other requests may add k each.                                      *)
LEMMA ExcessChecked ==
    ASSUME NEW k \in Nat, StaffAssumption, TypeOK, ExcessBounded(k), NEW e \in Editors,
           EditorChecks(e), withinCapacity(editor[e]), editor[e].op \in {"quantity", "create"}
    PROVE  ExcessBounded(k)'
<1> PICK r : r = editor[e]
    OBVIOUS
<1>1. r \in EditorState \ {Idle} /\ r.step = "check" /\ withinCapacity(r)
    BY DEF EditorChecks, TypeOK
<1>2. r.batch \in Batches /\ r.n \in Nat /\ r.cap \in 0..k /\ r.op \in {"quantity", "create"}
    BY <1>1, InventoryAssumption DEF EditorState, ExcessBounded, CapacityRead
<1> PICK c \in Batches, n \in Nat, cap \in 0..k : c = r.batch /\ n = r.n /\ cap = r.cap
    BY <1>2
<1>3. total' = total /\ capacity' = capacity
    BY DEF EditorChecks, batchVars
<1>4. /\ editor'[e] = [r EXCEPT !.step = "write"]
      /\ \A f \in Editors \ {e} : editor'[f] = editor[f]
    BY DEF EditorChecks, TypeOK
<1>5. editor'[e].step = "write" /\ editor'[e].batch = c /\ editor'[e].n = n /\ editor'[e].cap = cap
    BY <1>1, <1>2, <1>4 DEF EditorState
<1>6. /\ sumTotal(Batches \ {c}) \in Nat
      /\ sumTotal(Batches) = total[c] + sumTotal(Batches \ {c}) /\ total[c] \in Nat
    <2>1. IsFiniteSet(Batches) /\ IsFiniteSet(Batches \ {c})
        BY InventoryAssumption, FS_RemoveElement
    <2>2. \A b \in Batches : total[b] \in Nat /\ total[b] \in Int
        BY DEF TypeOK
    <2>3. QED
        BY <2>1, <2>2, SumIsNat, SumTakesOut DEF sumTotal
<1>7. n + sumTotal(Batches \ {c}) <= k
    <2>1. cap # NoCapacity
        BY DEF NoCapacity
    <2>2. sumTotal(Batches) + n <= cap \/ sumTotal(Batches \ {c}) + n <= cap
        BY <1>1, <1>2, <2>1 DEF withinCapacity
    <2>3. QED
        BY <1>6, <2>2
<1>8. CapacityRead(k)'
    <2>1. n <= k
        BY <1>6, <1>7
    <2>2. QED
        BY <1>3, <1>4, <1>5, <2>1 DEF ExcessBounded, CapacityRead
<1>9. ASSUME NEW g, MayBecome(g)' PROVE SumFunctionOnSet(g, Batches) <= Cardinality(Editors) * k
    <2>0. g \in [Batches -> Nat]
        BY <1>9 DEF MayBecome
    <2>1. ASSUME NEW b \in Batches, g[b] # total[b]
          PROVE  \/ b = c /\ g[b] = n
                 \/ \E f \in Editors \ {e} : WillWrite(f, b) /\ editor[f].n = g[b]
        <3>1. PICK f \in Editors : WillWrite(f, b)' /\ editor'[f].n = g[b]
            BY <1>3, <1>9, <2>1 DEF MayBecome
        <3>2. CASE f = e
            BY <1>5, <3>1, <3>2 DEF WillWrite
        <3>3. CASE f # e
            BY <1>4, <3>1, <3>3 DEF WillWrite
        <3>4. QED
            BY <3>2, <3>3
    <2>2. CASE g[c] = n
        <3>1. \A b \in Batches \ {c} :
                 \/ g[b] = total[b]
                 \/ \E f \in Editors \ {e} : WillWrite(f, b) /\ editor[f].n = g[b]
            BY <2>1
        <3>2. SumFunctionOnSet(g, Batches \ {c})
                  <= sumTotal(Batches \ {c}) + (Cardinality(Editors) - 1) * k
            BY <2>0, <3>1, OthersMayAdd DEF ExcessBounded
        <3>3. /\ SumFunctionOnSet(g, Batches) = g[c] + SumFunctionOnSet(g, Batches \ {c})
              /\ SumFunctionOnSet(g, Batches \ {c}) \in Int
            <4>1. IsFiniteSet(Batches) /\ IsFiniteSet(Batches \ {c})
                BY InventoryAssumption, FS_RemoveElement
            <4>2. \A b \in Batches : g[b] \in Int
                BY <2>0
            <4>3. QED
                BY <4>1, <4>2, SumIsInt, SumTakesOut
        <3>4. Cardinality(Editors) \in Int
            BY FS_CardinalityType DEF StaffAssumption
        <3>5. \A x \in Int : k + (x - 1) * k = x * k /\ (x - 1) * k \in Int /\ x * k \in Int
            OBVIOUS
        <3>6. QED
            BY <1>6, <1>7, <2>2, <3>2, <3>3, <3>4, <3>5
    <2>3. CASE g[c] # n
        <3>1. MayBecome(g)
            BY <2>0, <2>1, <2>3 DEF MayBecome
        <3>2. QED
            BY <3>1 DEF ExcessBounded
    <2>4. QED
        BY <2>2, <2>3
<1>10. QED
    BY <1>8, <1>9 DEF ExcessBounded

(* Every step keeps the bound on the excess.                               *)
LEMMA ExcessNext ==
    ASSUME NEW k \in Nat, StaffAssumption, \A n \in Capacities : n <= k,
           TypeOK, ExcessBounded(k), [Next]_vars
    PROVE  ExcessBounded(k)'
<1>1. CASE UNCHANGED <<total, capacity, editor>>
    <2>1. CapacityRead(k)'
        BY <1>1 DEF ExcessBounded, CapacityRead
    <2>2. \A f \in Editors, b \in Batches :
             WillWrite(f, b)' => WillWrite(f, b) /\ editor'[f].n = editor[f].n
        BY <1>1 DEF WillWrite
    <2>3. QED
        BY <1>1, <2>1, <2>2, ExcessKept
<1>2. ASSUME NEW e \in Editors, UNCHANGED <<total, capacity>>,
             \A f \in Editors \ {e} : editor'[f] = editor[f],
             \/ editor'[e] = Idle
             \/ editor'[e].op \in {"status", "capacity"}
             \/ editor'[e].step = "check" /\ editor'[e].cap = capacity
      PROVE  ExcessBounded(k)'
    <2>1. CapacityRead(k)'
        <3>1. capacity \in 0..k
            BY DEF ExcessBounded, CapacityRead
        <3>2. ASSUME NEW f \in Editors, editor'[f] # Idle, editor'[f].op \in {"quantity", "create"}
              PROVE  editor'[f].cap \in 0..k /\ (editor'[f].step = "write" => editor'[f].n <= k)
            <4>1. CASE f = e
                BY <1>2, <3>1, <3>2, <4>1
            <4>2. CASE f # e
                BY <1>2, <3>2, <4>2 DEF ExcessBounded, CapacityRead
            <4>3. QED
                BY <4>1, <4>2
        <3>3. QED
            BY <1>2, <3>1, <3>2 DEF CapacityRead
    <2>2. \A f \in Editors, b \in Batches :
             WillWrite(f, b)' => WillWrite(f, b) /\ editor'[f].n = editor[f].n
        BY <1>2 DEF WillWrite
    <2>3. QED
        BY <1>2, <2>1, <2>2, ExcessKept
<1>3. ASSUME NEW e \in Editors, NEW state, begin(e, state),
             state.op \in {"status", "capacity"} \/ (state.step = "check" /\ state.cap = capacity)
      PROVE  ExcessBounded(k)'
    <2>1. /\ editor'[e] = state /\ UNCHANGED <<total, capacity>>
          /\ \A f \in Editors \ {e} : editor'[f] = editor[f]
        BY <1>3 DEF begin, TypeOK, batchVars
    <2>2. QED
        BY <1>2, <1>3, <2>1
<1>4. ASSUME NEW e \in Editors, NEW b \in Batches, NEW n \in Quantities,
             createSalesBatch(e, b, n) \/ updateBatchQuantity(e, b, n)
      PROVE  ExcessBounded(k)'
    BY <1>3, <1>4 DEF createSalesBatch, updateBatchQuantity
<1>5. ASSUME NEW e \in Editors, NEW n \in Capacities, changeEventCapacity(e, n)
      PROVE  ExcessBounded(k)'
    BY <1>3, <1>5 DEF changeEventCapacity
<1>6. ASSUME NEW e \in Editors, NEW b \in Batches, NEW to \in {"OPEN", "CLOSED"},
             transitionBatch(e, b, to)
      PROVE  ExcessBounded(k)'
    BY <1>3, <1>6 DEF transitionBatch
<1>7. ASSUME NEW e \in Editors, EditorChecks(e) PROVE ExcessBounded(k)'
    <2>1. /\ UNCHANGED <<total, capacity>> /\ \A f \in Editors \ {e} : editor'[f] = editor[f]
          /\ editor'[e] = IF withinCapacity(editor[e])
                          THEN [editor[e] EXCEPT !.step = "write"] ELSE Idle
        BY <1>7 DEF EditorChecks, TypeOK, batchVars
    <2>2. CASE ~withinCapacity(editor[e])
        BY <1>2, <2>1, <2>2
    <2>3. CASE withinCapacity(editor[e]) /\ editor[e].op \in {"quantity", "create"}
        BY <1>7, <2>3, ExcessChecked
    <2>4. CASE withinCapacity(editor[e]) /\ editor[e].op \in {"status", "capacity"}
        <3> PICK r : r = editor[e]
            OBVIOUS
        <3>1. r \in EditorState \ {Idle}
            BY <1>7 DEF EditorChecks, TypeOK
        <3>2. editor'[e] = [r EXCEPT !.step = "write"]
            BY <2>1, <2>4
        <3>3. editor'[e].op = r.op
            BY <2>4, <3>1, <3>2 DEF EditorState
        <3>4. QED
            BY <1>2, <2>1, <2>4, <3>3
    <2>5. editor[e].op \in {"quantity", "create", "status", "capacity"}
        BY <1>7, EditorFields DEF EditorChecks
    <2>6. QED
        BY <2>2, <2>3, <2>4, <2>5
<1>8. ASSUME NEW e \in Editors, EditorWrites(e) PROVE ExcessBounded(k)'
    <2>1. editor'[e] = Idle /\ \A f \in Editors \ {e} : editor'[f] = editor[f]
        BY <1>8 DEF EditorWrites, TypeOK
    <2>2. capacity' \in 0..k
        <3>1. capacity \in 0..k
            BY DEF ExcessBounded, CapacityRead
        <3>2. editor[e].op = "capacity" => editor[e].n \in 0..k
            <4>1. editor[e].op = "capacity" => editor[e].n \in Capacities
                BY <1>8, EditorFields DEF EditorWrites
            <4>2. \A n \in Capacities : n \in 0..k
                BY InventoryAssumption
            <4>3. QED
                BY <4>1, <4>2
        <3>3. QED
            BY <1>8, <3>1, <3>2 DEF EditorWrites
    <2>3. CapacityRead(k)'
        BY <2>1, <2>2 DEF ExcessBounded, CapacityRead
    <2>4. \A b \in Batches : \/ total'[b] = total[b]
                             \/ \E f \in Editors : WillWrite(f, b) /\ editor[f].n = total'[b]
        <3>1. CASE editor[e].op \in {"status", "capacity"}
            BY <1>8, <3>1 DEF EditorWrites
        <3>2. CASE editor[e].op \in {"quantity", "create"}
            <4>1. /\ total' = [total EXCEPT ![editor[e].batch] = editor[e].n]
                  /\ WillWrite(e, editor[e].batch)
                BY <1>8, <3>2 DEF EditorWrites, WillWrite
            <4>2. total \in [Batches -> Nat]
                BY DEF TypeOK
            <4>3. QED
                BY <4>1, <4>2
        <3>3. QED
            BY <1>8, <3>1, <3>2, EditorFields DEF EditorWrites
    <2>5. \A f \in Editors, b \in Batches :
             WillWrite(f, b)' => WillWrite(f, b) /\ editor'[f].n = editor[f].n
        BY <2>1 DEF WillWrite
    <2>6. QED
        BY <2>3, <2>4, <2>5, ExcessKept
<1>9. QED
    BY <1>1, <1>4, <1>5, <1>6, <1>7, <1>8, OnlyEditorsResize DEF EditorStep

(* FR-INV-004 as far as it holds: however staff requests interleave, the   *)
(* batches of an event never add up to more than its highest capacity,     *)
(* once for each request at a time (createSalesBatch, updateBatchQuantity).*)
THEOREM OverbookingStaysBounded ==
    ASSUME StaffAssumption
    PROVE  Spec => []OverbookingBounded
<1> PICK k \in Nat : k = HighestCapacity /\ InitialCapacity <= k /\ \A n \in Capacities : n <= k
    <2> DEFINE all == {InitialCapacity} \cup Capacities
    <2>1. all \in SUBSET Nat /\ all \in SUBSET Int /\ all # {} /\ IsFiniteSet(all)
        <3>1. InitialCapacity \in Nat /\ Capacities \subseteq Nat
            BY InventoryAssumption DEF StaffAssumption
        <3>2. IsFiniteSet(Capacities \cup {InitialCapacity})
            BY FS_AddElement DEF StaffAssumption
        <3>3. all = Capacities \cup {InitialCapacity}
            OBVIOUS
        <3>4. QED
            BY <3>1, <3>2, <3>3
    <2>2. \E n \in all : \A m \in all : m <= n
        <3> HIDE DEF all
        <3>1. QED
            BY <2>1, GreatestExists
    <2>3. HighestCapacity \in all /\ \A m \in all : m <= HighestCapacity
        BY <2>2 DEF HighestCapacity
    <2>4. QED
        BY <2>1, <2>3
<1>0. Cardinality(Editors) \in Nat /\ Cardinality(Editors) >= 1
    BY FS_CardinalityType, FS_EmptySet DEF StaffAssumption
<1>1. Init => ExcessBounded(k)
    <2> SUFFICES ASSUME Init PROVE ExcessBounded(k)
        OBVIOUS
    <2>1. \A e \in Editors : editor[e] = Idle
        BY DEF Init
    <2>2. CapacityRead(k)
        BY <2>1, InventoryAssumption DEF Init, CapacityRead, StaffAssumption
    <2>3. ASSUME NEW g, MayBecome(g) PROVE SumFunctionOnSet(g, Batches) <= Cardinality(Editors) * k
        <3>1. \A b \in Batches : g[b] = InitialTotal[b]
            BY <2>1, <2>3 DEF MayBecome, WillWrite, Init
        <3>2. SumFunctionOnSet(g, Batches) = SumFunctionOnSet(InitialTotal, Batches)
            BY <3>1, SumSame, InventoryAssumption
        <3>3. SumFunctionOnSet(InitialTotal, Batches) \in Int
            BY SumIsInt, InventoryAssumption
        <3>4. \A x \in Nat : x >= 1 => k <= x * k /\ x * k \in Int
            OBVIOUS
        <3>5. InitialCapacity \in Int
            BY InventoryAssumption DEF StaffAssumption
        <3>6. QED
            BY <1>0, <3>2, <3>3, <3>4, <3>5 DEF StaffAssumption
    <2>4. QED
        BY <2>2, <2>3 DEF ExcessBounded
<1>2. TypeOK /\ ExcessBounded(k) /\ [Next]_vars => ExcessBounded(k)'
    BY ExcessNext
<1>3. TypeOK /\ ExcessBounded(k) => OverbookingBounded
    <2> SUFFICES ASSUME TypeOK, ExcessBounded(k) PROVE OverbookingBounded
        OBVIOUS
    <2>1. MayBecome(total)
        BY DEF TypeOK, MayBecome
    <2>2. QED
        BY <2>1 DEF ExcessBounded, OverbookingBounded, sumTotal
<1>4. QED
    BY <1>1, <1>2, <1>3, TypeCorrect, PTL DEF Spec

===============================================================================
