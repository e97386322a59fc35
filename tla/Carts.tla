-------------------------------- MODULE Carts --------------------------------
(***************************************************************************)
(* What buyers ask for, and how many units a set of claims amounts to.     *)
(*                                                                         *)
(* A cart groups an order's units per batch (createPendingOrder groups the *)
(* order's ticket units the same way before it reserves them).  Units are  *)
(* counted as the elements of a set, one per unit of a line, so that a     *)
(* quantity is a cardinality and two orders' units are disjoint.           *)
(***************************************************************************)
EXTENDS Integers, FiniteSets

CONSTANTS
    Batches,   \* the sales batches of one event
    Orders,    \* the orders that buyers may place
    MaxUnits,  \* the largest quantity of one line
    Cart       \* Cart[o][b]: units of batch b that order o asks for

ASSUME CartsAssumption ==
    /\ IsFiniteSet(Orders)
    /\ MaxUnits \in Nat
    /\ Cart \in [Orders -> [Batches -> 0..MaxUnits]]

(* The status of one InventoryReservation row; "NONE" is no row at all. *)
RowStatus == {"NONE", "ACTIVE", "CONFIRMED", "EXPIRED"}

(* The batches that order o asks for: the lines of its reservation. *)
LinesOf(o) == {b \in Batches : Cart[o][b] > 0}

(* The units of batch b in the lines whose row is in one of the states S. *)
UnitsOf(rows, b, S) ==
    {u \in Orders \X (1..MaxUnits) : u[2] <= Cart[u[1]][b] /\ rows[u[1]][b] \in S}

==============================================================================
