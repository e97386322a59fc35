------------------------------ MODULE Allocation ------------------------------
(***************************************************************************)
(* What the inventory promises, with no counters, processes or crashes.    *)
(*                                                                         *)
(* An order takes all of its lines at once or none of them, and only while *)
(* the units already taken leave room for every line; later it gives the   *)
(* hold up exactly once, by keeping it for good (a sale) or by returning   *)
(* it (an expired hold).  The organizer may resize a batch at any time.    *)
(***************************************************************************)
EXTENDS Carts

VARIABLES
    quota,    \* quota[b]: units of batch b that may be given out
    claim     \* claim[o][b]: what order o holds of batch b

vars == <<quota, claim>>

Taken(b) == Cardinality(UnitsOf(claim, b, {"ACTIVE", "CONFIRMED"}))

(* Every line of order o that is in state `from` moves to state `to`. *)
MoveLines(o, from, to) ==
    claim' = [claim EXCEPT ![o] = [b \in Batches |->
                 IF b \in LinesOf(o) /\ claim[o][b] = from THEN to ELSE claim[o][b]]]

Init ==
    /\ quota \in [Batches -> Nat]
    /\ claim = [o \in Orders |-> [b \in Batches |-> "NONE"]]

Hold(o) ==
    /\ \A b \in Batches : claim[o][b] = "NONE"
    /\ \A b \in LinesOf(o) : Taken(b) + Cart[o][b] <= quota[b]
    /\ MoveLines(o, "NONE", "ACTIVE")
    /\ UNCHANGED quota

Keep(o) ==
    /\ MoveLines(o, "ACTIVE", "CONFIRMED")
    /\ UNCHANGED quota

Return(o) ==
    /\ MoveLines(o, "ACTIVE", "EXPIRED")
    /\ UNCHANGED quota

Resize(b) ==
    /\ quota'[b] \in Nat
    /\ quota' = [quota EXCEPT ![b] = quota'[b]]
    /\ UNCHANGED claim

Next ==
    \/ \E o \in Orders : Hold(o) \/ Keep(o) \/ Return(o)
    \/ \E b \in Batches : Resize(b)

Spec == Init /\ [][Next]_vars

===============================================================================
