------------------------------ MODULE MCInventory ------------------------------
(* Carts and batches for the runs of Inventory. *)
EXTENDS Inventory, TLC

CONSTANTS b1, b2, o1, o2, o3

(* Two batches of two and three units; two orders compete for b1 and all   *)
(* three overlap on b2, so that whatever fits first excludes another.      *)
MCCart ==
    [o \in Orders |-> [b \in Batches |->
        CASE o = o1 /\ b = b1 -> 2
          [] o = o2 /\ b = b1 -> 1
          [] o \in {o2, o3} /\ b = b2 -> 2
          [] OTHER -> 0]]
(* Beside staff: two orders compete for b1, one also wants what they create. *)
MCStaffCart ==
    [o \in Orders |-> [b \in Batches |->
        CASE o = o1 /\ b = b1 -> 2
          [] o = o2 /\ b \in {b1, b2} -> 1
          [] OTHER -> 0]]
MCTotal == b1 :> 2 @@ b2 :> 3
MCStaffStatus == [b \in Batches |-> IF b = b1 THEN "OPEN" ELSE "ABSENT"]
MCStaffTotal == [b \in Batches |-> IF b = b1 THEN 2 ELSE 0]
MCOpen == [b \in Batches |-> "OPEN"]
================================================================================
