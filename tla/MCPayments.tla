------------------------------ MODULE MCPayments ------------------------------
(* The instances of Payments that TLC checks. *)
EXTENDS Payments, TLC

Everybody == Permutations(Workers)
Tickets == Permutations(Items)
================================================================================
