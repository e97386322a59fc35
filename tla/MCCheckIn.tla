------------------------------- MODULE MCCheckIn -------------------------------
(* The instances of CheckIn that TLC checks. *)
EXTENDS CheckIn, TLC

CONSTANTS Scans, Undos, Staff, Drops, Crashes

MCBudget ==
    "scan" :> Scans @@ "undo" :> Undos @@ "staff" :> Staff @@ "drop" :> Drops @@ "crash" :> Crashes
Same == Permutations(Workers) \cup Permutations(Devices)
================================================================================
