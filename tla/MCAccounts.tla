------------------------------ MODULE MCAccounts ------------------------------
(* Two owners, a person invited, an administrator of the platform; two     *)
(* browsers.  Two families of scenarios: signing in at large,   *)
(* and the panel with one log-in.                                          *)
EXTENDS Accounts

MCPeople == {"ana", "bia", "caio", "root"}
MCAccount == [NoUser EXCEPT !.exists = TRUE, !.password = TRUE]
MCEnrolled == [MCAccount EXCEPT !.mfa = TRUE, !.secret = 1, !.confirmed = 1, !.backup = TRUE]
MCFirstUsers == [p \in MCPeople |->
    CASE p = "caio" -> NoUser [] p = "bia" -> MCEnrolled [] OTHER -> MCAccount]
MCFirstMembers == [p \in MCPeople |->
    IF p \in {"caio", "root"} THEN NoMember ELSE [status |-> "ACTIVE", role |-> "OWNER"]]
MCFirstInvites == [i \in 1..2 |->
    IF i = 1 THEN [status |-> "PENDING", email |-> "caio", role |-> "ADMIN", lapsed |-> FALSE]
    ELSE NoInvite]
MCAfresh(f, n, odd) ==
    [factors |-> f, left |-> [signin |-> n, staff |-> 0, clock |-> odd, faults |-> odd]]
MCScenarios ==
    {MCAfresh(f, 3, 1) : f \in {{}, {"email"}, {"totp"}, {"email", "totp"}}}
    \cup {MCAfresh({"totp"}, 4, 0)}
    \cup {[factors |-> {}, left |-> [signin |-> 0, staff |-> n, clock |-> c, faults |-> 1]] :
              <<n, c>> \in {<<3, 0>>, <<2, 1>>}}
===============================================================================
