------------------------------- MODULE Accounts -------------------------------
(***************************************************************************)
(* Who works for an organization: invites and their acceptance, the        *)
(* members' status and the sessions that end with it, on top of SignIn.    *)
(* Every database call that another request may come before is a step.     *)
(***************************************************************************)
EXTENDS SignIn

CONSTANTS Roles,        \* the roles an invite may grant
          MaxInvites,   \* bound of the model
          Admins,       \* the platform's administrators (PLATFORM_ADMIN_EMAILS)
          FirstUsers, FirstMembers, FirstInvites   \* the organization at the start

VARIABLES
    membership,   \* Membership rows of the organization, one per person
    invite,       \* Invite rows
    joined        \* how many memberships each invite has made

vars == <<signInVars, membership, invite, joined>>
orgVars == <<membership, invite, joined>>
Invites == 1..MaxInvites
NoInvite == [status |-> "none", email |-> "none", role |-> "none", lapsed |-> FALSE]
NoMember == [status |-> "none", role |-> "none"]
MEMBER_MANAGER_ROLES == {"OWNER", "ADMIN"}

(***************************************************************************)
(* Authorization                                                           *)
(***************************************************************************)

(* A platform administrator is seen as an active owner everywhere.         *)
findByOrgAndUser(p) ==
    IF p \in Admins THEN [status |-> "ACTIVE", role |-> "OWNER"] ELSE membership[p]
requireActiveRole(p, roles) ==
    findByOrgAndUser(p).status = "ACTIVE" /\ findByOrgAndUser(p).role \in roles
activeOwners == {p \in People : membership[p] = [status |-> "ACTIVE", role |-> "OWNER"]}

(* The organization at the start has an active owner, its active members   *)
(* have accounts, a factor that is on is confirmed, and no invite of it is *)
(* an accepted one (those made the members there are).                     *)
ASSUME AccountsAssumption ==
    /\ MaxInvites \in Nat
    /\ FirstUsers \in [People -> [exists : BOOLEAN, password : BOOLEAN, mfa : BOOLEAN,
                                  secret : Nat, confirmed : Nat, backup : BOOLEAN]]
    /\ \A p \in People :
          /\ ~FirstUsers[p].exists => FirstUsers[p] = NoUser
          /\ FirstUsers[p].mfa => FirstUsers[p].secret = FirstUsers[p].confirmed
          /\ p \in Admins \/ FirstMembers[p].status = "ACTIVE" => FirstUsers[p].exists
    /\ FirstMembers \in [People -> {NoMember} \cup
          [status : {"ACTIVE", "SUSPENDED", "REVOKED"}, role : Roles \cup MEMBER_MANAGER_ROLES]]
    /\ \E p \in People : FirstMembers[p] = [status |-> "ACTIVE", role |-> "OWNER"]
    /\ FirstInvites \in [Invites -> {NoInvite} \cup
          [status : {"PENDING", "EXPIRED", "REVOKED"}, email : People, role : Roles, lapsed : BOOLEAN]]

(* Members are at work already, each in a browser, or at the log-in form.  *)
Init ==
    /\ \E scene \in Scenarios : factors = scene.factors /\ left = scene.left
    /\ user = FirstUsers /\ membership = FirstMembers /\ invite = FirstInvites
    /\ counter = [k \in Keys |-> [n |-> 0, ends |-> FALSE]]
    /\ challenge = [t \in 1..MaxChallenges |-> NoChallenge]
    /\ \E who \in [Browsers -> {p \in People : findByOrgAndUser(p).status = "ACTIVE"}] :
          session = [s \in 1..MaxSessions |->
              IF left.staff > 0 /\ s \in Browsers THEN [NoSession EXCEPT !.user = who[s]]
              ELSE NoSession]
    /\ browser = [b \in Browsers |->
          IF left.staff > 0 THEN [FirstForm EXCEPT !.step = "panel", !.cookie = b] ELSE FirstForm]
    /\ req = [b \in Browsers |-> Idle]
    /\ stale = {}
    /\ joined = [i \in Invites |-> 0]

(***************************************************************************)
(* Requests                                                                *)
(***************************************************************************)

At(b, op, at) == req[b] # Idle /\ req[b].op = op /\ req[b].at = at
Done(b) == Go(b, Idle)
Refused(b) == Done(b) /\ UNCHANGED <<factors, user, counter, challenge, session, browser, left, stale, orgVars>>
Step(b, at) == Go(b, [req[b] EXCEPT !.at = at])
Manager(b, op) == At(b, op, "authorize") /\ requireActiveRole(req[b].who, MEMBER_MANAGER_ROLES)

forbidden(b) ==
    /\ req[b] # Idle /\ req[b].op # "logout" /\ req[b].at = "authorize"
    /\ ~requireActiveRole(req[b].who, MEMBER_MANAGER_ROLES)
    /\ Refused(b)

(***************************************************************************)
(* Invites                                                                 *)
(***************************************************************************)

pendingFor(p) == {i \in Invites : invite[i].status = "PENDING" /\ invite[i].email = p}
isMember(p) == membership[p].status \notin {"none", "REVOKED"}

inviteUser(b) ==
    LET p == req[b].arg.email
    IN /\ Manager(b, "invite")
       /\ IF pendingFor(p) # {} \/ (user[p].exists /\ isMember(p))
          THEN Refused(b)
          ELSE /\ Step(b, "create")
               /\ UNCHANGED <<factors, user, counter, challenge, session, browser, left, stale, orgVars>>

createInvite(b) ==
    /\ At(b, "invite", "create") /\ HasFree(invite, NoInvite)
    /\ invite' = [invite EXCEPT ![Unused(invite, NoInvite)] =
           [status |-> "PENDING", email |-> req[b].arg.email, role |-> req[b].arg.role,
            lapsed |-> FALSE]]
    /\ Done(b)
    /\ UNCHANGED <<factors, user, counter, challenge, session, browser, left, stale, membership, joined>>

(* The new status is written whatever the row says by now.                 *)
updateInvite(i, status) ==
    /\ invite' = [invite EXCEPT ![i].status = status]
    /\ stale' = IF invite[i].status # "PENDING" THEN stale \cup {"invite"} ELSE stale

revokeInvite(b) ==
    /\ Manager(b, "revokeInvite")
    /\ IF invite[req[b].arg].status # "PENDING" THEN Refused(b)
       ELSE /\ Step(b, "revoke")
            /\ UNCHANGED <<factors, user, counter, challenge, session, browser, left, stale, orgVars>>

updateRevoked(b) ==
    /\ At(b, "revokeInvite", "revoke")
    /\ updateInvite(req[b].arg, "REVOKED")
    /\ Done(b)
    /\ UNCHANGED <<factors, user, counter, challenge, session, browser, left, membership, joined>>

(* The token is the authorization: no session is asked for.                *)
acceptInvite(b, i) ==
    /\ Free(b) /\ invite[i].status = "PENDING"
    /\ Spend("staff")
    /\ Go(b, [op |-> "accept", at |-> IF invite[i].lapsed THEN "expire" ELSE "user",
              who |-> invite[i].email, arg |-> i])
    /\ UNCHANGED <<factors, user, counter, challenge, session, browser, stale, orgVars>>

expireInvite(b) ==
    /\ At(b, "accept", "expire")
    /\ updateInvite(req[b].arg, "EXPIRED")
    /\ Done(b)
    /\ UNCHANGED <<factors, user, counter, challenge, session, browser, left, membership, joined>>

acceptAsUser(b) ==
    LET p == req[b].who
    IN /\ At(b, "accept", "user")
       /\ user' = IF user[p].exists THEN user
                  ELSE [user EXCEPT ![p] = [NoUser EXCEPT !.exists = TRUE, !.password = TRUE]]
       /\ IF isMember(p) THEN Done(b) ELSE Step(b, "join")
       /\ UNCHANGED <<factors, counter, challenge, session, browser, left, stale, orgVars>>

(* Mutant: the row is written without the unique key.                      *)
createMembershipAnyway(b) ==
    LET p == req[b].who
        i == req[b].arg
    IN /\ At(b, "accept", "join")
       /\ membership' = [membership EXCEPT ![p] = [status |-> "ACTIVE", role |-> invite[i].role]]
       /\ joined' = [joined EXCEPT ![i] = @ + 1]
       /\ Step(b, "accepted")
       /\ UNCHANGED <<factors, user, counter, challenge, session, browser, left, stale, invite>>
(* One membership per person: a second row is refused, a revoked one too.  *)
createMembership(b) ==
    LET p == req[b].who
        i == req[b].arg
    IN /\ At(b, "accept", "join")
       /\ IF membership[p] = NoMember
          THEN /\ membership' = [membership EXCEPT ![p] = [status |-> "ACTIVE", role |-> invite[i].role]]
               /\ joined' = [joined EXCEPT ![i] = @ + 1]
               /\ Step(b, "accepted")
          ELSE Done(b) /\ UNCHANGED <<membership, joined>>
       /\ UNCHANGED <<factors, user, counter, challenge, session, browser, left, stale, invite>>

updateAccepted(b) ==
    /\ At(b, "accept", "accepted")
    /\ updateInvite(req[b].arg, "ACCEPTED")
    /\ Done(b)
    /\ UNCHANGED <<factors, user, counter, challenge, session, browser, left, membership, joined>>

inviteLapses(i) ==
    /\ invite[i].status = "PENDING" /\ ~invite[i].lapsed /\ Spend("clock")
    /\ invite' = [invite EXCEPT ![i].lapsed = TRUE]
    /\ UNCHANGED <<factors, user, counter, challenge, session, browser, req, stale, membership, joined>>

(***************************************************************************)
(* Members                                                                 *)
(***************************************************************************)

Deactivates(p, status) == p \in activeOwners /\ status # "ACTIVE"
(* Mutant: the last owner counts as one too many.                          *)
maySuspendLast(p, status) == Deactivates(p, status) => Cardinality(activeOwners) > 0
(* Never the last one who is active.                                       *)
maySuspend(p, status) == Deactivates(p, status) => Cardinality(activeOwners) > 1

changeMembershipStatus(b) ==
    LET p == req[b].arg.target
    IN /\ Manager(b, "changeStatus")
       /\ IF p = req[b].who \/ ~maySuspend(p, req[b].arg.status)
          THEN Refused(b)
          ELSE /\ Go(b, [op |-> "changeStatus", at |-> "update", sid |-> req[b].sid, who |-> req[b].who,
                         arg |-> req[b].arg, owners |-> activeOwners])
               /\ UNCHANGED <<factors, user, counter, challenge, session, browser, left, stale, orgVars>>

updateMembership(b) ==
    LET a == req[b].arg
    IN /\ At(b, "changeStatus", "update")
       /\ membership' = [membership EXCEPT ![a.target].status = a.status]
       /\ IF a.status = "REVOKED" THEN Step(b, "endSessions") ELSE Done(b)
       /\ UNCHANGED <<factors, user, counter, challenge, session, browser, left, stale, invite, joined>>

revokeAllSessions(b) ==
    /\ At(b, "changeStatus", "endSessions")
    /\ revokeAllForUser(req[b].arg.target)
    /\ Done(b)
    /\ UNCHANGED <<factors, user, counter, challenge, browser, left, stale, orgVars>>

(* A request stops between two steps; an invite accepted by half is noted. *)
requestStops(b) ==
    /\ req[b] # Idle /\ Spend("faults")
    /\ stale' = IF At(b, "accept", "accepted") THEN stale \cup {"invite"} ELSE stale
    /\ Done(b)
    /\ UNCHANGED <<factors, user, counter, challenge, session, browser, orgVars>>

Panel(b) ==
    \/ \E p \in Visitors, r \in Roles : validateSession(b, "invite", [email |-> p, role |-> r])
    \/ \E i \in Invites : invite[i] # NoInvite /\ validateSession(b, "revokeInvite", i)
    \/ \E p \in People, status \in {"ACTIVE", "SUSPENDED", "REVOKED"} :
          membership[p] # NoMember /\ validateSession(b, "changeStatus", [target |-> p, status |-> status])
    \/ validateSession(b, "logout", "none")

Next ==
    \/ SignInNext /\ UNCHANGED orgVars
    \/ \E b \in Browsers :
          \/ Panel(b) /\ UNCHANGED orgVars
          \/ forbidden(b) \/ inviteUser(b) \/ createInvite(b) \/ revokeInvite(b) \/ updateRevoked(b)
          \/ \E i \in Invites : acceptInvite(b, i)
          \/ expireInvite(b) \/ acceptAsUser(b) \/ createMembership(b) \/ updateAccepted(b)
          \/ changeMembershipStatus(b) \/ updateMembership(b) \/ revokeAllSessions(b)
          \/ requestStops(b)
    \/ \E i \in Invites : inviteLapses(i)

Spec == Init /\ [][Next]_vars

(***************************************************************************)
(* Properties                                                              *)
(***************************************************************************)

(* Every variable stays in its set; a challenge and a session belong to a  *)
(* person with an account, and a browser's cookie is one of its sessions'. *)
TypeOK ==
    /\ \A p \in People : ~user[p].exists => user[p] = NoUser
    /\ \A k \in Keys : counter[k].ends => counter[k].n > 0
    /\ \A t \in 1..MaxChallenges : challenge[t] # NoChallenge =>
          /\ challenge[t].kind \in {"gateway", "email", "setup", "verify", "gone"}
          /\ user[challenge[t].user].exists
    /\ \A s \in 1..MaxSessions : session[s] # NoSession => user[session[s].user].exists
    /\ \A b \in Browsers : browser[b].cookie # 0 => session[browser[b].cookie].user # "none"
    /\ \A p \in People : membership[p].status \in {"none", "ACTIVE", "SUSPENDED", "REVOKED"}

(* Requests that end owners at the same time can leave the organization    *)
(* without one.  The count before the write (identity/service.ts:336) makes *)
(* that the only way: whoever ends the last owner had counted another who  *)
(* was ended after it looked, or looked when there was none at all.        *)
LastOwnerEndsInRace ==
    [][activeOwners # {} /\ activeOwners' = {} =>
          \E b \in Browsers :
              /\ At(b, "changeStatus", "update") /\ req'[b] # req[b]
              /\ req[b].owners = {} \/ ~(req[b].owners \subseteq activeOwners)]_vars

(* An invite makes one member at most, however many times it is accepted   *)
(* at once; and it is recorded as accepted exactly when it made one, unless *)
(* its status was written over, or its acceptance stopped half-way.        *)
InviteMakesOneMember ==
    \A i \in Invites :
        /\ joined[i] <= 1
        /\ \/ "invite" \in stale
           \/ \E b \in Browsers : At(b, "accept", "accepted") /\ req[b].arg = i
           \/ joined[i] = 1 <=> invite[i].status = "ACCEPTED"

(* "never resurrects a killed session" (auth/service.ts:399): whatever was *)
(* read before, no renewal undoes a log-out or a revocation.               *)
KilledSessionStaysDead ==
    [][\A s \in 1..MaxSessions : session[s].revoked => session'[s].revoked]_vars

(* A second factor that is on was proven by a code of the secret it has    *)
(* ("Enabled only after the first code is confirmed"), unless the secret   *)
(* was replaced while a confirmation was checking the one before.          *)
EnabledAfterConfirmed ==
    \A p \in People : user[p].mfa /\ "secret" \notin stale => user[p].secret = user[p].confirmed
===============================================================================
