----------------------------- MODULE AccountsProofs -----------------------------
(***************************************************************************)
(* Accounts, for any number of people, browsers, invites, challenges and   *)
(* sessions, and however often requests cross, stop or lose their answer:  *)
(* types, the owner that remains, the one member of an invite, the         *)
(* confirmed second factor, and the session that stays dead.               *)
(***************************************************************************)
EXTENDS Accounts, FiniteSetTheorems, TLAPS

UserRow == [exists : BOOLEAN, password : BOOLEAN, mfa : BOOLEAN, secret : Nat, confirmed : Nat,
            backup : BOOLEAN]
Challenge == {NoChallenge} \cup [kind : {"gateway", "email", "setup", "verify", "gone"},
                                 user : People]
SessionRow == {NoSession} \cup [user : People, revoked : BOOLEAN, lapsed : BOOLEAN]
Form == [step : {"credentials", "google", "choose", "enrolling", "setup", "verify", "backup", "panel"},
         who : People \cup {"none"}, challenge : 0..MaxChallenges, channel : {"totp", "email"},
         options : BOOLEAN, secret : Nat, cookie : 0..MaxSessions, device : People \cup {"none"}]
MemberRow == {NoMember} \cup [status : {"ACTIVE", "SUSPENDED", "REVOKED"},
                              role : Roles \cup MEMBER_MANAGER_ROLES \cup {"none"}]
InviteRow == {NoInvite} \cup [status : {"PENDING", "ACCEPTED", "EXPIRED", "REVOKED"},
                              email : People, role : Roles, lapsed : BOOLEAN]

(* The requests there are: the two that sign a person in, ...              *)
Confirm == [op : {"confirm"}, at : {"enable"}, who : People, secret : Nat]
Verify == [op : {"verify"}, at : {"done", "spare"}, who : People]
(* ... the acceptance of an invite, ...                                    *)
Accept == [op : {"accept"}, at : {"expire", "user", "join", "accepted"}, who : People, arg : Invites]
(* ... and those of the panel.                                             *)
Logout == [op : {"logout"}, at : {"touch", "authorize"}, sid : 1..MaxSessions, who : People,
           arg : {"none"}]
InviteCall == [op : {"invite"}, at : {"touch", "authorize", "create"}, sid : 1..MaxSessions,
               who : People, arg : [email : People, role : Roles]]
RevokeCall == [op : {"revokeInvite"}, at : {"touch", "authorize", "revoke"}, sid : 1..MaxSessions,
               who : People, arg : Invites]
Change == [target : People, status : {"ACTIVE", "SUSPENDED", "REVOKED"}]
StatusCall == [op : {"changeStatus"}, at : {"touch", "authorize"}, sid : 1..MaxSessions,
               who : People, arg : Change]
StatusWrite == [op : {"changeStatus"}, at : {"update", "endSessions"}, sid : 1..MaxSessions,
                who : People, arg : Change, owners : SUBSET People]
Panels == Logout \cup InviteCall \cup RevokeCall \cup StatusCall
Request == {Idle} \cup Confirm \cup Verify \cup Accept \cup Panels \cup StatusWrite

WellTyped ==
    /\ user \in [People -> UserRow]
    /\ counter \in [Keys -> [n : Nat, ends : BOOLEAN]]
    /\ challenge \in [1..MaxChallenges -> Challenge]
    /\ session \in [1..MaxSessions -> SessionRow]
    /\ browser \in [Browsers -> Form]
    /\ req \in [Browsers -> Request]
    /\ membership \in [People -> MemberRow]
    /\ invite \in [Invites -> InviteRow]
    /\ joined \in [Invites -> Nat]

(* Who is about to be signed in has an account, and a request of the panel *)
(* has a session.                                                          *)
CallerKnown(r) ==
    /\ r.op \in {"confirm", "verify"} => user[r.who].exists
    /\ r.op \in {"logout", "invite", "revokeInvite", "changeStatus"} => session[r.sid] # NoSession

(* A change of status that ends an owner has counted another one.          *)
OwnersCounted(r) ==
    r.op = "changeStatus" /\ r.at = "update" /\ r.arg.target \in r.owners /\ r.arg.status # "ACTIVE"
        => Cardinality(r.owners) > 1

(* A request about an invite names one that there is, an acceptance the    *)
(* person it was sent to, and it has made its member before it ends.       *)
InviteKnown(r) ==
    /\ r.op = "revokeInvite" => invite[r.arg] # NoInvite
    /\ r.op = "accept" => /\ invite[r.arg] # NoInvite /\ invite[r.arg].email = r.who
                          /\ r.at = "accepted" => joined[r.arg] = 1

RequestsKnown ==
    \A b \in Browsers : CallerKnown(req[b]) /\ OwnersCounted(req[b]) /\ InviteKnown(req[b])

(* An invite that made a member is one there is, and the person is one; it *)
(* is accepted or about to be, and an accepted one made its member.        *)
InvitesJoin ==
    \A i \in Invites :
        /\ joined[i] \in {0, 1}
        /\ joined[i] = 1 => invite[i] # NoInvite /\ membership[invite[i].email] # NoMember
        /\ "invite" \notin stale =>
              /\ invite[i].status = "ACCEPTED" => joined[i] = 1
              /\ joined[i] = 1 =>
                    \/ invite[i].status = "ACCEPTED"
                    \/ \E b \in Browsers : At(b, "accept", "accepted") /\ req[b].arg = i

Inv ==
    /\ WellTyped /\ TypeOK /\ RequestsKnown /\ InvitesJoin
    /\ EnabledAfterConfirmed

-------------------------------------------------------------------------------
(* Which action changes which variable                                     *)

(* An unused slot is one of the slots, and empty. *)
LEMMA SlotFound ==
    ASSUME NEW f, NEW none, HasFree(f, none)
    PROVE  Unused(f, none) \in DOMAIN f /\ f[Unused(f, none)] = none
BY DEF HasFree, Unused

(* The users change when they register, come back from a provider, enrol,  *)
(* use a backup code or accept an invite.                                  *)
LEMMA UserSteps ==
    ASSUME [Next]_vars, user' # user
    PROVE  \E b \in Browsers :
               \/ \E p \in Visitors : register(b, p) \/ loginWithFederatedIdentity(b, p)
               \/ setupMfa(b) \/ acceptAsUser(b)
               \/ \E trust \in BOOLEAN : enableMfa(b, trust) \/ completeMfa(b, trust)
<1>1. ~UNCHANGED vars
    BY DEF vars, signInVars
<1>2. ASSUME NEW b \in Browsers
      PROVE  /\ \A p \in Visitors : /\ ~loginTrusted(b, p) /\ ~loginChallenged(b, p)
                                    /\ \A right \in BOOLEAN : ~loginRefused(b, p, right)
             /\ \A method : ~chooseSecondFactor(b, method) /\ ~chooseRefused(b, method)
             /\ \A right, trust \in BOOLEAN :
                   ~confirmMfaSetup(b, right) /\ ~verifyEmailOtp(b, right, trust)
             /\ \A typed \in Typed : ~verifyMfa(b, typed)
    BY DEF loginRefused, loginTrusted, loginChallenged, chooseSecondFactor, chooseRefused,
       confirmMfaSetup, verifyEmailOtp, verifyMfa
<1>3. ASSUME NEW b \in Browsers
      PROVE  /\ ~googleStart(b) /\ ~googleCallbackFails(b) /\ ~chooseAnother(b) /\ ~keepCodes(b)
             /\ ~logout(b) /\ ~touchSession(b) /\ ~redirectToSignIn(b) /\ ~deviceExpires(b)
             /\ ~reload(b)
    BY DEF googleStart, googleCallbackFails, chooseAnother, keepCodes, logout, touchSession,
       redirectToSignIn, deviceExpires, reload
<1>4. /\ \A k \in Keys : ~windowEnds(k) /\ ~incrementStopped(k)
      /\ \A t \in 1..MaxChallenges : ~challengeExpires(t)
      /\ \A s \in 1..MaxSessions : ~sessionExpires(s)
      /\ \A i \in Invites : ~inviteLapses(i)
    BY DEF windowEnds, incrementStopped, challengeExpires, sessionExpires, inviteLapses
<1>5. ASSUME NEW b \in Browsers PROVE ~Panel(b)
    BY DEF Panel, validateSession
<1>6. ASSUME NEW b \in Browsers
      PROVE  /\ ~forbidden(b) /\ ~inviteUser(b) /\ ~createInvite(b) /\ ~revokeInvite(b)
             /\ ~updateRevoked(b) /\ ~expireInvite(b) /\ ~createMembership(b)
             /\ ~updateAccepted(b) /\ ~changeMembershipStatus(b) /\ ~updateMembership(b)
             /\ ~revokeAllSessions(b) /\ ~requestStops(b)
             /\ \A i \in Invites : ~acceptInvite(b, i)
    BY DEF forbidden, inviteUser, createInvite, revokeInvite, updateRevoked, acceptInvite,
       expireInvite, createMembership, updateAccepted, changeMembershipStatus, updateMembership,
       revokeAllSessions, requestStops, Refused
<1>7. QED
    BY <1>1, <1>2, <1>3, <1>4, <1>5, <1>6 DEF Next, SignInNext

(* What a browser may do that makes a session. *)
Issues(b) ==
    \/ \E p \in Visitors : loginTrusted(b, p) \/ loginWithFederatedIdentity(b, p)
    \/ \E right, trust \in BOOLEAN : verifyEmailOtp(b, right, trust)
    \/ \E trust \in BOOLEAN : enableMfa(b, trust) \/ completeMfa(b, trust)

(* The sessions change when a person signs in or out, a session is used,   *)
(* expires, or a member is revoked.                                        *)
LEMMA SessionSteps ==
    ASSUME [Next]_vars, session' # session
    PROVE  \/ \E b \in Browsers : \/ Issues(b)
                                  \/ touchSession(b) /\ touch(b)
                                  \/ logout(b) \/ revokeAllSessions(b)
           \/ \E s \in 1..MaxSessions : sessionExpires(s)
<1>1. ~UNCHANGED vars
    BY DEF vars, signInVars
<1>2. ASSUME NEW b \in Browsers
      PROVE  /\ \A p \in Visitors : /\ ~register(b, p) /\ ~loginChallenged(b, p)
                                    /\ \A right \in BOOLEAN : ~loginRefused(b, p, right)
             /\ \A method : ~chooseSecondFactor(b, method) /\ ~chooseRefused(b, method)
             /\ \A right \in BOOLEAN : ~confirmMfaSetup(b, right)
             /\ \A typed \in Typed : ~verifyMfa(b, typed)
    BY DEF loginRefused, register, loginChallenged, chooseSecondFactor, chooseRefused,
       confirmMfaSetup, verifyMfa
<1>3. ASSUME NEW b \in Browsers
      PROVE  /\ ~googleStart(b) /\ ~googleCallbackFails(b) /\ ~chooseAnother(b) /\ ~keepCodes(b)
             /\ ~setupMfa(b) /\ ~redirectToSignIn(b) /\ ~deviceExpires(b) /\ ~reload(b)
             /\ touchSession(b) => touch(b)
    BY DEF googleStart, googleCallbackFails, chooseAnother, keepCodes, setupMfa, touchSession,
       redirectToSignIn, deviceExpires, reload
<1>4. /\ \A k \in Keys : ~windowEnds(k) /\ ~incrementStopped(k)
      /\ \A t \in 1..MaxChallenges : ~challengeExpires(t)
      /\ \A i \in Invites : ~inviteLapses(i)
    BY DEF windowEnds, incrementStopped, challengeExpires, inviteLapses
<1>5. ASSUME NEW b \in Browsers PROVE ~Panel(b)
    BY DEF Panel, validateSession
<1>6. ASSUME NEW b \in Browsers
      PROVE  /\ ~forbidden(b) /\ ~inviteUser(b) /\ ~createInvite(b) /\ ~revokeInvite(b)
             /\ ~updateRevoked(b) /\ ~expireInvite(b) /\ ~acceptAsUser(b) /\ ~createMembership(b)
             /\ ~updateAccepted(b) /\ ~changeMembershipStatus(b) /\ ~updateMembership(b)
             /\ ~requestStops(b)
             /\ \A i \in Invites : ~acceptInvite(b, i)
    BY DEF forbidden, inviteUser, createInvite, revokeInvite, updateRevoked, acceptInvite,
       expireInvite, acceptAsUser, createMembership, updateAccepted, changeMembershipStatus,
       updateMembership, requestStops, Refused
<1>7. QED
    BY <1>1, <1>2, <1>3, <1>4, <1>5, <1>6 DEF Next, SignInNext, Issues

(* The membership and the invites change by the organization's requests.   *)
LEMMA OrgSteps ==
    ASSUME [Next]_vars, ~UNCHANGED orgVars
    PROVE  \/ \E b \in Browsers :
                 \/ createInvite(b) \/ updateRevoked(b) \/ expireInvite(b)
                 \/ createMembership(b) \/ updateAccepted(b) \/ updateMembership(b)
           \/ \E i \in Invites : inviteLapses(i)
<1>1. ~UNCHANGED vars
    BY DEF vars, orgVars
<1>2. ASSUME NEW b \in Browsers
      PROVE  /\ ~forbidden(b) /\ ~inviteUser(b) /\ ~revokeInvite(b) /\ ~acceptAsUser(b)
             /\ ~changeMembershipStatus(b) /\ ~revokeAllSessions(b) /\ ~requestStops(b)
             /\ \A i \in Invites : ~acceptInvite(b, i)
    BY DEF forbidden, inviteUser, revokeInvite, acceptInvite, acceptAsUser,
       changeMembershipStatus, revokeAllSessions, requestStops, Refused
<1>3. QED
    BY <1>1, <1>2 DEF Next

(* What was noted as stale stays noted. *)
LEMMA StaleGrows ==
    ASSUME [Next]_vars, NEW x \in stale
    PROVE  x \in stale'
<1> SUFFICES ASSUME stale' # stale PROVE x \in stale'
    OBVIOUS
<1>1. ~UNCHANGED vars
    BY DEF vars, signInVars
<1>2. ASSUME NEW b \in Browsers
      PROVE  /\ \A p \in Visitors : /\ ~register(b, p) /\ ~loginTrusted(b, p)
                                    /\ ~loginChallenged(b, p) /\ ~loginWithFederatedIdentity(b, p)
                                    /\ \A right \in BOOLEAN : ~loginRefused(b, p, right)
             /\ \A method : ~chooseSecondFactor(b, method) /\ ~chooseRefused(b, method)
             /\ \A right, trust \in BOOLEAN :
                   ~confirmMfaSetup(b, right) /\ ~verifyEmailOtp(b, right, trust)
             /\ \A trust \in BOOLEAN : ~completeMfa(b, trust)
             /\ \A typed \in Typed : ~verifyMfa(b, typed)
    BY DEF register, loginRefused, loginTrusted, loginChallenged, loginWithFederatedIdentity,
       chooseSecondFactor, chooseRefused, confirmMfaSetup, verifyEmailOtp, completeMfa, verifyMfa
<1>3. ASSUME NEW b \in Browsers
      PROVE  /\ ~googleStart(b) /\ ~googleCallbackFails(b) /\ ~chooseAnother(b) /\ ~keepCodes(b)
             /\ ~setupMfa(b) /\ ~logout(b) /\ ~touchSession(b) /\ ~redirectToSignIn(b)
             /\ ~deviceExpires(b) /\ ~reload(b)
    BY DEF googleStart, googleCallbackFails, chooseAnother, keepCodes, setupMfa, logout,
       touchSession, redirectToSignIn, deviceExpires, reload
<1>4. /\ \A k \in Keys : ~windowEnds(k) /\ ~incrementStopped(k)
      /\ \A t \in 1..MaxChallenges : ~challengeExpires(t)
      /\ \A s \in 1..MaxSessions : ~sessionExpires(s)
      /\ \A i \in Invites : ~inviteLapses(i)
    BY DEF windowEnds, incrementStopped, challengeExpires, sessionExpires, inviteLapses
<1>5. ASSUME NEW b \in Browsers PROVE ~Panel(b)
    BY DEF Panel, validateSession
<1>6. ASSUME NEW b \in Browsers
      PROVE  /\ ~forbidden(b) /\ ~inviteUser(b) /\ ~createInvite(b) /\ ~revokeInvite(b)
             /\ ~acceptAsUser(b) /\ ~createMembership(b) /\ ~changeMembershipStatus(b)
             /\ ~revokeAllSessions(b)
             /\ \A i \in Invites : ~acceptInvite(b, i)
    BY DEF forbidden, inviteUser, createInvite, revokeInvite, acceptInvite, acceptAsUser,
       createMembership, changeMembershipStatus, revokeAllSessions, Refused
<1>7. ASSUME NEW b \in Browsers
      PROVE  /\ updateRevoked(b) \/ expireInvite(b) \/ updateAccepted(b) => x \in stale'
             /\ updateMembership(b) \/ requestStops(b) => x \in stale'
             /\ \A trust \in BOOLEAN : enableMfa(b, trust) => x \in stale'
    BY DEF updateRevoked, expireInvite, updateAccepted, updateMembership, requestStops, enableMfa,
       updateInvite
<1>8. QED
    BY <1>1, <1>2, <1>3, <1>4, <1>5, <1>6, <1>7 DEF Next, SignInNext

(* What a browser may do that moves a request. *)
SignsIn(b) ==
    \/ \E right \in BOOLEAN : confirmMfaSetup(b, right)
    \/ \E trust \in BOOLEAN : enableMfa(b, trust) \/ completeMfa(b, trust)
    \/ \E typed \in Typed : verifyMfa(b, typed)
    \/ touchSession(b) \/ logout(b) \/ Panel(b)
Manages(b) ==
    \/ forbidden(b) \/ inviteUser(b) \/ createInvite(b) \/ revokeInvite(b) \/ updateRevoked(b)
    \/ \E i \in Invites : acceptInvite(b, i)
    \/ expireInvite(b) \/ acceptAsUser(b) \/ createMembership(b) \/ updateAccepted(b)
    \/ changeMembershipStatus(b) \/ updateMembership(b) \/ revokeAllSessions(b) \/ requestStops(b)

(* A request moves only by its browser, ... *)
LEMMA RequestSteps ==
    ASSUME [Next]_vars, req' # req
    PROVE  \E b \in Browsers : SignsIn(b) \/ Manages(b)
<1>1. ~UNCHANGED vars
    BY DEF vars, signInVars
<1>2. ASSUME NEW b \in Browsers
      PROVE  /\ \A p \in Visitors : /\ ~register(b, p) /\ ~loginTrusted(b, p)
                                    /\ ~loginChallenged(b, p) /\ ~loginWithFederatedIdentity(b, p)
                                    /\ \A right \in BOOLEAN : ~loginRefused(b, p, right)
             /\ \A method : ~chooseSecondFactor(b, method) /\ ~chooseRefused(b, method)
             /\ \A right, trust \in BOOLEAN : ~verifyEmailOtp(b, right, trust)
    BY DEF register, loginRefused, loginTrusted, loginChallenged, loginWithFederatedIdentity,
       chooseSecondFactor, chooseRefused, verifyEmailOtp
<1>3. ASSUME NEW b \in Browsers
      PROVE  /\ ~googleStart(b) /\ ~googleCallbackFails(b) /\ ~chooseAnother(b) /\ ~keepCodes(b)
             /\ ~setupMfa(b) /\ ~redirectToSignIn(b) /\ ~deviceExpires(b) /\ ~reload(b)
    BY DEF googleStart, googleCallbackFails, chooseAnother, keepCodes, setupMfa,
       redirectToSignIn, deviceExpires, reload
<1>4. /\ \A k \in Keys : ~windowEnds(k) /\ ~incrementStopped(k)
      /\ \A t \in 1..MaxChallenges : ~challengeExpires(t)
      /\ \A s \in 1..MaxSessions : ~sessionExpires(s)
      /\ \A i \in Invites : ~inviteLapses(i)
    BY DEF windowEnds, incrementStopped, challengeExpires, sessionExpires, inviteLapses
<1>5. QED
    BY <1>1, <1>2, <1>3, <1>4 DEF Next, SignInNext, SignsIn, Manages

(* ... which moves no other. *)
LEMMA OthersWait ==
    ASSUME NEW b \in Browsers, SignsIn(b) \/ Manages(b)
    PROVE  UNCHANGED req \/ \E r : Go(b, r)
<1>1. CASE SignsIn(b)
    BY <1>1 DEF SignsIn, confirmMfaSetup, enableMfa, completeMfa, verifyMfa, touchSession, logout,
       Panel, validateSession
<1>2. CASE Manages(b)
    BY <1>2 DEF Manages, forbidden, inviteUser, createInvite, revokeInvite, updateRevoked,
       acceptInvite, expireInvite, acceptAsUser, createMembership, updateAccepted,
       changeMembershipStatus, updateMembership, revokeAllSessions, requestStops, Refused, Done,
       Step
<1>3. QED
    BY <1>1, <1>2

-------------------------------------------------------------------------------
(* Types                                                                   *)

(* An open challenge is that of a person with an account. *)
LEMMA OpenUser ==
    ASSUME WellTyped, TypeOK, NEW b \in Browsers,
           NEW kind \in {"gateway", "email", "setup", "verify"},
           Open(browser[b].challenge, kind)
    PROVE  /\ browser[b].challenge \in 1..MaxChallenges
           /\ challenge[browser[b].challenge] # NoChallenge
           /\ challenge[browser[b].challenge].user \in People
           /\ user[challenge[browser[b].challenge].user].exists
<1> DEFINE t == browser[b].challenge
<1>1. t \in 0..MaxChallenges /\ t # 0
    BY DEF WellTyped, Form, Open
<1>2. t \in 1..MaxChallenges /\ challenge[t] # NoChallenge
    BY <1>1, SignInAssumption DEF Open, NoChallenge
<1>3. challenge[t] \in Challenge
    BY <1>2 DEF WellTyped
<1>4. challenge[t].user \in People /\ user[challenge[t].user].exists
    BY <1>2, <1>3 DEF TypeOK, Challenge
<1>5. QED
    BY <1>2, <1>4

(* A request is one of its kind. *)
LEMMA RequestKind ==
    ASSUME WellTyped, NEW b \in Browsers
    PROVE  /\ req[b] \in Request
           /\ req[b].op = "confirm" => req[b] \in Confirm
           /\ req[b].op = "verify" => req[b] \in Verify
           /\ req[b].op = "accept" => req[b] \in Accept
           /\ req[b].op = "logout" => req[b] \in Logout
           /\ req[b].op = "invite" => req[b] \in InviteCall
           /\ req[b].op = "revokeInvite" => req[b] \in RevokeCall
           /\ req[b].op = "changeStatus" => req[b] \in StatusCall \cup StatusWrite
           /\ req[b].op = "idle" <=> req[b] = Idle
           /\ req[b] # Idle /\ req[b].at = "touch" => req[b] \in Panels
           /\ req[b] # Idle /\ req[b].at = "authorize" => req[b] \in Panels
<1>1. req[b] \in Request
    BY DEF WellTyped
<1>2. QED
    BY <1>1 DEF Request, Idle, Confirm, Verify, Accept, Logout, InviteCall, RevokeCall, StatusCall,
       StatusWrite, Panels

(* One user's row changes for another one. *)
LEMMA UserPut ==
    ASSUME WellTyped, NEW p \in People, NEW r \in UserRow, user' = [user EXCEPT ![p] = r]
    PROVE  user' \in [People -> UserRow] /\ user'[p] = r /\ \A q \in People \ {p} : user'[q] = user[q]
BY DEF WellTyped

(* A person without an account has no factor, and a factor that is on is   *)
(* confirmed unless noted.                                                 *)
Settled(r) == ~r.exists => r = NoUser
Confirmed(r, noted) == r.mfa /\ "secret" \notin noted => r.secret = r.confirmed

(* Every step leaves an account that there is, and keeps these. *)
LEMMA UserNext ==
    ASSUME WellTyped, TypeOK, EnabledAfterConfirmed, RequestsKnown, [Next]_vars
    PROVE  /\ user' \in [People -> UserRow]
           /\ \A p \in People : /\ user[p].exists => user'[p].exists
                                /\ Settled(user'[p]) /\ Confirmed(user'[p], stale')
<1> DEFINE Good(p, r) == (user[p].exists => r.exists) /\ Settled(r) /\ Confirmed(r, stale')
<1>1. \A p \in People : user[p] \in UserRow /\ Good(p, user[p])
    BY StaleGrows DEF WellTyped, TypeOK, EnabledAfterConfirmed, Settled, Confirmed
<1>2. CASE UNCHANGED user
    BY <1>1, <1>2 DEF WellTyped
<1>3. ASSUME NEW p \in People, NEW r \in UserRow, Good(p, r), user' = [user EXCEPT ![p] = r]
      PROVE  user' \in [People -> UserRow] /\ \A q \in People : Good(q, user'[q])
    <2> HIDE DEF Good
    <2>1. QED
        BY <1>1, <1>3, UserPut
<1>4. ASSUME NEW b \in Browsers, NEW p \in Visitors,
             register(b, p) \/ loginWithFederatedIdentity(b, p)
      PROVE  \/ UNCHANGED user
             \/ \E r \in UserRow : Good(p, r) /\ user' = [user EXCEPT ![p] = r]
    <2>1. p \in People
        BY SignInAssumption
    <2>2. CASE UNCHANGED user
        BY <2>2
    <2>3. CASE \/ user' = [user EXCEPT ![p] = [NoUser EXCEPT !.exists = TRUE, !.password = TRUE]]
               \/ user' = [user EXCEPT ![p] = [NoUser EXCEPT !.exists = TRUE]]
        <3>1. /\ [NoUser EXCEPT !.exists = TRUE, !.password = TRUE] \in UserRow
              /\ [NoUser EXCEPT !.exists = TRUE] \in UserRow
              /\ Good(p, [NoUser EXCEPT !.exists = TRUE, !.password = TRUE])
              /\ Good(p, [NoUser EXCEPT !.exists = TRUE])
            BY DEF NoUser, UserRow, Settled, Confirmed
        <3> HIDE DEF Good
        <3>2. QED
            BY <2>3, <3>1
    <2>4. QED
        BY <1>4, <2>2, <2>3 DEF register, loginWithFederatedIdentity
<1>5. ASSUME NEW b \in Browsers, setupMfa(b)
      PROVE  \/ UNCHANGED user
             \/ \E p \in People, r \in UserRow : Good(p, r) /\ user' = [user EXCEPT ![p] = r]
    <2> DEFINE p == challenge[browser[b].challenge].user
    <2>1. CASE UNCHANGED user
        BY <2>1
    <2>2. CASE Open(browser[b].challenge, "setup") /\ setMfaPendingSecret(p)
        <3>1. p \in People /\ user[p].exists /\ user[p] \in UserRow
            BY <1>1, <2>2, OpenUser
        <3>2. user' = [user EXCEPT ![p] = [user[p] EXCEPT !.secret = user[p].secret + 1, !.mfa = FALSE]]
            BY <2>2, <3>1 DEF setMfaPendingSecret, WellTyped
        <3>3. ASSUME NEW n \in Nat
              PROVE  /\ [user[p] EXCEPT !.secret = n, !.mfa = FALSE] \in UserRow
                     /\ Good(p, [user[p] EXCEPT !.secret = n, !.mfa = FALSE])
            BY <3>1 DEF UserRow, Settled, Confirmed
        <3>4. user[p].secret + 1 \in Nat
            BY <3>1 DEF UserRow
        <3> HIDE DEF Good
        <3>5. QED
            BY <3>1, <3>2, <3>3, <3>4
    <2>3. QED
        BY <1>5, <2>1, <2>2 DEF setupMfa
<1>6. ASSUME NEW b \in Browsers, NEW trust \in BOOLEAN, enableMfa(b, trust)
      PROVE  \E p \in People, r \in UserRow : Good(p, r) /\ user' = [user EXCEPT ![p] = r]
    <2> DEFINE p == req[b].who
               r == [user[p] EXCEPT !.mfa = TRUE, !.backup = TRUE, !.confirmed = req[b].secret]
    <2>1. p \in People /\ user[p].exists /\ user[p] \in UserRow /\ req[b].secret \in Nat
        BY <1>1, <1>6, RequestKind DEF enableMfa, Confirm, RequestsKnown, CallerKnown
    <2>2. user' = [user EXCEPT ![p] = r]
        BY <1>6, <2>1 DEF enableMfa, WellTyped
    <2>3. user[p].secret # req[b].secret => "secret" \in stale'
        BY <1>6 DEF enableMfa
    <2>4. r \in UserRow /\ Good(p, r)
        BY <2>1, <2>3 DEF UserRow, Settled, Confirmed
    <2> HIDE DEF Good
    <2>5. QED
        BY <2>1, <2>2, <2>4
<1>7. ASSUME NEW b \in Browsers, NEW trust \in BOOLEAN, completeMfa(b, trust)
      PROVE  \/ UNCHANGED user
             \/ \E p \in People, r \in UserRow : Good(p, r) /\ user' = [user EXCEPT ![p] = r]
    <2> DEFINE p == req[b].who
               r == [user[p] EXCEPT !.backup = FALSE]
    <2>1. p \in People /\ user[p].exists /\ user[p] \in UserRow /\ Good(p, user[p])
        BY <1>1, <1>7, RequestKind DEF completeMfa, Verify, RequestsKnown, CallerKnown
    <2>2. UNCHANGED user \/ user' = [user EXCEPT ![p] = r]
        BY <1>7, <2>1 DEF completeMfa, consumeBackupCode, WellTyped
    <2>3. r \in UserRow /\ Good(p, r)
        BY <2>1 DEF UserRow, Settled, Confirmed
    <2> HIDE DEF Good
    <2>4. QED
        BY <2>1, <2>2, <2>3
<1>8. ASSUME NEW b \in Browsers, acceptAsUser(b)
      PROVE  \/ UNCHANGED user
             \/ \E p \in People, r \in UserRow : Good(p, r) /\ user' = [user EXCEPT ![p] = r]
    <2> DEFINE p == req[b].who
               r == [NoUser EXCEPT !.exists = TRUE, !.password = TRUE]
    <2>1. p \in People
        BY <1>8, RequestKind DEF acceptAsUser, At, Accept
    <2>2. UNCHANGED user \/ user' = [user EXCEPT ![p] = r]
        BY <1>8 DEF acceptAsUser
    <2>3. r \in UserRow /\ Good(p, r)
        BY DEF NoUser, UserRow, Settled, Confirmed
    <2> HIDE DEF Good
    <2>4. QED
        BY <2>1, <2>2, <2>3
<1>9. QED
    <2> HIDE DEF Good
    <2>1. \/ UNCHANGED user
          \/ \E p \in People, r \in UserRow : Good(p, r) /\ user' = [user EXCEPT ![p] = r]
        BY <1>4, <1>5, <1>6, <1>7, <1>8, UserSteps, SignInAssumption
    <2>2. user' \in [People -> UserRow] /\ \A q \in People : Good(q, user'[q])
        BY <1>1, <1>2, <1>3, <2>1
    <2>3. QED
        BY <2>2 DEF Good

(* A counter counts, and expires only once it has. *)
CounterRow == [n : Nat, ends : BOOLEAN]
Counts(c) == c \in [Keys -> CounterRow] /\ \A k \in Keys : c[k].ends => c[k].n > 0

(* A hit and a new window keep them. *)
LEMMA CounterPut ==
    ASSUME NEW c, Counts(c), NEW k \in Keys
    PROVE  /\ Counts(increment(c, k))
           /\ \A n \in Nat, ends \in BOOLEAN :
                 (ends => n > 0) => Counts([c EXCEPT ![k] = [n |-> n, ends |-> ends]])
<1>1. c[k] \in CounterRow /\ c[k].n \in Nat /\ c[k].ends \in BOOLEAN
    BY DEF Counts, CounterRow
<1>2. ASSUME NEW n \in Nat, NEW ends \in BOOLEAN, ends => n > 0
      PROVE  Counts([c EXCEPT ![k] = [n |-> n, ends |-> ends]])
    BY <1>2 DEF Counts, CounterRow
<1>3. increment(c, k) = [c EXCEPT ![k] = [n |-> c[k].n + 1, ends |-> c[k].ends \/ c[k].n = 0]]
    BY DEF increment, Counts
<1>4. c[k].n + 1 \in Nat /\ c[k].n + 1 > 0
    BY <1>1
<1>5. QED
    BY <1>2, <1>3, <1>4

(* The limits keep the counters. *)
LEMMA LimitsCount ==
    ASSUME WellTyped, TypeOK
    PROVE  /\ Counts(counter)
           /\ \A p \in Visitors, b \in Browsers : Counts(enforceLoginLimit(p, b))
           /\ \A b \in Browsers : Counts(increment(counter, <<"register", b>>))
           /\ \A p \in People : Counts(enforceMfaRateLimit(p))
<1>1. Counts(counter)
    BY DEF WellTyped, TypeOK, Counts, CounterRow
<1>2. /\ \A p \in People : <<"login", p>> \in Keys /\ <<"mfa", p>> \in Keys
      /\ \A b \in Browsers : <<"ip", b>> \in Keys /\ <<"register", b>> \in Keys
    BY DEF Keys
<1>3. ASSUME NEW p \in Visitors, NEW b \in Browsers PROVE Counts(enforceLoginLimit(p, b))
    BY <1>1, <1>2, CounterPut, SignInAssumption DEF enforceLoginLimit
<1>4. QED
    BY <1>1, <1>2, <1>3, CounterPut DEF enforceMfaRateLimit

(* Every step keeps the counters. *)
LEMMA CounterNext ==
    ASSUME WellTyped, TypeOK, [Next]_vars
    PROVE  Counts(counter')
<1> SUFFICES ASSUME counter' # counter PROVE Counts(counter')
    BY LimitsCount
<1>1. ~UNCHANGED vars
    BY DEF vars, signInVars
<1>2. ASSUME NEW b \in Browsers, NEW p \in Visitors, NEW right,
             \/ register(b, p) \/ loginRefused(b, p, right) \/ loginTrusted(b, p)
             \/ loginChallenged(b, p) \/ loginWithFederatedIdentity(b, p)
      PROVE  Counts(counter')
    BY <1>2, LimitsCount DEF register, loginRefused, loginTrusted, loginChallenged,
       loginWithFederatedIdentity
<1>3. ASSUME NEW b \in Browsers
      PROVE  /\ \A method : chooseSecondFactor(b, method) \/ chooseRefused(b, method) => Counts(counter')
             /\ \A right, trust \in BOOLEAN :
                   confirmMfaSetup(b, right) \/ verifyEmailOtp(b, right, trust) => Counts(counter')
             /\ \A typed \in Typed : verifyMfa(b, typed) => Counts(counter')
    <2>1. \A method : chooseSecondFactor(b, method) \/ chooseRefused(b, method) => Counts(counter')
        BY LimitsCount, OpenUser DEF chooseSecondFactor, chooseRefused
    <2>2. \A right, trust \in BOOLEAN :
             confirmMfaSetup(b, right) \/ verifyEmailOtp(b, right, trust) => Counts(counter')
        BY LimitsCount, OpenUser DEF confirmMfaSetup, verifyEmailOtp
    <2>3. \A typed \in Typed : verifyMfa(b, typed) => Counts(counter')
        BY LimitsCount, OpenUser DEF verifyMfa
    <2>4. QED
        BY <2>1, <2>2, <2>3
<1>4. ASSUME NEW k \in Keys, windowEnds(k) \/ incrementStopped(k) PROVE Counts(counter')
    <2>1. Counts(counter) /\ counter[k] \in CounterRow /\ counter \in [Keys -> CounterRow]
        BY LimitsCount DEF Counts
    <2>2. CASE windowEnds(k)
        BY <2>1, <2>2, CounterPut DEF windowEnds
    <2>3. CASE incrementStopped(k)
        <3>1. counter' = [counter EXCEPT ![k] = [n |-> 1, ends |-> counter[k].ends]]
            <4>1. [counter[k] EXCEPT !.n = 1] = [n |-> 1, ends |-> counter[k].ends]
                BY <2>1 DEF CounterRow
            <4>2. counter' = [counter EXCEPT ![k] = [counter[k] EXCEPT !.n = 1]]
                BY <2>1, <2>3 DEF incrementStopped
            <4>3. QED
                BY <4>1, <4>2
        <3>2. counter[k].ends \in BOOLEAN
            BY <2>1 DEF CounterRow
        <3>3. 1 \in Nat /\ 1 > 0
            OBVIOUS
        <3>4. QED
            BY <2>1, <3>1, <3>2, <3>3, CounterPut
    <2>4. QED
        BY <1>4, <2>2, <2>3
<1>5. ASSUME NEW b \in Browsers
      PROVE  /\ ~googleStart(b) /\ ~googleCallbackFails(b) /\ ~chooseAnother(b) /\ ~keepCodes(b)
             /\ ~setupMfa(b) /\ ~logout(b) /\ ~touchSession(b) /\ ~redirectToSignIn(b)
             /\ ~deviceExpires(b) /\ ~reload(b)
             /\ \A trust \in BOOLEAN : ~enableMfa(b, trust) /\ ~completeMfa(b, trust)
    BY DEF googleStart, googleCallbackFails, chooseAnother, keepCodes, setupMfa, logout,
       touchSession, redirectToSignIn, deviceExpires, reload, enableMfa, completeMfa
<1>6. /\ \A t \in 1..MaxChallenges : ~challengeExpires(t)
      /\ \A s \in 1..MaxSessions : ~sessionExpires(s)
      /\ \A i \in Invites : ~inviteLapses(i)
    BY DEF challengeExpires, sessionExpires, inviteLapses
<1>7. ASSUME NEW b \in Browsers
      PROVE  ~Panel(b) /\ ~Manages(b)
    BY DEF Panel, validateSession, Manages, forbidden, inviteUser, createInvite, revokeInvite,
       updateRevoked, acceptInvite, expireInvite, acceptAsUser, createMembership, updateAccepted,
       changeMembershipStatus, updateMembership, revokeAllSessions, requestStops, Refused
<1>8. QED
    BY <1>1, <1>2, <1>3, <1>4, <1>5, <1>6, <1>7 DEF Next, SignInNext, Manages

(* A challenge that there is stays the same person's, and a new one is that *)
(* of a person with an account.                                            *)
LEMMA ChallengeSteps ==
    ASSUME WellTyped, TypeOK, [Next]_vars, challenge' # challenge
    PROVE  \/ \E kind \in {"gateway", "email", "setup", "verify"}, p \in People :
                 user[p].exists /\ issueChallenge(kind, p)
           \/ \E t \in 1..MaxChallenges : challenge[t] # NoChallenge /\ consumeChallenge(t)
<1> DEFINE G == \/ \E kind \in {"gateway", "email", "setup", "verify"}, p \in People :
                      user[p].exists /\ issueChallenge(kind, p)
                \/ \E t \in 1..MaxChallenges : challenge[t] # NoChallenge /\ consumeChallenge(t)
<1>1. ~UNCHANGED vars
    BY DEF vars, signInVars
<1>2. ASSUME NEW b \in Browsers, NEW p \in Visitors, loginChallenged(b, p) PROVE G
    <2>1. p \in People /\ user[p].exists
        BY <1>2, SignInAssumption DEF loginChallenged, TypeOK, NoUser
    <2>2. /\ nextFactor(p) \in {"gateway", "email", "setup", "verify"}
          /\ issueFactor(nextFactor(p), p)
        BY <1>2 DEF loginChallenged
    <2>3. issueChallenge(nextFactor(p), p)
        BY <2>2 DEF issueFactor, issueEmailOtp
    <2>4. QED
        BY <2>1, <2>2, <2>3
<1>3. ASSUME NEW b \in Browsers, NEW method, chooseSecondFactor(b, method) PROVE G
    <2> DEFINE p == challenge[browser[b].challenge].user
    <2>1. p \in People /\ user[p].exists
        BY <1>3, OpenUser DEF chooseSecondFactor
    <2>2. /\ method \in {"email", "totp", "totp_setup"}
          /\ issueFactor(chosenKind(method), p)
        BY <1>3 DEF chooseSecondFactor
    <2>3. chosenKind(method) \in {"gateway", "email", "setup", "verify"}
        BY <2>2 DEF chosenKind
    <2>4. issueChallenge(chosenKind(method), p)
        BY <2>2 DEF issueFactor, issueEmailOtp
    <2>5. QED
        BY <2>1, <2>3, <2>4
<1>4. ASSUME NEW b \in Browsers
      PROVE  /\ \A right, trust \in BOOLEAN :
                   confirmMfaSetup(b, right) \/ verifyEmailOtp(b, right, trust) => G
             /\ \A typed \in Typed : verifyMfa(b, typed) => G
    <2>1. \A right, trust \in BOOLEAN : confirmMfaSetup(b, right) \/ verifyEmailOtp(b, right, trust) => G
        BY OpenUser DEF confirmMfaSetup, verifyEmailOtp
    <2>2. \A typed \in Typed : verifyMfa(b, typed) => G
        BY OpenUser DEF verifyMfa
    <2>3. QED
        BY <2>1, <2>2
<1>5. ASSUME NEW t \in 1..MaxChallenges, challengeExpires(t) PROVE G
    BY <1>5 DEF challengeExpires, NoChallenge
<1>6. ASSUME NEW b \in Browsers
      PROVE  /\ \A p \in Visitors : /\ ~register(b, p) /\ ~loginTrusted(b, p)
                                    /\ ~loginWithFederatedIdentity(b, p)
                                    /\ \A right \in BOOLEAN : ~loginRefused(b, p, right)
             /\ \A method : ~chooseRefused(b, method)
    BY DEF register, loginRefused, loginTrusted, loginWithFederatedIdentity, chooseRefused
<1>7. ASSUME NEW b \in Browsers
      PROVE  /\ ~googleStart(b) /\ ~googleCallbackFails(b) /\ ~chooseAnother(b) /\ ~keepCodes(b)
             /\ ~setupMfa(b) /\ ~logout(b) /\ ~touchSession(b) /\ ~redirectToSignIn(b)
             /\ ~deviceExpires(b) /\ ~reload(b)
             /\ \A trust \in BOOLEAN : ~enableMfa(b, trust) /\ ~completeMfa(b, trust)
    BY DEF googleStart, googleCallbackFails, chooseAnother, keepCodes, setupMfa, logout,
       touchSession, redirectToSignIn, deviceExpires, reload, enableMfa, completeMfa
<1>8. /\ \A k \in Keys : ~windowEnds(k) /\ ~incrementStopped(k)
      /\ \A s \in 1..MaxSessions : ~sessionExpires(s)
      /\ \A i \in Invites : ~inviteLapses(i)
    BY DEF windowEnds, incrementStopped, sessionExpires, inviteLapses
<1>9. ASSUME NEW b \in Browsers PROVE ~Panel(b) /\ ~Manages(b)
    BY DEF Panel, validateSession, Manages, forbidden, inviteUser, createInvite, revokeInvite,
       updateRevoked, acceptInvite, expireInvite, acceptAsUser, createMembership, updateAccepted,
       changeMembershipStatus, updateMembership, revokeAllSessions, requestStops, Refused
<1>10. QED
    <2> HIDE DEF G
    <2>1. G
        BY <1>1, <1>2, <1>3, <1>4, <1>5, <1>6, <1>7, <1>8, <1>9 DEF Next, SignInNext, Manages
    <2>2. QED
        BY <2>1 DEF G

(* Every step keeps the challenges. *)
LEMMA ChallengeNext ==
    ASSUME WellTyped, TypeOK, [Next]_vars, \A p \in People : user[p].exists => user'[p].exists
    PROVE  /\ challenge' \in [1..MaxChallenges -> Challenge]
           /\ \A t \in 1..MaxChallenges :
                 challenge'[t] # NoChallenge => user'[challenge'[t].user].exists
<1>0. /\ challenge \in [1..MaxChallenges -> Challenge]
      /\ \A t \in 1..MaxChallenges : challenge[t] # NoChallenge =>
            challenge[t].user \in People /\ user'[challenge[t].user].exists
    BY DEF WellTyped, TypeOK, Challenge
<1>1. CASE UNCHANGED challenge
    BY <1>0, <1>1
<1>2. ASSUME NEW kind \in {"gateway", "email", "setup", "verify"}, NEW p \in People,
             user[p].exists, issueChallenge(kind, p)
      PROVE  /\ challenge' \in [1..MaxChallenges -> Challenge]
             /\ \A t \in 1..MaxChallenges :
                   challenge'[t] # NoChallenge => user'[challenge'[t].user].exists
    <2> DEFINE n == Unused(challenge, NoChallenge)
    <2>1. n \in 1..MaxChallenges
        BY <1>0, <1>2, SlotFound DEF issueChallenge
    <2>2. challenge' = [challenge EXCEPT ![n] = [kind |-> kind, user |-> p]]
        BY <1>2 DEF issueChallenge
    <2>3. [kind |-> kind, user |-> p] \in Challenge
        BY DEF Challenge
    <2> HIDE DEF n
    <2>4. QED
        BY <1>0, <1>2, <2>1, <2>2, <2>3
<1>3. ASSUME NEW n \in 1..MaxChallenges, challenge[n] # NoChallenge, consumeChallenge(n)
      PROVE  /\ challenge' \in [1..MaxChallenges -> Challenge]
             /\ \A t \in 1..MaxChallenges :
                   challenge'[t] # NoChallenge => user'[challenge'[t].user].exists
    <2>1. challenge[n] \in [kind : {"gateway", "email", "setup", "verify", "gone"}, user : People]
        BY <1>0, <1>3 DEF Challenge
    <2>2. challenge' = [challenge EXCEPT ![n] = [kind |-> "gone", user |-> challenge[n].user]]
        <3>1. [challenge[n] EXCEPT !.kind = "gone"] = [kind |-> "gone", user |-> challenge[n].user]
            BY <2>1
        <3>2. challenge' = [challenge EXCEPT ![n] = [challenge[n] EXCEPT !.kind = "gone"]]
            BY <1>0, <1>3 DEF consumeChallenge
        <3>3. QED
            BY <3>1, <3>2
    <2>3. [kind |-> "gone", user |-> challenge[n].user] \in Challenge
        BY <2>1 DEF Challenge
    <2>4. QED
        BY <1>0, <1>3, <2>2, <2>3
<1>4. QED
    BY <1>1, <1>2, <1>3, ChallengeSteps

(* A new session is that of a person with an account. *)
LEMMA IssuesFor ==
    ASSUME WellTyped, TypeOK, RequestsKnown, [Next]_vars, NEW b \in Browsers, Issues(b),
           \A p \in People : user[p].exists => user'[p].exists
    PROVE  UNCHANGED session \/ \E p \in People : user'[p].exists /\ issueSession(p)
<1>1. ASSUME NEW p \in Visitors, loginTrusted(b, p) \/ loginWithFederatedIdentity(b, p)
      PROVE  \E q \in People : user'[q].exists /\ issueSession(q)
    <2>1. p \in People /\ issueSession(p)
        BY <1>1, SignInAssumption DEF loginTrusted, loginWithFederatedIdentity
    <2>2. CASE loginTrusted(b, p)
        BY <2>1, <2>2 DEF loginTrusted, TypeOK, NoUser
    <2>3. CASE loginWithFederatedIdentity(b, p)
        <3>1. CASE user[p].exists
            BY <2>1, <3>1
        <3>2. CASE ~user[p].exists
            <4>1. user'[p] = [NoUser EXCEPT !.exists = TRUE]
                BY <2>1, <2>3, <3>2 DEF loginWithFederatedIdentity, WellTyped
            <4>2. QED
                BY <2>1, <4>1 DEF NoUser
        <3>3. QED
            BY <3>1, <3>2
    <2>4. QED
        BY <1>1, <2>2, <2>3
<1>2. ASSUME NEW right \in BOOLEAN, NEW trust \in BOOLEAN, verifyEmailOtp(b, right, trust)
      PROVE  UNCHANGED session \/ \E p \in People : user'[p].exists /\ issueSession(p)
    BY <1>2, OpenUser DEF verifyEmailOtp
<1>3. ASSUME NEW trust \in BOOLEAN, enableMfa(b, trust) \/ completeMfa(b, trust)
      PROVE  \E p \in People : user'[p].exists /\ issueSession(p)
    BY <1>3, RequestKind DEF enableMfa, completeMfa, Confirm, Verify, RequestsKnown, CallerKnown
<1>4. QED
    BY <1>1, <1>2, <1>3 DEF Issues

(* A new session takes an unused row. *)
LEMMA SessionPut ==
    ASSUME WellTyped, NEW p \in People, issueSession(p)
    PROVE  /\ NewSession \in 1..MaxSessions /\ session[NewSession] = NoSession
           /\ session' = [session EXCEPT ![NewSession] =
                              [user |-> p, revoked |-> FALSE, lapsed |-> FALSE]]
           /\ session' \in [1..MaxSessions -> SessionRow]
           /\ session'[NewSession].user = p
           /\ \A s \in 1..MaxSessions \ {NewSession} : session'[s] = session[s]
<1> DEFINE new == [user |-> p, revoked |-> FALSE, lapsed |-> FALSE]
<1>0. session \in [1..MaxSessions -> SessionRow]
    BY DEF WellTyped
<1>1. NewSession \in 1..MaxSessions /\ session[NewSession] = NoSession
    BY <1>0, SlotFound DEF issueSession, NewSession
<1>2. session' = [session EXCEPT ![NewSession] = new] /\ new \in SessionRow
    BY DEF issueSession, NewSession, SessionRow
<1>3. QED
    BY <1>0, <1>1, <1>2

(* An edit of a row ... *)
PersonSession == [user : People, revoked : BOOLEAN, lapsed : BOOLEAN]
Edited(x, r) == r \in PersonSession /\ r.user = x.user /\ (x.revoked => r.revoked)

(* ... leaves it its person's, and revoked if it was. *)
LEMMA SessionEdits ==
    ASSUME NEW x \in PersonSession
    PROVE  /\ Edited(x, [x EXCEPT !.lapsed = TRUE]) /\ Edited(x, [x EXCEPT !.lapsed = FALSE])
           /\ Edited(x, [x EXCEPT !.revoked = TRUE])
BY DEF Edited, PersonSession

(* Every step keeps the sessions: a row that there is stays its person's,  *)
(* and revoked if it was.                                                  *)
LEMMA SessionNext ==
    ASSUME WellTyped, TypeOK, RequestsKnown, [Next]_vars,
           \A p \in People : user[p].exists => user'[p].exists
    PROVE  /\ session' \in [1..MaxSessions -> SessionRow]
           /\ \A s \in 1..MaxSessions :
                 /\ session'[s] # NoSession => user'[session'[s].user].exists
                 /\ session[s] # NoSession => session'[s] # NoSession
                 /\ session[s].revoked => session'[s].revoked
<1> DEFINE Good(s, r) == /\ r # NoSession => user'[r.user].exists
                         /\ session[s] # NoSession => r # NoSession
                         /\ session[s].revoked => r.revoked
<1> SUFFICES session' \in [1..MaxSessions -> SessionRow] /\ \A s \in 1..MaxSessions : Good(s, session'[s])
    OBVIOUS
<1>0. session \in [1..MaxSessions -> SessionRow]
    BY DEF WellTyped
<1>1. \A s \in 1..MaxSessions : session[s] # NoSession =>
          /\ session[s] \in PersonSession
          /\ user'[session[s].user].exists /\ session[s].user \in People
    BY <1>0 DEF TypeOK, SessionRow, PersonSession
<1>2. CASE UNCHANGED session
    BY <1>0, <1>1, <1>2
<1>3. ASSUME NEW p \in People, user'[p].exists, issueSession(p)
      PROVE  session' \in [1..MaxSessions -> SessionRow] /\ \A s \in 1..MaxSessions : Good(s, session'[s])
    <2>1. session'[NewSession] = [user |-> p, revoked |-> FALSE, lapsed |-> FALSE]
        BY <1>0, <1>3, SessionPut
    <2>2. Good(NewSession, session'[NewSession])
        BY <1>3, <2>1, SessionPut, SignInAssumption DEF NoSession
    <2>3. \A s \in 1..MaxSessions \ {NewSession} : Good(s, session'[s])
        BY <1>1, <1>3, SessionPut
    <2> HIDE DEF Good
    <2>4. QED
        BY <1>3, <2>2, <2>3, SessionPut
<1>4. ASSUME NEW s \in 1..MaxSessions, session[s] # NoSession,
             NEW r, Edited(session[s], r), session' = [session EXCEPT ![s] = r]
      PROVE  session' \in [1..MaxSessions -> SessionRow] /\ \A i \in 1..MaxSessions : Good(i, session'[i])
    <2>1. r \in SessionRow /\ Good(s, r)
        BY <1>1, <1>4, SignInAssumption DEF SessionRow, NoSession, Edited, PersonSession
    <2>2. \A i \in 1..MaxSessions : Good(i, session[i])
        BY <1>1
    <2> HIDE DEF Good
    <2>3. QED
        BY <1>0, <1>4, <2>1, <2>2
<1>5. ASSUME NEW b \in Browsers, (touchSession(b) /\ touch(b)) \/ logout(b)
      PROVE  session' \in [1..MaxSessions -> SessionRow] /\ \A s \in 1..MaxSessions : Good(s, session'[s])
    <2> DEFINE s == req[b].sid
    <2>1. s \in 1..MaxSessions /\ session[s] # NoSession
        <3>1. req[b] \in Panels
            BY <1>5, RequestKind DEF touchSession, logout
        <3>2. QED
            BY <3>1 DEF Panels, Logout, InviteCall, RevokeCall, StatusCall, RequestsKnown, CallerKnown
    <2>2. session[s] \in PersonSession
        BY <1>1, <2>1
    <2>3. \/ session' = [session EXCEPT ![s] = [session[s] EXCEPT !.lapsed = FALSE]]
          \/ session' = [session EXCEPT ![s] = [session[s] EXCEPT !.revoked = TRUE]]
        BY <1>0, <1>5, <2>1 DEF touch, logout
    <2>4. /\ Edited(session[s], [session[s] EXCEPT !.lapsed = FALSE])
          /\ Edited(session[s], [session[s] EXCEPT !.revoked = TRUE])
        BY <2>2, SessionEdits
    <2> HIDE DEF Good, s
    <2>5. QED
        BY <1>4, <2>1, <2>3, <2>4
<1>6. ASSUME NEW s \in 1..MaxSessions, sessionExpires(s)
      PROVE  session' \in [1..MaxSessions -> SessionRow] /\ \A i \in 1..MaxSessions : Good(i, session'[i])
    <2>1. session[s] # NoSession
        BY <1>6 DEF sessionExpires, live, NoSession
    <2>2. session[s] \in PersonSession
        BY <1>1, <2>1
    <2>3. session' = [session EXCEPT ![s] = [session[s] EXCEPT !.lapsed = TRUE]]
        BY <1>0, <1>6 DEF sessionExpires
    <2> HIDE DEF Good
    <2>4. QED
        BY <1>4, <2>1, <2>2, <2>3, SessionEdits
<1>7. ASSUME NEW b \in Browsers, revokeAllSessions(b)
      PROVE  session' \in [1..MaxSessions -> SessionRow] /\ \A s \in 1..MaxSessions : Good(s, session'[s])
    <2> DEFINE p == req[b].arg.target
    <2>1. p \in People
        BY <1>7, RequestKind DEF revokeAllSessions, At, StatusCall, StatusWrite, Change
    <2>2. session' = [s \in 1..MaxSessions |->
                         IF session[s].user = p THEN [session[s] EXCEPT !.revoked = TRUE]
                         ELSE session[s]]
        BY <1>0, <1>7 DEF revokeAllSessions, revokeAllForUser
    <2>3. ASSUME NEW s \in 1..MaxSessions PROVE session'[s] \in SessionRow /\ Good(s, session'[s])
        <3>1. CASE session[s].user = p
            <4>1. session[s] # NoSession
                BY <2>1, <3>1, SignInAssumption DEF NoSession
            <4>2. session'[s] = [session[s] EXCEPT !.revoked = TRUE]
                BY <2>2, <3>1
            <4>3. Edited(session[s], session'[s])
                BY <1>1, <4>1, <4>2, SessionEdits
            <4>4. QED
                BY <1>1, <4>1, <4>3, SignInAssumption DEF SessionRow, NoSession, Edited, PersonSession
        <3>2. CASE session[s].user # p
            BY <1>0, <1>1, <2>2, <3>2
        <3>3. QED
            BY <3>1, <3>2
    <2> HIDE DEF Good
    <2>4. QED
        BY <2>2, <2>3
<1>8. QED
    <2> HIDE DEF Good
    <2>1. QED
        BY <1>2, <1>3, <1>5, <1>6, <1>7, SessionSteps, IssuesFor

(* A form whose cookie is that of a session there is. *)
Steps == {"credentials", "google", "choose", "enrolling", "setup", "verify", "backup", "panel"}
Shows(f, rows) == f \in Form /\ (f.cookie # 0 => rows[f.cookie] # NoSession)
SameCookie(f, g) == g \in Form /\ g.cookie = f.cookie

(* The edits of a form that leave it its cookie. *)
LEMMA FormEdits ==
    ASSUME NEW f \in Form
    PROVE  /\ \A s \in Steps : SameCookie(f, [f EXCEPT !.step = s])
           /\ \A s \in Steps, c \in {"totp", "email"} : SameCookie(f, [f EXCEPT !.step = s, !.channel = c])
           /\ SameCookie(f, [f EXCEPT !.step = "choose", !.options = TRUE])
           /\ \A n \in Nat : SameCookie(f, [f EXCEPT !.step = "setup", !.secret = n])
           /\ \A p \in People, t \in 0..MaxChallenges :
                 SameCookie(f, [f EXCEPT !.who = p, !.challenge = t])
           /\ \A t \in 0..MaxChallenges : SameCookie(f, [f EXCEPT !.challenge = t])
           /\ SameCookie(f, [f EXCEPT !.device = "none"])
BY DEF SameCookie, Form, Steps

(* Forms that start again: signed out, reloaded, signed in. *)
Fresh(d) == [FirstForm EXCEPT !.device = d]
Reloaded(d, c, s) == [FirstForm EXCEPT !.device = d, !.cookie = c, !.step = s]
InPanel(d, c) == [FirstForm EXCEPT !.step = "panel", !.cookie = c, !.device = d]

(* They keep the cookie of the device, and maybe the session's. *)
LEMMA FreshForms ==
    ASSUME NEW d \in People \cup {"none"}, NEW c \in 0..MaxSessions, NEW s \in Steps
    PROVE  /\ Fresh(d) \in Form /\ Fresh(d).cookie = 0
           /\ Reloaded(d, c, s) \in Form /\ Reloaded(d, c, s).cookie = c
           /\ InPanel(d, c) \in Form /\ InPanel(d, c).cookie = c
<1>1. FirstForm \in Form /\ FirstForm.cookie = 0
    BY SignInAssumption DEF FirstForm, Form
<1>2. Fresh(d) \in Form /\ Fresh(d).cookie = 0
    BY <1>1 DEF Form, Fresh
<1>3. Reloaded(d, c, s) \in Form /\ Reloaded(d, c, s).cookie = c
    BY <1>1 DEF Form, Steps, Reloaded
<1>4. InPanel(d, c) \in Form /\ InPanel(d, c).cookie = c
    BY <1>1 DEF Form, InPanel
<1>5. QED
    BY <1>2, <1>3, <1>4

(* One form changes for another one. *)
LEMMA BrowserPut ==
    ASSUME NEW rows, \A c \in Browsers : browser[c] \in Form /\ Shows(browser[c], rows),
           browser \in [Browsers -> Form],
           NEW b \in Browsers, NEW f, Shows(f, rows), browser' = [browser EXCEPT ![b] = f]
    PROVE  browser' \in [Browsers -> Form] /\ \A c \in Browsers : Shows(browser'[c], rows)
BY DEF Shows

(* The cookies of a person who signed in. *)
LEMMA SignedInShows ==
    ASSUME WellTyped, NEW b \in Browsers, NEW p \in People, NEW trust \in BOOLEAN, issueSession(p)
    PROVE  /\ Shows(SignedIn(b, p, trust), session')
           /\ Shows([SignedIn(b, p, trust) EXCEPT !.step = "backup"], session')
<1>1. /\ NewSession \in 1..MaxSessions /\ NewSession \in 0..MaxSessions
      /\ session'[NewSession] # NoSession
    <2>1. NewSession \in 1..MaxSessions /\ session'[NewSession].user = p
        BY SessionPut
    <2>2. QED
        BY <2>1, SignInAssumption DEF NoSession
<1>2. (IF trust THEN p ELSE browser[b].device) \in People \cup {"none"}
    BY DEF WellTyped, Form
<1> DEFINE d == IF trust THEN p ELSE browser[b].device
<1>3. SignedIn(b, p, trust) = InPanel(d, NewSession)
    BY DEF SignedIn, InPanel
<1> HIDE DEF d
<1>4. SignedIn(b, p, trust) \in Form /\ SignedIn(b, p, trust).cookie = NewSession
    <2>1. d \in People \cup {"none"} /\ "panel" \in Steps
        BY <1>2 DEF d, Steps
    <2>2. QED
        BY <1>1, <1>3, <2>1, FreshForms
<1>5. SameCookie(SignedIn(b, p, trust), [SignedIn(b, p, trust) EXCEPT !.step = "backup"])
    BY <1>4, FormEdits DEF Steps
<1>6. QED
    BY <1>1, <1>4, <1>5 DEF Shows, SameCookie

(* A new token is one of the challenges'. *)
LEMMA TokenFound ==
    ASSUME WellTyped, NEW kind, NEW p, issueFactor(kind, p)
    PROVE  NewToken \in 0..MaxChallenges
<1>1. HasFree(challenge, NoChallenge)
    BY DEF issueFactor, issueEmailOtp, issueChallenge
<1>2. NewToken \in 1..MaxChallenges
    BY <1>1, SlotFound DEF NewToken, WellTyped
<1>3. QED
    BY <1>2, SignInAssumption

(* Every step keeps the forms, and their cookies those of sessions. *)
LEMMA BrowserNext ==
    ASSUME WellTyped, TypeOK, RequestsKnown, [Next]_vars,
           session' \in [1..MaxSessions -> SessionRow],
           \A s \in 1..MaxSessions : session[s] # NoSession => session'[s] # NoSession
    PROVE  browser' \in [Browsers -> Form] /\ \A b \in Browsers : Shows(browser'[b], session')
<1> DEFINE G == \E b \in Browsers : \E f : Shows(f, session') /\ browser' = [browser EXCEPT ![b] = f]
           Turns(b) == \E f : Shows(f, session') /\ browser' = [browser EXCEPT ![b] = f]
<1>0. ASSUME NEW b \in Browsers PROVE browser[b] \in Form /\ Shows(browser[b], session')
    <2>1. browser[b] \in Form /\ browser[b].cookie \in 0..MaxSessions
        BY DEF WellTyped, Form
    <2>2. browser[b].cookie # 0 => browser[b].cookie \in 1..MaxSessions
        BY <2>1, SignInAssumption
    <2>3. browser[b].cookie # 0 => session[browser[b].cookie] # NoSession
        BY DEF TypeOK, NoSession
    <2>4. QED
        BY <2>1, <2>2, <2>3 DEF Shows
<1>1. ASSUME NEW b \in Browsers, NEW g, SameCookie(browser[b], g),
             browser' = [browser EXCEPT ![b] = g]
      PROVE  Turns(b)
    BY <1>0, <1>1 DEF Shows, SameCookie
<1>2. ASSUME NEW b \in Browsers,
             \/ \E p \in Visitors : loginTrusted(b, p) \/ loginWithFederatedIdentity(b, p)
             \/ \E right, trust \in BOOLEAN : verifyEmailOtp(b, right, trust)
             \/ \E trust \in BOOLEAN : enableMfa(b, trust) \/ completeMfa(b, trust)
      PROVE  UNCHANGED browser \/ Turns(b)
    <2>1. ASSUME NEW p \in Visitors, loginTrusted(b, p) \/ loginWithFederatedIdentity(b, p)
          PROVE  UNCHANGED browser \/ Turns(b)
        BY <2>1, SignedInShows, SignInAssumption DEF loginTrusted, loginWithFederatedIdentity, Answer
    <2>2. ASSUME NEW right \in BOOLEAN, NEW trust \in BOOLEAN, verifyEmailOtp(b, right, trust)
          PROVE  UNCHANGED browser \/ Turns(b)
        BY <2>2, SignedInShows, OpenUser DEF verifyEmailOtp, Answer
    <2>3. ASSUME NEW trust \in BOOLEAN, enableMfa(b, trust) \/ completeMfa(b, trust)
          PROVE  UNCHANGED browser \/ Turns(b)
        <3>1. req[b].who \in People
            BY <2>3, RequestKind DEF enableMfa, completeMfa, Confirm, Verify
        <3>2. QED
            BY <2>3, <3>1, SignedInShows DEF enableMfa, completeMfa, Answer
    <2>4. QED
        BY <1>2, <2>1, <2>2, <2>3
<1>3. ASSUME NEW b \in Browsers, NEW p \in Visitors, loginChallenged(b, p)
      PROVE  UNCHANGED browser \/ Turns(b)
    <2> DEFINE asked == [browser[b] EXCEPT !.who = p, !.challenge = NewToken]
    <2>1. SameCookie(browser[b], asked)
        BY <1>0, <1>3, FormEdits, TokenFound, SignInAssumption DEF loginChallenged
    <2> HIDE DEF asked
    <2>2. /\ \A s \in Steps, c \in {"totp", "email"} :
                SameCookie(browser[b], [asked EXCEPT !.step = s, !.channel = c])
          /\ \A s \in Steps : SameCookie(browser[b], [asked EXCEPT !.step = s])
          /\ SameCookie(browser[b], [asked EXCEPT !.step = "choose", !.options = TRUE])
        <3>1. asked \in Form /\ \A g : SameCookie(asked, g) => SameCookie(browser[b], g)
            BY <2>1 DEF SameCookie
        <3>2. QED
            BY <3>1, FormEdits
    <2>3. UNCHANGED browser \/ \E g : SameCookie(browser[b], g) /\ browser' = [browser EXCEPT ![b] = g]
        BY <1>3, <2>2 DEF loginChallenged, Answer, Steps, asked
    <2>4. QED
        BY <1>1, <2>3
<1>4. ASSUME NEW b \in Browsers, NEW method, chooseSecondFactor(b, method)
      PROVE  UNCHANGED browser \/ Turns(b)
    <2> DEFINE next == [browser[b] EXCEPT !.challenge = NewToken]
    <2>1. SameCookie(browser[b], next)
        BY <1>0, <1>4, FormEdits, TokenFound DEF chooseSecondFactor
    <2> HIDE DEF next
    <2>2. /\ \A s \in Steps, c \in {"totp", "email"} :
                SameCookie(browser[b], [next EXCEPT !.step = s, !.channel = c])
          /\ \A s \in Steps : SameCookie(browser[b], [next EXCEPT !.step = s])
        <3>1. next \in Form /\ \A g : SameCookie(next, g) => SameCookie(browser[b], g)
            BY <2>1 DEF SameCookie
        <3>2. QED
            BY <3>1, FormEdits
    <2>3. UNCHANGED browser \/ \E g : SameCookie(browser[b], g) /\ browser' = [browser EXCEPT ![b] = g]
        BY <1>4, <2>2 DEF chooseSecondFactor, Answer, Steps, next
    <2>4. QED
        BY <1>1, <2>3
<1>5. ASSUME NEW b \in Browsers,
             \/ googleStart(b) \/ googleCallbackFails(b) \/ chooseAnother(b) \/ keepCodes(b)
             \/ deviceExpires(b)
      PROVE  Turns(b)
    <2>1. \/ \E s \in Steps : browser' = [browser EXCEPT ![b] = [browser[b] EXCEPT !.step = s]]
          \/ browser' = [browser EXCEPT ![b] = [browser[b] EXCEPT !.device = "none"]]
        BY <1>5 DEF googleStart, googleCallbackFails, chooseAnother, keepCodes, deviceExpires,
           WellTyped, Steps
    <2>2. QED
        BY <1>0, <1>1, <2>1, FormEdits
<1>6. ASSUME NEW b \in Browsers, setupMfa(b)
      PROVE  Turns(b)
    <2> DEFINE p == challenge[browser[b].challenge].user
    <2>1. CASE Open(browser[b].challenge, "setup")
        <3>1. user[p].secret + 1 \in Nat
            BY <2>1, OpenUser DEF WellTyped, UserRow
        <3>2. browser' = [browser EXCEPT ![b] = [browser[b] EXCEPT !.step = "setup",
                                                                  !.secret = user[p].secret + 1]]
            BY <1>6, <2>1 DEF setupMfa, WellTyped
        <3> HIDE DEF p
        <3>3. QED
            BY <1>0, <1>1, <3>1, <3>2, FormEdits
    <2>2. CASE ~Open(browser[b].challenge, "setup")
        <3>1. browser' = [browser EXCEPT ![b] = [browser[b] EXCEPT !.step = "setup"]]
            BY <1>6, <2>2 DEF setupMfa, WellTyped
        <3>2. QED
            BY <1>0, <1>1, <3>1, FormEdits DEF Steps
    <2>3. QED
        BY <2>1, <2>2
<1>7. ASSUME NEW b \in Browsers, redirectToSignIn(b) \/ logout(b) \/ reload(b)
      PROVE  Turns(b)
    <2>1. /\ browser[b].device \in People \cup {"none"} /\ browser[b].cookie \in 0..MaxSessions
          /\ 0 \in 0..MaxSessions /\ "panel" \in Steps /\ "credentials" \in Steps
        BY SignInAssumption DEF WellTyped, Form, Steps
    <2>2. CASE browser' = [browser EXCEPT ![b] = Fresh(browser[b].device)]
        BY <2>1, <2>2, FreshForms DEF Shows
    <2>3. CASE reload(b)
        <3> DEFINE s == IF browser[b].cookie # 0 THEN "panel" ELSE "credentials"
        <3>1. s \in Steps
            BY DEF Steps
        <3>2. browser' = [browser EXCEPT ![b] = Reloaded(browser[b].device, browser[b].cookie, s)]
            BY <2>3 DEF reload, Reloaded
        <3> HIDE DEF s
        <3>3. SameCookie(browser[b], Reloaded(browser[b].device, browser[b].cookie, s))
            BY <2>1, <3>1, FreshForms DEF SameCookie
        <3>4. QED
            BY <1>1, <3>2, <3>3
    <2>4. QED
        BY <1>7, <2>2, <2>3 DEF redirectToSignIn, logout, Fresh
<1>8. \/ UNCHANGED browser
      \/ \E b \in Browsers : Turns(b)
    <2> SUFFICES ASSUME browser' # browser PROVE \E b \in Browsers : Turns(b)
        OBVIOUS
    <2>1. ~UNCHANGED vars
        BY DEF vars, signInVars
    <2>2. ASSUME NEW b \in Browsers
          PROVE  /\ \A p \in Visitors : /\ ~register(b, p)
                                        /\ \A right \in BOOLEAN : ~loginRefused(b, p, right)
                 /\ \A method : ~chooseRefused(b, method)
                 /\ \A right \in BOOLEAN : ~confirmMfaSetup(b, right)
                 /\ \A typed \in Typed : ~verifyMfa(b, typed)
                 /\ ~touchSession(b)
        BY DEF register, loginRefused, chooseRefused, confirmMfaSetup, verifyMfa, touchSession
    <2>3. /\ \A k \in Keys : ~windowEnds(k) /\ ~incrementStopped(k)
          /\ \A t \in 1..MaxChallenges : ~challengeExpires(t)
          /\ \A s \in 1..MaxSessions : ~sessionExpires(s)
          /\ \A i \in Invites : ~inviteLapses(i)
        BY DEF windowEnds, incrementStopped, challengeExpires, sessionExpires, inviteLapses
    <2>4. ASSUME NEW b \in Browsers PROVE ~Panel(b) /\ ~Manages(b)
        BY DEF Panel, validateSession, Manages, forbidden, inviteUser, createInvite, revokeInvite,
           updateRevoked, acceptInvite, expireInvite, acceptAsUser, createMembership, updateAccepted,
           changeMembershipStatus, updateMembership, revokeAllSessions, requestStops, Refused
    <2> HIDE DEF Turns
    <2>5. QED
        BY <1>2, <1>3, <1>4, <1>5, <1>6, <1>7, <2>1, <2>2, <2>3, <2>4
        DEF Next, SignInNext, Manages
<1>9. QED
    <2>1. browser \in [Browsers -> Form]
        BY DEF WellTyped
    <2>2. CASE UNCHANGED browser
        BY <1>0, <2>1, <2>2
    <2>3. QED
        BY <1>0, <1>8, <2>1, <2>2, BrowserPut

-------------------------------------------------------------------------------
(* The organization                                                        *)

(* An invite there is stays, for the same person and role. *)
LEMMA InviteNext ==
    ASSUME WellTyped, RequestsKnown, [Next]_vars
    PROVE  /\ invite' \in [Invites -> InviteRow]
           /\ \A i \in Invites : invite[i] # NoInvite =>
                 invite'[i] # NoInvite /\ invite'[i].email = invite[i].email
<1> DEFINE Rows == [status : {"PENDING", "ACCEPTED", "EXPIRED", "REVOKED"}, email : People,
                    role : Roles, lapsed : BOOLEAN]
           Good(i, r) == r \in InviteRow
                         /\ (invite[i] # NoInvite => r # NoInvite /\ r.email = invite[i].email)
           G == invite' \in [Invites -> InviteRow] /\ \A i \in Invites : Good(i, invite'[i])
<1> SUFFICES G
    OBVIOUS
<1>0. /\ invite \in [Invites -> InviteRow]
      /\ \A r \in InviteRow : r # NoInvite <=> r \in Rows
    BY SignInAssumption DEF WellTyped, InviteRow, NoInvite
<1>1. CASE UNCHANGED invite
    BY <1>0, <1>1
<1>2. ASSUME NEW i \in Invites, NEW r, Good(i, r), invite' = [invite EXCEPT ![i] = r] PROVE G
    <2>1. \A j \in Invites : Good(j, invite[j])
        BY <1>0
    <2>2. \A j \in Invites : j # i => invite'[j] = invite[j]
        BY <1>0, <1>2
    <2>3. invite'[i] = r /\ r \in InviteRow /\ invite' \in [Invites -> InviteRow]
        BY <1>0, <1>2
    <2> HIDE DEF Good
    <2>4. QED
        BY <1>2, <2>1, <2>2, <2>3
<1>3. ASSUME NEW b \in Browsers, createInvite(b) PROVE G
    <2> DEFINE n == Unused(invite, NoInvite)
               r == [status |-> "PENDING", email |-> req[b].arg.email, role |-> req[b].arg.role,
                     lapsed |-> FALSE]
    <2>1. n \in Invites /\ invite[n] = NoInvite
        BY <1>0, <1>3, SlotFound DEF createInvite
    <2>2. req[b] \in InviteCall
        BY <1>3, RequestKind DEF createInvite, At
    <2>3. Good(n, r)
        BY <2>1, <2>2 DEF InviteCall, InviteRow
    <2>4. invite' = [invite EXCEPT ![n] = r]
        BY <1>3 DEF createInvite
    <2> HIDE DEF n, r, Good
    <2>5. QED
        BY <1>2, <2>1, <2>3, <2>4
<1>4. ASSUME NEW i \in Invites, invite[i] # NoInvite,
             NEW status \in {"ACCEPTED", "EXPIRED", "REVOKED"}, updateInvite(i, status)
      PROVE  G
    <2>1. invite[i] \in Rows
        BY <1>0, <1>4
    <2>2. [invite[i] EXCEPT !.status = status] \in Rows
          /\ [invite[i] EXCEPT !.status = status].email = invite[i].email
        BY <2>1
    <2>3. Good(i, [invite[i] EXCEPT !.status = status])
        BY <1>0, <2>2 DEF InviteRow
    <2>4. invite' = [invite EXCEPT ![i] = [invite[i] EXCEPT !.status = status]]
        BY <1>0, <1>4 DEF updateInvite
    <2> HIDE DEF Good
    <2>5. QED
        BY <1>2, <2>3, <2>4
<1>5. ASSUME NEW b \in Browsers, updateRevoked(b) \/ expireInvite(b) \/ updateAccepted(b) PROVE G
    <2>1. req[b].arg \in Invites /\ invite[req[b].arg] # NoInvite
        BY <1>5, RequestKind DEF updateRevoked, expireInvite, updateAccepted, At, RevokeCall, Accept,
           RequestsKnown, InviteKnown
    <2>2. \E status \in {"ACCEPTED", "EXPIRED", "REVOKED"} : updateInvite(req[b].arg, status)
        BY <1>5 DEF updateRevoked, expireInvite, updateAccepted
    <2>3. QED
        BY <1>4, <2>1, <2>2
<1>6. ASSUME NEW b \in Browsers, createMembership(b) \/ updateMembership(b) PROVE UNCHANGED invite
    BY <1>6 DEF createMembership, updateMembership
<1>7. ASSUME NEW i \in Invites, inviteLapses(i) PROVE G
    <2>1. invite[i] \in Rows
        BY <1>0, <1>7 DEF inviteLapses, NoInvite
    <2>2. [invite[i] EXCEPT !.lapsed = TRUE] \in Rows
          /\ [invite[i] EXCEPT !.lapsed = TRUE].email = invite[i].email
        BY <2>1
    <2>3. Good(i, [invite[i] EXCEPT !.lapsed = TRUE])
        BY <1>0, <2>2 DEF InviteRow
    <2>4. invite' = [invite EXCEPT ![i] = [invite[i] EXCEPT !.lapsed = TRUE]]
        BY <1>0, <1>7 DEF inviteLapses
    <2> HIDE DEF Good
    <2>5. QED
        BY <1>2, <2>3, <2>4
<1>8. QED
    <2>1. CASE ~UNCHANGED orgVars
        BY <1>1, <1>3, <1>5, <1>6, <1>7, <2>1, OrgSteps
    <2>2. QED
        BY <1>1, <2>1 DEF orgVars

(* A membership there is stays, and an update leaves it its role. *)
LEMMA MembersNext ==
    ASSUME WellTyped, RequestsKnown, [Next]_vars
    PROVE  /\ membership' \in [People -> MemberRow]
           /\ \A p \in People : membership[p] # NoMember => membership'[p] # NoMember
<1>0. membership \in [People -> MemberRow]
    BY DEF WellTyped
<1>1. CASE UNCHANGED membership
    BY <1>0, <1>1
<1>2. ASSUME NEW p \in People, NEW r \in MemberRow, r # NoMember,
             membership' = [membership EXCEPT ![p] = r]
      PROVE  /\ membership' \in [People -> MemberRow]
             /\ \A q \in People : membership[q] # NoMember => membership'[q] # NoMember
    BY <1>0, <1>2
<1>3. ASSUME NEW b \in Browsers, createMembership(b)
      PROVE  \/ UNCHANGED membership
             \/ \E p \in People, r \in MemberRow :
                   r # NoMember /\ membership' = [membership EXCEPT ![p] = r]
    <2>1. /\ req[b].who \in People /\ req[b].arg \in Invites /\ invite[req[b].arg] # NoInvite
          /\ invite[req[b].arg] \in InviteRow
        BY <1>3, RequestKind DEF createMembership, At, Accept, RequestsKnown, InviteKnown, WellTyped
    <2>2. invite[req[b].arg].role \in Roles
        BY <2>1 DEF InviteRow
    <2>3. /\ [status |-> "ACTIVE", role |-> invite[req[b].arg].role] \in MemberRow
          /\ [status |-> "ACTIVE", role |-> invite[req[b].arg].role] # NoMember
        BY <2>2 DEF MemberRow, NoMember
    <2>4. QED
        BY <1>3, <2>1, <2>3 DEF createMembership
<1>4. ASSUME NEW b \in Browsers, updateMembership(b)
      PROVE  \E p \in People, r \in MemberRow :
                 r # NoMember /\ membership' = [membership EXCEPT ![p] = r]
    <2> DEFINE a == req[b].arg
               r == [membership[a.target] EXCEPT !.status = a.status]
    <2>1. a.target \in People /\ a.status \in {"ACTIVE", "SUSPENDED", "REVOKED"}
        BY <1>4, RequestKind DEF updateMembership, At, StatusCall, StatusWrite, Change
    <2>2. membership[a.target] \in MemberRow
        BY <1>0, <2>1
    <2>3. r \in MemberRow /\ r # NoMember
        BY <2>1, <2>2 DEF MemberRow, NoMember
    <2>4. membership' = [membership EXCEPT ![a.target] = r]
        BY <1>0, <1>4, <2>1 DEF updateMembership
    <2> HIDE DEF r
    <2>5. QED
        BY <2>1, <2>3, <2>4
<1>5. ASSUME \/ \E b \in Browsers : \/ createInvite(b) \/ updateRevoked(b) \/ expireInvite(b)
                                    \/ updateAccepted(b)
             \/ \E i \in Invites : inviteLapses(i)
      PROVE  UNCHANGED membership
    BY <1>5 DEF createInvite, updateRevoked, expireInvite, updateAccepted, inviteLapses
<1>6. QED
    <2>1. CASE ~UNCHANGED orgVars
        BY <1>1, <1>2, <1>3, <1>4, <1>5, <2>1, OrgSteps
    <2>2. QED
        BY <1>1, <2>1 DEF orgVars

(* An invite makes its member once: the second time the person is one. *)
LEMMA JoinedNext ==
    ASSUME WellTyped, RequestsKnown, InvitesJoin, [Next]_vars
    PROVE  /\ joined' \in [Invites -> Nat]
           /\ \A i \in Invites : joined[i] = 1 => joined'[i] = 1
           /\ \/ UNCHANGED joined
              \/ \E b \in Browsers :
                    /\ createMembership(b) /\ req[b].arg \in Invites /\ Step(b, "accepted")
                    /\ membership'[req[b].who] # NoMember
                    /\ joined' = [joined EXCEPT ![req[b].arg] = 1]
<1>0. joined \in [Invites -> Nat] /\ \A i \in Invites : joined[i] \in {0, 1}
    BY DEF WellTyped, InvitesJoin
<1>1. ASSUME NEW b \in Browsers, createMembership(b), joined' # joined
      PROVE  /\ req[b].arg \in Invites /\ Step(b, "accepted")
             /\ membership'[req[b].who] # NoMember
             /\ joined' = [joined EXCEPT ![req[b].arg] = 1]
    <2> DEFINE p == req[b].who
               i == req[b].arg
    <2>1. p \in People /\ i \in Invites /\ invite[i] # NoInvite /\ invite[i].email = p
        BY <1>1, RequestKind DEF createMembership, At, Accept, RequestsKnown, InviteKnown
    <2>2. /\ membership[p] = NoMember /\ Step(b, "accepted")
          /\ joined' = [joined EXCEPT ![i] = joined[i] + 1]
          /\ membership' = [membership EXCEPT ![p] = [status |-> "ACTIVE", role |-> invite[i].role]]
        BY <1>1 DEF createMembership
    <2>3. joined[i] = 0
        BY <1>0, <2>1, <2>2 DEF InvitesJoin
    <2>4. membership'[p] # NoMember
        BY <2>1, <2>2 DEF WellTyped, NoMember
    <2>5. QED
        BY <2>1, <2>2, <2>3, <2>4
<1>2. ASSUME \/ \E b \in Browsers : \/ createInvite(b) \/ updateRevoked(b) \/ expireInvite(b)
                                    \/ updateAccepted(b) \/ updateMembership(b)
             \/ \E i \in Invites : inviteLapses(i)
      PROVE  UNCHANGED joined
    BY <1>2 DEF createInvite, updateRevoked, expireInvite, updateAccepted, updateMembership,
       inviteLapses
<1>3. \/ UNCHANGED joined
      \/ \E b \in Browsers :
            /\ createMembership(b) /\ req[b].arg \in Invites /\ Step(b, "accepted")
            /\ membership'[req[b].who] # NoMember
            /\ joined' = [joined EXCEPT ![req[b].arg] = 1]
    <2>1. CASE ~UNCHANGED orgVars
        BY <1>1, <1>2, <2>1, OrgSteps
    <2>2. QED
        BY <2>1 DEF orgVars
<1>4. QED
    BY <1>0, <1>3

-------------------------------------------------------------------------------
(* Requests                                                                *)

Fine(r) == CallerKnown(r) /\ OwnersCounted(r) /\ InviteKnown(r)

(* What a step leaves of what the requests know. *)
Kept ==
    /\ \A p \in People : user[p].exists => user'[p].exists
    /\ \A s \in 1..MaxSessions : session[s] # NoSession => session'[s] # NoSession
    /\ \A i \in Invites : invite[i] # NoInvite =>
          invite'[i] # NoInvite /\ invite'[i].email = invite[i].email
    /\ \A i \in Invites : joined[i] = 1 => joined'[i] = 1

(* What a request knows stays true. *)
LEMMA FineStays ==
    ASSUME Kept, NEW r \in Request, Fine(r)
    PROVE  Fine(r)'
<1>1. CASE r = Idle
    BY <1>1 DEF Fine, CallerKnown, OwnersCounted, InviteKnown, Idle
<1>2. CASE r \in Confirm \cup Verify
    BY <1>2 DEF Fine, CallerKnown, OwnersCounted, InviteKnown, Confirm, Verify, Kept
<1>3. CASE r \in Accept
    BY <1>3 DEF Fine, CallerKnown, OwnersCounted, InviteKnown, Accept, Kept
<1>4. CASE r \in Panels
    BY <1>4 DEF Fine, CallerKnown, OwnersCounted, InviteKnown, Panels, Logout, InviteCall,
       RevokeCall, StatusCall, Kept
<1>5. CASE r \in StatusWrite
    BY <1>5 DEF Fine, CallerKnown, OwnersCounted, InviteKnown, StatusWrite, Kept
<1>6. QED
    BY <1>1, <1>2, <1>3, <1>4, <1>5 DEF Request

(* A request that ends knows nothing. *)
LEMMA IdleFine == Idle \in Request /\ Fine(Idle)
BY DEF Request, Fine, CallerKnown, OwnersCounted, InviteKnown, Idle

(* The requests that sign a person in, and the start of the panel's. *)
LEMMA SignsInFine ==
    ASSUME WellTyped, TypeOK, RequestsKnown, NEW b \in Browsers, SignsIn(b)
    PROVE  UNCHANGED req \/ \E r \in Request : Fine(r) /\ Go(b, r)
<1>1. ASSUME NEW right \in BOOLEAN, confirmMfaSetup(b, right)
      PROVE  UNCHANGED req \/ \E r \in Request : Fine(r) /\ Go(b, r)
    <2> DEFINE p == challenge[browser[b].challenge].user
               r == [op |-> "confirm", at |-> "enable", who |-> p, secret |-> user[p].secret]
    <2>1. CASE Open(browser[b].challenge, "setup")
        <3>1. p \in People /\ user[p].exists /\ user[p].secret \in Nat
            BY <2>1, OpenUser DEF WellTyped, UserRow
        <3>2. r \in Request /\ Fine(r)
            BY <3>1 DEF Request, Confirm, Fine, CallerKnown, OwnersCounted, InviteKnown
        <3>3. UNCHANGED req \/ Go(b, r)
            BY <1>1, <2>1 DEF confirmMfaSetup
        <3> HIDE DEF r
        <3>4. QED
            BY <3>2, <3>3
    <2>2. CASE ~Open(browser[b].challenge, "setup")
        BY <1>1, <2>2 DEF confirmMfaSetup
    <2>3. QED
        BY <2>1, <2>2
<1>2. ASSUME NEW typed \in Typed, verifyMfa(b, typed)
      PROVE  UNCHANGED req \/ \E r \in Request : Fine(r) /\ Go(b, r)
    <2> DEFINE p == challenge[browser[b].challenge].user
               R(at) == [op |-> "verify", at |-> at, who |-> p]
    <2>1. CASE Open(browser[b].challenge, "verify")
        <3>1. p \in People /\ user[p].exists
            BY <2>1, OpenUser
        <3>2. \A at \in {"done", "spare"} : R(at) \in Request /\ Fine(R(at))
            BY <3>1 DEF Request, Verify, Fine, CallerKnown, OwnersCounted, InviteKnown
        <3>3. UNCHANGED req \/ \E at \in {"done", "spare"} : Go(b, R(at))
            BY <1>2, <2>1 DEF verifyMfa
        <3> HIDE DEF R
        <3>4. QED
            BY <3>2, <3>3
    <2>2. CASE ~Open(browser[b].challenge, "verify")
        BY <1>2, <2>2 DEF verifyMfa
    <2>3. QED
        BY <2>1, <2>2
<1>3. ASSUME \/ \E trust \in BOOLEAN : enableMfa(b, trust) \/ completeMfa(b, trust)
             \/ logout(b)
      PROVE  \E r \in Request : Fine(r) /\ Go(b, r)
    BY <1>3, IdleFine DEF enableMfa, completeMfa, logout
<1>4. ASSUME touchSession(b)
      PROVE  \E r \in Request : Fine(r) /\ Go(b, r)
    <2> DEFINE r == [req[b] EXCEPT !.at = "authorize"]
    <2>1. req[b] \in Panels /\ Fine(req[b]) /\ Go(b, r)
        BY <1>4, RequestKind DEF touchSession, RequestsKnown, Fine
    <2>2. r \in Panels /\ Fine(r)
        BY <2>1 DEF Panels, Logout, InviteCall, RevokeCall, StatusCall, Fine, CallerKnown,
           OwnersCounted, InviteKnown
    <2>3. r \in Request
        BY <2>2 DEF Request
    <2> HIDE DEF r
    <2>4. QED
        BY <2>1, <2>2, <2>3
<1>5. ASSUME NEW op, NEW arg, validateSession(b, op, arg),
             \/ op = "logout" /\ arg = "none"
             \/ op = "invite" /\ arg \in [email : People, role : Roles]
             \/ op = "revokeInvite" /\ arg \in Invites /\ invite[arg] # NoInvite
             \/ op = "changeStatus" /\ arg \in Change
      PROVE  \E r \in Request : Fine(r) /\ Go(b, r)
    <2> DEFINE s == browser[b].cookie
               r == [op |-> op, at |-> "touch", sid |-> s, who |-> session[s].user, arg |-> arg]
    <2>1. s \in 1..MaxSessions /\ session[s].user # "none"
        BY <1>5, SignInAssumption DEF validateSession, live, WellTyped, Form
    <2>2. session[s] # NoSession /\ session[s].user \in People
        BY <2>1 DEF WellTyped, SessionRow, NoSession
    <2>3. r \in Panels /\ Fine(r)
        BY <1>5, <2>1, <2>2 DEF Panels, Logout, InviteCall, RevokeCall, StatusCall, Fine,
           CallerKnown, OwnersCounted, InviteKnown
    <2>4. r \in Request /\ Go(b, r)
        BY <1>5, <2>3 DEF Request, validateSession
    <2> HIDE DEF r
    <2>5. QED
        BY <2>3, <2>4
<1>6. ASSUME Panel(b) PROVE \E r \in Request : Fine(r) /\ Go(b, r)
    <2>1. /\ \A p \in Visitors, role \in Roles :
                [email |-> p, role |-> role] \in [email : People, role : Roles]
          /\ \A p \in People, status \in {"ACTIVE", "SUSPENDED", "REVOKED"} :
                [target |-> p, status |-> status] \in Change
        BY SignInAssumption DEF Change
    <2>2. QED
        BY <1>5, <1>6, <2>1 DEF Panel
<1>7. QED
    BY <1>1, <1>2, <1>3, <1>4, <1>6 DEF SignsIn

(* A request that goes on is a request, and knows what it knew. *)
LEMMA StepRequest ==
    ASSUME WellTyped, RequestsKnown, NEW b \in Browsers, NEW at,
           \/ req[b].op = "invite" /\ at = "create"
           \/ req[b].op = "revokeInvite" /\ at = "revoke"
           \/ req[b].op = "accept" /\ at \in {"join", "accepted"}
           \/ req[b].op = "changeStatus" /\ req[b].at = "update" /\ at = "endSessions"
    PROVE  /\ [req[b] EXCEPT !.at = at] \in Request
           /\ [req[b] EXCEPT !.at = at].op = req[b].op /\ [req[b] EXCEPT !.at = at].at = at
           /\ [req[b] EXCEPT !.at = at].arg = req[b].arg
           /\ at # "accepted" => Fine([req[b] EXCEPT !.at = at])
<1>0. Fine(req[b])
    BY DEF RequestsKnown, Fine
<1>1. CASE req[b].op = "invite" /\ at = "create"
    <2>1. req[b] \in InviteCall
        BY <1>1, RequestKind
    <2>2. [req[b] EXCEPT !.at = at] \in InviteCall
        BY <1>1, <2>1 DEF InviteCall
    <2>3. QED
        BY <1>0, <1>1, <2>1, <2>2 DEF InviteCall, Request, Panels, Fine, CallerKnown,
           OwnersCounted, InviteKnown
<1>2. CASE req[b].op = "revokeInvite" /\ at = "revoke"
    <2>1. req[b] \in RevokeCall
        BY <1>2, RequestKind
    <2>2. [req[b] EXCEPT !.at = at] \in RevokeCall
        BY <1>2, <2>1 DEF RevokeCall
    <2>3. QED
        BY <1>0, <1>2, <2>1, <2>2 DEF RevokeCall, Request, Panels, Fine, CallerKnown,
           OwnersCounted, InviteKnown
<1>3. CASE req[b].op = "accept" /\ at \in {"join", "accepted"}
    <2>1. req[b] \in Accept
        BY <1>3, RequestKind
    <2>2. [req[b] EXCEPT !.at = at] \in Accept
        BY <1>3, <2>1 DEF Accept
    <2>3. QED
        BY <1>0, <1>3, <2>1, <2>2 DEF Accept, Request, Fine, CallerKnown, OwnersCounted, InviteKnown
<1>4. CASE req[b].op = "changeStatus" /\ req[b].at = "update" /\ at = "endSessions"
    <2>1. req[b] \in StatusWrite
        BY <1>4, RequestKind DEF StatusCall
    <2>2. [req[b] EXCEPT !.at = at] \in StatusWrite
        BY <1>4, <2>1 DEF StatusWrite
    <2>3. QED
        BY <1>0, <1>4, <2>1, <2>2 DEF StatusWrite, Request, Fine, CallerKnown, OwnersCounted,
           InviteKnown
<1>5. QED
    BY <1>1, <1>2, <1>3, <1>4

(* The organization's requests. *)
LEMMA ManagesFine ==
    ASSUME WellTyped, RequestsKnown, NEW b \in Browsers, Manages(b), ~createMembership(b)
    PROVE  \E r \in Request : Fine(r) /\ Go(b, r)
<1>1. CASE \/ forbidden(b) \/ createInvite(b) \/ updateRevoked(b) \/ expireInvite(b)
           \/ updateAccepted(b) \/ revokeAllSessions(b) \/ requestStops(b)
    BY <1>1, IdleFine DEF forbidden, createInvite, updateRevoked, expireInvite, updateAccepted,
       revokeAllSessions, requestStops, Refused, Done
<1>2. CASE inviteUser(b) \/ revokeInvite(b) \/ acceptAsUser(b) \/ updateMembership(b)
    <2> DEFINE Moved(at) == at # "accepted" /\ Step(b, at)
                            /\ (\/ req[b].op = "invite" /\ at = "create"
                                \/ req[b].op = "revokeInvite" /\ at = "revoke"
                                \/ req[b].op = "accept" /\ at \in {"join", "accepted"}
                                \/ req[b].op = "changeStatus" /\ req[b].at = "update"
                                   /\ at = "endSessions")
    <2>1. ASSUME NEW at, Moved(at) PROVE \E r \in Request : Fine(r) /\ Go(b, r)
        BY <2>1, StepRequest DEF Step
    <2>2. CASE Done(b)
        BY <2>2, IdleFine DEF Done
    <2>3. CASE inviteUser(b) /\ ~Done(b)
        <3>1. Moved("create")
            BY <2>3 DEF inviteUser, Manager, At, Refused
        <3>2. QED
            BY <2>1, <3>1
    <2>4. CASE revokeInvite(b) /\ ~Done(b)
        <3>1. Moved("revoke")
            BY <2>4 DEF revokeInvite, Manager, At, Refused
        <3>2. QED
            BY <2>1, <3>1
    <2>5. CASE acceptAsUser(b) /\ ~Done(b)
        <3>1. Moved("join")
            BY <2>5 DEF acceptAsUser, At
        <3>2. QED
            BY <2>1, <3>1
    <2>6. CASE updateMembership(b) /\ ~Done(b)
        <3>1. Moved("endSessions")
            BY <2>6 DEF updateMembership, At
        <3>2. QED
            BY <2>1, <3>1
    <2>7. QED
        BY <1>2, <2>2, <2>3, <2>4, <2>5, <2>6
<1>3. ASSUME NEW i \in Invites, acceptInvite(b, i)
      PROVE  \E r \in Request : Fine(r) /\ Go(b, r)
    <2> DEFINE R(at) == [op |-> "accept", at |-> at, who |-> invite[i].email, arg |-> i]
    <2>1. invite[i] # NoInvite /\ invite[i].email \in People
        BY <1>3 DEF acceptInvite, NoInvite, WellTyped, InviteRow
    <2>2. \A at \in {"expire", "user"} : R(at) \in Request /\ Fine(R(at))
        BY <2>1 DEF Request, Accept, Fine, CallerKnown, OwnersCounted, InviteKnown
    <2>3. \E at \in {"expire", "user"} : Go(b, R(at))
        BY <1>3 DEF acceptInvite
    <2> HIDE DEF R
    <2>4. QED
        BY <2>2, <2>3
<1>4. CASE changeMembershipStatus(b)
    <2> DEFINE r == [op |-> "changeStatus", at |-> "update", sid |-> req[b].sid, who |-> req[b].who,
                     arg |-> req[b].arg, owners |-> activeOwners]
    <2>1. CASE Refused(b)
        BY <2>1, IdleFine DEF Refused, Done
    <2>2. CASE ~Refused(b)
        <3>1. req[b] \in StatusCall /\ Fine(req[b])
            BY <1>4, RequestKind DEF changeMembershipStatus, Manager, At, StatusWrite, RequestsKnown,
               Fine
        <3>2. activeOwners \subseteq People
            BY DEF activeOwners
        <3>3. /\ req[b].arg.target \in activeOwners /\ req[b].arg.status # "ACTIVE"
                    => Cardinality(activeOwners) > 1
              /\ Go(b, r)
            BY <1>4, <2>2 DEF changeMembershipStatus, maySuspend, Deactivates
        <3>4. r \in Request
            BY <3>1, <3>2 DEF StatusCall, StatusWrite, Request
        <3>5. Fine(r)
            BY <3>1, <3>3 DEF StatusCall, Fine, CallerKnown, OwnersCounted, InviteKnown
        <3> HIDE DEF r
        <3>6. QED
            BY <3>3, <3>4, <3>5
    <2>3. QED
        BY <2>1, <2>2
<1>5. QED
    BY <1>1, <1>2, <1>3, <1>4 DEF Manages

(* Every step keeps the requests, and what they know. *)
LEMMA RequestsNext ==
    ASSUME WellTyped, TypeOK, RequestsKnown, InvitesJoin, [Next]_vars, Kept
    PROVE  req' \in [Browsers -> Request] /\ \A b \in Browsers : Fine(req[b])'
<1>0. req \in [Browsers -> Request] /\ \A b \in Browsers : Fine(req[b])
    BY DEF WellTyped, RequestsKnown, Fine
<1>1. CASE UNCHANGED req
    <2>1. ASSUME NEW b \in Browsers, NEW r \in Request, req[b] = r, Fine(r) PROVE Fine(req[b])'
        <3>1. Fine(r)' /\ req'[b] = r
            BY <1>1, <2>1, FineStays
        <3>2. QED
            BY <3>1 DEF Fine, CallerKnown, OwnersCounted, InviteKnown
    <2>2. QED
        BY <1>0, <1>1, <2>1
<1>2. ASSUME NEW b \in Browsers, NEW r \in Request, Go(b, r), Fine(r)'
      PROVE  req' \in [Browsers -> Request] /\ \A c \in Browsers : Fine(req[c])'
    <2>1. req' = [req EXCEPT ![b] = r] /\ req' \in [Browsers -> Request]
        BY <1>0, <1>2 DEF Go
    <2>2. ASSUME NEW c \in Browsers, NEW q \in Request, req'[c] = q, Fine(q)' PROVE Fine(req[c])'
        BY <2>2 DEF Fine, CallerKnown, OwnersCounted, InviteKnown
    <2>3. ASSUME NEW c \in Browsers PROVE \E q \in Request : req'[c] = q /\ Fine(q)'
        <3>1. CASE c = b
            BY <1>0, <1>2, <2>1, <3>1
        <3>2. CASE c # b
            <4>1. PICK q \in Request : req[c] = q
                BY <1>0
            <4>2. req'[c] = q
                BY <1>0, <2>1, <3>2, <4>1
            <4>3. Fine(q)
                BY <1>0, <4>1
            <4>4. Fine(q)'
                BY <4>3, FineStays
            <4>5. QED
                BY <4>2, <4>4
        <3>3. QED
            BY <3>1, <3>2
    <2>4. QED
        BY <2>1, <2>2, <2>3
<1>3. ASSUME NEW b \in Browsers, NEW r \in Request, Go(b, r), Fine(r)
      PROVE  req' \in [Browsers -> Request] /\ \A c \in Browsers : Fine(req[c])'
    BY <1>2, <1>3, FineStays
<1>4. ASSUME NEW b \in Browsers, createMembership(b)
      PROVE  req' \in [Browsers -> Request] /\ \A c \in Browsers : Fine(req[c])'
    <2>1. CASE Done(b)
        BY <1>3, <2>1, IdleFine DEF Done
    <2>2. CASE ~Done(b)
        <3> DEFINE x == [req[b] EXCEPT !.at = "accepted"]
        <3>1. Go(b, x) /\ req[b].op = "accept" /\ req[b] \in Accept /\ Fine(req[b])
            BY <1>0, <1>4, <2>2, RequestKind DEF createMembership, Step, At
        <3>2. req[b].arg \in Invites /\ membership[req[b].who] = NoMember
            BY <1>4, <2>2, <3>1 DEF createMembership, Accept
        <3>3. joined[req[b].arg] = 0 /\ joined' = [joined EXCEPT ![req[b].arg] = joined[req[b].arg] + 1]
            BY <1>4, <2>2, <3>1, <3>2 DEF createMembership, InvitesJoin, Fine, InviteKnown
        <3>4. joined'[req[b].arg] = 1
            BY <3>2, <3>3 DEF WellTyped
        <3>5. /\ x \in Accept /\ x.op = "accept" /\ x.arg = req[b].arg /\ x.who = req[b].who
            BY <3>1 DEF Accept
        <3>6. ASSUME NEW r \in Accept, r = x PROVE Fine(r)'
            BY <3>1, <3>2, <3>4, <3>5, <3>6 DEF Fine, CallerKnown, OwnersCounted, InviteKnown, Kept,
               Accept
        <3> HIDE DEF x
        <3>7. PICK r \in Accept : r = x
            BY <3>5
        <3>8. r \in Request /\ Go(b, r) /\ Fine(r)'
            BY <3>1, <3>6, <3>7 DEF Request
        <3>9. QED
            BY <1>2, <3>8
    <2>3. QED
        BY <2>1, <2>2
<1>5. ASSUME NEW b \in Browsers, SignsIn(b) \/ Manages(b), req' # req
      PROVE  req' \in [Browsers -> Request] /\ \A c \in Browsers : Fine(req[c])'
    BY <1>3, <1>4, <1>5, SignsInFine, ManagesFine
<1>6. QED
    BY <1>1, <1>5, RequestSteps

-------------------------------------------------------------------------------
(* The invariants                                                          *)

(* The last owner is ended by a request whose count no longer holds. *)
LEMMA LastOwnerNext ==
    ASSUME WellTyped, RequestsKnown, [Next]_vars, activeOwners # {}, activeOwners' = {}
    PROVE  \E b \in Browsers :
              /\ At(b, "changeStatus", "update") /\ req'[b] # req[b]
              /\ req[b].owners = {} \/ ~(req[b].owners \subseteq activeOwners)
<1> DEFINE Owner == [status |-> "ACTIVE", role |-> "OWNER"]
<1>0. membership \in [People -> MemberRow]
    BY DEF WellTyped
<1>1. PICK p \in People : membership[p] = Owner /\ membership'[p] # Owner
    BY DEF activeOwners
<1>2. ASSUME NEW b \in Browsers, createMembership(b)
      PROVE  FALSE
    <2>1. UNCHANGED membership \/ (/\ membership[req[b].who] = NoMember
                                   /\ \E r : membership' = [membership EXCEPT ![req[b].who] = r])
        BY <1>2 DEF createMembership
    <2>2. membership[p] # NoMember
        BY <1>1 DEF NoMember
    <2>3. QED
        BY <1>0, <1>1, <2>1, <2>2
<1>3. ASSUME \/ \E b \in Browsers : \/ createInvite(b) \/ updateRevoked(b) \/ expireInvite(b)
                                    \/ updateAccepted(b)
             \/ \E i \in Invites : inviteLapses(i)
      PROVE  UNCHANGED membership
    BY <1>3 DEF createInvite, updateRevoked, expireInvite, updateAccepted, inviteLapses
<1>4. PICK b \in Browsers : updateMembership(b)
    <2>1. CASE ~UNCHANGED orgVars
        BY <1>1, <1>2, <1>3, <2>1, OrgSteps
    <2>2. QED
        BY <1>1, <2>1 DEF orgVars
<1> DEFINE a == req[b].arg
<1>5. req[b] \in StatusWrite /\ OwnersCounted(req[b]) /\ At(b, "changeStatus", "update")
    BY <1>4, RequestKind DEF updateMembership, At, StatusCall, RequestsKnown
<1>6. /\ a.target \in People
      /\ membership' = [membership EXCEPT ![a.target] = [membership[a.target] EXCEPT !.status = a.status]]
    BY <1>4, <1>5 DEF updateMembership, StatusWrite, Change
<1>7. a.target = p /\ a.status # "ACTIVE"
    BY <1>0, <1>1, <1>6
<1>8. \A q \in activeOwners : q = p
    <2>1. ASSUME NEW q \in People, membership[q] = Owner, q # p PROVE FALSE
        <3>1. membership'[q] = Owner
            BY <1>0, <1>6, <1>7, <2>1
        <3>2. QED
            BY <3>1 DEF activeOwners
    <2>2. QED
        BY <2>1 DEF activeOwners
<1>9. req'[b] # req[b]
    <2>1. req \in [Browsers -> Request] /\ req[b].at = "update" /\ req[b] # Idle
        BY <1>5 DEF WellTyped, StatusWrite, At, Idle
    <2>2. CASE Go(b, Idle)
        BY <2>1, <2>2 DEF Go
    <2>3. CASE Go(b, [req[b] EXCEPT !.at = "endSessions"])
        <3>1. req'[b].at = "endSessions"
            BY <1>5, <2>1, <2>3 DEF Go, StatusWrite
        <3>2. QED
            BY <2>1, <3>1
    <2>4. QED
        BY <1>4, <2>2, <2>3 DEF updateMembership, Step, Done
<1>10. ASSUME req[b].owners \subseteq activeOwners, req[b].owners # {}
       PROVE  FALSE
    <2>1. req[b].owners = {p}
        BY <1>8, <1>10
    <2>2. Cardinality(req[b].owners) = 1
        BY <2>1, FS_Singleton
    <2>3. Cardinality(req[b].owners) > 1
        BY <1>5, <1>7, <2>1 DEF OwnersCounted, At
    <2>4. QED
        BY <2>2, <2>3
<1>11. QED
    BY <1>5, <1>9, <1>10

(* An invite becomes accepted by the acceptance that made its member, and   *)
(* stops being so only when that is noted.                                 *)
LEMMA AcceptedNext ==
    ASSUME WellTyped, RequestsKnown, [Next]_vars, NEW i \in Invites
    PROVE  /\ invite'[i].status = "ACCEPTED" =>
                  invite[i].status = "ACCEPTED" \/ joined[i] = 1
           /\ invite[i].status = "ACCEPTED" =>
                  invite'[i].status = "ACCEPTED" \/ "invite" \in stale'
<1>0. invite \in [Invites -> InviteRow]
    BY DEF WellTyped
<1>1. CASE invite'[i] = invite[i]
    BY <1>1
<1>2. ASSUME NEW b \in Browsers, createInvite(b), invite'[i] # invite[i]
      PROVE  invite[i].status # "ACCEPTED" /\ invite'[i].status # "ACCEPTED"
    <2> DEFINE n == Unused(invite, NoInvite)
    <2>1. n \in Invites /\ invite[n] = NoInvite
        BY <1>0, <1>2, SlotFound DEF createInvite
    <2>2. invite' = [invite EXCEPT ![n] =
              [status |-> "PENDING", email |-> req[b].arg.email, role |-> req[b].arg.role,
               lapsed |-> FALSE]]
        BY <1>2 DEF createInvite
    <2>3. i = n
        BY <1>0, <1>2, <2>2
    <2> HIDE DEF n
    <2>4. QED
        BY <1>0, <2>1, <2>2, <2>3 DEF NoInvite
<1>3. ASSUME NEW b \in Browsers, updateRevoked(b) \/ expireInvite(b) \/ updateAccepted(b),
             invite'[i] # invite[i]
      PROVE  /\ invite'[i].status = "ACCEPTED" => joined[i] = 1
             /\ invite[i].status = "ACCEPTED" => "invite" \in stale'
    <2>1. req[b].arg \in Invites
        BY <1>3, RequestKind DEF updateRevoked, expireInvite, updateAccepted, At, RevokeCall, Accept
    <2>2. /\ \E s \in {"ACCEPTED", "EXPIRED", "REVOKED"} :
                /\ updateInvite(req[b].arg, s)
                /\ s = "ACCEPTED" => updateAccepted(b)
        BY <1>3 DEF updateRevoked, expireInvite, updateAccepted
    <2>3. PICK s \in {"ACCEPTED", "EXPIRED", "REVOKED"} :
                /\ updateInvite(req[b].arg, s)
                /\ s = "ACCEPTED" => updateAccepted(b)
        BY <2>2
    <2>4. /\ invite' = [invite EXCEPT ![req[b].arg] = [invite[req[b].arg] EXCEPT !.status = s]]
          /\ invite[req[b].arg].status # "PENDING" => "invite" \in stale'
        BY <1>0, <2>1, <2>3 DEF updateInvite
    <2>5. i = req[b].arg
        BY <1>0, <1>3, <2>1, <2>4
    <2>6. invite'[i].status = s
        <3>1. invite[i] \in InviteRow /\ invite'[i] = [invite[i] EXCEPT !.status = s]
            BY <1>0, <2>4, <2>5
        <3>2. QED
            BY <3>1 DEF InviteRow, NoInvite
    <2>7. updateAccepted(b) => joined[i] = 1
        BY <2>5 DEF updateAccepted, At, RequestsKnown, InviteKnown
    <2>8. QED
        BY <2>3, <2>4, <2>5, <2>6, <2>7
<1>4. ASSUME NEW j \in Invites, inviteLapses(j), invite'[i] # invite[i]
      PROVE  invite[i].status # "ACCEPTED" /\ invite'[i].status # "ACCEPTED"
    <2>1. i = j /\ invite[i].status = "PENDING" /\ invite'[i] = [invite[i] EXCEPT !.lapsed = TRUE]
        BY <1>0, <1>4 DEF inviteLapses
    <2>2. invite[i] \in InviteRow
        BY <1>0
    <2>3. QED
        BY <2>1, <2>2 DEF InviteRow, NoInvite
<1>5. ASSUME NEW b \in Browsers, createMembership(b) \/ updateMembership(b) PROVE UNCHANGED invite
    BY <1>5 DEF createMembership, updateMembership
<1>6. QED
    <2>1. CASE ~UNCHANGED orgVars
        BY <1>1, <1>2, <1>3, <1>4, <1>5, <2>1, OrgSteps
    <2>2. QED
        BY <1>1, <2>1 DEF orgVars

(* An acceptance that made its member stays about to record it, records    *)
(* it, or stops, which is noted.                                           *)
LEMMA AcceptingNext ==
    ASSUME WellTyped, RequestsKnown, [Next]_vars, NEW b \in Browsers, At(b, "accept", "accepted")
    PROVE  \/ req'[b] = req[b]
           \/ invite'[req[b].arg].status = "ACCEPTED"
           \/ "invite" \in stale'
<1>0. req \in [Browsers -> Request] /\ req[b] # Idle /\ req[b] \in Accept /\ req[b].at = "accepted"
    BY RequestKind DEF WellTyped, At
<1>1. CASE req'[b] = req[b]
    BY <1>1
<1>2. CASE req'[b] # req[b]
    <2>1. PICK c \in Browsers : SignsIn(c) \/ Manages(c)
        BY <1>2, RequestSteps
    <2>2. c = b
        <3>1. PICK r : req' = [req EXCEPT ![c] = r]
            BY <1>2, <2>1, OthersWait DEF Go
        <3>2. QED
            BY <1>0, <1>2, <3>1
    <2>3. ~SignsIn(b)
        <3>1. ~Free(b) /\ req[b].op = "accept" /\ req[b].at = "accepted"
            BY <1>0 DEF Free, Accept
        <3>2. QED
            BY <3>1 DEF SignsIn, confirmMfaSetup, verifyMfa, enableMfa, completeMfa, touchSession,
               logout, Panel, validateSession
    <2>4. updateAccepted(b) \/ requestStops(b)
        <3>1. ~Free(b) /\ req[b].op = "accept" /\ req[b].at = "accepted"
            BY <1>0 DEF Free, Accept
        <3>2. QED
            BY <2>1, <2>2, <2>3, <3>1 DEF Manages, forbidden, inviteUser, createInvite, revokeInvite,
               updateRevoked, acceptInvite, expireInvite, acceptAsUser, createMembership,
               changeMembershipStatus, updateMembership, revokeAllSessions, Manager, At
    <2>5. CASE requestStops(b)
        BY <2>5 DEF requestStops
    <2>6. CASE updateAccepted(b)
        <3>1. req[b].arg \in Invites /\ invite[req[b].arg] \in InviteRow
            BY <1>0 DEF Accept, WellTyped
        <3>2. invite'[req[b].arg] = [invite[req[b].arg] EXCEPT !.status = "ACCEPTED"]
            BY <2>6, <3>1 DEF updateAccepted, updateInvite, WellTyped
        <3>3. QED
            BY <3>1, <3>2 DEF InviteRow, NoInvite
    <2>7. QED
        BY <2>4, <2>5, <2>6
<1>3. QED
    BY <1>1, <1>2

(* An invite makes one member, and is accepted when it has. *)
LEMMA JoinNext ==
    ASSUME WellTyped, RequestsKnown, InvitesJoin, [Next]_vars
    PROVE  InvitesJoin'
<1> SUFFICES ASSUME NEW i \in Invites
             PROVE  /\ joined'[i] \in {0, 1}
                    /\ joined'[i] = 1 => invite'[i] # NoInvite /\ membership'[invite'[i].email] # NoMember
                    /\ "invite" \notin stale' =>
                          /\ invite'[i].status = "ACCEPTED" => joined'[i] = 1
                          /\ joined'[i] = 1 =>
                                \/ invite'[i].status = "ACCEPTED"
                                \/ \E b \in Browsers :
                                      At(b, "accept", "accepted")' /\ req'[b].arg = i
    BY DEF InvitesJoin
<1>1. CASE joined'[i] = joined[i]
    <2>1. joined'[i] \in {0, 1}
        BY <1>1 DEF InvitesJoin
    <2>2. ASSUME joined'[i] = 1
          PROVE  invite'[i] # NoInvite /\ membership'[invite'[i].email] # NoMember
        <3>1. invite[i] # NoInvite /\ membership[invite[i].email] # NoMember
            BY <1>1, <2>2 DEF InvitesJoin
        <3>2. invite[i].email \in People
            BY <3>1 DEF WellTyped, InviteRow
        <3>3. QED
            BY <3>1, <3>2, InviteNext, MembersNext
    <2>3. ASSUME "invite" \notin stale', invite'[i].status = "ACCEPTED" PROVE joined'[i] = 1
        BY <1>1, <2>3, AcceptedNext, StaleGrows DEF InvitesJoin
    <2>4. ASSUME "invite" \notin stale', joined'[i] = 1, invite'[i].status # "ACCEPTED"
          PROVE  \E b \in Browsers : At(b, "accept", "accepted")' /\ req'[b].arg = i
        <3>1. PICK b \in Browsers : At(b, "accept", "accepted") /\ req[b].arg = i
            BY <1>1, <2>4, AcceptedNext, StaleGrows DEF InvitesJoin
        <3>2. req'[b] = req[b]
            BY <2>4, <3>1, AcceptingNext
        <3>3. QED
            BY <3>1, <3>2 DEF At
    <2>5. QED
        BY <2>1, <2>2, <2>3, <2>4
<1>2. CASE joined'[i] # joined[i]
    <2>1. PICK b \in Browsers :
              /\ createMembership(b) /\ req[b].arg \in Invites /\ Step(b, "accepted")
              /\ membership'[req[b].who] # NoMember
              /\ joined' = [joined EXCEPT ![req[b].arg] = 1]
        BY <1>2, JoinedNext
    <2>2. i = req[b].arg /\ joined'[i] = 1
        BY <1>2, <2>1 DEF WellTyped
    <2>3. req[b] \in Accept /\ invite[i] # NoInvite /\ invite[i].email = req[b].who
        BY <2>1, <2>2, RequestKind DEF createMembership, At, RequestsKnown, InviteKnown
    <2>4. invite'[i] # NoInvite /\ membership'[invite'[i].email] # NoMember
        BY <2>1, <2>3, InviteNext
    <2>5. At(b, "accept", "accepted")' /\ req'[b].arg = i
        <3>1. req'[b] = [req[b] EXCEPT !.at = "accepted"]
            BY <2>1 DEF Step, Go, WellTyped
        <3>2. req'[b].op = "accept" /\ req'[b].at = "accepted" /\ req'[b].arg = i
            BY <2>2, <2>3, <3>1 DEF Accept
        <3>3. QED
            BY <3>2 DEF At, Idle
    <2>6. QED
        BY <2>2, <2>4, <2>5
<1>3. QED
    BY <1>1, <1>2

(* The start satisfies the invariant. *)
LEMMA InvInit == Init => Inv
<1> SUFFICES ASSUME Init PROVE Inv
    OBVIOUS
<1>1. user \in [People -> UserRow] /\ user = FirstUsers
    BY AccountsAssumption DEF Init, UserRow
<1>2. /\ counter \in [Keys -> [n : Nat, ends : BOOLEAN]]
      /\ \A k \in Keys : counter[k].ends => counter[k].n > 0
    BY DEF Init
<1>3. /\ challenge \in [1..MaxChallenges -> Challenge]
      /\ \A t \in 1..MaxChallenges : challenge[t] = NoChallenge
    BY DEF Init, Challenge
<1>4. /\ session \in [1..MaxSessions -> SessionRow]
      /\ \A s \in 1..MaxSessions : session[s] # NoSession => user[session[s].user].exists
      /\ left.staff > 0 => \A b \in Browsers : session[b].user # "none"
    <2>1. PICK who \in [Browsers -> {p \in People : findByOrgAndUser(p).status = "ACTIVE"}] :
              session = [s \in 1..MaxSessions |->
                  IF left.staff > 0 /\ s \in Browsers THEN [NoSession EXCEPT !.user = who[s]]
                  ELSE NoSession]
        BY DEF Init
    <2>2. ASSUME NEW b \in Browsers
          PROVE  who[b] \in People /\ user[who[b]].exists /\ b \in 1..MaxSessions
        <3>1. who[b] \in People /\ findByOrgAndUser(who[b]).status = "ACTIVE"
            BY <2>1
        <3>2. who[b] \in Admins \/ FirstMembers[who[b]].status = "ACTIVE"
            BY <3>1 DEF findByOrgAndUser, Init
        <3>3. QED
            BY <1>1, <3>1, <3>2, AccountsAssumption, SignInAssumption
    <2>3. ASSUME NEW p \in People
          PROVE  /\ [NoSession EXCEPT !.user = p] \in SessionRow
                 /\ [NoSession EXCEPT !.user = p].user = p
        BY DEF NoSession, SessionRow
    <2>4. NoSession \in SessionRow
        BY DEF SessionRow
    <2>5. ASSUME NEW s \in 1..MaxSessions
          PROVE  /\ session[s] \in SessionRow
                 /\ session[s] # NoSession => user[session[s].user].exists
        BY <2>1, <2>2, <2>3, <2>4
    <2>6. ASSUME left.staff > 0, NEW b \in Browsers PROVE session[b].user # "none"
        BY <2>1, <2>2, <2>3, <2>6, SignInAssumption
    <2>7. QED
        BY <2>1, <2>5, <2>6
<1>5. /\ browser \in [Browsers -> Form]
      /\ \A b \in Browsers : browser[b].cookie # 0 => session[browser[b].cookie].user # "none"
    <2>1. FirstForm \in Form /\ FirstForm.cookie = 0
        BY SignInAssumption DEF FirstForm, Form
    <2>2. ASSUME NEW b \in Browsers
          PROVE  /\ [FirstForm EXCEPT !.step = "panel", !.cookie = b] \in Form
                 /\ [FirstForm EXCEPT !.step = "panel", !.cookie = b].cookie = b
        <3>1. b \in 0..MaxSessions
            BY SignInAssumption
        <3>2. QED
            BY <2>1, <3>1 DEF Form
    <2>3. browser = [b \in Browsers |->
              IF left.staff > 0 THEN [FirstForm EXCEPT !.step = "panel", !.cookie = b] ELSE FirstForm]
        BY DEF Init
    <2>4. ASSUME NEW b \in Browsers
          PROVE  /\ browser[b] \in Form
                 /\ browser[b].cookie # 0 => browser[b].cookie = b /\ left.staff > 0
        BY <2>1, <2>2, <2>3
    <2>5. QED
        BY <1>4, <2>3, <2>4
<1>6. /\ req \in [Browsers -> Request]
      /\ \A b \in Browsers : Fine(req[b])
    BY IdleFine DEF Init
<1>7. /\ membership \in [People -> MemberRow] /\ membership = FirstMembers
      /\ \A p \in People : membership[p].status \in {"none", "ACTIVE", "SUSPENDED", "REVOKED"}
    <2>1. membership = FirstMembers
        BY DEF Init
    <2>2. membership \in [People -> {NoMember} \cup
              [status : {"ACTIVE", "SUSPENDED", "REVOKED"}, role : Roles \cup MEMBER_MANAGER_ROLES]]
        BY <2>1, AccountsAssumption
    <2>3. QED
        BY <2>1, <2>2 DEF MemberRow, NoMember
<1>8. invite \in [Invites -> InviteRow] /\ \A i \in Invites : invite[i].status # "ACCEPTED"
    <2>1. invite \in [Invites -> {NoInvite} \cup
              [status : {"PENDING", "EXPIRED", "REVOKED"}, email : People, role : Roles,
               lapsed : BOOLEAN]]
        BY AccountsAssumption DEF Init
    <2>2. QED
        BY <2>1 DEF InviteRow, NoInvite
<1>9. joined \in [Invites -> Nat] /\ \A i \in Invites : joined[i] = 0
    BY DEF Init
<1>10. WellTyped
    BY <1>1, <1>2, <1>3, <1>4, <1>5, <1>6, <1>7, <1>8, <1>9 DEF WellTyped
<1>11. TypeOK
    BY <1>1, <1>2, <1>3, <1>4, <1>5, <1>7, AccountsAssumption DEF TypeOK
<1>13. EnabledAfterConfirmed
    BY <1>1, AccountsAssumption DEF EnabledAfterConfirmed
<1>14. InvitesJoin
    BY <1>8, <1>9 DEF InvitesJoin
<1>15. QED
    BY <1>6, <1>10, <1>11, <1>13, <1>14 DEF Inv, RequestsKnown, Fine

(* Every step keeps it. *)
LEMMA InvNext == Inv /\ [Next]_vars => Inv'
<1> SUFFICES ASSUME Inv, [Next]_vars PROVE Inv'
    OBVIOUS
<1>0. /\ WellTyped /\ TypeOK /\ RequestsKnown /\ InvitesJoin
      /\ EnabledAfterConfirmed
    BY DEF Inv
<1>1. /\ user' \in [People -> UserRow]
      /\ \A p \in People : /\ user[p].exists => user'[p].exists
                           /\ Settled(user'[p]) /\ Confirmed(user'[p], stale')
    BY <1>0, UserNext
<1>2. Counts(counter')
    BY <1>0, CounterNext
<1>3. /\ challenge' \in [1..MaxChallenges -> Challenge]
      /\ \A t \in 1..MaxChallenges :
            challenge'[t] # NoChallenge => user'[challenge'[t].user].exists
    BY <1>0, <1>1, ChallengeNext
<1>4. /\ session' \in [1..MaxSessions -> SessionRow]
      /\ \A s \in 1..MaxSessions :
            /\ session'[s] # NoSession => user'[session'[s].user].exists
            /\ session[s] # NoSession => session'[s] # NoSession
    BY <1>0, <1>1, SessionNext
<1>5. browser' \in [Browsers -> Form] /\ \A b \in Browsers : Shows(browser'[b], session')
    BY <1>0, <1>4, BrowserNext
<1>6. /\ invite' \in [Invites -> InviteRow]
      /\ \A i \in Invites : invite[i] # NoInvite =>
            invite'[i] # NoInvite /\ invite'[i].email = invite[i].email
    BY <1>0, InviteNext
<1>7. membership' \in [People -> MemberRow]
    BY <1>0, MembersNext
<1>8. joined' \in [Invites -> Nat] /\ \A i \in Invites : joined[i] = 1 => joined'[i] = 1
    BY <1>0, JoinedNext
<1>9. Kept
    BY <1>1, <1>4, <1>6, <1>8 DEF Kept
<1>10. req' \in [Browsers -> Request] /\ \A b \in Browsers : Fine(req[b])'
    BY <1>0, <1>9, RequestsNext
<1>11. WellTyped'
    BY <1>1, <1>2, <1>3, <1>4, <1>5, <1>6, <1>7, <1>8, <1>10 DEF WellTyped, Counts, CounterRow
<1>12. TypeOK'
    <2>1. \A p \in People : ~user'[p].exists => user'[p] = NoUser
        BY <1>1 DEF Settled
    <2>2. \A k \in Keys : counter'[k].ends => counter'[k].n > 0
        BY <1>2 DEF Counts
    <2>3. \A t \in 1..MaxChallenges : challenge'[t] # NoChallenge =>
              /\ challenge'[t].kind \in {"gateway", "email", "setup", "verify", "gone"}
              /\ user'[challenge'[t].user].exists
        BY <1>3 DEF Challenge
    <2>4. \A b \in Browsers : browser'[b].cookie # 0 => session'[browser'[b].cookie].user # "none"
        <3> SUFFICES ASSUME NEW b \in Browsers, browser'[b].cookie # 0
                     PROVE  session'[browser'[b].cookie].user # "none"
            OBVIOUS
        <3>1. browser'[b].cookie \in 1..MaxSessions
            BY <1>5, SignInAssumption DEF Form
        <3>2. session'[browser'[b].cookie] # NoSession
            BY <1>5 DEF Shows
        <3>3. QED
            BY <1>4, <3>1, <3>2, SignInAssumption DEF SessionRow
    <2>5. \A p \in People : membership'[p].status \in {"none", "ACTIVE", "SUSPENDED", "REVOKED"}
        BY <1>7 DEF MemberRow, NoMember
    <2>6. QED
        BY <1>4, <2>1, <2>2, <2>3, <2>4, <2>5 DEF TypeOK
<1>14. InvitesJoin'
    BY <1>0, JoinNext
<1>15. EnabledAfterConfirmed'
    BY <1>1 DEF EnabledAfterConfirmed, Confirmed
<1>16. RequestsKnown'
    BY <1>10 DEF RequestsKnown, Fine
<1>17. QED
    BY <1>11, <1>12, <1>14, <1>15, <1>16 DEF Inv

-------------------------------------------------------------------------------
(* Theorems                                                                *)

(* The inductive invariant holds in every state of Accounts. *)
THEOREM Invariance == Spec => []Inv
<1>1. Init => Inv
    BY InvInit
<1>2. Inv /\ [Next]_vars => Inv'
    BY InvNext
<1>3. QED
    BY <1>1, <1>2, PTL DEF Spec

(* Accounts, challenges, sessions, cookies and members stay well formed    *)
(* (auth/service.ts, identity/service.ts).                                 *)
THEOREM TypesHold == Spec => []TypeOK
<1>1. Inv => TypeOK
    BY DEF Inv
<1>2. QED
    BY <1>1, Invariance, PTL

(* However many requests end owners at once, the last one is ended only by *)
(* a request that had counted another who was ended since, or counted none *)
(* at all (identity/service.ts:336).                                       *)
THEOREM LastOwnerCounted == Spec => LastOwnerEndsInRace
<1> DEFINE Raced ==
        \E b \in Browsers :
            /\ At(b, "changeStatus", "update") /\ req'[b] # req[b]
            /\ req[b].owners = {} \/ ~(req[b].owners \subseteq activeOwners)
<1>1. Inv /\ [Next]_vars => [activeOwners # {} /\ activeOwners' = {} => Raced]_vars
    BY LastOwnerNext DEF Inv
<1>2. QED
    BY <1>1, Invariance, PTL DEF Spec, LastOwnerEndsInRace

(* An invite makes one member at most, whoever accepts it and however      *)
(* often, and is recorded as accepted when it did (identity/service.ts).   *)
THEOREM OneMemberPerInvite == Spec => []InviteMakesOneMember
<1>1. Inv => InviteMakesOneMember
    BY DEF Inv, InvitesJoin, InviteMakesOneMember
<1>2. QED
    BY <1>1, Invariance, PTL

(* A second factor that is on was proven by a code of its secret, unless   *)
(* the secret was replaced meanwhile (auth/service.ts:232-276).            *)
THEOREM FactorsConfirmed == Spec => []EnabledAfterConfirmed
<1>1. Inv => EnabledAfterConfirmed
    BY DEF Inv
<1>2. QED
    BY <1>1, Invariance, PTL

(* No renewal undoes a log-out or a revocation (auth/service.ts:399).      *)
THEOREM SessionsStayDead == Spec => KilledSessionStaysDead
<1>1. Inv /\ [Next]_vars => [\A s \in 1..MaxSessions : session[s].revoked => session'[s].revoked]_vars
    BY UserNext, SessionNext DEF Inv
<1>2. QED
    BY <1>1, Invariance, PTL DEF Spec, KilledSessionStaysDead


================================================================================
