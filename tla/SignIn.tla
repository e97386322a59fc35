-------------------------------- MODULE SignIn --------------------------------
(***************************************************************************)
(* How a person gets a session of the staff panel: password, federated     *)
(* login, the second factor by e-mail or authenticator, its enrolment,     *)
(* trusted devices, and the log-in form that walks through them.  A call   *)
(* is one action where no other request can change what it read before it  *)
(* writes; enrolment and backup codes, which are read and then written,    *)
(* take two.  Codes are right or wrong; a secret is its number.            *)
(***************************************************************************)
EXTENDS Naturals, FiniteSets

CONSTANTS People, Browsers,             \* browsers are numbered from 1
          Visitors,                     \* the people at the log-in form (a bound)
          LoginLimit, MfaLimit,         \* LOGIN_MAX_ATTEMPTS, MFA_VERIFY_MAX_ATTEMPTS
          MaxChallenges, MaxSessions,   \* bounds of the model
          Scenarios                     \* bounds: the second factors there are, and how
                                        \* often each kind of thing happens

(* A browser's first session has its number.                               *)
ASSUME SignInAssumption ==
    /\ Visitors \subseteq People /\ "none" \notin People
    /\ MaxChallenges \in Nat /\ MaxSessions \in Nat /\ Browsers \subseteq 1..MaxSessions

VARIABLES
    factors,    \* which second factors this deployment has
    user,       \* User rows
    counter,    \* the cache's counters
    challenge,  \* the cache's challenges, by token
    session,    \* Session rows
    browser,    \* the log-in form, and the cookies beside it
    req,        \* the request each browser is waiting for
    left,       \* what the bounds still allow
    stale       \* which writes used a value that had changed since it was read

signInVars == <<factors, user, counter, challenge, session, browser, req, left, stale>>

NoUser == [exists |-> FALSE, password |-> FALSE, mfa |-> FALSE, secret |-> 0,
           confirmed |-> 0, backup |-> FALSE]
Keys == ({"login", "mfa"} \X People) \cup ({"ip", "register"} \X Browsers)
NoChallenge == [kind |-> "none", user |-> "none"]
NoSession == [user |-> "none", revoked |-> FALSE, lapsed |-> FALSE]
FirstForm == [step |-> "credentials", who |-> "none", challenge |-> 0, channel |-> "totp",
              options |-> FALSE, secret |-> 0, cookie |-> 0, device |-> "none"]
Idle == [op |-> "idle"]

Unused(f, none) == CHOOSE i \in DOMAIN f : f[i] = none
HasFree(f, none) == \E i \in DOMAIN f : f[i] = none

Spend(kind) == left[kind] > 0 /\ left' = [left EXCEPT ![kind] = @ - 1]
Free(b) == req[b] = Idle
Go(b, r) == req' = [req EXCEPT ![b] = r]
(* The answer reaches the form, or is lost: the form keeps its step.       *)
Answer(b, form, budget) ==
    \/ browser' = [browser EXCEPT ![b] = form] /\ left' = budget
    \/ /\ budget.faults > 0
       /\ left' = [budget EXCEPT !.faults = @ - 1]
       /\ UNCHANGED browser
Used(kind) == [left EXCEPT ![kind] = @ - 1]

(***************************************************************************)
(* Counters, challenges, sessions                                          *)
(***************************************************************************)

(* INCR, and EXPIRE after the first.                                       *)
increment(c, k) ==
    [c EXCEPT ![k] = [n |-> @.n + 1, ends |-> @.ends \/ @.n = 0]]

(* The request stops between the two: later hits leave the expiry alone.   *)
incrementStopped(k) ==
    /\ left.faults > 0 /\ left.signin > 0 /\ counter[k].n = 0
    /\ counter' = [counter EXCEPT ![k].n = 1]
    /\ left' = [left EXCEPT !.faults = @ - 1, !.signin = @ - 1]
    /\ UNCHANGED <<factors, user, challenge, session, browser, req, stale>>

(* The e-mail's counter, then the address's.                               *)
enforceLoginLimit(p, b) ==
    LET first == increment(counter, <<"login", p>>)
    IN IF first[<<"login", p>>].n > LoginLimit THEN first
       ELSE increment(first, <<"ip", b>>)
withinLogin(p, b) ==
    counter[<<"login", p>>].n < LoginLimit /\ counter[<<"ip", b>>].n < LoginLimit
enforceMfaRateLimit(p) == increment(counter, <<"mfa", p>>)
withinMfa(p) == counter[<<"mfa", p>>].n < MfaLimit

Open(t, kind) == t # 0 /\ challenge[t].kind = kind
issueChallenge(kind, p) ==
    /\ HasFree(challenge, NoChallenge)
    /\ challenge' = [challenge EXCEPT ![Unused(challenge, NoChallenge)] =
                         [kind |-> kind, user |-> p]]
issueEmailOtp(p) == issueChallenge("email", p)
issueFactor(kind, p) == IF kind = "email" THEN issueEmailOtp(p) ELSE issueChallenge(kind, p)
NewToken == Unused(challenge, NoChallenge)
consumeChallenge(t) == challenge' = [challenge EXCEPT ![t].kind = "gone"]

issueSession(p) ==
    /\ HasFree(session, NoSession)
    /\ session' = [session EXCEPT ![Unused(session, NoSession)] =
                       [user |-> p, revoked |-> FALSE, lapsed |-> FALSE]]
NewSession == Unused(session, NoSession)
live(s) == s # 0 /\ session[s].user # "none" /\ ~session[s].revoked /\ ~session[s].lapsed

(* The cookies of a completed second factor; a trusted device skips it     *)
(* the next time.                                                          *)
SignedIn(b, p, trust) ==
    [FirstForm EXCEPT !.step = "panel", !.cookie = NewSession,
                      !.device = IF trust THEN p ELSE browser[b].device]

(***************************************************************************)
(* Credentials                                                             *)
(***************************************************************************)

register(b, p) ==
    LET k == <<"register", b>>
    IN /\ Free(b) /\ left.signin > 0 /\ left' = Used("signin")
       /\ counter' = increment(counter, k)
       /\ user' = IF counter[k].n < LoginLimit /\ ~user[p].exists
                  THEN [user EXCEPT ![p] = [NoUser EXCEPT !.exists = TRUE, !.password = TRUE]]
                  ELSE user
       /\ UNCHANGED <<factors, challenge, session, browser, req, stale>>

(* Both factors: the person picks.  One: the next step is known.           *)
nextFactor(p) ==
    CASE factors = {"email", "totp"} -> "gateway"
      [] factors = {"email"} -> "email"
      [] factors = {"totp"} -> IF user[p].mfa THEN "verify" ELSE "setup"

Credentials(b, p) ==
    /\ Free(b) /\ browser[b].step = "credentials" /\ left.signin > 0

loginRefused(b, p, right) ==
    /\ Credentials(b, p)
    /\ ~withinLogin(p, b) \/ ~right \/ ~user[p].password
    /\ counter' = enforceLoginLimit(p, b)
    /\ left' = Used("signin")
    /\ UNCHANGED <<factors, user, challenge, session, browser, req, stale>>

loginTrusted(b, p) ==
    /\ Credentials(b, p) /\ withinLogin(p, b) /\ user[p].password
    /\ factors = {} \/ browser[b].device = p
    /\ counter' = enforceLoginLimit(p, b)
    /\ issueSession(p)
    /\ Answer(b, SignedIn(b, p, FALSE), Used("signin"))
    /\ UNCHANGED <<factors, user, challenge, req, stale>>

(* submitCredentials: a setup challenge makes the form ask for the secret. *)
loginChallenged(b, p) ==
    /\ Credentials(b, p) /\ withinLogin(p, b) /\ user[p].password
    /\ factors # {} /\ browser[b].device # p
    /\ counter' = enforceLoginLimit(p, b)
    /\ LET kind == nextFactor(p)
           asked == [browser[b] EXCEPT !.who = p, !.challenge = NewToken]
       IN /\ issueFactor(kind, p)
          /\ \/ kind = "gateway" /\ Answer(b, [asked EXCEPT !.step = "choose", !.options = TRUE],
                                           Used("signin"))
             \/ kind = "email" /\ Answer(b, [asked EXCEPT !.step = "verify", !.channel = "email"],
                                         Used("signin"))
             \/ kind = "verify" /\ Answer(b, [asked EXCEPT !.step = "verify", !.channel = "totp"],
                                          Used("signin"))
             \/ kind = "setup" /\ Answer(b, [asked EXCEPT !.step = "enrolling"], Used("signin"))
    /\ UNCHANGED <<factors, user, session, req, stale>>

(* Mutant: the session is issued before the person is provisioned.         *)
loginUnprovisioned(b, p) ==
    /\ Free(b) /\ browser[b].step = "google" /\ left.signin > 0
    /\ issueSession(p)
    /\ Answer(b, SignedIn(b, p, FALSE), Used("signin"))
    /\ UNCHANGED <<factors, user, counter, challenge, req, stale>>
loginWithFederatedIdentity(b, p) ==
    /\ Free(b) /\ browser[b].step = "google" /\ left.signin > 0
    /\ user' = IF user[p].exists THEN user ELSE [user EXCEPT ![p] = [NoUser EXCEPT !.exists = TRUE]]
    /\ issueSession(p)
    /\ Answer(b, SignedIn(b, p, FALSE), Used("signin"))
    /\ UNCHANGED <<factors, counter, challenge, req, stale>>

(* To the provider, and back: with a code and the state that was sent, or  *)
(* to the log-in form.                                                     *)
googleStart(b) ==
    /\ Free(b) /\ browser[b].step = "credentials" /\ left.signin > 0
    /\ browser' = [browser EXCEPT ![b].step = "google"]
    /\ UNCHANGED <<factors, user, counter, challenge, session, req, left, stale>>

googleCallbackFails(b) ==
    /\ browser[b].step = "google"
    /\ browser' = [browser EXCEPT ![b].step = "credentials"]
    /\ UNCHANGED <<factors, user, counter, challenge, session, req, left, stale>>

(***************************************************************************)
(* Choosing a second factor                                                *)
(***************************************************************************)

mayChoose(p, method) ==
    CASE method = "email" -> "email" \in factors
      [] method = "totp" -> "totp" \in factors /\ user[p].mfa
      [] method = "totp_setup" -> "totp" \in factors /\ ~user[p].mfa

chosenKind(method) ==
    CASE method = "email" -> "email" [] method = "totp" -> "verify" [] method = "totp_setup" -> "setup"

Choosing(b) == Free(b) /\ browser[b].step = "choose" /\ left.signin > 0

(* The token of the next step replaces the one the choice was made with.   *)
chooseSecondFactor(b, method) ==
    LET t == browser[b].challenge
        p == challenge[t].user
        next == [browser[b] EXCEPT !.challenge = NewToken]
    IN /\ Choosing(b) /\ Open(t, "gateway") /\ withinMfa(p) /\ mayChoose(p, method)
       /\ counter' = enforceMfaRateLimit(p)
       /\ issueFactor(chosenKind(method), p)
       /\ \/ method = "email" /\ Answer(b, [next EXCEPT !.step = "verify", !.channel = "email"],
                                        Used("signin"))
          \/ method = "totp" /\ Answer(b, [next EXCEPT !.step = "verify", !.channel = "totp"],
                                       Used("signin"))
          \/ method = "totp_setup" /\ Answer(b, [next EXCEPT !.step = "enrolling"], Used("signin"))
       /\ UNCHANGED <<factors, user, session, req, stale>>

chooseRefused(b, method) ==
    LET t == browser[b].challenge
    IN /\ Choosing(b)
       /\ \/ ~Open(t, "gateway") /\ UNCHANGED counter
          \/ /\ Open(t, "gateway")
             /\ ~withinMfa(challenge[t].user) \/ ~mayChoose(challenge[t].user, method)
             /\ counter' = enforceMfaRateLimit(challenge[t].user)
       /\ left' = Used("signin")
       /\ UNCHANGED <<factors, user, challenge, session, browser, req, stale>>

(* "Escolher outra forma".                                                 *)
chooseAnother(b) ==
    /\ Free(b) /\ browser[b].step \in {"setup", "verify"} /\ browser[b].options
    /\ browser' = [browser EXCEPT ![b].step = "choose"]
    /\ UNCHANGED <<factors, user, counter, challenge, session, req, left, stale>>

(***************************************************************************)
(* Enrolment                                                               *)
(***************************************************************************)

(* Mutant: an enrolled person's secret is replaced and stays enabled.      *)
setMfaSecret(p) ==
    user' = [user EXCEPT ![p].secret = @ + 1]
(* The secret waits for its first code: the factor is off meanwhile.       *)
setMfaPendingSecret(p) ==
    user' = [user EXCEPT ![p].secret = @ + 1, ![p].mfa = FALSE]

(* The form shows the set-up step whatever the answer: without a secret    *)
(* when it was refused.                                                    *)
setupMfa(b) ==
    LET t == browser[b].challenge
        p == challenge[t].user
    IN /\ Free(b) /\ browser[b].step = "enrolling"
       /\ IF Open(t, "setup")
          THEN /\ setMfaPendingSecret(p)
               /\ browser' = [browser EXCEPT ![b].step = "setup", ![b].secret = user[p].secret + 1]
          ELSE UNCHANGED user /\ browser' = [browser EXCEPT ![b].step = "setup"]
       /\ UNCHANGED <<factors, counter, challenge, session, req, left, stale>>

(* A wrong code has used up the challenge all the same.                    *)
confirmMfaSetup(b, right) ==
    LET t == browser[b].challenge
        p == challenge[t].user
        s == user[p].secret
    IN /\ Free(b) /\ browser[b].step = "setup" /\ left.signin > 0
       /\ left' = Used("signin")
       /\ IF Open(t, "setup")
          THEN /\ consumeChallenge(t) /\ counter' = enforceMfaRateLimit(p)
               /\ IF withinMfa(p) /\ s # 0 /\ right /\ browser[b].secret = s
                  THEN Go(b, [op |-> "confirm", at |-> "enable", who |-> p, secret |-> s])
                  ELSE UNCHANGED req
          ELSE UNCHANGED <<challenge, counter, req>>
       /\ UNCHANGED <<factors, user, session, browser, stale>>

(* enableMfa writes the flag and the codes, not the secret it checked.     *)
enableMfa(b, trust) ==
    LET p == req[b].who
    IN /\ req[b].op = "confirm"
       /\ user' = [user EXCEPT ![p].mfa = TRUE, ![p].backup = TRUE, ![p].confirmed = req[b].secret]
       /\ stale' = IF user[p].secret # req[b].secret THEN stale \cup {"secret"} ELSE stale
       /\ issueSession(p)
       /\ Answer(b, [SignedIn(b, p, trust) EXCEPT !.step = "backup"], left)
       /\ Go(b, Idle)
       /\ UNCHANGED <<factors, counter, challenge>>

keepCodes(b) ==
    /\ browser[b].step = "backup"
    /\ browser' = [browser EXCEPT ![b].step = "panel"]
    /\ UNCHANGED <<factors, user, counter, challenge, session, req, left, stale>>

(***************************************************************************)
(* Verification                                                            *)
(***************************************************************************)

Typed == {"wrong", "code", "backup"}

verifyMfa(b, typed) ==
    LET t == browser[b].challenge
        p == challenge[t].user
        right == typed = "code" /\ user[p].secret = user[p].confirmed
        spare == typed = "backup" /\ user[p].backup
    IN /\ Free(b) /\ browser[b].step = "verify" /\ browser[b].channel = "totp"
       /\ left.signin > 0 /\ left' = Used("signin")
       /\ IF Open(t, "verify")
          THEN /\ consumeChallenge(t) /\ counter' = enforceMfaRateLimit(p)
               /\ IF withinMfa(p) /\ user[p].mfa /\ (right \/ spare)
                  THEN Go(b, [op |-> "verify", at |-> IF right THEN "done" ELSE "spare", who |-> p])
                  ELSE UNCHANGED req
          ELSE UNCHANGED <<challenge, counter, req>>
       /\ UNCHANGED <<factors, user, session, browser, stale>>

(* The set without the code is written back.                               *)
consumeBackupCode(p) == user' = [user EXCEPT ![p].backup = FALSE]

completeMfa(b, trust) ==
    LET p == req[b].who
    IN /\ req[b].op = "verify"
       /\ IF req[b].at = "spare" THEN consumeBackupCode(p) ELSE UNCHANGED user
       /\ issueSession(p)
       /\ Answer(b, SignedIn(b, p, trust), left)
       /\ Go(b, Idle)
       /\ UNCHANGED <<factors, counter, challenge, stale>>

(* The challenge survives a wrong code.                                    *)
verifyEmailOtp(b, right, trust) ==
    LET t == browser[b].challenge
        p == challenge[t].user
    IN /\ Free(b) /\ browser[b].step = "verify" /\ browser[b].channel = "email"
       /\ left.signin > 0 /\ Open(t, "email")
       /\ counter' = enforceMfaRateLimit(p)
       /\ IF withinMfa(p) /\ right
          THEN /\ consumeChallenge(t) /\ issueSession(p)
               /\ Answer(b, SignedIn(b, p, trust), Used("signin"))
          ELSE left' = Used("signin") /\ UNCHANGED <<challenge, session, browser>>
       /\ UNCHANGED <<factors, user, req, stale>>

(***************************************************************************)
(* Using and ending a session                                              *)
(***************************************************************************)

(* Mutant: the row that was read is written back.                          *)
touchRow(b) ==
    session' = [session EXCEPT ![req[b].sid].lapsed = FALSE, ![req[b].sid].revoked = FALSE]
(* validateSession has read the row; touch renews its expiry.              *)
touch(b) ==
    session' = [session EXCEPT ![req[b].sid].lapsed = FALSE]

(* A request of the panel: refused without a live session.                 *)
validateSession(b, op, arg) ==
    /\ Free(b) /\ browser[b].step = "panel" /\ live(browser[b].cookie)
    /\ Go(b, [op |-> op, at |-> "touch", sid |-> browser[b].cookie,
              who |-> session[browser[b].cookie].user, arg |-> arg])
    /\ Spend("staff")
    /\ UNCHANGED <<factors, user, counter, challenge, session, browser, stale>>

(* Only an old enough expiry is renewed.                                   *)
touchSession(b) ==
    /\ req[b] # Idle /\ req[b].at = "touch"
    /\ touch(b) \/ UNCHANGED session
    /\ Go(b, [req[b] EXCEPT !.at = "authorize"])
    /\ UNCHANGED <<factors, user, counter, challenge, browser, left, stale>>

redirectToSignIn(b) ==
    /\ Free(b) /\ browser[b].step = "panel" /\ ~live(browser[b].cookie)
    /\ browser' = [browser EXCEPT ![b] = [FirstForm EXCEPT !.device = browser[b].device]]
    /\ UNCHANGED <<factors, user, counter, challenge, session, req, left, stale>>

logout(b) ==
    /\ req[b] # Idle /\ req[b].op = "logout" /\ req[b].at = "authorize"
    /\ session' = [session EXCEPT ![req[b].sid].revoked = TRUE]
    /\ browser' = [browser EXCEPT ![b] = [FirstForm EXCEPT !.device = browser[b].device]]
    /\ Go(b, Idle)
    /\ UNCHANGED <<factors, user, counter, challenge, left, stale>>

revokeAllForUser(p) ==
    session' = [s \in DOMAIN session |->
                   IF session[s].user = p THEN [session[s] EXCEPT !.revoked = TRUE] ELSE session[s]]

(***************************************************************************)
(* Time                                                                    *)
(***************************************************************************)

windowEnds(k) ==
    /\ counter[k].ends /\ Spend("clock")
    /\ counter' = [counter EXCEPT ![k] = [n |-> 0, ends |-> FALSE]]
    /\ UNCHANGED <<factors, user, challenge, session, browser, req, stale>>

challengeExpires(t) ==
    /\ challenge[t].kind \notin {"none", "gone"} /\ Spend("clock")
    /\ consumeChallenge(t)
    /\ UNCHANGED <<factors, user, counter, session, browser, req, stale>>

sessionExpires(s) ==
    /\ live(s) /\ Spend("clock")
    /\ session' = [session EXCEPT ![s].lapsed = TRUE]
    /\ UNCHANGED <<factors, user, counter, challenge, browser, req, stale>>

deviceExpires(b) ==
    /\ browser[b].device # "none" /\ Spend("clock")
    /\ browser' = [browser EXCEPT ![b].device = "none"]
    /\ UNCHANGED <<factors, user, counter, challenge, session, req, stale>>

reload(b) ==
    /\ Free(b) /\ browser[b].step \notin {"credentials", "panel"} /\ Spend("clock")
    /\ browser' = [browser EXCEPT ![b] =
           [FirstForm EXCEPT !.device = browser[b].device, !.cookie = browser[b].cookie,
                             !.step = IF browser[b].cookie # 0 THEN "panel" ELSE "credentials"]]
    /\ UNCHANGED <<factors, user, counter, challenge, session, req, stale>>

SignInNext ==
    \/ \E b \in Browsers, p \in Visitors :
          \/ register(b, p)
          \/ \E right \in BOOLEAN : loginRefused(b, p, right)
          \/ loginTrusted(b, p)
          \/ loginChallenged(b, p)
          \/ loginWithFederatedIdentity(b, p)
    \/ \E b \in Browsers, method \in {"email", "totp", "totp_setup"} :
          chooseSecondFactor(b, method) \/ chooseRefused(b, method)
    \/ \E b \in Browsers :
          \/ googleStart(b) \/ googleCallbackFails(b)
          \/ chooseAnother(b) \/ setupMfa(b) \/ keepCodes(b) \/ logout(b) \/ touchSession(b)
          \/ redirectToSignIn(b) \/ deviceExpires(b) \/ reload(b)
          \/ \E right, trust \in BOOLEAN :
                \/ confirmMfaSetup(b, right) \/ verifyEmailOtp(b, right, trust)
                \/ enableMfa(b, trust) \/ completeMfa(b, trust)
          \/ \E typed \in Typed : verifyMfa(b, typed)
    \/ \E k \in Keys : windowEnds(k) \/ incrementStopped(k)
    \/ \E t \in 1..MaxChallenges : challengeExpires(t)
    \/ \E s \in 1..MaxSessions : sessionExpires(s)
===============================================================================
