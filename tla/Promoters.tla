------------------------------- MODULE Promoters -------------------------------
(***************************************************************************)
(* A producer's promoters: their private report links, logins, events,     *)
(* links, coupons and commission rules, as staff set them up.  What they   *)
(* earn is in Books.                                                       *)
(***************************************************************************)
EXTENDS Catalog, Sequences

CONSTANTS
    Names,              \* promoters
    Employer,           \* the producer each works for
    Tokens, Codes       \* report tokens (random, never twice), coupon codes

VARIABLES
    promoter,           \* Promoter rows, by name
    assigned, link,     \* assignments and links: events of each promoter
    coupon, rule,       \* Coupon and CommissionRule rows, each with its scope
    reportRef,          \* PublicRef rows of the kind PROMOTER_REPORT
    handed,             \* tokens shown to staff, once
    desk                \* what a staff request has still to do

promoterVars == <<promoter, assigned, link, coupon, rule, reportRef, handed, desk>>

OrgWide == 0
NoToken == "no token"
ASSUME PromotersAssumption == NoToken \notin Tokens /\ Employer \in [Names -> Orgs]
NoPromoter == [token |-> NoToken, login |-> FALSE, active |-> TRUE, clicks |-> 0]
hired(p) == promoter[p].token # NoToken
Issued == {promoter[p].token : p \in Names} \cup {desk[t].token : t \in {t \in Tabs : desk[t] # NoCall}}
             \cup handed \cup {k \in Tokens : reportRef[k] # "none"}

Sits(t, d) == desk' = [desk EXCEPT ![t] = d]
Asks(t) == desk[t] = NoCall /\ Spend("promo")

(* The promoter is written, or its token changed; then the token is        *)
(* reserved, and shown.                                                    *)
createPromoter(t, p, token) ==
    /\ Asks(t) /\ ~hired(p) /\ Employer[p] = Staff[t] /\ token \notin Issued
    /\ promoter' = [promoter EXCEPT ![p].token = token]
    /\ Sits(t, [op |-> "reserve", token |-> token])
    /\ UNCHANGED <<assigned, link, coupon, rule, reportRef, handed>>
regenerateReportToken(t, p, token) ==
    /\ Asks(t) /\ hired(p) /\ Employer[p] = Staff[t] /\ token \notin Issued
    /\ promoter' = [promoter EXCEPT ![p].token = token]
    /\ Sits(t, [op |-> "reserve", token |-> token])
    /\ UNCHANGED <<assigned, link, coupon, rule, reportRef, handed>>

reserveReport(t) ==
    /\ desk[t].op = "reserve"
    /\ reportRef' = [reportRef EXCEPT ![desk[t].token] = Staff[t]]
    /\ handed' = handed \cup {desk[t].token}
    /\ Sits(t, NoCall)
    /\ UNCHANGED <<promoter, assigned, link, coupon, rule, left>>

stopRequest(t) ==
    /\ desk[t] # NoCall /\ Spend("faults")
    /\ Sits(t, NoCall)
    /\ UNCHANGED <<promoter, assigned, link, coupon, rule, reportRef, handed>>

(* The promoter whose report a link opens.                                 *)
getPromoterReportByToken(token) ==
    {p \in Names : /\ reportRef[token] # "none" /\ promoter[p].token = token /\ promoter[p].active
                   /\ Db[Employer[p]] = Db[reportRef[token]]}

promoteToLogin(t, p) ==
    /\ Asks(t) /\ hired(p) /\ Employer[p] = Staff[t]
    /\ \A q \in Names \ {p} : Employer[q] = Employer[p] => ~promoter[q].login  \* one membership
    /\ promoter' = [promoter EXCEPT ![p].login = TRUE]
    /\ UNCHANGED <<assigned, link, coupon, rule, reportRef, handed, desk>>

linkPromoterToEvent(t, p, e) ==
    /\ Asks(t) /\ hired(p) /\ Employer[p] = Staff[t] /\ exists(e) /\ event[e].org = Staff[t]
    /\ assigned' = assigned \cup {<<p, e>>}
    /\ UNCHANGED <<promoter, link, coupon, rule, reportRef, handed, desk>>

(* One link for a promoter and an event; asked again, the same.            *)
createLink(t, p, e) ==
    /\ Asks(t) /\ <<p, e>> \in assigned /\ event[e].org = Staff[t]
    /\ link' = link \cup {<<p, e>>}
    /\ UNCHANGED <<promoter, assigned, coupon, rule, reportRef, handed, desk>>
incrementClick(p, e) ==
    /\ <<p, e>> \in link /\ Spend("visits")
    /\ promoter' = [promoter EXCEPT ![p].clicks = @ + 1]
    /\ UNCHANGED <<assigned, link, coupon, rule, reportRef, handed, desk>>

InScope(t, e) == IF e = OrgWide THEN TRUE ELSE exists(e) /\ event[e].org = Staff[t]

(* A coupon of all events (OrgWide) or of one.  The code is looked for,    *)
(* then written: the database refuses a second one of an event, and takes  *)
(* a second one that is organization-wide, as its event is NULL.           *)
findByCode(o, e, code) == {c \in DOMAIN coupon : coupon[c].org = o /\ coupon[c].event = e /\ coupon[c].code = code}
createCoupon(t, e, code) ==
    /\ Asks(t) /\ InScope(t, e) /\ findByCode(Staff[t], e, code) = {}
    /\ Sits(t, [op |-> "coupon", token |-> NoToken, event |-> e, code |-> code])
    /\ UNCHANGED <<promoter, assigned, link, coupon, rule, reportRef, handed>>
insertCoupon(t) ==
    LET d == desk[t]
    IN /\ d.op = "coupon"
       /\ coupon' = IF d.event # OrgWide /\ findByCode(Staff[t], d.event, d.code) # {} THEN coupon
                    ELSE Append(coupon, [org |-> Staff[t], event |-> d.event, code |-> d.code])
       /\ Sits(t, NoCall)
       /\ UNCHANGED <<promoter, assigned, link, rule, reportRef, handed, left>>

(* The coupons a code may stand for: one of the event before one of all.   *)
resolveByCode(o, e, code) ==
    IF findByCode(o, e, code) # {} THEN findByCode(o, e, code) ELSE findByCode(o, OrgWide, code)
eventHasCoupons(o, e) == \E c \in DOMAIN coupon : coupon[c].org = o /\ coupon[c].event \in {e, OrgWide}

(* A rule ends those of its scope, then is written, in one transaction;    *)
(* of two that overlap neither sees the other's rule.                      *)
createSuperseding(t, e) ==
    LET scope == <<Staff[t], e>>
    IN /\ Asks(t) /\ InScope(t, e)
       /\ Sits(t, [op |-> "rule", token |-> NoToken, scope |-> scope,
                   ends |-> {r \in DOMAIN rule : rule[r].scope = scope /\ rule[r].active}])
       /\ UNCHANGED <<promoter, assigned, link, coupon, rule, reportRef, handed>>
insertRule(t) ==
    LET ended == [r \in DOMAIN rule |-> [rule[r] EXCEPT !.active = @ /\ r \notin desk[t].ends]]
    IN /\ desk[t].op = "rule"
       /\ rule' = Append(ended, [scope |-> desk[t].scope, active |-> TRUE])
       /\ Sits(t, NoCall)
       /\ UNCHANGED <<promoter, assigned, link, coupon, reportRef, handed, left>>

PromotersInit ==
    /\ promoter = [p \in Names |-> NoPromoter]
    /\ assigned = {} /\ link = {} /\ coupon = <<>> /\ rule = <<>>
    /\ reportRef = [k \in Tokens |-> "none"]
    /\ handed = {}
    /\ desk = [t \in Tabs |-> NoCall]

PromotersNext ==
    \/ \E t \in Tabs :
         \/ reserveReport(t) \/ stopRequest(t) \/ insertCoupon(t) \/ insertRule(t)
         \/ \E p \in Names :
              \/ promoteToLogin(t, p)
              \/ \E k \in Tokens : createPromoter(t, p, k) \/ regenerateReportToken(t, p, k)
              \/ \E e \in Events : linkPromoterToEvent(t, p, e) \/ createLink(t, p, e)
         \/ \E e \in Events \cup {OrgWide} : createSuperseding(t, e) \/ \E c \in Codes : createCoupon(t, e, c)
    \/ \E p \in Names, e \in Events : incrementClick(p, e)

PromotersTypeOK ==
    /\ \A p \in Names : promoter[p].token \in Tokens \cup {NoToken}
    /\ link \subseteq assigned
    /\ \A c, d \in DOMAIN coupon : coupon[c] = coupon[d] /\ coupon[c].event # OrgWide => c = d

(* A report link that was handed over opens the report of the promoter it  *)
(* was made for, until another is made, through processes that end between *)
(* the write and the reservation and managers who make links at once.      *)
ReportLinksOpen ==
    \A p \in Names : promoter[p].token \in handed => getPromoterReportByToken(promoter[p].token) = {p}
================================================================================
