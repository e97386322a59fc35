------------------------------- MODULE Customers -------------------------------
(***************************************************************************)
(* The customers of one producer: leads the checkout captures, buyers the  *)
(* fulfilment records, opt-outs, segments, the recognition of a returning  *)
(* buyer by phone, and the erasure of personal data, on request and by the *)
(* retention job.  A customer is known by e-mail, unique in the table;     *)
(* orders hold their own copy of it.                                       *)
(***************************************************************************)
EXTENDS Catalog, FiniteSetsExt

CONSTANTS
    People, Phones,
    FirstId,              \* an id for each of them, for those known at the start
    Orders, Workers       \* orders, and requests and jobs at work at once

ASSUME CustomersAssumption ==
    /\ IsFiniteSet(People) /\ FirstId \in [People -> Nat \ {0}]
    /\ \A p, q \in People : FirstId[p] = FirstId[q] => p = q

VARIABLES
    cust,      \* Customer rows, by e-mail
    order,     \* the buyer's part of Order rows
    job,       \* what each request or job has read and has still to do
    erased,    \* people whose erasure has ended since it was last begun
    given,     \* people whose data came in again since then, or was on its way
    quiet      \* checkout tabs since whose look-up no customer was written

customerVars == <<cust, order, job, erased, given, quiet>>

NoPhone == "no phone"
NoPerson == "nobody"
Email(p) == <<"real", p>>
pseudonymFor(email) == <<IF email[1] = "real" THEN "anon" ELSE "again", email[2]>>
Emails == {"real", "anon", "again"} \X People    \* a bound: "again" is given no pseudonym

(* Ages: a date is recent, or older than the time data is kept.            *)
Ages == {"never", "recent", "old"}
NoCustomer == [id |-> 0, phone |-> NoPhone, opted |-> FALSE, bought |-> "never",
               turn |-> 0, consent |-> "never", anon |-> FALSE]
NoOrder == [email |-> Email(NoPerson), phone |-> NoPhone, status |-> "NONE", paid |-> "never", turn |-> 0,
            issued |-> FALSE]
known(email) == cust[email] # NoCustomer
NextId == 1 + Max({cust[m].id : m \in Emails})
Idle == [op |-> "none"]

(* Personal data of a person that is in the tables, or in a request.       *)
Holds(p) == \/ known(Email(p))
            \/ \E o \in Orders : order[o].email = Email(p)
Erasing(p) == \E w \in Workers : job[w].op \in {"orders", "customer"}
                                  /\ \E r \in job[w].rows : r.email = Email(p)
Underway(p) == \E w \in Workers : job[w].op \in {"fulfil", "lead"} /\ job[w].email = Email(p)

(* Rows by the date of the last purchase, latest first: NULLs come before  *)
(* every date in a descending order, so a lead before a buyer.  The turn   *)
(* of a purchase tells dates of the same age apart.                        *)
before(m, n) ==
    \/ cust[m].turn = 0 /\ cust[n].turn > 0
    \/ cust[m].turn > cust[n].turn /\ cust[n].turn > 0
    \/ cust[m].turn = 0 /\ cust[n].turn = 0 /\ cust[m].id <= cust[n].id
    \/ m = n
findByPhone(phone) ==
    LET rows == {m \in Emails : known(m) /\ cust[m].phone = phone /\ ~cust[m].anon}
    IN {m \in rows : \A n \in rows : before(m, n)}

(* A row that exists keeps its opt-out, and its phone if none is given.    *)
upsert(email, phone, consent) ==
    LET c == cust[email]
    IN [cust EXCEPT ![email] = [c EXCEPT !.id = IF c.id = 0 THEN NextId ELSE c.id,
                                         !.phone = IF phone = NoPhone THEN c.phone ELSE phone,
                                         !.consent = consent]]

(***************************************************************************)
(* Orders and leads                                                        *)
(***************************************************************************)
placeOrder(o, email, phone) ==
    /\ order' = [order EXCEPT ![o] = [NoOrder EXCEPT !.email = email, !.phone = phone,
                                                 !.status = "AWAITING_PAYMENT"]]
    /\ given' = given \cup {email[2]}

markOrderPaid(o) ==
    [order EXCEPT ![o].status = "PAID", ![o].paid = "recent",
                  ![o].turn = 1 + Cardinality({x \in Orders : order[x].turn > 0})]
payOrder(o) ==
    /\ order[o].status = "AWAITING_PAYMENT"
    /\ order' = markOrderPaid(o)
    /\ UNCHANGED <<cust, job, erased, given, quiet, left>>

(* The fulfilment issues the tickets, then reads the order and records its *)
(* buyer.  Run again it finds tickets and ends, unless the two run at once *)
(* and issue some of them each.                                            *)
fulfil(w, o) ==
    /\ job[w] = Idle /\ order[o].status = "PAID" /\ Spend("crm")
    /\ ~order[o].issued \/ \E v \in Workers : job[v] = [op |-> "issued", order |-> o]
    /\ order' = [order EXCEPT ![o].issued = TRUE]
    /\ job' = [job EXCEPT ![w] = [op |-> "issued", order |-> o]]
    /\ UNCHANGED <<cust, erased, given, quiet>>
readOrder(w) ==
    LET o == order[job[w].order]
    IN /\ job[w].op = "issued"
       /\ job' = [job EXCEPT ![w] = [op |-> "fulfil", email |-> o.email, phone |-> o.phone,
                                     paid |-> o.paid, turn |-> o.turn]]
       /\ given' = IF o.email[1] = "real" THEN given \cup {o.email[2]} ELSE given
       /\ UNCHANGED <<cust, order, erased, quiet, left>>
upsertFromPaidOrder(w) ==
    LET j == job[w]
    IN /\ j.op = "fulfil"
       /\ cust' = [upsert(j.email, j.phone, j.paid) EXCEPT ![j.email].bought = j.paid, ![j.email].turn = j.turn]
       /\ job' = [job EXCEPT ![w] = Idle] /\ quiet' = {}
       /\ UNCHANGED <<order, erased, given, left>>

(* A lead is looked for, then written: one that came in between is         *)
(* overwritten.                                                            *)
captureLead(w, p, phone) ==
    /\ job[w] = Idle /\ ~known(Email(p))
    /\ job' = [job EXCEPT ![w] = [op |-> "lead", email |-> Email(p), phone |-> phone]]
    /\ given' = given \cup {p}
    /\ UNCHANGED <<cust, order, erased, quiet>>
upsertLead(w) ==
    LET j == job[w]
    IN /\ j.op = "lead"
       /\ cust' = upsert(j.email, j.phone, "recent")
       /\ job' = [job EXCEPT ![w] = Idle] /\ quiet' = {}
       /\ UNCHANGED <<order, erased, given, left>>

setOptOut(email, out) ==
    /\ Spend("crm") /\ known(email) /\ cust[email].opted # out
    /\ cust' = [cust EXCEPT ![email].opted = out]
    /\ UNCHANGED <<order, job, erased, given, quiet>>

(* Months pass, more than data is kept; no request lasts as long.          *)
monthsPass ==
    /\ Spend("crm") /\ \A w \in Workers : job[w] = Idle
    /\ order' = [o \in Orders |-> [order[o] EXCEPT !.paid = IF @ = "recent" THEN "old" ELSE @]]
    /\ cust' = [m \in Emails |->
           [cust[m] EXCEPT !.bought = IF @ = "recent" THEN "old" ELSE @,
                           !.consent = IF @ = "recent" THEN "old" ELSE @]]
    /\ UNCHANGED <<job, erased, given, quiet>>

(***************************************************************************)
(* Erasure: first the orders, found by the e-mail, then the customer.      *)
(***************************************************************************)
Row(email) == [email |-> email, id |-> cust[email].id]
(* What came in before an erasure begins is its to erase, unless another   *)
(* one of the same person is underway and may end first.                   *)
begin(rows) ==
    LET them == {r.email[2] : r \in {r \in rows : r.email[1] = "real"}}
    IN /\ erased' = erased \ them
       /\ given' = {p \in given : p \notin them \/ Erasing(p)} \cup {p \in them : Underway(p)}

anonymizeCustomer(w, email) ==
    /\ job[w] = Idle /\ Spend("crm") /\ known(email) /\ ~cust[email].anon /\ email[1] # "again"
    /\ begin({Row(email)})
    /\ job' = [job EXCEPT ![w] = [op |-> "orders", rows |-> {Row(email)}, row |-> Row(email), then |-> "no run"]]
    /\ UNCHANGED <<cust, order, quiet>>

listAnonymizationCandidates ==
    {Row(m) : m \in {m \in Emails : known(m) /\ ~cust[m].anon /\ cust[m].bought = "old"
                                    /\ m[1] # "again"}}
listLeadAnonymizationCandidates ==
    {Row(m) : m \in {m \in Emails : known(m) /\ ~cust[m].anon
                                    /\ cust[m].bought = "never" /\ cust[m].consent = "old"}}

(* Buyers first, then leads; `then` is what a job looks up when it is done *)
(* with the rows it has.                                                   *)
Retains(w, rows, then) ==
    \/ /\ rows = {} /\ UNCHANGED <<erased, given>>
       /\ job' = [job EXCEPT ![w] = IF then = "leads" THEN [op |-> "leads"] ELSE Idle]
    \/ /\ begin(rows)
       /\ \E r \in rows :
            job' = [job EXCEPT ![w] = [op |-> "orders", rows |-> rows, row |-> r, then |-> then]]
runRetention(w) ==
    /\ job[w] = Idle /\ Spend("crm") /\ listAnonymizationCandidates \cup listLeadAnonymizationCandidates # {}
    /\ Retains(w, listAnonymizationCandidates, "leads")
    /\ UNCHANGED <<cust, order, quiet>>
runLeads(w) ==
    /\ job[w].op = "leads"
    /\ Retains(w, listLeadAnonymizationCandidates, "end")
    /\ UNCHANGED <<cust, order, quiet, left>>

(* Mutant: only the orders that were paid are anonymized.                  *)
anonymizePaid(email) ==
    [o \in Orders |-> IF order[o].email = email /\ order[o].status = "PAID"
        THEN [order[o] EXCEPT !.email = pseudonymFor(email), !.phone = NoPhone] ELSE order[o]]

ordersAnonymized(email) ==
    [o \in Orders |-> IF order[o].email = email
        THEN [order[o] EXCEPT !.email = pseudonymFor(email), !.phone = NoPhone] ELSE order[o]]

anonymizeBuyer(w) ==
    LET j == job[w]
    IN /\ j.op = "orders"
       /\ order' = ordersAnonymized(j.row.email)
       /\ job' = [job EXCEPT ![w].op = "customer"]
       /\ UNCHANGED <<cust, erased, given, quiet, left>>

(* The row is found by its id.  Its pseudonym may be taken, by the row the *)
(* same person left at an earlier erasure, or one a fulfilment has made    *)
(* since the orders were changed: the write is refused, and a retention    *)
(* run ends there.                                                         *)
taken(r) == LET m == cust[pseudonymFor(r.email)] IN m # NoCustomer /\ m.id # r.id
anonymize(w) ==
    LET j == job[w]
        at == CHOOSE m \in Emails : cust[m].id = j.row.id
        gone == [cust[at] EXCEPT !.phone = NoPhone, !.opted = TRUE, !.anon = TRUE]
        rest == j.rows \ {j.row}
    IN /\ j.op = "customer"
       /\ \/ /\ taken(j.row)
             /\ job' = [job EXCEPT ![w] = Idle] /\ UNCHANGED <<cust, erased>>
          \/ /\ ~taken(j.row)
             /\ cust' = [cust EXCEPT ![at] = NoCustomer, ![pseudonymFor(j.row.email)] = gone]
             /\ erased' = erased \cup IF j.row.email[1] = "real" THEN {j.row.email[2]} ELSE {}
             /\ \/ rest = {} /\ job' = [job EXCEPT ![w] = IF j.then = "leads" THEN [op |-> "leads"] ELSE Idle]
                \/ \E r \in rest : job' = [job EXCEPT ![w] = [j EXCEPT !.op = "orders", !.rows = rest, !.row = r]]
       /\ quiet' = {}
       /\ UNCHANGED <<order, given, left>>

(* The process ends between two steps; the rest of a run is left undone,   *)
(* and of an order's tickets some may be.                                  *)
stopJob(w) ==
    /\ job[w] # Idle /\ Spend("faults")
    /\ job' = [job EXCEPT ![w] = Idle]
    /\ \/ UNCHANGED order
       \/ job[w].op = "issued" /\ order' = [order EXCEPT ![job[w].order].issued = FALSE]
    /\ UNCHANGED <<cust, erased, given, quiet>>

(* Those a campaign is sent to: buyers by what they paid for, and leads.   *)
computeSegment(leads, everyone) ==
    LET buyers == {order[o].email : o \in {o \in Orders : order[o].status = "PAID"}}
        base == IF leads THEN {m \in Emails : known(m) /\ ~cust[m].anon} ELSE buyers
    IN {m \in base : everyone \/ ~cust[m].opted}

(***************************************************************************)
(* The whole                                                               *)
(***************************************************************************)
(* The scenario says who left which phone at an earlier visit.             *)
CustomersInit ==
    /\ \E s \in Scenarios :
         /\ s.left = left /\ s.events = event
         /\ cust = [m \in Emails |->
                IF m[1] = "real" /\ s.phones[m[2]] # NoPhone
                THEN [NoCustomer EXCEPT !.id = FirstId[m[2]], !.phone = s.phones[m[2]], !.consent = "recent"]
                ELSE NoCustomer]
    /\ order = [o \in Orders |-> NoOrder]
    /\ job = [w \in Workers |-> Idle]
    /\ erased = {} /\ given = {} /\ quiet = {}

(* An order placed with its buyer's e-mail; Shop models the checkout.      *)
checkout(o, p, phone) ==
    /\ order[o] = NoOrder /\ Spend("crm")
    /\ placeOrder(o, Email(p), phone)
    /\ UNCHANGED <<cust, job, erased, quiet>>

CustomersNext ==
    \/ \E o \in Orders :
         \/ payOrder(o) \/ \E w \in Workers : fulfil(w, o)
         \/ \E p \in People, phone \in Phones : checkout(o, p, phone)
    \/ \E w \in Workers :
         \/ readOrder(w) \/ upsertFromPaidOrder(w) \/ upsertLead(w) \/ runRetention(w) \/ runLeads(w)
         \/ anonymizeBuyer(w) \/ anonymize(w) \/ stopJob(w)
         \/ \E p \in People, phone \in Phones : Spend("crm") /\ captureLead(w, p, phone)
         \/ \E m \in Emails : anonymizeCustomer(w, m)
    \/ \E m \in Emails : setOptOut(m, TRUE) \/ setOptOut(m, FALSE)
    \/ monthsPass

CustomersTypeOK ==
    /\ \A m \in Emails : cust[m].bought \in Ages /\ (cust[m].anon => m[1] # "real" /\ cust[m].phone = NoPhone)
    /\ \A o \in Orders : order[o].email \in Emails \cup {NoOrder.email}

(* Data that was erased does not come back (service.ts 197-203 and 255-279): *)
(* once a person's erasure has ended, no customer and no order holds the   *)
(* person's data, whatever is paid, fulfilled again or retained later,     *)
(* unless it came in anew or was on its way when the erasure began.        *)
ErasedStaysErased == \A p \in erased \ given : ~Holds(p)

(* A retention run anonymizes everyone it found, and can be run again      *)
(* (service.ts 169: "idempotent").                                         *)
RetentionReachesAll ==
    [][\A w \in Workers :
         job[w].op = "customer" /\ job[w].then # "no run" /\ job'[w] = Idle =>
             \A m \in Emails, r \in job[w].rows : cust'[m].id = r.id => cust'[m].anon]_<<cust, job>>
================================================================================
