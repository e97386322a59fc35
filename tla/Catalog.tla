-------------------------------- MODULE Catalog --------------------------------
(***************************************************************************)
(* Events: their creation with a slug that is unique over all producers,   *)
(* their details, their status as the staff panel drives it, and the way   *)
(* from a public address to the producer's database.  An event exists in   *)
(* its producer's database; addresses are routed by the platform's, and    *)
(* the two are never written together.                                     *)
(***************************************************************************)
EXTENDS Naturals, FiniteSets

CONSTANTS
    Orgs, Db,             \* producers, and the database of each
    Slugs, MaxSuffix,     \* the slugs titles give, and how often one may repeat (a bound)
    Events,               \* event ids, numbered from 1
    Tabs, Staff,          \* tabs of the panel, and the producer each belongs to
    Instances,            \* processes of the web application
    Scenarios             \* bounds: what there is at first (events, phones known), and
                          \* how often each kind of thing happens

VARIABLES
    org,       \* Organization and Tenant rows
    ref,       \* PublicRef rows of the platform: whose an address is
    kept,      \* the cache's copies of them
    warm,      \* the producers whose services each process has built
    event,     \* Event rows, with the number of their batches
    tab,       \* the event page a tab shows, as it was when loaded
    call,      \* what a tab's request has still to do
    left       \* what the bounds still allow

catalogVars == <<org, ref, kept, warm, event, tab, call>>

Statuses == {"DRAFT", "PUBLISHED", "SALES_PAUSED", "SALES_CLOSED", "POSTPONED",
             "CANCELLED", "COMPLETED", "ARCHIVED"}
TerminalStates == {"CANCELLED", "COMPLETED", "ARCHIVED"}
Details == {"startsAt", "venueName", "city"}
SlugKeys == {<<"EVENT_SLUG", <<s, n>>>> : s \in Slugs, n \in 1..MaxSuffix}
IdKeys == {<<"EVENT_ID", e>> : e \in Events}

NoSlug == <<"none", 0>>
newEvent(o, slug, fee) ==
    [org |-> o, slug |-> slug, status |-> "DRAFT", has |-> {}, batches |-> 0, published |-> FALSE, fee |-> fee]
NoEvent == newEvent("none", NoSlug, 0)
exists(e) == event[e] # NoEvent
named(k, e, slug) == IF k[1] = "EVENT_ID" THEN k[2] = e ELSE k[2] = slug
terminal(e) == event[e].status \in TerminalStates
NoPage == [event |-> 0, status |-> "DRAFT"]
NoCall == [op |-> "none"]

(* What there is at first: producers' events, none of a slug another has,  *)
(* and complete if they were ever on sale.                                 *)
OnceOnSale == {"PUBLISHED", "SALES_PAUSED", "SALES_CLOSED", "POSTPONED"}
complete(row) == row.has = Details /\ row.batches > 0
EventRow ==
    [org : Orgs \cup {"none"}, slug : (Slugs \X (1..MaxSuffix)) \cup {NoSlug}, status : Statuses,
     has : SUBSET Details, batches : {0, 1}, published : BOOLEAN, fee : {0, 1}]
Stored(row) == row.org \in Orgs /\ row.slug # NoSlug
WellFormed(rows) ==
    /\ rows \in [Events -> EventRow]
    /\ \A e \in Events : /\ rows[e] = NoEvent \/ Stored(rows[e])
                         /\ rows[e].status \in OnceOnSale => complete(rows[e])
    /\ \A e, f \in Events : Stored(rows[e]) /\ rows[e].slug = rows[f].slug => e = f
ASSUME CatalogAssumption ==
    /\ "none" \notin Orgs /\ Events \subseteq Nat \ {0} /\ MaxSuffix \in Nat
    /\ Staff \in [Tabs -> Orgs]
    /\ \A s \in Scenarios : WellFormed(s.events)

Spend(kind) == left[kind] > 0 /\ left' = [left EXCEPT ![kind] = @ - 1]

(***************************************************************************)
(* From an address to a producer                                           *)
(***************************************************************************)

(* TRUE when the key was free or is already this producer's.               *)
reserve(k, o) == ref[k] \in {"none", o}
reserved(k, o) == [ref EXCEPT ![k] = IF @ = "none" THEN o ELSE @]

(* A kept answer is never looked up again; only an owner found is kept.    *)
resolveOrgByRef(k) == IF kept[k] # "none" THEN kept[k] ELSE ref[k]
keepRef(k) == kept' = [kept EXCEPT ![k] = resolveOrgByRef(k)]

(* A process builds a producer's services once, while the tenant is        *)
(* active, and keeps them.                                                 *)
mayServe(i, o) == o # "none" /\ (o \in warm[i] \/ org[o].tenant = "ACTIVE")
getTenantServices(i, o) ==
    warm' = IF mayServe(i, o) THEN [warm EXCEPT ![i] = @ \cup {o}] ELSE warm

visit(i, k) ==
    /\ Spend("visits")
    /\ keepRef(k)
    /\ getTenantServices(i, resolveOrgByRef(k))
    /\ UNCHANGED <<org, ref, event, tab, call>>

(* An operator of the platform suspends a tenant or lets it back; processes start anew.  *)
suspendTenant(o) ==
    /\ Spend("admin")
    /\ org' = [org EXCEPT ![o].tenant = IF @ = "ACTIVE" THEN "SUSPENDED" ELSE "ACTIVE"]
    /\ UNCHANGED <<ref, kept, warm, event, tab, call>>
recycle(i) ==
    /\ Spend("admin")
    /\ warm' = [warm EXCEPT ![i] = {}]
    /\ UNCHANGED <<org, ref, kept, event, tab, call>>

setOrgDefaultFee(o) ==
    /\ Spend("admin")
    /\ org' = [org EXCEPT ![o].fee = 1 - @]
    /\ UNCHANGED <<ref, kept, warm, event, tab, call>>
setEventFee(e) ==
    /\ Spend("admin") /\ exists(e)
    /\ event' = [event EXCEPT ![e].fee = 1 - @]
    /\ UNCHANGED <<org, ref, kept, warm, tab, call>>

(***************************************************************************)
(* Creation: the slug is reserved, the event is written, its id is         *)
(* reserved.                                                               *)
(***************************************************************************)
Go(t, c) == call' = [call EXCEPT ![t] = c]
Free(t) == call[t] = NoCall

findAnyBySlug(o, slug) == \E e \in Events : exists(e) /\ Db[event[e].org] = Db[o] /\ event[e].slug = slug

(* Mutant: a slug of another producer is taken all the same.               *)
resolveUniqueSlugHere(o, s) ==
    {n \in 1..MaxSuffix : ~findAnyBySlug(o, <<s, n>>)
        /\ \A m \in 1..(n - 1) : findAnyBySlug(o, <<s, m>>)}

(* The first repetition of the slug that is free; at most one.  After a    *)
(* hundred of them the code takes a random slug without a look; MaxSuffix  *)
(* stays below.                                                            *)
resolveUniqueSlug(o, s) ==
    LET free(n) == ~findAnyBySlug(o, <<s, n>>) /\ reserve(<<"EVENT_SLUG", <<s, n>>>>, o)
    IN {n \in 1..MaxSuffix : free(n) /\ \A m \in 1..(n - 1) : ~free(m)}

submitNewEvent(t, s) ==
    LET o == Staff[t]
    IN /\ Free(t) /\ Spend("staff")
       /\ \E n \in resolveUniqueSlug(o, s) :
            /\ ref' = reserved(<<"EVENT_SLUG", <<s, n>>>>, o)
            /\ Go(t, [op |-> "create", slug |-> <<s, n>>, fee |-> org[o].fee])
       /\ UNCHANGED <<org, kept, warm, event, tab>>

(* The database refuses a slug it already has: the form shows an error.    *)
createEvent(t) ==
    LET c == call[t]
        row == newEvent(Staff[t], c.slug, c.fee)
    IN /\ c.op = "create"
       /\ \/ /\ findAnyBySlug(Staff[t], c.slug)
             /\ Go(t, NoCall) /\ UNCHANGED event
          \/ /\ ~findAnyBySlug(Staff[t], c.slug)
             /\ \E e \in Events :
                   /\ ~exists(e) /\ \A x \in Events : x < e => exists(x)
                   /\ event' = [event EXCEPT ![e] = row]
                   /\ Go(t, [op |-> "route", event |-> e])
       /\ UNCHANGED <<org, ref, kept, warm, tab, left>>

routeEvent(t) ==
    /\ call[t].op = "route"
    /\ ref' = reserved(<<"EVENT_ID", call[t].event>>, Staff[t])
    /\ Go(t, NoCall)
    /\ tab' = [tab EXCEPT ![t] = [event |-> call[t].event, status |-> event[call[t].event].status]]
    /\ UNCHANGED <<org, kept, warm, event, left>>

(* The process ends in the middle of a request.                            *)
stop(t) ==
    /\ ~Free(t) /\ Spend("faults")
    /\ Go(t, NoCall)
    /\ UNCHANGED <<org, ref, kept, warm, event, tab>>

(***************************************************************************)
(* Details                                                                 *)
(***************************************************************************)
openEvent(t, e) ==
    /\ Free(t) /\ Spend("staff") /\ exists(e) /\ event[e].org = Staff[t]
    /\ tab' = [tab EXCEPT ![t] = [event |-> e, status |-> event[e].status]]
    /\ UNCHANGED <<org, ref, kept, warm, event, call>>

Editing(t) == Free(t) /\ tab[t].event # 0 /\ ~terminal(tab[t].event)

(* A form sends only the fields that hold something: a detail once given   *)
(* is changed, never taken away.                                           *)
updateEventDetails(t, d) ==
    /\ Editing(t) /\ Spend("staff")
    /\ event' = [event EXCEPT ![tab[t].event].has = @ \cup {d}]
    /\ tab' = [tab EXCEPT ![t].status = event[tab[t].event].status]
    /\ UNCHANGED <<org, ref, kept, warm, call>>

(* Inventory models what a batch goes through; none is ever deleted.       *)
createSalesBatch(t) ==
    /\ Editing(t) /\ Spend("staff") /\ event[tab[t].event].batches = 0
    /\ event' = [event EXCEPT ![tab[t].event].batches = 1]
    /\ UNCHANGED <<org, ref, kept, warm, tab, call>>

(***************************************************************************)
(* Status                                                                  *)
(***************************************************************************)
EVENT_TRANSITIONS ==
    [s \in Statuses |->
        CASE s = "DRAFT" -> {"PUBLISHED", "CANCELLED", "ARCHIVED"}
          [] s = "PUBLISHED" -> {"SALES_PAUSED", "SALES_CLOSED", "POSTPONED", "CANCELLED"}
          [] s = "SALES_PAUSED" -> {"PUBLISHED", "SALES_CLOSED", "POSTPONED", "CANCELLED"}
          [] s = "SALES_CLOSED" -> {"COMPLETED", "POSTPONED", "CANCELLED"}
          [] s = "POSTPONED" -> {"PUBLISHED", "CANCELLED"}
          [] s = "COMPLETED" -> {"ARCHIVED"}
          [] OTHER -> {}]

(* Mutant: a draft offers to resume its sales.                             *)
salesActionsOfDraft(s) ==
    IF s \in {"DRAFT", "SALES_PAUSED", "POSTPONED"} THEN {"resume"} ELSE {}

(* What the panel offers, for the status it shows.                         *)
salesActions(s) ==
    CASE s = "PUBLISHED" -> {"pause", "close_sales"}
      [] s = "SALES_PAUSED" -> {"resume", "close_sales"}
      [] s = "SALES_CLOSED" -> {"complete"}
      [] s = "POSTPONED" -> {"resume"}
      [] OTHER -> {}
lifecycleActions(s) ==
    CASE s \in {"CANCELLED", "ARCHIVED"} -> {}
      [] s = "COMPLETED" -> {"archive"}
      [] s \in {"PUBLISHED", "SALES_PAUSED", "SALES_CLOSED"} -> {"postpone", "cancel"}
      [] OTHER -> {"cancel"}
offered(s) == salesActions(s) \cup lifecycleActions(s) \cup IF s = "DRAFT" THEN {"publish"} ELSE {}

applyAction ==
    [publish |-> "PUBLISHED", pause |-> "SALES_PAUSED", resume |-> "PUBLISHED",
     close_sales |-> "SALES_CLOSED", postpone |-> "POSTPONED", cancel |-> "CANCELLED",
     complete |-> "COMPLETED", archive |-> "ARCHIVED"]

(* The checks of a request, on the row it read.                            *)
allowed(e, a) ==
    /\ applyAction[a] \in EVENT_TRANSITIONS[event[e].status]
    /\ a \in {"publish", "cancel"} => ~terminal(e)
    /\ a = "publish" => complete(event[e])

runConfirmed(t, a) ==
    LET e == tab[t].event
    IN /\ Free(t) /\ e # 0 /\ a \in offered(tab[t].status) /\ Spend("staff")
       /\ allowed(e, a)
       /\ Go(t, [op |-> "transition", event |-> e, to |-> applyAction[a]])
       /\ UNCHANGED <<org, ref, kept, warm, event, tab>>

(* The write names no status it must find: of two requests that read the   *)
(* same status both write.  The page is then refreshed.                    *)
transition(t) ==
    LET c == call[t]
    IN /\ c.op = "transition"
       /\ event' = [event EXCEPT ![c.event].status = c.to,
                                 ![c.event].published = @ \/ c.to = "PUBLISHED"]
       /\ tab' = [tab EXCEPT ![t] = [event |-> c.event, status |-> c.to]]
       /\ Go(t, NoCall)
       /\ UNCHANGED <<org, ref, kept, warm, left>>

(***************************************************************************)
(* The whole                                                               *)
(***************************************************************************)
CatalogInit ==
    /\ org = [o \in Orgs |-> [tenant |-> "ACTIVE", fee |-> 0]]
    /\ \E s \in Scenarios :
         /\ left = s.left /\ event = s.events
         /\ ref = [k \in SlugKeys \cup IdKeys |->
               LET mine == {e \in Events : s.events[e].org # "none"
                                           /\ named(k, e, s.events[e].slug)}
               IN IF mine = {} THEN "none" ELSE s.events[CHOOSE e \in mine : TRUE].org]
    /\ kept = [k \in SlugKeys \cup IdKeys |-> "none"]
    /\ warm = [i \in Instances |-> {}]
    /\ tab = [t \in Tabs |-> NoPage]
    /\ call = [t \in Tabs |-> NoCall]

CatalogNext ==
    \/ \E i \in Instances : recycle(i) \/ \E k \in SlugKeys \cup IdKeys : visit(i, k)
    \/ \E o \in Orgs : suspendTenant(o) \/ setOrgDefaultFee(o)
    \/ \E e \in Events : setEventFee(e) \/ \E t \in Tabs : openEvent(t, e)
    \/ \E t \in Tabs : \/ createEvent(t) \/ routeEvent(t) \/ stop(t)
                       \/ createSalesBatch(t) \/ transition(t)
                       \/ \E s \in Slugs : submitNewEvent(t, s)
                       \/ \E d \in Details : updateEventDetails(t, d)
                       \/ \E a \in DOMAIN applyAction : runConfirmed(t, a)

CatalogTypeOK ==
    /\ org \in [Orgs -> [tenant : {"ACTIVE", "SUSPENDED"}, fee : {0, 1}]]
    /\ ref \in [SlugKeys \cup IdKeys -> Orgs \cup {"none"}]
    /\ kept \in [SlugKeys \cup IdKeys -> Orgs \cup {"none"}]
    /\ warm \in [Instances -> SUBSET Orgs]
    /\ \A e \in Events : event[e].status \in Statuses /\ event[e].has \subseteq Details
    /\ \A t \in Tabs : tab[t].event \in Events \cup {0} /\ tab[t].status \in Statuses

(* An event is on sale only with a date, a place and a batch, although     *)
(* resuming, unlike publishing, does not look at them and the page that    *)
(* offers it may be old.                                                   *)
PublishedIsComplete == \A e \in Events : event[e].status = "PUBLISHED" => complete(event[e])

(* The public address of an event leads to its producer, from the moment   *)
(* it exists, and to no other event, with producers creating events of     *)
(* the same title in databases of their own.                               *)
AddressLeadsHome ==
    \A e \in Events : exists(e) =>
        LET k == <<"EVENT_SLUG", event[e].slug>>
        IN resolveOrgByRef(k) = event[e].org
           /\ \A f \in Events \ {e} : event[f].slug # event[e].slug
================================================================================
