------------------------------ MODULE StoreProofs ------------------------------
(***************************************************************************)
(* A producer's shop, for any producers, databases, panel tabs, pages,     *)
(* promoters, customers, processes and stops: what is on sale is complete, *)
(* addresses and report links lead where they should, "saved" means        *)
(* stored, data that was erased does not come back, and an order is the    *)
(* one its buyer reviewed.                                                 *)
(***************************************************************************)
EXTENDS Store, Sums, FiniteSetTheorems, SequenceTheorems, TLAPS

-------------------------------------------------------------------------------
(* The catalogue: its rows, tabs and requests                              *)

Keys == SlugKeys \cup IdKeys
SlugKey(slug) == <<"EVENT_SLUG", slug>>

CatalogRows ==
    /\ org \in [Orgs -> [tenant : {"ACTIVE", "SUSPENDED"}, fee : {0, 1}]]
    /\ ref \in [Keys -> Orgs \cup {"none"}]
    /\ kept \in [Keys -> Orgs \cup {"none"}]
    /\ \A k \in Keys : kept[k] \in {"none", ref[k]}
    /\ event \in [Events -> EventRow]
    /\ tab \in [Tabs -> [event : Events \cup {0}, status : Statuses]]
    /\ call = [t \in Tabs |-> call[t]]

(* An event that was ever on sale is complete; the slug of an event is its *)
(* producer's.                                                             *)
EventOK(e) ==
    /\ event[e] = NoEvent \/ Stored(event[e])
    /\ event[e].status \in OnceOnSale => complete(event[e])
    /\ exists(e) => ref[SlugKey(event[e].slug)] = event[e].org

(* A tab shows an event that exists, and one that is complete if the tab   *)
(* shows it as on sale or paused, however old what it shows.               *)
TabOK(t) ==
    tab[t].event # 0 =>
        /\ exists(tab[t].event)
        /\ tab[t].status \in OnceOnSale => complete(event[tab[t].event])

(* A request is about to write an event whose slug is reserved, to reserve *)
(* the id of one that exists, or to put on sale one that is complete.      *)
CallOK(t) ==
    LET c == call[t] IN
    \/ c = NoCall
    \/ /\ c \in [op : {"create"}, slug : Slugs \X (1..MaxSuffix), fee : {0, 1}]
       /\ ref[SlugKey(c.slug)] = Staff[t]
    \/ c \in [op : {"route"}, event : Events] /\ exists(c.event)
    \/ /\ c \in [op : {"transition"}, event : Events, to : Statuses] /\ exists(c.event)
       /\ c.to \in OnceOnSale => complete(event[c.event])

SlugsApart == \A e, f \in Events : exists(e) /\ event[e].slug = event[f].slug => e = f

CatalogInv ==
    /\ CatalogRows /\ SlugsApart
    /\ \A e \in Events : EventOK(e)
    /\ \A t \in Tabs : TabOK(t) /\ CallOK(t)

(* An event exists when it has a producer. *)
LEMMA Exists ==
    ASSUME CatalogRows, NEW e \in Events, EventOK(e)
    PROVE  /\ exists(e) <=> event[e].org # "none"
           /\ exists(e) => /\ Stored(event[e]) /\ event[e].slug \in Slugs \X (1..MaxSuffix)
                           /\ SlugKey(event[e].slug) \in Keys
<1>1. "none" \notin Orgs /\ NoEvent.org = "none"
    BY CatalogAssumption DEF NoEvent, newEvent
<1>2. event[e] \in EventRow /\ (exists(e) => Stored(event[e]))
    BY DEF CatalogRows, EventOK, exists
<1>3. exists(e) => event[e].slug \in Slugs \X (1..MaxSuffix)
    BY <1>2 DEF EventRow, Stored
<1>4. ASSUME NEW s \in Slugs \X (1..MaxSuffix) PROVE SlugKey(s) \in Keys
    BY DEF Keys, SlugKeys, SlugKey
<1>5. QED
    BY <1>1, <1>2, <1>3, <1>4 DEF exists, Stored

(* A slug is a key of the references. *)
LEMMA SlugIsKey == \A s \in Slugs, n \in 1..MaxSuffix : SlugKey(<<s, n>>) \in Keys
BY DEF Keys, SlugKeys, SlugKey

(* An event keeps its producer, its slug and what it has; *)
Keeps(row, new) ==
    /\ new \in EventRow /\ new.org = row.org /\ new.slug = row.slug
    /\ row.has \subseteq new.has /\ row.batches <= new.batches

(* ... one that is written finds its slug reserved and free; ...           *)
(* ... and a reference, once made, stays.                                  *)
Onward ==
    /\ event' \in [Events -> EventRow]
    /\ \A e \in Events : exists(e) => Keeps(event[e], event'[e]) /\ exists(e)'
    /\ ref' \in [Keys -> Orgs \cup {"none"}]
    /\ \A k \in Keys : ref[k] # "none" => ref'[k] = ref[k]

(* A complete event stays complete. *)
LEMMA StaysComplete ==
    ASSUME CatalogRows, Onward, NEW e \in Events, exists(e), complete(event[e])
    PROVE  complete(event'[e])
<1>1. event[e] \in EventRow /\ Keeps(event[e], event'[e])
    BY DEF CatalogRows, Onward
<1>2. QED
    BY <1>1 DEF Keeps, complete, EventRow

(* A tab goes on showing what it showed, ... *)
LEMMA TabStays ==
    ASSUME CatalogInv, Onward, NEW t \in Tabs, tab'[t] = tab[t]
    PROVE  TabOK(t)'
<1>1. CatalogRows /\ TabOK(t) /\ (tab[t].event = 0 \/ tab[t].event \in Events)
    BY DEF CatalogInv, CatalogRows
<1>2. CASE tab[t].event # 0
    BY <1>1, <1>2, StaysComplete DEF TabOK, Onward
<1>3. QED
    BY <1>1, <1>2 DEF TabOK

(* ... and a request goes on with what it was about. *)
LEMMA CallStays ==
    ASSUME CatalogInv, Onward, NEW t \in Tabs, call'[t] \in {call[t], NoCall}
    PROVE  CallOK(t)'
<1>1. CatalogRows /\ CallOK(t)
    BY DEF CatalogInv
<1>2. CASE call'[t] = NoCall
    BY <1>2 DEF CallOK, NoCall
<1>3. ASSUME call'[t] = call[t], call[t] \in [op : {"create"}, slug : Slugs \X (1..MaxSuffix), fee : {0, 1}],
             ref[SlugKey(call[t].slug)] = Staff[t]
      PROVE  CallOK(t)'
    <2>1. SlugKey(call[t].slug) \in Keys /\ Staff[t] # "none"
        BY <1>3, SlugIsKey, CatalogAssumption
    <2>2. ref'[SlugKey(call[t].slug)] = Staff[t]
        BY <1>3, <2>1 DEF Onward
    <2>3. QED
        BY <1>3, <2>2 DEF CallOK, SlugKey
<1>4. ASSUME call'[t] = call[t], call[t] \in [op : {"route"}, event : Events], exists(call[t].event)
      PROVE  CallOK(t)'
    BY <1>4 DEF CallOK, Onward
<1>5. ASSUME call'[t] = call[t], call[t] \in [op : {"transition"}, event : Events, to : Statuses],
             exists(call[t].event), call[t].to \in OnceOnSale => complete(event[call[t].event])
      PROVE  CallOK(t)'
    BY <1>1, <1>5, StaysComplete DEF CallOK, Onward
<1>6. QED
    BY <1>1, <1>2, <1>3, <1>4, <1>5 DEF CallOK

(* What happens when nothing was written goes without saying. *)
LEMMA Nothing ==
    ASSUME CatalogRows, UNCHANGED event, UNCHANGED ref
    PROVE  Onward
<1>1. \A e \in Events : event[e] \in EventRow
    BY DEF CatalogRows
<1>2. \A e \in Events : Keeps(event[e], event[e])
    BY <1>1 DEF Keeps, EventRow
<1>3. QED
    BY <1>2 DEF Onward, CatalogRows, exists

(* An event that is left alone is as it should be, ... *)
LEMMA EventStays ==
    ASSUME CatalogInv, Onward, NEW e \in Events, event'[e] = event[e]
    PROVE  EventOK(e)'
<1>1. CatalogRows /\ EventOK(e)
    BY DEF CatalogInv
<1>2. exists(e) => SlugKey(event[e].slug) \in Keys /\ event[e].org # "none"
    BY <1>1, Exists
<1>3. exists(e) => ref'[SlugKey(event[e].slug)] = event[e].org
    BY <1>1, <1>2 DEF EventOK, Onward
<1>4. QED
    BY <1>1, <1>3 DEF EventOK, exists, SlugKey

(* ... and so is one that changes, if it goes on sale only when complete.  *)
LEMMA EventChanges ==
    ASSUME CatalogInv, NEW e \in Events, exists(e), NEW new, Keeps(event[e], new),
           event' = [event EXCEPT ![e] = new], UNCHANGED ref,
           new.status \in OnceOnSale => complete(new)
    PROVE  /\ Onward /\ SlugsApart'
           /\ \A x \in Events : EventOK(x)'
<1>1. CatalogRows /\ (\A x \in Events : EventOK(x)) /\ event \in [Events -> EventRow] /\ new \in EventRow
    BY DEF CatalogInv, CatalogRows, Keeps
<1>2. \A x \in Events : event'[x] = IF x = e THEN new ELSE event[x]
    BY <1>1
<1>3. \A x \in Events : Keeps(event[x], event[x])
    BY <1>1 DEF Keeps, EventRow
<1>4. Stored(event[e]) /\ event[e].org \in Orgs
    BY <1>1, Exists DEF Stored
<1>5. Stored(new) /\ new # NoEvent
    BY <1>4, CatalogAssumption DEF Stored, Keeps, NoEvent, newEvent
<1>6. \A x \in Events : (exists(x) <=> exists(x)') /\ event'[x].slug = event[x].slug
    BY <1>2, <1>5 DEF exists, Keeps
<1>7. event' \in [Events -> EventRow] /\ \A x \in Events : Keeps(event[x], event'[x])
    BY <1>1, <1>2, <1>3
<1>8. Onward
    BY <1>1, <1>6, <1>7 DEF Onward, CatalogRows
<1>9. SlugsApart'
    <2>1. SUFFICES ASSUME NEW x \in Events, NEW f \in Events, exists(x)', event'[x].slug = event'[f].slug
                   PROVE  x = f
        BY DEF SlugsApart
    <2>2. exists(x) /\ event[x].slug = event[f].slug
        BY <1>6, <2>1
    <2>3. QED
        BY <2>2 DEF CatalogInv, SlugsApart
<1>10. ASSUME NEW x \in Events PROVE EventOK(x)'
    <2>1. CASE x # e
        BY <1>2, <1>8, <2>1, EventStays
    <2>2. CASE x = e
        <3>1. event'[e] = new
            BY <1>2
        <3>2. ref'[SlugKey(new.slug)] = new.org
            BY <1>1 DEF EventOK, Keeps
        <3>3. QED
            BY <1>5, <2>2, <3>1, <3>2 DEF EventOK, SlugKey
    <2>3. QED
        BY <2>1, <2>2
<1>11. QED
    BY <1>8, <1>9, <1>10

(* Steps that write no event and no reference. *)
LEMMA CatalogReads ==
    ASSUME CatalogInv, UNCHANGED event, UNCHANGED ref,
           UNCHANGED kept \/ \E k \in Keys : keepRef(k),
           org' \in [Orgs -> [tenant : {"ACTIVE", "SUSPENDED"}, fee : {0, 1}]],
           tab' \in [Tabs -> [event : Events \cup {0}, status : Statuses]],
           call' = [t \in Tabs |-> call'[t]],
           \A t \in Tabs : tab'[t] = tab[t] \/ TabOK(t)',
           \A t \in Tabs : call'[t] \in {call[t], NoCall} \/ CallOK(t)'
    PROVE  CatalogInv'
<1>1. Onward
    BY Nothing DEF CatalogInv
<1>2. \A t \in Tabs : TabOK(t)' /\ CallOK(t)'
    BY <1>1, TabStays, CallStays
<1>3. \A e \in Events : EventOK(e)'
    BY <1>1, EventStays
<1>4. SlugsApart'
    BY DEF CatalogInv, SlugsApart, exists
<1>5. kept' \in [Keys -> Orgs \cup {"none"}] /\ \A k \in Keys : kept'[k] \in {"none", ref'[k]}
    <2>1. CASE UNCHANGED kept
        BY <2>1 DEF CatalogInv, CatalogRows
    <2>2. ASSUME NEW k \in Keys, keepRef(k)
          PROVE  kept' \in [Keys -> Orgs \cup {"none"}] /\ \A l \in Keys : kept'[l] \in {"none", ref'[l]}
        <3>1. kept' = [kept EXCEPT ![k] = resolveOrgByRef(k)] /\ resolveOrgByRef(k) = ref[k]
            BY <2>2 DEF CatalogInv, CatalogRows, keepRef, resolveOrgByRef
        <3>2. QED
            BY <3>1 DEF CatalogInv, CatalogRows
    <2>3. QED
        BY <2>1, <2>2
<1>6. CatalogRows'
    BY <1>1, <1>5 DEF CatalogInv, CatalogRows, Onward
<1>7. QED
    BY <1>2, <1>3, <1>4, <1>6 DEF CatalogInv

(* Steps that change one event, which exists. *)
LEMMA CatalogWrites ==
    ASSUME CatalogInv, NEW e \in Events, exists(e), NEW new, Keeps(event[e], new),
           event' = [event EXCEPT ![e] = new], UNCHANGED ref, UNCHANGED kept, UNCHANGED org,
           new.status \in OnceOnSale => complete(new),
           tab' \in [Tabs -> [event : Events \cup {0}, status : Statuses]],
           call' = [t \in Tabs |-> call'[t]],
           \A t \in Tabs : tab'[t] = tab[t] \/ TabOK(t)',
           \A t \in Tabs : call'[t] \in {call[t], NoCall}
    PROVE  CatalogInv'
<1>1. Onward /\ SlugsApart' /\ \A x \in Events : EventOK(x)'
    BY EventChanges
<1>2. \A t \in Tabs : TabOK(t)' /\ CallOK(t)'
    BY <1>1, TabStays, CallStays
<1>3. CatalogRows'
    BY <1>1 DEF CatalogInv, CatalogRows, Onward
<1>4. QED
    BY <1>1, <1>2, <1>3 DEF CatalogInv

(* A row that keeps its producer and slug, and loses nothing, ... *)
LEMMA RowKeeps ==
    ASSUME NEW row \in EventRow, NEW new \in EventRow, new.org = row.org, new.slug = row.slug,
           row.has \subseteq new.has, row.batches <= new.batches
    PROVE  Keeps(row, new) /\ (complete(row) => complete(new))
BY DEF Keeps, complete, EventRow

(* ... as when its fee changes, ... *)
LEMMA FeeChanges ==
    ASSUME NEW row \in EventRow, NEW new, new = [row EXCEPT !.fee = 1 - row.fee]
    PROVE  Keeps(row, new) /\ (complete(row) => complete(new)) /\ new.status = row.status
<1>1. 1 - row.fee \in {0, 1} /\ row.batches <= row.batches
    BY DEF EventRow
<1>2. /\ new \in EventRow /\ new.org = row.org /\ new.slug = row.slug /\ new.status = row.status
      /\ new.has = row.has /\ new.batches = row.batches
    BY <1>1 DEF EventRow
<1>3. QED
    BY <1>1, <1>2, RowKeeps

(* ... it gets a batch, ... *)
LEMMA BatchAdded ==
    ASSUME NEW row \in EventRow, NEW new, new = [row EXCEPT !.batches = 1]
    PROVE  Keeps(row, new) /\ (complete(row) => complete(new)) /\ new.status = row.status
<1>1. row.batches <= 1
    BY DEF EventRow
<1>2. /\ new \in EventRow /\ new.org = row.org /\ new.slug = row.slug /\ new.status = row.status
      /\ new.has = row.has /\ new.batches = 1
    BY DEF EventRow
<1>3. QED
    BY <1>1, <1>2, RowKeeps

(* ... it is given a detail, ... *)
LEMMA DetailGiven ==
    ASSUME NEW row \in EventRow, NEW d \in Details, NEW new, new = [row EXCEPT !.has = row.has \cup {d}]
    PROVE  Keeps(row, new) /\ (complete(row) => complete(new)) /\ new.status = row.status
<1>1. row.has \cup {d} \in SUBSET Details /\ row.batches <= row.batches
    BY DEF EventRow
<1>2. /\ new \in EventRow /\ new.org = row.org /\ new.slug = row.slug /\ new.status = row.status
      /\ new.has = row.has \cup {d} /\ new.batches = row.batches
    BY <1>1 DEF EventRow
<1>3. QED
    BY <1>1, <1>2, RowKeeps

WithStatus(row, s) == [row EXCEPT !.status = s, !.published = row.published \/ s = "PUBLISHED"]

(* ... or its status changes. *)
LEMMA StatusChanges ==
    ASSUME NEW row \in EventRow, NEW s \in Statuses, NEW new,
           new = WithStatus(row, s)
    PROVE  Keeps(row, new) /\ (complete(row) => complete(new)) /\ new.status = s
<1>1. row.batches <= row.batches
    BY DEF EventRow
<1>2. PICK p \in BOOLEAN : new = [row EXCEPT !.status = s, !.published = p]
    BY DEF WithStatus
<1>3. /\ new \in EventRow /\ new.org = row.org /\ new.slug = row.slug /\ new.status = s
      /\ new.has = row.has /\ new.batches = row.batches
    BY <1>2 DEF EventRow
<1>4. QED
    BY <1>1, <1>3, RowKeeps

(* What a request that is about to write knows of what it writes. *)
LEMMA WritesOf ==
    ASSUME NEW t \in Tabs, CallOK(t)
    PROVE  /\ call[t].op = "create" =>
                 /\ call[t].slug \in Slugs \X (1..MaxSuffix) /\ call[t].fee \in {0, 1}
                 /\ ref[SlugKey(call[t].slug)] = Staff[t]
           /\ call[t].op = "route" => call[t].event \in Events /\ exists(call[t].event)
           /\ call[t].op = "transition" =>
                 /\ call[t].event \in Events /\ exists(call[t].event) /\ call[t].to \in Statuses
                 /\ call[t].to \in OnceOnSale => complete(event[call[t].event])
<1>1. CASE call[t] = NoCall
    BY <1>1 DEF NoCall
<1>2. CASE /\ call[t] \in [op : {"create"}, slug : Slugs \X (1..MaxSuffix), fee : {0, 1}]
           /\ ref[SlugKey(call[t].slug)] = Staff[t]
    BY <1>2
<1>3. CASE call[t] \in [op : {"route"}, event : Events] /\ exists(call[t].event)
    BY <1>3
<1>4. CASE /\ call[t] \in [op : {"transition"}, event : Events, to : Statuses] /\ exists(call[t].event)
           /\ call[t].to \in OnceOnSale => complete(event[call[t].event])
    BY <1>4
<1>5. QED
    BY <1>1, <1>2, <1>3, <1>4 DEF CallOK

(* The visitors, the platform's operators and the processes. *)
LEMMA AdminNext ==
    ASSUME CatalogInv,
           \/ \E i \in Instances : recycle(i) \/ \E k \in Keys : visit(i, k)
           \/ \E o \in Orgs : suspendTenant(o) \/ setOrgDefaultFee(o)
    PROVE  CatalogInv'
<1>1. UNCHANGED <<event, ref, tab, call>>
    BY DEF recycle, visit, suspendTenant, setOrgDefaultFee
<1>2. UNCHANGED kept \/ \E k \in Keys : keepRef(k)
    BY DEF recycle, visit, suspendTenant, setOrgDefaultFee
<1>3. org' \in [Orgs -> [tenant : {"ACTIVE", "SUSPENDED"}, fee : {0, 1}]]
    <2>1. org \in [Orgs -> [tenant : {"ACTIVE", "SUSPENDED"}, fee : {0, 1}]]
        BY DEF CatalogInv, CatalogRows
    <2>2. CASE \E o \in Orgs : suspendTenant(o)
        BY <2>1, <2>2 DEF suspendTenant
    <2>3. CASE \E o \in Orgs : setOrgDefaultFee(o)
        BY <2>1, <2>3 DEF setOrgDefaultFee
    <2>4. QED
        BY <2>1, <2>2, <2>3 DEF recycle, visit
<1>4. tab \in [Tabs -> [event : Events \cup {0}, status : Statuses]] /\ call = [t \in Tabs |-> call[t]]
    BY DEF CatalogInv, CatalogRows
<1>5. QED
    BY <1>1, <1>2, <1>3, <1>4, CatalogReads

(* A tab that opens an event, or is about to change its status. *)
LEMMA PanelReads ==
    ASSUME CatalogInv, NEW t \in Tabs,
           \/ \E e \in Events : openEvent(t, e)
           \/ \E a \in DOMAIN applyAction : runConfirmed(t, a)
           \/ stop(t)
    PROVE  CatalogInv'
<1>1. /\ UNCHANGED <<event, ref, kept, org>> /\ CatalogRows
      /\ tab \in [Tabs -> [event : Events \cup {0}, status : Statuses]] /\ call = [u \in Tabs |-> call[u]]
    BY DEF openEvent, runConfirmed, stop, CatalogInv, CatalogRows
<1>2. CASE stop(t)
    <2>1. UNCHANGED tab /\ call' = [call EXCEPT ![t] = NoCall]
        BY <1>2 DEF stop, Go
    <2>2. call' = [u \in Tabs |-> call'[u]] /\ \A u \in Tabs : call'[u] \in {call[u], NoCall}
        BY <1>1, <2>1
    <2>3. QED
        BY <1>1, <2>1, <2>2, CatalogReads DEF CatalogInv, CatalogRows
<1>3. ASSUME NEW e \in Events, openEvent(t, e) PROVE CatalogInv'
    <2>1. /\ exists(e) /\ UNCHANGED call /\ EventOK(e) /\ event[e] \in EventRow
          /\ tab' = [tab EXCEPT ![t] = [event |-> e, status |-> event[e].status]]
        BY <1>1, <1>3 DEF openEvent, CatalogInv, CatalogRows
    <2>2. event[e].status \in Statuses
        BY <2>1 DEF EventRow
    <2>3. tab' \in [Tabs -> [event : Events \cup {0}, status : Statuses]]
        BY <1>1, <2>1, <2>2
    <2>4. tab'[t].event = e /\ tab'[t].status = event[e].status /\ \A u \in Tabs : u # t => tab'[u] = tab[u]
        BY <1>1, <2>1
    <2>5. TabOK(t)'
        BY <1>1, <2>1, <2>4 DEF TabOK, EventOK, exists
    <2>6. QED
        BY <1>1, <2>1, <2>3, <2>4, <2>5, CatalogReads DEF CatalogInv, CatalogRows
<1>4. ASSUME NEW a \in DOMAIN applyAction, runConfirmed(t, a) PROVE CatalogInv'
    <2> DEFINE e == tab[t].event
               c == [op |-> "transition", event |-> e, to |-> applyAction[a]]
    <2>1. /\ e # 0 /\ a \in offered(tab[t].status) /\ allowed(e, a) /\ UNCHANGED tab
          /\ call' = [call EXCEPT ![t] = c]
        BY <1>4 DEF runConfirmed, Go
    <2>2. e \in Events /\ exists(e) /\ (tab[t].status \in OnceOnSale => complete(event[e]))
        BY <1>1, <2>1 DEF CatalogInv, TabOK
    <2>3. applyAction[a] \in Statuses
        BY DEF applyAction, Statuses
    <2>4. applyAction[a] \in OnceOnSale => tab[t].status \in OnceOnSale \/ complete(event[e])
        <3>1. tab[t].status \in Statuses
            BY <1>1
        <3>2. CASE a = "publish"
            BY <2>1, <3>2 DEF allowed
        <3>3. CASE a \in {"pause", "resume", "close_sales", "postpone"}
            BY <2>1, <3>1, <3>3
            DEF offered, salesActions, lifecycleActions, Statuses, OnceOnSale
        <3>4. CASE a \in {"cancel", "complete", "archive"}
            BY <3>4 DEF applyAction, OnceOnSale
        <3>5. QED
            BY <3>2, <3>3, <3>4 DEF applyAction
    <2>5. call'[t] = c /\ (\A u \in Tabs : u # t => call'[u] = call[u]) /\ call' = [u \in Tabs |-> call'[u]]
        BY <1>1, <2>1
    <2>6. CallOK(t)'
        BY <1>1, <2>2, <2>3, <2>4, <2>5 DEF CallOK, exists
    <2>7. QED
        BY <1>1, <2>1, <2>5, <2>6, CatalogReads DEF CatalogInv, CatalogRows
<1>5. QED
    BY <1>2, <1>3, <1>4

(* What changes an event: its fee, its details, a batch, its status. *)
LEMMA PanelWrites ==
    ASSUME CatalogInv,
           \/ \E e \in Events : setEventFee(e)
           \/ \E t \in Tabs : \/ createSalesBatch(t) \/ transition(t)
                              \/ \E d \in Details : updateEventDetails(t, d)
    PROVE  CatalogInv'
<1>1. /\ UNCHANGED <<ref, kept, org>> /\ CatalogRows /\ event \in [Events -> EventRow]
      /\ tab \in [Tabs -> [event : Events \cup {0}, status : Statuses]] /\ call = [u \in Tabs |-> call[u]]
    BY DEF setEventFee, createSalesBatch, transition, updateEventDetails, CatalogInv, CatalogRows
<1>2. ASSUME NEW e \in Events, exists(e)
      PROVE  event[e] \in EventRow /\ (event[e].status \in OnceOnSale => complete(event[e]))
    BY <1>1, <1>2 DEF CatalogInv, EventOK
<1>3. ASSUME NEW e \in Events, setEventFee(e) PROVE CatalogInv'
    <2> DEFINE new == [event[e] EXCEPT !.fee = 1 - event[e].fee]
    <2>1. exists(e) /\ event' = [event EXCEPT ![e] = new] /\ UNCHANGED <<tab, call>>
        BY <1>3 DEF setEventFee
    <2>2. Keeps(event[e], new) /\ new.status = event[e].status /\ (complete(event[e]) => complete(new))
        BY <1>2, <2>1, FeeChanges
    <2>3. QED
        BY <1>1, <1>2, <2>1, <2>2, CatalogWrites
<1>4. ASSUME NEW t \in Tabs, createSalesBatch(t) PROVE CatalogInv'
    <2>1. PICK e \in Events : e = tab[t].event /\ exists(e)
        BY <1>1, <1>4 DEF createSalesBatch, Editing, CatalogInv, TabOK
    <2> DEFINE new == [event[e] EXCEPT !.batches = 1]
    <2>2. event' = [event EXCEPT ![e] = new] /\ UNCHANGED <<tab, call>>
        BY <1>4, <2>1 DEF createSalesBatch
    <2>3. Keeps(event[e], new) /\ new.status = event[e].status /\ (complete(event[e]) => complete(new))
        BY <1>2, <2>1, BatchAdded
    <2>4. QED
        BY <1>1, <1>2, <2>1, <2>2, <2>3, CatalogWrites
<1>5. ASSUME NEW t \in Tabs, NEW d \in Details, updateEventDetails(t, d) PROVE CatalogInv'
    <2>1. PICK e \in Events : e = tab[t].event /\ exists(e)
        BY <1>1, <1>5 DEF updateEventDetails, Editing, CatalogInv, TabOK
    <2>2. PICK new : /\ new = [event[e] EXCEPT !.has = event[e].has \cup {d}]
                     /\ event' = [event EXCEPT ![e] = new] /\ UNCHANGED call
                     /\ tab' = [tab EXCEPT ![t].status = event[e].status]
        BY <1>5, <2>1 DEF updateEventDetails
    <2>3. Keeps(event[e], new) /\ new.status = event[e].status /\ (complete(event[e]) => complete(new))
        <3>1. event[e] \in EventRow
            BY <1>2, <2>1
        <3>2. QED
            BY <2>2, <3>1, DetailGiven
    <2>4. event[e].status \in Statuses
        BY <1>2, <2>1 DEF EventRow
    <2>5. /\ tab' \in [Tabs -> [event : Events \cup {0}, status : Statuses]]
          /\ tab'[t].event = e /\ tab'[t].status = event[e].status
          /\ \A u \in Tabs : u # t => tab'[u] = tab[u]
        BY <1>1, <2>1, <2>2, <2>4
    <2>6. event'[e] = new /\ exists(e)'
        BY <1>1, <1>2, <2>1, <2>2, <2>3, EventChanges DEF Onward
    <2>7. TabOK(t)'
        BY <1>2, <2>1, <2>3, <2>5, <2>6 DEF TabOK
    <2>8. QED
        BY <1>1, <1>2, <2>1, <2>2, <2>3, <2>5, <2>7, CatalogWrites
<1>6. ASSUME NEW t \in Tabs, transition(t) PROVE CatalogInv'
    <2>1. PICK e \in Events, s \in Statuses :
             /\ e = call[t].event /\ s = call[t].to /\ exists(e)
             /\ s \in OnceOnSale => complete(event[e])
        <3>1. CallOK(t) /\ call[t].op = "transition"
            BY <1>6 DEF CatalogInv, transition
        <3>2. QED
            BY <3>1, WritesOf
    <2>2. PICK new : new = WithStatus(event[e], s) /\ event' = [event EXCEPT ![e] = new]
        <3>1. event' = [event EXCEPT ![e].status = s, ![e].published = @ \/ s = "PUBLISHED"]
            BY <1>6, <2>1 DEF transition
        <3>2. event' = [event EXCEPT ![e] = WithStatus(event[e], s)]
            BY <3>1 DEF WithStatus
        <3>3. QED
            BY <3>2
    <2>3. /\ tab' = [tab EXCEPT ![t] = [event |-> e, status |-> s]]
          /\ call' = [call EXCEPT ![t] = NoCall]
        BY <1>6, <2>1 DEF transition, Go
    <2>4. Keeps(event[e], new) /\ (complete(event[e]) => complete(new)) /\ new.status = s
        <3>1. event[e] \in EventRow
            BY <1>2, <2>1
        <3>2. QED
            BY <2>2, <3>1, StatusChanges
    <2>5. /\ tab' \in [Tabs -> [event : Events \cup {0}, status : Statuses]]
          /\ tab'[t].event = e /\ tab'[t].status = s
          /\ \A u \in Tabs : u # t => tab'[u] = tab[u]
        BY <1>1, <2>3, <2>1
    <2>6. call' = [u \in Tabs |-> call'[u]] /\ \A u \in Tabs : call'[u] \in {call[u], NoCall}
        BY <1>1, <2>3
    <2>7. event'[e] = new /\ exists(e)'
        BY <1>1, <1>2, <2>1, <2>2, <2>4, EventChanges DEF Onward
    <2>8. TabOK(t)'
        BY <2>1, <2>4, <2>5, <2>7 DEF TabOK
    <2>9. QED
        BY <1>1, <2>1, <2>2, <2>3, <2>4, <2>5, <2>6, <2>8, CatalogWrites
<1>7. QED
    BY <1>3, <1>4, <1>5, <1>6

(* Steps that reserve a key and write no event. *)
LEMMA CatalogReserves ==
    ASSUME CatalogInv, NEW k \in Keys, NEW o \in Orgs, ref' = reserved(k, o),
           UNCHANGED event, UNCHANGED kept, UNCHANGED org,
           tab' \in [Tabs -> [event : Events \cup {0}, status : Statuses]],
           call' = [t \in Tabs |-> call'[t]],
           \A t \in Tabs : tab'[t] = tab[t] \/ TabOK(t)',
           \A t \in Tabs : call'[t] \in {call[t], NoCall} \/ CallOK(t)'
    PROVE  CatalogInv'
<1>1. CatalogRows /\ ref \in [Keys -> Orgs \cup {"none"}] /\ \A x \in Events : EventOK(x)
    BY DEF CatalogInv, CatalogRows
<1>2. \A l \in Keys : ref'[l] = IF l = k /\ ref[l] = "none" THEN o ELSE ref[l]
    BY <1>1 DEF reserved
<1>3. ref' \in [Keys -> Orgs \cup {"none"}] /\ \A l \in Keys : ref[l] # "none" => ref'[l] = ref[l]
    BY <1>1, <1>2 DEF reserved
<1>4. \A x \in Events : event[x] \in EventRow /\ Keeps(event[x], event[x])
    BY <1>1 DEF CatalogRows, Keeps, EventRow
<1>5. Onward
    BY <1>1, <1>3, <1>4 DEF Onward, exists, CatalogRows
<1>6. \A t \in Tabs : TabOK(t)' /\ CallOK(t)'
    BY <1>5, TabStays, CallStays
<1>7. \A x \in Events : EventOK(x)'
    BY <1>5, EventStays
<1>8. SlugsApart'
    BY DEF CatalogInv, SlugsApart, exists
<1>9. \A l \in Keys : kept'[l] \in {"none", ref'[l]}
    BY <1>1, <1>3 DEF CatalogRows
<1>10. CatalogRows'
    BY <1>1, <1>3, <1>5, <1>9 DEF CatalogRows, Onward
<1>11. QED
    BY <1>6, <1>7, <1>8, <1>10 DEF CatalogInv

(* The form of a new event is sent: its slug is reserved. *)
LEMMA SubmitNext ==
    ASSUME CatalogInv, NEW t \in Tabs, NEW s \in Slugs, submitNewEvent(t, s)
    PROVE  CatalogInv'
<1>1. PICK n \in 1..MaxSuffix :
         /\ reserve(SlugKey(<<s, n>>), Staff[t]) /\ ref' = reserved(SlugKey(<<s, n>>), Staff[t])
         /\ call' = [call EXCEPT ![t] = [op |-> "create", slug |-> <<s, n>>, fee |-> org[Staff[t]].fee]]
    BY DEF submitNewEvent, resolveUniqueSlug, Go, SlugKey
<1>2. SlugKey(<<s, n>>) \in Keys /\ Staff[t] \in Orgs
    BY SlugIsKey, CatalogAssumption
<1>3. /\ UNCHANGED <<event, kept, org, tab>> /\ org[Staff[t]].fee \in {0, 1}
      /\ tab \in [Tabs -> [event : Events \cup {0}, status : Statuses]] /\ call = [u \in Tabs |-> call[u]]
      /\ ref \in [Keys -> Orgs \cup {"none"}]
    BY <1>2 DEF submitNewEvent, CatalogInv, CatalogRows
<1>4. ref'[SlugKey(<<s, n>>)] = Staff[t]
    BY <1>1, <1>2, <1>3 DEF reserve, reserved
<1>5. /\ call'[t] = [op |-> "create", slug |-> <<s, n>>, fee |-> org[Staff[t]].fee]
      /\ call' = [u \in Tabs |-> call'[u]] /\ \A u \in Tabs : u # t => call'[u] = call[u]
    BY <1>1, <1>3
<1>6. CallOK(t)'
    <2>1. <<s, n>> \in Slugs \X (1..MaxSuffix)
        OBVIOUS
    <2>2. call'[t] \in [op : {"create"}, slug : Slugs \X (1..MaxSuffix), fee : {0, 1}]
        BY <1>3, <1>5, <2>1
    <2>3. ref'[SlugKey(call'[t].slug)] = Staff[t]
        BY <1>4, <1>5
    <2>4. QED
        BY <2>2, <2>3 DEF CallOK, SlugKey
<1>7. QED
    BY <1>1, <1>2, <1>3, <1>5, <1>6, CatalogReserves

(* The event is written, unless the database has its slug. *)
LEMMA CreateNext ==
    ASSUME CatalogInv, NEW t \in Tabs, createEvent(t)
    PROVE  CatalogInv'
<1> DEFINE c == call[t]
           row == newEvent(Staff[t], c.slug, c.fee)
<1>1. /\ UNCHANGED <<ref, kept, org, tab>> /\ CatalogRows /\ (\A x \in Events : EventOK(x))
      /\ tab \in [Tabs -> [event : Events \cup {0}, status : Statuses]] /\ call = [u \in Tabs |-> call[u]]
      /\ event \in [Events -> EventRow]
    BY DEF createEvent, CatalogInv, CatalogRows
<1>2. c.slug \in Slugs \X (1..MaxSuffix) /\ c.fee \in {0, 1} /\ ref[SlugKey(c.slug)] = Staff[t]
    <2>1. CallOK(t) /\ call[t].op = "create"
        BY DEF CatalogInv, createEvent
    <2>2. QED
        BY <2>1, WritesOf
<1>3. CASE Go(t, NoCall) /\ UNCHANGED event
    <2>1. call' = [u \in Tabs |-> call'[u]] /\ \A u \in Tabs : call'[u] \in {call[u], NoCall}
        BY <1>1, <1>3 DEF Go
    <2>2. QED
        BY <1>1, <1>3, <2>1, CatalogReads DEF CatalogInv, CatalogRows
<1>4. ASSUME NEW e \in Events, ~exists(e), ~findAnyBySlug(Staff[t], c.slug),
             event' = [event EXCEPT ![e] = row], Go(t, [op |-> "route", event |-> e])
      PROVE  CatalogInv'
    <2>1. Staff[t] \in Orgs /\ Staff[t] # "none" /\ c.slug # NoSlug
        <3>1. NoSlug \notin Slugs \X (1..MaxSuffix)
            BY DEF NoSlug
        <3>2. QED
            BY <1>2, <3>1, CatalogAssumption
    <2>2. /\ row \in EventRow /\ row.org = Staff[t] /\ row.slug = c.slug /\ row.status = "DRAFT"
          /\ Stored(row) /\ row # NoEvent
        <3>1. row = [org |-> Staff[t], slug |-> c.slug, status |-> "DRAFT", has |-> {},
                     batches |-> 0, published |-> FALSE, fee |-> c.fee]
            BY DEF newEvent
        <3>2. "DRAFT" \in Statuses /\ {} \in SUBSET Details
            BY DEF Statuses
        <3>3. row \in EventRow
            BY <1>2, <2>1, <3>1, <3>2 DEF EventRow
        <3>4. QED
            BY <2>1, <3>1, <3>3 DEF Stored, NoEvent, newEvent
    <2> HIDE DEF row
    <2>3. event'[e] = row /\ \A x \in Events : x # e => event'[x] = event[x]
        BY <1>1, <1>4
    <2>4. exists(e)' /\ \A x \in Events : x # e => (exists(x)' <=> exists(x))
        BY <2>2, <2>3 DEF exists
    <2>5. Onward
        <3>1. \A x \in Events : Keeps(event[x], event[x])
            BY <1>1 DEF Keeps, EventRow
        <3>2. event' \in [Events -> EventRow]
            BY <1>1, <1>4, <2>2
        <3>3. QED
            BY <1>1, <1>4, <2>3, <2>4, <3>1, <3>2 DEF Onward, CatalogRows
    <2>6. ASSUME NEW f \in Events, exists(f), event[f].slug = c.slug PROVE FALSE
        <3>1. event[f].org = Staff[t]
            BY <1>1, <1>2, <2>6 DEF EventOK
        <3>2. QED
            BY <1>4, <2>6, <3>1 DEF findAnyBySlug
    <2>7. SlugsApart'
        <3>1. SUFFICES ASSUME NEW x \in Events, NEW y \in Events, exists(x)', event'[x].slug = event'[y].slug
                       PROVE  x = y
            BY DEF SlugsApart
        <3>2. event'[e].slug = c.slug
            BY <2>2, <2>3
        <3>3. CASE x = e
            <4>1. ASSUME y # e PROVE FALSE
                <5>1. event[y].slug = c.slug /\ c.slug # NoSlug
                    BY <2>1, <2>3, <3>1, <3>2, <3>3, <4>1
                <5>2. exists(y)
                    BY <5>1 DEF exists, NoEvent, newEvent
                <5>3. QED
                    BY <2>6, <5>1, <5>2
            <4>2. QED
                BY <3>3, <4>1
        <3>4. CASE x # e
            <4>1. exists(x) /\ event'[x] = event[x]
                BY <2>3, <2>4, <3>1, <3>4
            <4>2. y # e
                BY <2>6, <3>1, <3>2, <4>1
            <4>3. QED
                BY <2>3, <3>1, <4>1, <4>2 DEF CatalogInv, SlugsApart
        <3>5. QED
            BY <3>3, <3>4
    <2>8. ASSUME NEW x \in Events PROVE EventOK(x)'
        <3>1. CASE x # e
            BY <2>3, <2>5, <3>1, EventStays
        <3>2. CASE x = e
            BY <1>1, <1>2, <2>2, <2>3, <3>2 DEF EventOK, SlugKey, OnceOnSale
        <3>3. QED
            BY <3>1, <3>2
    <2>9. /\ call'[t] = [op |-> "route", event |-> e] /\ call' = [u \in Tabs |-> call'[u]]
          /\ \A u \in Tabs : u # t => call'[u] = call[u]
        BY <1>1, <1>4 DEF Go
    <2>10. CallOK(t)'
        BY <2>4, <2>9 DEF CallOK
    <2>11. \A u \in Tabs : TabOK(u)' /\ CallOK(u)'
        BY <1>1, <2>5, <2>9, <2>10, TabStays, CallStays
    <2>12. CatalogRows'
        BY <1>1, <2>5, <2>9 DEF CatalogRows, Onward
    <2>13. QED
        BY <2>7, <2>8, <2>11, <2>12 DEF CatalogInv
<1>5. QED
    BY <1>3, <1>4 DEF createEvent

(* Its id is reserved, and the panel shows it. *)
LEMMA RouteNext ==
    ASSUME CatalogInv, NEW t \in Tabs, routeEvent(t)
    PROVE  CatalogInv'
<1>1. PICK e \in Events : e = call[t].event /\ exists(e)
    <2>1. CallOK(t) /\ call[t].op = "route"
        BY DEF CatalogInv, routeEvent
    <2>2. QED
        BY <2>1, WritesOf
<1>2. /\ UNCHANGED <<event, kept, org>> /\ ref' = reserved(<<"EVENT_ID", e>>, Staff[t])
      /\ call' = [call EXCEPT ![t] = NoCall]
      /\ tab' = [tab EXCEPT ![t] = [event |-> e, status |-> event[e].status]]
    BY <1>1 DEF routeEvent, Go
<1>3. <<"EVENT_ID", e>> \in Keys /\ Staff[t] \in Orgs
    BY CatalogAssumption DEF Keys, IdKeys
<1>4. /\ tab \in [Tabs -> [event : Events \cup {0}, status : Statuses]] /\ call = [u \in Tabs |-> call[u]]
      /\ event[e] \in EventRow /\ EventOK(e)
    BY DEF CatalogInv, CatalogRows
<1>5. event[e].status \in Statuses
    BY <1>4 DEF EventRow
<1>6. /\ tab' \in [Tabs -> [event : Events \cup {0}, status : Statuses]]
      /\ tab'[t].event = e /\ tab'[t].status = event[e].status
      /\ \A u \in Tabs : u # t => tab'[u] = tab[u]
    BY <1>2, <1>4, <1>5
<1>7. TabOK(t)'
    BY <1>1, <1>2, <1>4, <1>6 DEF TabOK, EventOK, exists
<1>8. call' = [u \in Tabs |-> call'[u]] /\ \A u \in Tabs : call'[u] \in {call[u], NoCall}
    BY <1>2, <1>4
<1>9. QED
    BY <1>2, <1>3, <1>6, <1>7, <1>8, CatalogReserves

(* At first the addresses are those of the events there are. *)
LEMMA CatalogStarts ==
    ASSUME CatalogInit
    PROVE  CatalogInv
<1>1. PICK s \in Scenarios :
         /\ event = s.events
         /\ ref = [k \in Keys |->
               LET mine == {e \in Events : s.events[e].org # "none" /\ named(k, e, s.events[e].slug)}
               IN IF mine = {} THEN "none" ELSE s.events[CHOOSE e \in mine : TRUE].org]
    BY DEF CatalogInit, Keys
<1>2. /\ event \in [Events -> EventRow]
      /\ \A e \in Events : /\ event[e] = NoEvent \/ Stored(event[e])
                           /\ event[e].status \in OnceOnSale => complete(event[e])
      /\ \A e, f \in Events : Stored(event[e]) /\ event[e].slug = event[f].slug => e = f
    <2>1. WellFormed(event)
        BY <1>1, CatalogAssumption
    <2>2. QED
        BY <2>1 DEF WellFormed
<1>3. \A e \in Events : event[e].org \in Orgs \cup {"none"} /\ (exists(e) <=> event[e].org # "none")
                        /\ (exists(e) => Stored(event[e]))
    BY <1>2, CatalogAssumption DEF EventRow, Stored, exists, NoEvent, newEvent
<1> DEFINE Mine(k) == {e \in Events : event[e].org # "none" /\ named(k, e, event[e].slug)}
<1>4. ref = [k \in Keys |-> IF Mine(k) = {} THEN "none" ELSE event[CHOOSE e \in Mine(k) : TRUE].org]
    BY <1>1
<1>5. ref \in [Keys -> Orgs \cup {"none"}]
    <2>1. ASSUME NEW k \in Keys, Mine(k) # {} PROVE (CHOOSE e \in Mine(k) : TRUE) \in Events
        <3>1. (CHOOSE e \in Mine(k) : TRUE) \in Mine(k)
            BY <2>1
        <3>2. QED
            BY <3>1
    <2> HIDE DEF Mine
    <2>2. \A k \in Keys : (IF Mine(k) = {} THEN "none" ELSE event[CHOOSE e \in Mine(k) : TRUE].org)
                          \in Orgs \cup {"none"}
        BY <1>3, <2>1
    <2>3. QED
        BY <1>4, <2>2
<1>6. ASSUME NEW e \in Events, exists(e) PROVE ref[SlugKey(event[e].slug)] = event[e].org
    <2>1. event[e].slug \in Slugs \X (1..MaxSuffix)
        BY <1>2, <1>3, <1>6 DEF EventRow, Stored
    <2>2. SlugKey(event[e].slug) \in Keys
        BY <2>1, SlugIsKey
    <2>3. \A f \in Events : named(SlugKey(event[e].slug), f, event[f].slug) <=> event[e].slug = event[f].slug
        BY DEF named, SlugKey
    <2>4. Mine(SlugKey(event[e].slug)) = {e}
        BY <1>2, <1>3, <1>6, <2>3
    <2> HIDE DEF Mine
    <2>5. QED
        BY <1>4, <2>2, <2>4
<1>7. \A e \in Events : EventOK(e)
    BY <1>2, <1>6 DEF EventOK
<1>8. SlugsApart
    BY <1>2, <1>3 DEF SlugsApart
<1>9. org \in [Orgs -> [tenant : {"ACTIVE", "SUSPENDED"}, fee : {0, 1}]]
    BY DEF CatalogInit
<1>10. /\ kept \in [Keys -> Orgs \cup {"none"}] /\ \A k \in Keys : kept[k] = "none"
       /\ tab \in [Tabs -> [event : Events \cup {0}, status : Statuses]] /\ call = [t \in Tabs |-> call[t]]
       /\ \A t \in Tabs : tab[t].event = 0 /\ call[t] = NoCall
    BY DEF CatalogInit, Keys, NoPage, Statuses
<1>11. \A t \in Tabs : TabOK(t) /\ CallOK(t)
    BY <1>10 DEF TabOK, CallOK
<1>12. QED
    BY <1>2, <1>5, <1>7, <1>8, <1>9, <1>10, <1>11 DEF CatalogInv, CatalogRows

(* A step of the catalogue is one of the above; another module's leaves it alone. *)
LEMMA CatalogSteps ==
    ASSUME CatalogInv, [Next]_storeVars
    PROVE  CatalogInv'
<1>1. CASE CatalogNext
    <2>1. ASSUME NEW i \in Instances, recycle(i) \/ \E k \in Keys : visit(i, k) PROVE CatalogInv'
        BY <2>1, AdminNext
    <2>2. ASSUME NEW o \in Orgs, suspendTenant(o) \/ setOrgDefaultFee(o) PROVE CatalogInv'
        BY <2>2, AdminNext
    <2>3. ASSUME NEW e \in Events, setEventFee(e) \/ \E t \in Tabs : openEvent(t, e) PROVE CatalogInv'
        BY <2>3, PanelReads, PanelWrites
    <2>4. ASSUME NEW t \in Tabs,
                 \/ createEvent(t) \/ routeEvent(t) \/ stop(t) \/ createSalesBatch(t) \/ transition(t)
                 \/ \E s \in Slugs : submitNewEvent(t, s)
                 \/ \E d \in Details : updateEventDetails(t, d)
                 \/ \E a \in DOMAIN applyAction : runConfirmed(t, a)
          PROVE  CatalogInv'
        BY <2>4, CreateNext, RouteNext, SubmitNext, PanelReads, PanelWrites
    <2> HIDE DEF CatalogInv
    <2>5. QED
        BY <1>1, <2>1, <2>2, <2>3, <2>4 DEF CatalogNext, Keys
<1>2. CASE UNCHANGED catalogVars
    BY <1>2, CatalogReads DEF catalogVars, CatalogInv, CatalogRows
<1>3. QED
    BY <1>1, <1>2 DEF Next, storeVars

(* The catalogue stays in order. *)
LEMMA CatalogHolds == Spec => []CatalogInv
<1>1. Init => CatalogInv
    BY CatalogStarts DEF Init
<1>2. CatalogInv /\ [Next]_storeVars => CatalogInv'
    BY CatalogSteps
<1>3. QED
    BY <1>1, <1>2, PTL DEF Spec

(* An event is on sale only with a date, a place and a batch: what a tab   *)
(* shows may be old, but no step takes away what made an event complete,   *)
(* so that resuming the sales of an event that was once on sale needs no   *)
(* check of its own (events/service.ts, resumeSales).                      *)
THEOREM OnSaleIsComplete == Spec => []PublishedIsComplete
<1>1. CatalogInv => PublishedIsComplete
    BY DEF CatalogInv, EventOK, PublishedIsComplete, OnceOnSale
<1>2. QED
    BY <1>1, CatalogHolds, PTL

-------------------------------------------------------------------------------
(* The addresses and the report links                                      *)

IsPromoter(row) ==
    /\ row = [token |-> row.token, login |-> row.login, active |-> TRUE, clicks |-> row.clicks]
    /\ row.token \in Tokens \cup {NoToken}

PromoterRows ==
    /\ promoter = [p \in Names |-> promoter[p]] /\ \A p \in Names : IsPromoter(promoter[p])
    /\ reportRef \in [Tokens -> Orgs \cup {"none"}]
    /\ handed \subseteq Tokens
    /\ desk = [t \in Tabs |-> desk[t]]

(* No two promoters have one token; *)
TokensApart ==
    \A p, q \in Names : promoter[p].token = promoter[q].token /\ promoter[p].token # NoToken => p = q

(* a token about to be reserved is no other producer's; *)
DeskOK(t) ==
    desk[t].op = "reserve" =>
        /\ desk[t].token \in Tokens
        /\ \A p \in Names : promoter[p].token = desk[t].token => Employer[p] = Staff[t]

(* and a token that was handed over is reserved, for whom its promoter works for. *)
HandedOK ==
    /\ \A k \in handed : reportRef[k] # "none"
    /\ \A p \in Names : promoter[p].token \in Tokens /\ reportRef[promoter[p].token] # "none"
                            => reportRef[promoter[p].token] = Employer[p]

PromotersInv == PromoterRows /\ TokensApart /\ HandedOK /\ \A t \in Tabs : DeskOK(t)

(* A promoter's row keeps its shape. *)
LEMMA PromoterChanges ==
    ASSUME NEW row, IsPromoter(row), NEW new
    PROVE  /\ \A k \in Tokens : new = [row EXCEPT !.token = k] => IsPromoter(new) /\ new.token = k
           /\ new = [row EXCEPT !.login = TRUE] => IsPromoter(new) /\ new.token = row.token
           /\ new = [row EXCEPT !.clicks = row.clicks + 1] => IsPromoter(new) /\ new.token = row.token
BY DEF IsPromoter

(* A promoter is given a token nobody has, which is to be reserved. *)
LEMMA TokenGiven ==
    ASSUME PromotersInv, NEW t \in Tabs, NEW p \in Names, NEW k \in Tokens,
           createPromoter(t, p, k) \/ regenerateReportToken(t, p, k)
    PROVE  PromotersInv'
<1>1. /\ k \notin Issued /\ Employer[p] = Staff[t] /\ UNCHANGED <<reportRef, handed>>
      /\ promoter' = [promoter EXCEPT ![p].token = k]
      /\ desk' = [desk EXCEPT ![t] = [op |-> "reserve", token |-> k]]
    BY DEF createPromoter, regenerateReportToken, Sits
<1>2. /\ promoter = [q \in Names |-> promoter[q]] /\ desk = [u \in Tabs |-> desk[u]]
      /\ IsPromoter(promoter[p]) /\ reportRef \in [Tokens -> Orgs \cup {"none"}]
    BY DEF PromotersInv, PromoterRows
<1>3. PICK new : new = [promoter[p] EXCEPT !.token = k] /\ promoter' = [promoter EXCEPT ![p] = new]
    BY <1>1
<1>4. IsPromoter(new) /\ new.token = k
    BY <1>2, <1>3, PromoterChanges
<1>5. /\ promoter' = [q \in Names |-> promoter'[q]] /\ promoter'[p].token = k
      /\ \A q \in Names : q # p => promoter'[q] = promoter[q]
    BY <1>2, <1>3, <1>4
<1>6. /\ desk' = [u \in Tabs |-> desk'[u]] /\ desk'[t].op = "reserve" /\ desk'[t].token = k
      /\ \A u \in Tabs : u # t => desk'[u] = desk[u]
    BY <1>1, <1>2
<1>7. /\ \A q \in Names : promoter[q].token # k
      /\ \A u \in Tabs : desk[u].op = "reserve" => desk[u].token # k
      /\ k \notin handed /\ reportRef[k] = "none" /\ k # NoToken
    <2>1. ASSUME NEW u \in Tabs, desk[u].op = "reserve" PROVE desk[u].token # k
        BY <1>1, <2>1 DEF Issued, NoCall
    <2>2. QED
        BY <1>1, <2>1, PromotersAssumption DEF Issued
<1>8. PromoterRows'
    BY <1>1, <1>3, <1>4, <1>5, <1>6 DEF PromotersInv, PromoterRows
<1>9. TokensApart'
    BY <1>5, <1>7 DEF PromotersInv, TokensApart
<1>10. HandedOK'
    BY <1>1, <1>5, <1>7 DEF PromotersInv, HandedOK
<1>11. \A u \in Tabs : DeskOK(u)'
    BY <1>1, <1>5, <1>6, <1>7 DEF PromotersInv, DeskOK
<1>12. QED
    BY <1>8, <1>9, <1>10, <1>11 DEF PromotersInv

(* The token is reserved and handed over. *)
LEMMA ReportReserved ==
    ASSUME PromotersInv, NEW t \in Tabs, reserveReport(t)
    PROVE  PromotersInv'
<1> DEFINE k == desk[t].token
<1>1. /\ k \in Tokens /\ desk[t].op = "reserve"
      /\ \A p \in Names : promoter[p].token = k => Employer[p] = Staff[t]
    BY DEF reserveReport, PromotersInv, DeskOK
<1>2. /\ reportRef' = [reportRef EXCEPT ![k] = Staff[t]] /\ handed' = handed \cup {k}
      /\ desk' = [desk EXCEPT ![t] = NoCall] /\ UNCHANGED promoter
    BY DEF reserveReport, Sits
<1>3. /\ reportRef \in [Tokens -> Orgs \cup {"none"}] /\ desk = [u \in Tabs |-> desk[u]]
      /\ Staff[t] \in Orgs /\ Staff[t] # "none"
    BY CatalogAssumption DEF PromotersInv, PromoterRows
<1>4. /\ reportRef' \in [Tokens -> Orgs \cup {"none"}]
      /\ \A l \in Tokens : reportRef'[l] = IF l = k THEN Staff[t] ELSE reportRef[l]
    BY <1>1, <1>2, <1>3
<1>5. /\ desk' = [u \in Tabs |-> desk'[u]] /\ desk'[t] = NoCall
      /\ \A u \in Tabs : u # t => desk'[u] = desk[u]
    BY <1>2, <1>3
<1>6. PromoterRows'
    BY <1>1, <1>2, <1>4, <1>5 DEF PromotersInv, PromoterRows
<1>7. HandedOK'
    <2>1. handed \subseteq Tokens
        BY DEF PromotersInv, PromoterRows
    <2>2. QED
        BY <1>1, <1>2, <1>3, <1>4, <2>1 DEF PromotersInv, HandedOK
<1>8. \A u \in Tabs : DeskOK(u)'
    BY <1>2, <1>5 DEF PromotersInv, DeskOK, NoCall
<1>9. QED
    BY <1>2, <1>6, <1>7, <1>8 DEF PromotersInv, TokensApart

(* Steps that touch no token and reserve none. *)
LEMMA TokensKept ==
    ASSUME PromotersInv, UNCHANGED reportRef, UNCHANGED handed,
           promoter' = [p \in Names |-> promoter'[p]],
           \A p \in Names : IsPromoter(promoter'[p]) /\ promoter'[p].token = promoter[p].token,
           desk' = [t \in Tabs |-> desk'[t]],
           \A t \in Tabs : desk'[t] = desk[t] \/ desk'[t].op # "reserve"
    PROVE  PromotersInv'
<1>1. PromoterRows'
    BY DEF PromotersInv, PromoterRows
<1>2. TokensApart' /\ HandedOK'
    BY DEF PromotersInv, TokensApart, HandedOK
<1>3. \A t \in Tabs : DeskOK(t)'
    BY DEF PromotersInv, DeskOK
<1>4. QED
    BY <1>1, <1>2, <1>3 DEF PromotersInv

(* A promoter's login and clicks change, or nothing of a promoter does. *)
LEMMA PromotersSteps ==
    ASSUME PromotersInv, [Next]_storeVars
    PROVE  PromotersInv'
<1>1. /\ promoter = [p \in Names |-> promoter[p]] /\ desk = [t \in Tabs |-> desk[t]]
      /\ \A p \in Names : IsPromoter(promoter[p])
    BY DEF PromotersInv, PromoterRows
<1>2. CASE UNCHANGED <<promoter, reportRef, handed, desk>>
    BY <1>1, <1>2, TokensKept
<1>3. ASSUME NEW t \in Tabs, NEW d, d.op # "reserve", desk' = [desk EXCEPT ![t] = d],
             UNCHANGED <<promoter, reportRef, handed>>
      PROVE  PromotersInv'
    <2>1. desk' = [u \in Tabs |-> desk'[u]] /\ \A u \in Tabs : desk'[u] = desk[u] \/ desk'[u].op # "reserve"
        BY <1>1, <1>3
    <2>2. QED
        BY <1>1, <1>3, <2>1, TokensKept
<1>4. ASSUME NEW p \in Names, NEW new, IsPromoter(new), new.token = promoter[p].token,
             promoter' = [promoter EXCEPT ![p] = new], UNCHANGED <<reportRef, handed, desk>>
      PROVE  PromotersInv'
    <2>1. /\ promoter' = [q \in Names |-> promoter'[q]]
          /\ \A q \in Names : IsPromoter(promoter'[q]) /\ promoter'[q].token = promoter[q].token
        BY <1>1, <1>4
    <2>2. QED
        BY <1>1, <1>4, <2>1, TokensKept
<1>5. ASSUME NEW t \in Tabs, NEW p \in Names, promoteToLogin(t, p) PROVE PromotersInv'
    <2>1. PICK new : new = [promoter[p] EXCEPT !.login = TRUE] /\ promoter' = [promoter EXCEPT ![p] = new]
        BY <1>5 DEF promoteToLogin
    <2>2. IsPromoter(new) /\ new.token = promoter[p].token
        BY <1>1, <2>1, PromoterChanges
    <2>3. QED
        BY <1>4, <1>5, <2>1, <2>2 DEF promoteToLogin
<1>6. ASSUME NEW p \in Names, NEW e \in Events, incrementClick(p, e) PROVE PromotersInv'
    <2>1. PICK new : /\ new = [promoter[p] EXCEPT !.clicks = promoter[p].clicks + 1]
                     /\ promoter' = [promoter EXCEPT ![p] = new]
        BY <1>6 DEF incrementClick
    <2>2. IsPromoter(new) /\ new.token = promoter[p].token
        BY <1>1, <2>1, PromoterChanges
    <2>3. QED
        BY <1>4, <1>6, <2>1, <2>2 DEF incrementClick
<1>7. ASSUME NEW t \in Tabs, stopRequest(t) \/ insertCoupon(t) \/ insertRule(t) PROVE PromotersInv'
    <2>1. /\ desk' = [desk EXCEPT ![t] = NoCall] /\ NoCall.op # "reserve"
          /\ UNCHANGED <<promoter, reportRef, handed>>
        BY <1>7 DEF stopRequest, insertCoupon, insertRule, Sits, NoCall
    <2>2. QED
        BY <1>3, <2>1
<1>8. ASSUME NEW t \in Tabs, NEW e \in Events \cup {OrgWide},
             createSuperseding(t, e) \/ \E c \in Codes : createCoupon(t, e, c)
      PROVE  PromotersInv'
    <2>1. PICK d : d.op # "reserve" /\ desk' = [desk EXCEPT ![t] = d]
        BY <1>8 DEF createSuperseding, createCoupon, Sits
    <2>2. UNCHANGED <<promoter, reportRef, handed>>
        BY <1>8 DEF createSuperseding, createCoupon
    <2>3. QED
        BY <1>3, <2>1, <2>2
<1>9. ASSUME NEW t \in Tabs, NEW p \in Names, NEW e \in Events,
             linkPromoterToEvent(t, p, e) \/ createLink(t, p, e)
      PROVE  PromotersInv'
    BY <1>2, <1>9 DEF linkPromoterToEvent, createLink
<1>10. CASE PromotersNext
    BY <1>5, <1>6, <1>7, <1>8, <1>9, <1>10, ReportReserved, TokenGiven DEF PromotersNext
<1>11. QED
    BY <1>2, <1>10 DEF Next, storeVars, promoterVars

(* At first nobody works for a producer, and no token was made. *)
LEMMA PromotersStart ==
    ASSUME PromotersInit
    PROVE  PromotersInv
<1>1. /\ \A p \in Names : promoter[p] = NoPromoter
      /\ IsPromoter(NoPromoter) /\ NoPromoter.token = NoToken
    BY DEF PromotersInit, NoPromoter, IsPromoter
<1>2. PromoterRows
    BY <1>1 DEF PromotersInit, PromoterRows
<1>3. TokensApart /\ HandedOK
    BY <1>1, PromotersAssumption DEF PromotersInit, TokensApart, HandedOK
<1>4. \A t \in Tabs : DeskOK(t)
    BY DEF PromotersInit, DeskOK, NoCall
<1>5. QED
    BY <1>2, <1>3, <1>4 DEF PromotersInv

(* The addresses of events and the report links that were handed over lead *)
(* where they should: the reference of an event is its producer's from     *)
(* before it is written, and no database is read under a slug another      *)
(* producer has (events/service.ts, resolveUniqueSlug); a report token is  *)
(* reserved before it is shown (promoters/service.ts).                     *)
THEOREM AddressesLead == Spec => []AddressesLeadHome
<1>1. Init => PromotersInv
    BY PromotersStart DEF Init
<1>2. PromotersInv /\ [Next]_storeVars => PromotersInv'
    BY PromotersSteps
<1>3. CatalogInv => AddressLeadsHome
    <2>1. ASSUME CatalogInv, NEW e \in Events, exists(e)
          PROVE  /\ resolveOrgByRef(SlugKey(event[e].slug)) = event[e].org
                 /\ \A f \in Events \ {e} : event[f].slug # event[e].slug
        <3>1. CatalogRows /\ EventOK(e)
            BY <2>1 DEF CatalogInv
        <3>2. SlugKey(event[e].slug) \in Keys
            BY <2>1, <3>1, Exists
        <3>3. resolveOrgByRef(SlugKey(event[e].slug)) = event[e].org
            BY <2>1, <3>1, <3>2 DEF CatalogRows, EventOK, resolveOrgByRef
        <3>4. QED
            BY <2>1, <3>3 DEF CatalogInv, SlugsApart
    <2>2. QED
        BY <2>1 DEF AddressLeadsHome, SlugKey
<1>4. PromotersInv => ReportLinksOpen
    <2>1. ASSUME PromotersInv, NEW p \in Names, promoter[p].token \in handed
          PROVE  getPromoterReportByToken(promoter[p].token) = {p}
        <3>1. /\ promoter[p].token \in Tokens /\ reportRef[promoter[p].token] = Employer[p]
              /\ reportRef[promoter[p].token] # "none"
            BY <2>1 DEF PromotersInv, PromoterRows, HandedOK
        <3>2. \A q \in Names : promoter[q].active
            BY <2>1 DEF PromotersInv, PromoterRows, IsPromoter
        <3>3. \A q \in Names : promoter[q].token = promoter[p].token => q = p
            BY <2>1, <3>1, PromotersAssumption DEF PromotersInv, TokensApart
        <3>4. QED
            BY <3>1, <3>2, <3>3 DEF getPromoterReportByToken
    <2>2. QED
        BY <2>1 DEF ReportLinksOpen
<1>5. CatalogInv /\ PromotersInv => AddressesLeadHome
    BY <1>3, <1>4 DEF AddressesLeadHome
<1>6. QED
    BY <1>1, <1>2, <1>5, CatalogHolds, PTL DEF Spec

-------------------------------------------------------------------------------
(* Lists of texts, from which the blank ones are dropped                   *)

(* The largest of a finite set of numbers. *)
LEMMA MaxIs ==
    ASSUME NEW S, IsFiniteSet(S), S \subseteq Nat, S # {}
    PROVE  Max(S) \in S /\ \A y \in S : y <= Max(S)
<1> DEFINE G == {T \in SUBSET S : T # {} => \E x \in T : \A y \in T : y <= x}
<1>1. {} \in G
    OBVIOUS
<1>2. ASSUME NEW T \in SUBSET S, T # {}, T \ {Pick(T)} \in G PROVE T \in G
    <2>1. Pick(T) \in T /\ Pick(T) \in Nat
        BY <1>2 DEF Pick
    <2>2. CASE T \ {Pick(T)} = {}
        BY <2>1, <2>2
    <2>3. CASE T \ {Pick(T)} # {}
        <3>1. PICK x \in T \ {Pick(T)} : \A y \in T \ {Pick(T)} : y <= x
            BY <1>2, <2>3
        <3>2. CASE Pick(T) <= x
            BY <3>1, <3>2
        <3>3. CASE ~(Pick(T) <= x)
            <4>1. \A y \in T : y <= Pick(T)
                BY <2>1, <3>1, <3>3
            <4>2. QED
                BY <2>1, <4>1
        <3>4. QED
            BY <3>2, <3>3
    <2>4. QED
        BY <2>2, <2>3
<1> HIDE DEF G
<1>3. S \in G
    BY <1>1, <1>2, SubsetInduction
<1>4. \E x \in S : \A y \in S : x >= y
    BY <1>3 DEF G
<1>5. QED
    BY <1>4 DEF Max

(* The elements of a finite set of numbers, counted up in their order. *)
Counts(T) == \A n \in 1..Cardinality(T) : \E j \in T : Cardinality({i \in T : i <= j}) = n

(* Every finite set of numbers is counted up: the largest is the last, and *)
(* the others count as they do without it.                                 *)
LEMMA CountedUp ==
    ASSUME NEW N, IsFiniteSet(N), \A x \in N : x \in Nat
    PROVE  Counts(N)
<1> DEFINE B == {T \in SUBSET N : ~Counts(T)}
<1>1. SUFFICES ASSUME B # {} PROVE FALSE
    OBVIOUS
<1>0. B \in SUBSET (SUBSET N)
    OBVIOUS
<1> HIDE DEF B
<1>2. PICK T \in B : \A U \in B : U \subseteq T => U = T
    BY <1>0, <1>1, Smallest
<1>3. T \subseteq N /\ ~Counts(T)
    BY DEF B
<1>7. IsFiniteSet(T) /\ T \subseteq Nat
    BY <1>3, FS_Subset
<1>4. CASE T = {}
    BY <1>3, <1>4, FS_EmptySet DEF Counts
<1>5. CASE T # {}
    <2>1. PICK m \in T : \A y \in T : y <= m
        BY <1>5, <1>7, MaxIs
    <2>2. PICK U : U = T \ {m}
        OBVIOUS
    <2>3. Counts(U)
        BY <1>2, <1>3, <2>2 DEF B
    <2>4. Cardinality(T) = Cardinality(U) + 1 /\ Cardinality(U) \in Nat
        <3>1. Cardinality(U) = Cardinality(T) - 1 /\ IsFiniteSet(U)
            BY <1>7, <2>2, FS_RemoveElement
        <3>2. Cardinality(T) \in Nat /\ Cardinality(U) \in Nat
            BY <1>7, <3>1, FS_CardinalityType
        <3>3. QED
            BY <3>1, <3>2
    <2>5. ASSUME NEW n \in 1..Cardinality(T)
          PROVE  \E j \in T : Cardinality({i \in T : i <= j}) = n
        <3>1. CASE n = Cardinality(T)
            <4>1. {i \in T : i <= m} = T
                BY <2>1
            <4>2. QED
                BY <3>1, <4>1
        <3>2. CASE n # Cardinality(T)
            <4>1. n \in 1..Cardinality(U)
                BY <2>4, <3>2
            <4>2. PICK j \in U : Cardinality({i \in U : i <= j}) = n
                BY <2>3, <4>1 DEF Counts
            <4>3. {i \in U : i <= j} = {i \in T : i <= j}
                BY <1>7, <2>1, <2>2
            <4>4. QED
                BY <2>2, <4>2, <4>3
        <3>3. QED
            BY <3>1, <3>2
    <2>6. QED
        BY <1>3, <2>5 DEF Counts
<1>6. QED
    BY <1>4, <1>5

(* The places of a list that are not blank are counted up. *)
LEMMA PlacesCounted ==
    ASSUME NEW S, NEW s \in Seq(S)
    PROVE  /\ Cardinality(nonBlank(s)) \in Nat /\ Counts(nonBlank(s))
           /\ nonBlank(s) \subseteq DOMAIN s
<1>1. DOMAIN s = 1..Len(s) /\ Len(s) \in Nat
    OBVIOUS
<1>2. IsFiniteSet(DOMAIN s) /\ DOMAIN s \subseteq Nat
    BY <1>1, FS_Interval
<1>3. nonBlank(s) \subseteq DOMAIN s
    BY DEF nonBlank
<1>4. IsFiniteSet(nonBlank(s))
    BY <1>2, <1>3, FS_Subset
<1>5. QED
    BY <1>2, <1>3, <1>4, FS_CardinalityType, CountedUp

(* What is left of a list is a list, without the blank items. *)
LEMMA BlanksGo ==
    ASSUME NEW S, NEW s \in Seq(S)
    PROVE  /\ withoutBlanks(s) \in Seq(S) /\ Len(withoutBlanks(s)) = Cardinality(nonBlank(s))
           /\ \A n \in DOMAIN withoutBlanks(s) : withoutBlanks(s)[n] # Blank
<1> DEFINE nth(n) == CHOOSE j \in nonBlank(s) : Cardinality({i \in nonBlank(s) : i <= j}) = n
           text(n) == s[nth(n)]
<1>1. PICK k \in Nat : k = Cardinality(nonBlank(s))
    BY PlacesCounted
<1>2. ASSUME NEW n \in 1..k PROVE text(n) \in S /\ text(n) # Blank
    <2>1. \E j \in nonBlank(s) : Cardinality({i \in nonBlank(s) : i <= j}) = n
        BY <1>1, PlacesCounted DEF Counts
    <2>2. nth(n) \in nonBlank(s)
        BY ZenonT(20), <2>1
    <2> HIDE DEF nth
    <2>3. nth(n) \in DOMAIN s /\ s[nth(n)] # Blank
        BY <2>2 DEF nonBlank
    <2>4. QED
        BY <2>3
<1>3. withoutBlanks(s) = [n \in 1..Cardinality(nonBlank(s)) |-> text(n)]
    BY DEF withoutBlanks
<1> HIDE DEF text
<1>4. PICK r : r = [n \in 1..k |-> text(n)]
    OBVIOUS
<1>5. r \in Seq(S) /\ Len(r) = k /\ \A n \in DOMAIN r : r[n] # Blank
    BY <1>2, <1>4
<1>6. QED
    BY <1>1, <1>3, <1>4, <1>5

(* A list that kept something keeps it when it is looked at again. *)
LEMMA BlanksAreGone ==
    ASSUME NEW S, NEW s \in Seq(S), withoutBlanks(s) # <<>>
    PROVE  withoutBlanks(withoutBlanks(s)) # <<>>
<1>1. PICK r : r = withoutBlanks(s)
    OBVIOUS
<1>2. r \in Seq(S) /\ r # <<>> /\ \A n \in DOMAIN r : r[n] # Blank
    BY <1>1, BlanksGo
<1>3. DOMAIN r = 1..Len(r) /\ Len(r) \in Nat /\ Len(r) # 0
    BY <1>2, EmptySeq
<1>4. nonBlank(r) = 1..Len(r)
    BY <1>2, <1>3 DEF nonBlank
<1>5. Cardinality(nonBlank(r)) # 0
    <2>1. Cardinality(1..Len(r)) = Len(r)
        BY <1>3, FS_Interval
    <2>2. QED
        BY <1>3, <1>4, <2>1
<1>6. Len(withoutBlanks(r)) # 0
    BY <1>2, <1>5, BlanksGo
<1>7. QED
    BY <1>1, <1>6

-------------------------------------------------------------------------------
(* The page editors                                                        *)

(* A section; the content of a faq or a lineup is a list.                  *)
Listed(c) == \E S : c \in Seq(S)
IsBlock(b) ==
    /\ b = [type |-> b.type, visible |-> b.visible, content |-> b.content]
    /\ b.type \in Lists => Listed(b.content)
BlocksOK(s) == \E S : s \in Seq(S) /\ \A b \in S : IsBlock(b)

(* What is left of a list when an item goes is a list, ... *)
LEMMA ItemRemoved ==
    ASSUME NEW S, NEW s \in Seq(S), NEW i \in DOMAIN s
    PROVE  RemoveAt(s, i) \in Seq(S)
<1>1. DOMAIN s = 1..Len(s) /\ Len(s) \in Nat /\ i \in Int /\ i - 1 \in Int /\ i + 1 \in Int
    OBVIOUS
<1>2. (\A j \in 1..(i - 1) : s[j] \in S) /\ (\A j \in (i + 1)..Len(s) : s[j] \in S)
    BY <1>1
<1>3. SubSeq(s, 1, i - 1) \in Seq(S)
    BY <1>1, <1>2, SubSeqProperties
<1>4. SubSeq(s, i + 1, Len(s)) \in Seq(S)
    BY <1>1, <1>2, SubSeqProperties
<1>5. QED
    BY <1>3, <1>4, ConcatProperties DEF RemoveAt

(* ... and so is the list with an item more, or another, or without its    *)
(* blank ones.                                                             *)
LEMMA ListChanges ==
    ASSUME NEW c, Listed(c)
    PROVE  /\ \A x : Listed(Append(c, x))
           /\ \A j \in DOMAIN c : Listed(RemoveAt(c, j)) /\ \A x : Listed([c EXCEPT ![j] = x])
           /\ Listed(withoutBlanks(c))
<1>1. PICK S : c \in Seq(S)
    BY DEF Listed
<1>2. ASSUME NEW x PROVE Listed(Append(c, x)) /\ \A j \in DOMAIN c : Listed([c EXCEPT ![j] = x])
    <2>1. c \in Seq(S \cup {x}) /\ x \in S \cup {x}
        BY <1>1
    <2>2. Append(c, x) \in Seq(S \cup {x})
        BY <2>1, AppendProperties
    <2>3. ASSUME NEW j \in DOMAIN c PROVE [c EXCEPT ![j] = x] \in Seq(S \cup {x})
        BY <2>1, ExceptSeq
    <2>4. QED
        BY <2>2, <2>3 DEF Listed
<1>3. \A j \in DOMAIN c : Listed(RemoveAt(c, j))
    BY <1>1, ItemRemoved DEF Listed
<1>4. Listed(withoutBlanks(c))
    BY <1>1, BlanksGo DEF Listed
<1>5. QED
    BY <1>2, <1>3, <1>4

(* A block whose content is set keeps its other fields; ... *)
LEMMA BlockFields ==
    ASSUME NEW b, IsBlock(b), NEW x
    PROVE  /\ [b EXCEPT !.content = x].type = b.type
           /\ [b EXCEPT !.content = x].content = x /\ [b EXCEPT !.content = x].visible = b.visible
BY DEF IsBlock

(* ... it is a block, if it got a list where there was one, and so is a    *)
(* block that is hidden or shown.                                          *)
LEMMA BlockChanges ==
    ASSUME NEW b, IsBlock(b), NEW x
    PROVE  /\ (b.type \in Lists => Listed(x)) => IsBlock([b EXCEPT !.content = x])
           /\ IsBlock([b EXCEPT !.visible = x])
BY DEF IsBlock

(* Blocks that are changed one by one are blocks; ... *)
LEMMA BlocksMapped ==
    ASSUME NEW s, BlocksOK(s), NEW r, r = [i \in DOMAIN s |-> r[i]],
           \A i \in DOMAIN s : IsBlock(s[i]) => IsBlock(r[i])
    PROVE  BlocksOK(r)
<1>1. PICK S : s \in Seq(S) /\ \A b \in S : IsBlock(b)
    BY DEF BlocksOK
<1> DEFINE R == {r[i] : i \in DOMAIN s}
<1>2. \A i \in DOMAIN s : s[i] \in S /\ r[i] \in R
    BY <1>1
<1>3. \A b \in R : IsBlock(b)
    BY <1>1, <1>2
<1>4. r \in Seq(R)
    <2>1. DOMAIN s = 1..Len(s) /\ Len(s) \in Nat
        BY <1>1
    <2> HIDE DEF R
    <2>2. QED
        BY <1>2, <2>1
<1>5. QED
    BY <1>3, <1>4 DEF BlocksOK

(* ... so are those that are left when one is removed, ... *)
LEMMA BlockRemoved ==
    ASSUME NEW s, BlocksOK(s), NEW i \in DOMAIN s
    PROVE  BlocksOK(RemoveAt(s, i))
<1>1. PICK S : s \in Seq(S) /\ \A b \in S : IsBlock(b)
    BY DEF BlocksOK
<1>2. RemoveAt(s, i) \in Seq(S)
    BY <1>1, ItemRemoved
<1>3. QED
    BY <1>1, <1>2 DEF BlocksOK

(* ... and those there are when one is added. *)
LEMMA BlockAdded ==
    ASSUME NEW s, BlocksOK(s), NEW b, IsBlock(b)
    PROVE  BlocksOK(Append(s, b))
<1>1. PICK S : s \in Seq(S) /\ \A c \in S : IsBlock(c)
    BY DEF BlocksOK
<1>2. s \in Seq(S \cup {b})
    BY <1>1
<1>3. Append(s, b) \in Seq(S \cup {b})
    BY <1>2, AppendProperties
<1>4. QED
    BY <1>1, <1>3 DEF BlocksOK

(* Blocks are a function, each of them a block. *)
LEMMA BlocksAre ==
    ASSUME NEW s, BlocksOK(s)
    PROVE  s = [i \in DOMAIN s |-> s[i]] /\ DOMAIN s \subseteq Nat /\ \A i \in DOMAIN s : IsBlock(s[i])
<1>1. PICK S : s \in Seq(S) /\ \A c \in S : IsBlock(c)
    BY DEF BlocksOK
<1>2. DOMAIN s = 1..Len(s) /\ Len(s) \in Nat
    BY <1>1
<1>3. s = [i \in DOMAIN s |-> s[i]] /\ \A i \in DOMAIN s : s[i] \in S
    BY <1>1, <1>2
<1>4. QED
    BY <1>1, <1>2, <1>3

Unique(blocks) == \A i, j \in DOMAIN blocks : blocks[i].type = blocks[j].type => i = j

(* The one hero of a page is its first. *)
LEMMA OneHero ==
    ASSUME NEW s, BlocksOK(s), Unique(s), NEW i \in DOMAIN s, s[i].type = "hero"
    PROVE  heroCover0(s) = IF s[i].content # <<>> THEN s[i].content[1] ELSE NoImage
<1>1. {j \in DOMAIN s : s[j].type = "hero"} = {i}
    BY DEF Unique
<1>2. i \in Nat
    BY BlocksAre
<1>3. Min({i}) = i
    BY <1>2 DEF Min
<1>4. QED
    BY <1>1, <1>3 DEF heroCover0

(* What the server stores needs no more covers. *)
LEMMA StoredAsSent ==
    ASSUME NEW s, BlocksOK(s), Unique(s)
    PROVE  seedHeroCovers(s, heroCover0(s)) = s
<1>1. s = [i \in DOMAIN s |-> s[i]]
    BY BlocksAre
<1>2. ASSUME NEW i \in DOMAIN s
      PROVE  ~(s[i].type = "hero" /\ s[i].content = <<>> /\ heroCover0(s) # NoImage)
    BY OneHero
<1>3. QED
    BY <1>1, <1>2 DEF seedHeroCovers

(* Cleaning leaves a block. *)
LEMMA CleanedBlock ==
    ASSUME NEW b, IsBlock(b)
    PROVE  /\ IsBlock(cleaned(b)) /\ cleaned(b).type = b.type
           /\ b.type \in Lists => cleaned(b).content = withoutBlanks(b.content)
<1>1. CASE b.type \in Lists
    <2>1. PICK x : x = withoutBlanks(b.content)
        OBVIOUS
    <2>2. cleaned(b) = [b EXCEPT !.content = x]
        BY <1>1, <2>1 DEF cleaned
    <2>3. Listed(x)
        BY <1>1, <2>1, ListChanges DEF IsBlock
    <2>4. IsBlock([b EXCEPT !.content = x])
        BY <2>3, BlockChanges
    <2>5. [b EXCEPT !.content = x].type = b.type /\ [b EXCEPT !.content = x].content = x
        BY BlockFields
    <2>6. QED
        BY <2>1, <2>2, <2>4, <2>5
<1>2. CASE b.type \notin Lists
    BY <1>2 DEF cleaned
<1>3. QED
    BY <1>1, <1>2

(* What was cleaned, and is no problem, is none when it is read again: a   *)
(* list that kept an item has no blank one.                                *)
LEMMA CleanedIsFine ==
    ASSUME NEW s, BlocksOK(s), ~problem(s)
    PROVE  ~problem(cleanBlocks(s))
<1>1. \A i \in DOMAIN s : IsBlock(s[i])
    BY BlocksAre
<1>2. ASSUME NEW i \in DOMAIN s, cleaned(s[i]).type \in Filled
      PROVE  cleaned(cleaned(s[i])).content # <<>>
    <2>1. PICK b, c : b = s[i] /\ c = cleaned(b)
        OBVIOUS
    <2>2. IsBlock(b) /\ IsBlock(c) /\ c.type = b.type /\ c.content # <<>>
        BY <1>1, <1>2, <2>1, CleanedBlock DEF problem
    <2>3. CASE b.type \in Lists
        <3>1. Listed(b.content) /\ c.content = withoutBlanks(b.content)
            BY <2>1, <2>2, <2>3, CleanedBlock DEF IsBlock
        <3>2. withoutBlanks(c.content) # <<>>
            BY <2>2, <3>1, BlanksAreGone DEF Listed
        <3>3. QED
            BY <2>1, <2>2, <2>3, <3>2, CleanedBlock
    <2>4. CASE b.type \notin Lists
        BY <2>1, <2>2, <2>4 DEF cleaned
    <2>5. QED
        BY <2>3, <2>4
<1>3. QED
    BY <1>2 DEF problem, cleanBlocks

(* Seeding and cleaning leave blocks. *)
LEMMA SeedingLeavesBlocks ==
    ASSUME NEW s, BlocksOK(s), NEW banner
    PROVE  /\ BlocksOK(seedHeroCovers(s, banner))
           /\ BlocksOK(cleanBlocks(s))
<1>1. \A i \in DOMAIN s : IsBlock(s[i])
    BY BlocksAre
<1>2. /\ \A i \in DOMAIN s : IsBlock(cleaned(s[i]))
      /\ \A i \in DOMAIN s : s[i].type = "hero" => IsBlock([s[i] EXCEPT !.content = <<banner>>])
    <2>1. "hero" \notin Lists
        BY DEF Lists
    <2>2. QED
        BY <1>1, <2>1, BlockChanges, CleanedBlock
<1>3. BlocksOK(cleanBlocks(s))
    <2>1. PICK r : r = cleanBlocks(s)
        OBVIOUS
    <2>2. r = [i \in DOMAIN s |-> r[i]] /\ \A i \in DOMAIN s : IsBlock(r[i])
        BY <1>2, <2>1 DEF cleanBlocks
    <2>3. QED
        BY <2>1, <2>2, BlocksMapped
<1>4. BlocksOK(seedHeroCovers(s, banner))
    <2>1. PICK r : r = seedHeroCovers(s, banner)
        OBVIOUS
    <2>2. r = [i \in DOMAIN s |-> r[i]] /\ \A i \in DOMAIN s : IsBlock(r[i])
        BY <1>1, <1>2, <2>1 DEF seedHeroCovers
    <2>3. QED
        BY <2>1, <2>2, BlocksMapped
<1>5. QED
    BY <1>3, <1>4

(* The preview of a page as it is stored is the page. *)
LEMMA PreviewShows ==
    ASSUME NEW blocks, NEW banner, BlocksOK(blocks), Unique(blocks),
           NEW seeded, seeded = seedHeroCovers(blocks, banner), NEW i \in DOMAIN blocks
    PROVE  renderBlock(seeded[i], heroCover0(seeded)) = renderBlock(blocks[i], banner)
<1>1. IsBlock(blocks[i])
    BY BlocksAre
<1>2. /\ DOMAIN seeded = DOMAIN blocks /\ BlocksOK(seeded)
      /\ \A j \in DOMAIN blocks :
            seeded[j] = IF blocks[j].type = "hero" /\ blocks[j].content = <<>> /\ banner # NoImage
                        THEN [blocks[j] EXCEPT !.content = <<banner>>] ELSE blocks[j]
    BY SeedingLeavesBlocks DEF seedHeroCovers
<1>3. \A j \in DOMAIN blocks : seeded[j].type = blocks[j].type
    <2>1. ASSUME NEW j \in DOMAIN blocks PROVE seeded[j].type = blocks[j].type
        <3>1. IsBlock(blocks[j])
            BY BlocksAre
        <3>2. [blocks[j] EXCEPT !.content = <<banner>>].type = blocks[j].type
            BY <3>1, BlockFields
        <3>3. QED
            BY <1>2, <3>2
    <2>2. QED
        BY <2>1
<1>4. Unique(seeded)
    BY <1>2, <1>3 DEF Unique
<1>5. CASE blocks[i].type # "hero"
    BY <1>2, <1>5 DEF renderBlock, HeroBlock
<1>6. CASE blocks[i].type = "hero" /\ blocks[i].content # <<>>
    BY <1>2, <1>6 DEF renderBlock, HeroBlock
<1>7. CASE blocks[i].type = "hero" /\ blocks[i].content = <<>> /\ banner = NoImage
    <2>1. seeded[i] = blocks[i]
        BY <1>2, <1>7
    <2>2. heroCover0(seeded) = NoImage
        BY <1>2, <1>4, <1>7, <2>1, OneHero
    <2>3. QED
        BY <1>7, <2>1, <2>2 DEF renderBlock
<1>8. CASE blocks[i].type = "hero" /\ blocks[i].content = <<>> /\ banner # NoImage
    <2>1. PICK b : b = [blocks[i] EXCEPT !.content = <<banner>>]
        OBVIOUS
    <2>2. seeded[i] = b /\ b.type = "hero" /\ b.content # <<>> /\ b.visible = blocks[i].visible
        BY <1>1, <1>2, <1>8, <2>1, BlockFields
    <2>3. HeroBlock(b, heroCover0(seeded)) = b /\ HeroBlock(blocks[i], banner) = b
        BY <1>8, <2>1, <2>2 DEF HeroBlock
    <2>4. QED
        BY <1>8, <2>2, <2>3 DEF renderBlock, Lists
<1>9. QED
    BY <1>5, <1>6, <1>7, <1>8

(* A page as it is stored: each section is there once, one sells tickets,  *)
(* and those that must hold something do.                                  *)
IsPage(row) ==
    /\ row = [look |-> row.look, banner |-> row.banner, blocks |-> row.blocks, rev |-> row.rev]
    /\ row.rev \in Nat /\ BlocksOK(row.blocks) /\ Unique(row.blocks)
    /\ eventPageBlocksSchema(row.blocks) /\ ~problem(row.blocks)

IsEditor(d) ==
    /\ d = [event |-> d.event, look |-> d.look, banner |-> d.banner, blocks |-> d.blocks,
            baseline |-> d.baseline, rev |-> d.rev]
    /\ d.event \in Events /\ BlocksOK(d.blocks)

(* What an editor was last told is stored is what is stored, if the page   *)
(* was not written since.                                                  *)
Current(d, row) ==
    /\ d.rev \in Nat /\ d.rev <= row.rev
    /\ d.rev = row.rev => /\ d.baseline.look = row.look
                          /\ d.baseline.blocks = seedHeroCovers(row.blocks, row.banner)

(* What was sent names the cover of its first hero as the banner, and what *)
(* is answered was written.                                                *)
Sendable(s) == BlocksOK(s.blocks) /\ ~problem(s.blocks) /\ s.banner = heroCover0(s.blocks)
Written(s, row) ==
    /\ s.rev \in Nat /\ s.rev <= row.rev /\ Unique(s.blocks)
    /\ s.rev = row.rev => s.look = row.look /\ s.banner = row.banner /\ s.blocks = row.blocks

EdOK(t) ==
    \/ ed[t] = NoEditor
    \/ editing(t) /\ IsEditor(ed[t]) /\ Current(ed[t], page[ed[t].event])
SentOK(t) ==
    \/ sent[t] = NoRequest
    \/ sent[t].at = "server" /\ editing(t) /\ Sendable(sent[t])
    \/ sent[t].at = "answer" /\ editing(t) /\ Sendable(sent[t]) /\ Written(sent[t], page[ed[t].event])

EditorsInv ==
    /\ page = [e \in Events |-> page[e]] /\ ed = [t \in Tabs |-> ed[t]] /\ sent = [t \in Tabs |-> sent[t]]
    /\ \A e \in Events : IsPage(page[e])
    /\ \A t \in Tabs : EdOK(t) /\ SentOK(t)

(* An image on its way is for a section of images, never for a list. *)
UploadInv ==
    /\ upload = [t \in Tabs |-> upload[t]]
    /\ \A t \in Tabs : upload[t].type \notin Lists

(* An editor that changes what is on its screen only. *)
LEMMA ScreenChanges ==
    ASSUME EditorsInv, NEW t \in Tabs, editing(t), NEW d,
           IsEditor(d), d.event = ed[t].event, d.baseline = ed[t].baseline, d.rev = ed[t].rev,
           ed' = [ed EXCEPT ![t] = d], UNCHANGED page, UNCHANGED sent
    PROVE  EditorsInv'
<1>1. /\ ed = [u \in Tabs |-> ed[u]] /\ \A e \in Events : IsPage(page[e])
      /\ page = [e \in Events |-> page[e]] /\ sent = [u \in Tabs |-> sent[u]]
      /\ \A u \in Tabs : EdOK(u) /\ SentOK(u)
    BY DEF EditorsInv
<1>2. ed' = [u \in Tabs |-> ed'[u]] /\ ed'[t] = d /\ \A u \in Tabs : u # t => ed'[u] = ed[u]
    BY <1>1
<1>3. ed[t] # NoEditor
    BY DEF editing, NoEditor
<1>4. Current(d, page[d.event])
    BY <1>1, <1>3 DEF EdOK, Current
<1>5. d.event # 0
    BY DEF editing
<1>6. \A u \in Tabs : EdOK(u)'
    BY <1>1, <1>2, <1>4, <1>5 DEF EdOK, editing
<1>7. \A u \in Tabs : SentOK(u)'
    BY <1>1, <1>2, <1>5 DEF SentOK, editing
<1>8. QED
    BY <1>1, <1>2, <1>6, <1>7 DEF EditorsInv

(* The sections of a page are edited. *)
LEMMA SectionsChange ==
    ASSUME EditorsInv, NEW t \in Tabs, NEW blocks, BlocksOK(blocks), editing(t),
           ed' = [ed EXCEPT ![t].blocks = blocks], UNCHANGED page, UNCHANGED sent
    PROVE  EditorsInv'
<1>1. IsEditor(ed[t])
    BY DEF EditorsInv, EdOK, editing, NoEditor
<1>2. PICK d : d = [ed[t] EXCEPT !.blocks = blocks] /\ ed' = [ed EXCEPT ![t] = d]
    OBVIOUS
<1>3. IsEditor(d) /\ d.event = ed[t].event /\ d.baseline = ed[t].baseline /\ d.rev = ed[t].rev
    BY <1>1, <1>2 DEF IsEditor
<1>4. QED
    BY <1>2, <1>3, ScreenChanges

(* One section is replaced by one that is a block. *)
LEMMA SectionSet ==
    ASSUME NEW s, BlocksOK(s), NEW i \in DOMAIN s, NEW b, IsBlock(b)
    PROVE  BlocksOK([s EXCEPT ![i] = b])
<1>1. PICK r : r = [s EXCEPT ![i] = b]
    OBVIOUS
<1>2. s = [j \in DOMAIN s |-> s[j]]
    BY BlocksAre
<1>3. r = [j \in DOMAIN s |-> r[j]] /\ \A j \in DOMAIN s : IsBlock(s[j]) => IsBlock(r[j])
    BY <1>1, <1>2
<1>4. QED
    BY <1>1, <1>3, BlocksMapped

(* A section that is added is a block. *)
LEMMA NewBlock == \A type : IsBlock(newBlock(type)) /\ newBlock(type).type = type
<1>1. ASSUME NEW type, NEW c, newBlock(type) = Block(type, c), type \in Lists => Listed(c)
      PROVE  IsBlock(newBlock(type)) /\ newBlock(type).type = type
    BY <1>1 DEF IsBlock, Block
<1>2. Listed(<<Blank>>)
    <2>1. <<Blank>> \in Seq({Blank})
        OBVIOUS
    <2>2. QED
        BY <2>1 DEF Listed
<1>3. QED
    BY <1>1, <1>2 DEF newBlock

(* The steps that edit sections. *)
LEMMA EditSteps ==
    ASSUME EditorsInv, NEW t \in Tabs, editing(t),
           editSection(t) \/ \E type \in addGroups : addBlock(t, type)
    PROVE  EditorsInv'
<1> DEFINE b == ed[t].blocks
<1>1. BlocksOK(b)
    BY DEF EditorsInv, EdOK, editing, NoEditor, IsEditor
<1>2. b = [i \in DOMAIN b |-> b[i]] /\ DOMAIN b \subseteq Nat /\ \A i \in DOMAIN b : IsBlock(b[i])
    BY <1>1, BlocksAre
<1> HIDE DEF b
<1>3. ASSUME NEW blocks, BlocksOK(blocks), change(t, blocks) PROVE EditorsInv'
    BY <1>3, SectionsChange DEF change
<1>4. ASSUME NEW i \in DOMAIN b, NEW x, b[i].type \in Lists => Listed(x), setConfig(t, i, x)
      PROVE  EditorsInv'
    <2>1. PICK c : c = [b[i] EXCEPT !.content = x]
        OBVIOUS
    <2>2. IsBlock(c)
        BY <1>2, <1>4, <2>1, BlockChanges
    <2>3. change(t, [b EXCEPT ![i] = c])
        BY <1>4, <2>1 DEF setConfig, b
    <2>4. QED
        BY <1>1, <1>3, <2>2, <2>3, SectionSet
<1>5. ASSUME NEW i \in DOMAIN b, move(t, i) PROVE EditorsInv'
    <2>1. i + 1 \in DOMAIN b /\ change(t, [b EXCEPT ![i] = b[i + 1], ![i + 1] = b[i]])
        BY <1>5 DEF move, b
    <2>2. PICK r : r = [b EXCEPT ![i] = b[i + 1]]
        OBVIOUS
    <2>3. BlocksOK(r) /\ DOMAIN r = DOMAIN b
        BY <1>1, <1>2, <2>1, <2>2, SectionSet
    <2>4. BlocksOK([r EXCEPT ![i + 1] = b[i]])
        BY <1>2, <2>1, <2>3, SectionSet
    <2>5. QED
        BY <1>3, <2>1, <2>2, <2>4
<1>6. ASSUME NEW i \in DOMAIN b, hide(t, i) PROVE EditorsInv'
    <2>1. PICK x : change(t, [b EXCEPT ![i].visible = x])
        BY <1>6 DEF hide, b
    <2>2. PICK c : c = [b[i] EXCEPT !.visible = x] /\ change(t, [b EXCEPT ![i] = c])
        BY <2>1
    <2>3. IsBlock(c)
        BY <1>2, <2>2, BlockChanges
    <2>4. QED
        BY <1>1, <1>3, <2>2, <2>3, SectionSet
<1>7. ASSUME NEW i \in DOMAIN b, removeBlock(t, i) PROVE EditorsInv'
    <2>1. change(t, RemoveAt(b, i))
        BY <1>7 DEF removeBlock, b
    <2>2. BlocksOK(RemoveAt(b, i))
        BY <1>1, BlockRemoved
    <2>3. QED
        BY <1>3, <2>1, <2>2
<1>8. ASSUME NEW type, addBlock(t, type) PROVE EditorsInv'
    <2>1. change(t, Append(b, newBlock(type)))
        BY <1>8 DEF addBlock, b
    <2>2. IsBlock(newBlock(type))
        BY NewBlock
    <2>3. QED
        BY <1>1, <1>3, <2>1, <2>2, BlockAdded
<1>9. ASSUME NEW i \in DOMAIN b, startUpload(t, i) PROVE EditorsInv'
    BY <1>9 DEF startUpload, EditorsInv, EdOK, SentOK, editing
<1>10. ASSUME NEW i \in DOMAIN b,
              \/ addItem(t, i)
              \/ \E x \in {<<>>, <<"given">>} : setField(t, i, x)
              \/ \E j \in DOMAIN b[i].content :
                    removeItem(t, i, j) \/ moveLeft(t, i, j) \/ \E x \in {Blank, "given"} : setItem(t, i, j, x)
       PROVE  EditorsInv'
    <2>1. IsBlock(b[i]) /\ "hero" \notin Lists
        BY <1>2 DEF Lists
    <2>2. CASE b[i].type \in Lists
        <3>1. PICK c : c = b[i].content /\ Listed(c)
            BY <2>1, <2>2 DEF IsBlock
        <3>2. \/ setConfig(t, i, Append(c, Blank))
              \/ \E j \in DOMAIN c : setConfig(t, i, RemoveAt(c, j))
              \/ \E j \in DOMAIN c : \E x \in {Blank, "given"} : setConfig(t, i, [c EXCEPT ![j] = x])
            BY <1>10, <2>1, <2>2, <3>1 DEF addItem, setField, removeItem, moveLeft, setItem, b
        <3>3. QED
            BY <1>4, <3>1, <3>2, ListChanges
    <2>3. CASE b[i].type \notin Lists
        <3>1. \E x : setConfig(t, i, x)
            BY <1>10 DEF addItem, setField, removeItem, moveLeft, setItem
        <3>2. QED
            BY <1>4, <2>3, <3>1
    <2>4. QED
        BY <2>2, <2>3
<1>11. CASE editSection(t)
    BY <1>5, <1>6, <1>7, <1>9, <1>10, <1>11 DEF editSection, b
<1>12. QED
    BY <1>8, <1>11

(* A page is opened, or left. *)
LEMMA OpenOrLeave ==
    ASSUME EditorsInv, NEW t \in Tabs, (\E e \in Events : getPage(t, e)) \/ leave(t)
    PROVE  EditorsInv'
<1>1. /\ ed = [u \in Tabs |-> ed[u]] /\ \A e \in Events : IsPage(page[e])
      /\ \A u \in Tabs : EdOK(u) /\ SentOK(u)
    BY DEF EditorsInv
<1>2. ASSUME NEW d, d = NoEditor \/ (d.event # 0 /\ IsEditor(d) /\ Current(d, page[d.event])),
             sent[t] = NoRequest, UNCHANGED <<page, sent>>, ed' = [ed EXCEPT ![t] = d]
      PROVE  EditorsInv'
    <2>1. ed' = [u \in Tabs |-> ed'[u]] /\ ed'[t] = d /\ \A u \in Tabs : u # t => ed'[u] = ed[u]
        BY <1>1, <1>2
    <2>2. \A u \in Tabs : EdOK(u)'
        BY <1>1, <1>2, <2>1 DEF EdOK, editing
    <2>3. \A u \in Tabs : SentOK(u)'
        BY <1>1, <1>2, <2>1 DEF SentOK, editing
    <2>4. QED
        BY <1>2, <2>1, <2>2, <2>3 DEF EditorsInv
<1>3. ASSUME NEW e \in Events, getPage(t, e) PROVE EditorsInv'
    <2>1. PICK blocks : blocks = seedHeroCovers(page[e].blocks, page[e].banner)
        OBVIOUS
    <2>2. PICK base : base = [look |-> page[e].look, banner |-> page[e].banner, blocks |-> blocks]
        OBVIOUS
    <2>3. PICK d :
             /\ d = [event |-> e, look |-> page[e].look, banner |-> page[e].banner, blocks |-> blocks,
                     baseline |-> base, rev |-> page[e].rev]
             /\ ed' = [ed EXCEPT ![t] = d] /\ UNCHANGED <<page, sent>> /\ ~editing(t)
        BY <1>3, <2>1, <2>2 DEF getPage
    <2>4. IsPage(page[e])
        BY <1>1
    <2>5. BlocksOK(blocks)
        BY <2>1, <2>4, SeedingLeavesBlocks DEF IsPage
    <2>6. IsEditor(d) /\ d.event = e /\ e # 0
        BY <2>3, <2>5, CatalogAssumption DEF IsEditor
    <2>7. Current(d, page[e])
        BY <2>1, <2>2, <2>3, <2>4 DEF Current, IsPage
    <2>8. sent[t] = NoRequest
        BY <1>1, <2>3 DEF SentOK
    <2>9. QED
        BY <1>2, <2>3, <2>6, <2>7, <2>8
<1>4. CASE leave(t)
    <2>1. sent[t] = NoRequest /\ UNCHANGED <<page, sent>> /\ ed' = [ed EXCEPT ![t] = NoEditor]
        BY <1>4 DEF leave
    <2>2. PICK d : d = NoEditor
        OBVIOUS
    <2>3. ed' = [ed EXCEPT ![t] = d]
        BY <2>1, <2>2
    <2>4. QED
        BY <1>2, <2>1, <2>2, <2>3
<1>5. QED
    BY <1>3, <1>4

(* The look of the page changes, or an image arrives. *)
LEMMA LookOrImage ==
    ASSUME EditorsInv, UploadInv, NEW t \in Tabs,
           (\E look \in Looks : setLook(t, look)) \/ \E url \in Images : onUploaded(t, url)
    PROVE  EditorsInv'
<1>1. ASSUME NEW look \in Looks, setLook(t, look) PROVE EditorsInv'
    <2>1. editing(t) /\ IsEditor(ed[t])
        BY <1>1 DEF setLook, EditorsInv, EdOK, editing, NoEditor
    <2>2. PICK d : d = [ed[t] EXCEPT !.look = look] /\ ed' = [ed EXCEPT ![t] = d]
        BY <1>1 DEF setLook
    <2>3. IsEditor(d) /\ d.event = ed[t].event /\ d.baseline = ed[t].baseline /\ d.rev = ed[t].rev
        BY <2>1, <2>2 DEF IsEditor
    <2>4. QED
        BY <1>1, <2>1, <2>2, <2>3, ScreenChanges DEF setLook
<1>2. ASSUME NEW url \in Images, onUploaded(t, url) PROVE EditorsInv'
    <2> DEFINE b == ed[t].blocks
    <2> DEFINE filled == Append(upload[t].had, url)
    <2>1. PICK r : /\ r = [i \in DOMAIN b |-> IF b[i].type = upload[t].type
                                             THEN [b[i] EXCEPT !.content = filled] ELSE b[i]]
                   /\ ed' = [ed EXCEPT ![t].blocks = r] /\ UNCHANGED <<page, sent>>
        BY <1>2 DEF onUploaded
    <2>2. CASE editing(t)
        <3>1. BlocksOK(b)
            BY <2>2 DEF EditorsInv, EdOK, editing, NoEditor, IsEditor
        <3>2. \A i \in DOMAIN b : IsBlock(b[i]) /\ b[i].type = upload[t].type
                                     => IsBlock([b[i] EXCEPT !.content = filled])
            BY BlockChanges DEF UploadInv
        <3>3. BlocksOK(r)
            BY <2>1, <3>1, <3>2, BlocksMapped
        <3>4. QED
            BY <2>1, <2>2, <3>3, SectionsChange
    <2>3. CASE ~editing(t)
        <3>1. ed[t] = NoEditor /\ ed = [u \in Tabs |-> ed[u]]
            BY <2>3 DEF EditorsInv, EdOK
        <3>2. [ed[t] EXCEPT !.blocks = r] = NoEditor
            BY <3>1 DEF NoEditor
        <3>3. ed' = ed
            BY <2>1, <3>1, <3>2
        <3>4. QED
            BY <2>1, <3>3 DEF EditorsInv, EdOK, SentOK, editing
    <2>4. QED
        BY <2>2, <2>3
<1>3. QED
    BY <1>1, <1>2

(* A save is asked for, or its answer is lost. *)
LEMMA SaveOrLose ==
    ASSUME EditorsInv, NEW t \in Tabs, save(t) \/ loseAnswer(t)
    PROVE  EditorsInv'
<1>1. sent = [u \in Tabs |-> sent[u]] /\ UNCHANGED <<page, ed>> /\ \A u \in Tabs : EdOK(u) /\ SentOK(u)
    BY DEF EditorsInv, save, loseAnswer
<1>2. ASSUME NEW s, s = NoRequest \/ (s.at = "server" /\ editing(t) /\ Sendable(s)),
             sent' = [sent EXCEPT ![t] = s]
      PROVE  EditorsInv'
    <2>1. sent' = [u \in Tabs |-> sent'[u]] /\ sent'[t] = s /\ \A u \in Tabs : u # t => sent'[u] = sent[u]
        BY <1>1, <1>2
    <2>2. \A u \in Tabs : SentOK(u)'
        BY <1>1, <1>2, <2>1 DEF SentOK, editing
    <2>3. \A u \in Tabs : EdOK(u)'
        BY <1>1 DEF EdOK, editing
    <2>4. QED
        BY <1>1, <2>1, <2>2, <2>3 DEF EditorsInv
<1>3. CASE save(t)
    <2> DEFINE blocks == cleanBlocks(ed[t].blocks)
    <2>1. PICK s : /\ s = [at |-> "server", look |-> ed[t].look, banner |-> heroCover0(blocks),
                           blocks |-> blocks]
                   /\ sent' = [sent EXCEPT ![t] = s]
        BY <1>3 DEF save
    <2>2. editing(t) /\ BlocksOK(ed[t].blocks)
        BY <1>3 DEF save, EditorsInv, EdOK, editing, NoEditor, IsEditor
    <2>3. BlocksOK(cleanBlocks(ed[t].blocks))
        BY <2>2, SeedingLeavesBlocks
    <2>4. ~problem(blocks)
        BY <1>3, <2>2, CleanedIsFine DEF save
    <2>5. s.at = "server" /\ Sendable(s)
        BY <2>1, <2>3, <2>4 DEF Sendable
    <2>6. QED
        BY <1>2, <2>1, <2>2, <2>5
<1>4. CASE loseAnswer(t)
    <2>1. PICK s : s = NoRequest
        OBVIOUS
    <2>2. sent' = [sent EXCEPT ![t] = s]
        BY <1>4, <2>1 DEF loseAnswer
    <2>3. QED
        BY <1>2, <2>1, <2>2
<1>5. QED
    BY <1>3, <1>4

(* The page is written: what anyone else knows of it is now of an earlier  *)
(* writing.                                                                *)
LEMMA PageWritten ==
    ASSUME EditorsInv, NEW t \in Tabs, updatePage(t)
    PROVE  EditorsInv'
<1> DEFINE s == sent[t]
           e == ed[t].event
<1>1. /\ ed = [u \in Tabs |-> ed[u]] /\ sent = [u \in Tabs |-> sent[u]] /\ page = [x \in Events |-> page[x]]
      /\ (\A x \in Events : IsPage(page[x])) /\ \A u \in Tabs : EdOK(u) /\ SentOK(u)
    BY DEF EditorsInv
<1>2. s.at = "server" /\ UNCHANGED ed /\ editing(t) /\ Sendable(s) /\ e \in Events
    <2>1. s.at = "server" /\ UNCHANGED ed
        BY DEF updatePage
    <2>2. editing(t) /\ Sendable(s)
        BY <1>1, <2>1 DEF SentOK, NoRequest
    <2>3. QED
        BY <1>1, <2>1, <2>2 DEF EdOK, NoEditor, editing, IsEditor
<1>3. CASE sent' = [sent EXCEPT ![t] = NoRequest] /\ UNCHANGED page
    <2>1. /\ sent' = [u \in Tabs |-> sent'[u]] /\ sent'[t] = NoRequest
          /\ \A u \in Tabs : u # t => sent'[u] = sent[u]
        BY <1>1, <1>3
    <2>2. \A u \in Tabs : SentOK(u)'
        BY <1>1, <1>2, <1>3, <2>1 DEF SentOK, editing
    <2>3. QED
        BY <1>1, <1>2, <1>3, <2>1, <2>2 DEF EditorsInv, EdOK, editing
<1>4. ASSUME NEW row,
             row = [look |-> s.look, banner |-> s.banner, blocks |-> s.blocks, rev |-> page[e].rev + 1],
             NEW r, r = [at |-> "answer", look |-> s.look, banner |-> s.banner, blocks |-> s.blocks,
                         rev |-> row.rev],
             eventPageBlocksSchema(s.blocks), page' = [page EXCEPT ![e] = row], sent' = [sent EXCEPT ![t] = r]
      PROVE  EditorsInv'
    <2>1. page[e].rev \in Nat
        BY <1>1, <1>2 DEF IsPage
    <2>2. IsPage(row) /\ Sendable(r) /\ Written(r, row) /\ r.at = "answer"
        BY <1>2, <1>4, <2>1 DEF IsPage, Sendable, Written, eventPageBlocksSchema, Unique
    <2>3. /\ page' = [x \in Events |-> page'[x]] /\ page'[e] = row
          /\ \A x \in Events : x # e => page'[x] = page[x]
        BY <1>1, <1>2, <1>4
    <2>4. sent' = [u \in Tabs |-> sent'[u]] /\ sent'[t] = r /\ \A u \in Tabs : u # t => sent'[u] = sent[u]
        BY <1>1, <1>4
    <2>5. \A x \in Events : IsPage(page'[x])
        BY <1>1, <2>2, <2>3
    <2>6. ASSUME NEW d PROVE /\ Current(d, page[e]) => Current(d, row)
                             /\ Written(d, page[e]) => Written(d, row)
        BY <1>4, <2>1 DEF Current, Written
    <2>7. ASSUME NEW u \in Tabs, ed[u] # NoEditor
          PROVE  /\ Current(ed[u], page[ed[u].event]) => Current(ed[u], page'[ed[u].event])
                 /\ Written(sent[u], page[ed[u].event]) => Written(sent[u], page'[ed[u].event])
        <3>1. ed[u].event \in Events
            BY <1>1, <2>7 DEF EdOK, IsEditor
        <3>2. QED
            BY <2>3, <2>6, <3>1
    <2>8. ASSUME NEW u \in Tabs PROVE EdOK(u)'
        <3>1. ed'[u] = ed[u] /\ EdOK(u)
            BY <1>1, <1>2
        <3>2. CASE ed[u] = NoEditor
            BY <3>1, <3>2 DEF EdOK
        <3>3. CASE ed[u] # NoEditor
            <4>1. editing(u) /\ IsEditor(ed[u]) /\ Current(ed[u], page'[ed[u].event])
                BY <2>7, <3>1, <3>3 DEF EdOK
            <4>2. QED
                BY <1>2, <4>1 DEF EdOK, editing
        <3>4. QED
            BY <3>2, <3>3
    <2>9. ASSUME NEW u \in Tabs, u # t PROVE SentOK(u)'
        <3>1. sent'[u] = sent[u] /\ SentOK(u)
            BY <1>1, <2>4, <2>9
        <3>2. editing(u) => ed[u] # NoEditor
            BY DEF editing, NoEditor
        <3>3. QED
            BY <1>2, <2>7, <3>1, <3>2 DEF SentOK, editing
    <2>10. SentOK(t)'
        BY <1>2, <2>2, <2>3, <2>4 DEF SentOK, editing
    <2>11. QED
        BY <1>1, <1>2, <2>3, <2>4, <2>5, <2>8, <2>9, <2>10 DEF EditorsInv
<1>5. QED
    BY <1>3, <1>4 DEF updatePage

(* The answer comes: what was stored is what the editor shows. *)
LEMMA Answered ==
    ASSUME EditorsInv, NEW t \in Tabs, answer(t)
    PROVE  EditorsInv'
<1> DEFINE s == sent[t]
<1>1. /\ ed = [u \in Tabs |-> ed[u]] /\ sent = [u \in Tabs |-> sent[u]] /\ page = [x \in Events |-> page[x]]
      /\ (\A x \in Events : IsPage(page[x])) /\ \A u \in Tabs : EdOK(u) /\ SentOK(u)
    BY DEF EditorsInv
<1>2. s.at = "answer" /\ sent' = [sent EXCEPT ![t] = NoRequest] /\ UNCHANGED page
    BY DEF answer
<1>3. editing(t) /\ Sendable(s) /\ Written(s, page[ed[t].event])
    BY <1>1, <1>2 DEF SentOK, NoRequest
<1>4. IsEditor(ed[t])
    BY <1>1, <1>3 DEF EdOK, editing, NoEditor
<1>5. PICK base : base = [look |-> s.look, banner |-> s.banner, blocks |-> s.blocks]
    OBVIOUS
<1>6. PICK d : /\ d = [ed[t] EXCEPT !.banner = s.banner, !.blocks = s.blocks,
                                     !.baseline = base, !.rev = s.rev]
               /\ ed' = [ed EXCEPT ![t] = d]
    BY <1>5 DEF answer
<1>7. IsEditor(d) /\ d.event = ed[t].event /\ d.rev = s.rev /\ d.baseline = base
    BY <1>3, <1>4, <1>6 DEF IsEditor, Sendable
<1>8. Current(d, page[d.event])
    <2>1. s.rev = page[d.event].rev => s.blocks = seedHeroCovers(page[d.event].blocks, page[d.event].banner)
        BY <1>3, <1>7, StoredAsSent DEF Written, Sendable
    <2>2. QED
        BY <1>3, <1>5, <1>7, <2>1 DEF Current, Written
<1>9. /\ ed' = [u \in Tabs |-> ed'[u]] /\ ed'[t] = d /\ \A u \in Tabs : u # t => ed'[u] = ed[u]
      /\ sent' = [u \in Tabs |-> sent'[u]] /\ sent'[t] = NoRequest
      /\ \A u \in Tabs : u # t => sent'[u] = sent[u]
    BY <1>1, <1>2, <1>6
<1>10. \A u \in Tabs : EdOK(u)'
    BY <1>1, <1>2, <1>3, <1>7, <1>8, <1>9 DEF EdOK, editing
<1>11. \A u \in Tabs : SentOK(u)'
    BY <1>1, <1>2, <1>9 DEF SentOK, editing
<1>12. QED
    BY <1>1, <1>2, <1>9, <1>10, <1>11 DEF EditorsInv

(* An upload is begun for a section of images. *)
LEMMA UploadSteps ==
    ASSUME UploadInv, [Next]_storeVars
    PROVE  UploadInv'
<1>1. CASE UNCHANGED upload
    BY <1>1 DEF UploadInv
<1>2. ASSUME NEW t \in Tabs, NEW u, u.type \notin Lists, upload' = [upload EXCEPT ![t] = u]
      PROVE  UploadInv'
    BY <1>2 DEF UploadInv
<1>3. ASSUME NEW t \in Tabs, NEW i, startUpload(t, i) PROVE UploadInv'
    <2>1. PICK b, u : /\ b = ed[t].blocks[i] /\ b.type \in Galleries
                      /\ u = [type |-> b.type, had |-> b.content] /\ upload' = [upload EXCEPT ![t] = u]
        BY <1>3 DEF startUpload
    <2>2. u.type \notin Lists
        BY <2>1 DEF Galleries, Lists
    <2>3. QED
        BY <1>2, <2>1, <2>2
<1>4. ASSUME NEW t \in Tabs, NEW url, onUploaded(t, url) PROVE UploadInv'
    <2>1. PICK u : u = NoUpload /\ upload' = [upload EXCEPT ![t] = u]
        BY <1>4 DEF onUploaded
    <2>2. u.type \notin Lists
        BY <2>1 DEF NoUpload, Lists
    <2>3. QED
        BY <1>2, <2>1, <2>2
<1>5. ASSUME NEW t \in Tabs,
             \/ save(t) \/ updatePage(t) \/ answer(t) \/ loseAnswer(t) \/ leave(t)
             \/ \E e \in Events : getPage(t, e)
             \/ \E look \in Looks : setLook(t, look)
             \/ \E type \in addGroups : addBlock(t, type)
             \/ \E f : set(t, f)
             \/ addTrustItem(t) \/ submitStorefront(t) \/ updateStorefront(t)
             \/ \E j \in 1..Items : removeTrustItem(t, j) \/ \E x \in {Blank, "given"} : setTrustItem(t, j, x)
      PROVE  UNCHANGED upload
    BY <1>5 DEF save, updatePage, answer, loseAnswer, leave, getPage, setLook, addBlock, change, set,
        addTrustItem, submitStorefront, updateStorefront, removeTrustItem, setTrustItem
<1>6. ASSUME NEW t \in Tabs, editSection(t) PROVE UploadInv'
    <2>1. (\E i : startUpload(t, i)) \/ UNCHANGED upload
        BY <1>6 DEF editSection, move, hide, removeBlock, addItem, setField, removeItem, moveLeft,
            setItem, setConfig, change
    <2>2. QED
        BY <1>1, <1>3, <2>1
<1> HIDE DEF UploadInv
<1>7. CASE EditorsNext
    <2>1. PICK t \in Tabs :
             \/ save(t) \/ updatePage(t) \/ answer(t) \/ loseAnswer(t) \/ leave(t)
             \/ \E e \in Events : getPage(t, e)
             \/ \E look \in Looks : setLook(t, look)
             \/ \E type \in addGroups : addBlock(t, type)
             \/ \E f : set(t, f)
             \/ addTrustItem(t) \/ submitStorefront(t) \/ updateStorefront(t)
             \/ \E j \in 1..Items : removeTrustItem(t, j) \/ \E x \in {Blank, "given"} : setTrustItem(t, j, x)
             \/ (\E url \in Images : onUploaded(t, url)) \/ editSection(t)
        BY <1>7 DEF EditorsNext
    <2>2. QED
        BY <1>1, <1>4, <1>5, <1>6, <2>1
<1>8. QED
    BY <1>1, <1>7 DEF Next, storeVars, editorVars

(* Every step of the shop. *)
LEMMA EditorsSteps ==
    ASSUME EditorsInv, UploadInv, [Next]_storeVars
    PROVE  EditorsInv' /\ UploadInv'
<1>0. UploadInv'
    BY UploadSteps
<1> SUFFICES EditorsInv'
    BY <1>0
<1>1. CASE UNCHANGED <<page, ed, sent>>
    BY <1>1 DEF EditorsInv, EdOK, SentOK, editing
<1>2. ASSUME NEW t \in Tabs, NEW f, set(t, f) PROVE UNCHANGED <<page, ed, sent>>
    BY <1>2 DEF set
<1>3. ASSUME NEW t \in Tabs,
             \/ \E f : set(t, f)
             \/ addTrustItem(t) \/ submitStorefront(t) \/ updateStorefront(t)
             \/ \E j \in 1..Items : removeTrustItem(t, j) \/ \E x \in {Blank, "given"} : setTrustItem(t, j, x)
      PROVE  EditorsInv'
    BY <1>1, <1>2, <1>3 DEF addTrustItem, submitStorefront, updateStorefront, removeTrustItem, setTrustItem
<1>4. ASSUME NEW t \in Tabs,
             \/ save(t) \/ updatePage(t) \/ answer(t) \/ loseAnswer(t) \/ leave(t)
             \/ \E e \in Events : getPage(t, e)
             \/ \E look \in Looks : setLook(t, look)
             \/ \E url \in Images : onUploaded(t, url)
      PROVE  EditorsInv'
    BY <1>4, OpenOrLeave, LookOrImage, SaveOrLose, PageWritten, Answered
<1>5. ASSUME NEW t \in Tabs, (\E type \in addGroups : addBlock(t, type)) \/ (editing(t) /\ editSection(t))
      PROVE  EditorsInv'
    <2>1. editing(t)
        BY <1>5 DEF addBlock
    <2>2. QED
        BY <1>5, <2>1, EditSteps
<1> HIDE DEF EditorsInv
<1>6. CASE EditorsNext
    <2>1. PICK t \in Tabs :
             \/ save(t) \/ updatePage(t) \/ answer(t) \/ loseAnswer(t) \/ leave(t)
             \/ \E e \in Events : getPage(t, e)
             \/ \E look \in Looks : setLook(t, look)
             \/ \E url \in Images : onUploaded(t, url)
             \/ (\E type \in addGroups : addBlock(t, type)) \/ (editing(t) /\ editSection(t))
             \/ \E f : set(t, f)
             \/ addTrustItem(t) \/ submitStorefront(t) \/ updateStorefront(t)
             \/ \E j \in 1..Items : removeTrustItem(t, j) \/ \E x \in {Blank, "given"} : setTrustItem(t, j, x)
        BY <1>6 DEF EditorsNext
    <2>2. QED
        BY <1>3, <1>4, <1>5, <2>1
<1>7. QED
    BY <1>1, <1>6 DEF Next, storeVars, editorVars

(* The pages there are at first. *)
LEMMA EditorsStart ==
    ASSUME EditorsInit
    PROVE  EditorsInv /\ UploadInv
<1>1. /\ BlocksOK(defaultPageBlocks) /\ Unique(defaultPageBlocks)
      /\ eventPageBlocksSchema(defaultPageBlocks) /\ ~problem(defaultPageBlocks)
    <2>1. PICK h, d, k : /\ h = newBlock("hero") /\ d = newBlock("description") /\ k = newBlock("tickets")
                         /\ defaultPageBlocks = <<h, d, k>>
        BY DEF defaultPageBlocks
    <2>2. /\ IsBlock(h) /\ IsBlock(d) /\ IsBlock(k)
          /\ h.type = "hero" /\ d.type = "description" /\ k.type = "tickets"
        BY <2>1, NewBlock
    <2>3. defaultPageBlocks \in Seq({h, d, k})
        BY <2>1
    <2>4. BlocksOK(defaultPageBlocks)
        BY <2>2, <2>3 DEF BlocksOK
    <2>5. Unique(defaultPageBlocks)
        BY <2>1, <2>2 DEF Unique
    <2>6. eventPageBlocksSchema(defaultPageBlocks)
        BY <2>1, <2>2, <2>5 DEF eventPageBlocksSchema, Unique
    <2>7. ~problem(defaultPageBlocks)
        BY <2>1, <2>2 DEF problem, Filled, Lists
    <2>8. QED
        BY <2>4, <2>5, <2>6, <2>7
<1>2. IsPage(NoRow) /\ IsPage(Legacy)
    <2>1. NoRow = [look |-> "light", banner |-> NoImage, blocks |-> defaultPageBlocks, rev |-> 0]
        BY DEF NoRow
    <2>2. IsPage(NoRow)
        BY <1>1, <2>1 DEF IsPage
    <2>3. PICK row, old : row = NoRow /\ old = [row EXCEPT !.banner = "old", !.rev = 1]
        OBVIOUS
    <2>4. IsPage(old)
        BY <2>2, <2>3 DEF IsPage
    <2>5. QED
        BY <2>2, <2>3, <2>4 DEF Legacy
<1>3. /\ page \in [Events -> {NoRow, Legacy}] /\ ed = [t \in Tabs |-> NoEditor]
      /\ sent = [t \in Tabs |-> NoRequest]
    BY DEF EditorsInit
<1>4. \A e \in Events : IsPage(page[e])
    BY <1>2, <1>3
<1>5. \A t \in Tabs : EdOK(t) /\ SentOK(t)
    BY <1>3 DEF EdOK, SentOK
<1>6. UploadInv
    BY DEF EditorsInit, UploadInv, NoUpload, Lists
<1>7. QED
    BY <1>3, <1>4, <1>5, <1>6 DEF EditorsInv

(* An editor that says everything is saved holds what is stored, unless    *)
(* the page was written since: edits that go on while a save is on its     *)
(* way are not counted as saved, an answer that is lost leaves the editor  *)
(* unsaved, and what the editor previews is what the public gets, the      *)
(* pages saved before sections had covers included (page-editor.tsx).      *)
THEOREM SavedIsStored == Spec => []SavedMeansStored
<1>1. Init => EditorsInv /\ UploadInv
    BY EditorsStart DEF Init
<1>2. EditorsInv /\ UploadInv /\ [Next]_storeVars => EditorsInv' /\ UploadInv'
    BY EditorsSteps
<1>3. EditorsInv => SavedMeansStored
    <2>1. SUFFICES ASSUME EditorsInv, NEW t \in Tabs, editing(t), ~dirty(t), ed[t].rev = page[ed[t].event].rev
                   PROVE  /\ ed[t].look = page[ed[t].event].look
                          /\ preview(t) = EventPageView(page[ed[t].event])
                          /\ ed[t].blocks = seedHeroCovers(page[ed[t].event].blocks, page[ed[t].event].banner)
        BY DEF SavedMeansStored
    <2> DEFINE row == page[ed[t].event]
               b == ed[t].blocks
    <2>2. IsEditor(ed[t]) /\ Current(ed[t], row)
        BY <2>1 DEF EditorsInv, EdOK, editing, NoEditor
    <2>3. BlocksOK(row.blocks) /\ Unique(row.blocks)
        BY <2>1, <2>2 DEF EditorsInv, IsPage, IsEditor
    <2>4. ed[t].look = row.look /\ b = seedHeroCovers(row.blocks, row.banner)
        BY <2>1, <2>2 DEF Current, dirty, screen
    <2>5. \A i \in DOMAIN row.blocks :
             renderBlock(b[i], heroCover0(b)) = renderBlock(row.blocks[i], row.banner)
        BY <2>3, <2>4, PreviewShows
    <2>6. DOMAIN b = DOMAIN row.blocks
        BY <2>4 DEF seedHeroCovers
    <2>7. preview(t) = FlattenSeq([i \in DOMAIN b |-> renderBlock(b[i], heroCover0(b))])
        <3>1. PICK shown : shown = [screen(t) EXCEPT !.banner = heroCover0(b)]
            OBVIOUS
        <3>2. shown.blocks = b /\ shown.banner = heroCover0(b)
            BY <3>1 DEF screen
        <3>3. QED
            BY <3>1, <3>2 DEF preview, EventPageView
    <2>8. [i \in DOMAIN b |-> renderBlock(b[i], heroCover0(b))]
              = [i \in DOMAIN row.blocks |-> renderBlock(row.blocks[i], row.banner)]
        BY <2>5, <2>6
    <2>9. QED
        BY <2>4, <2>7, <2>8 DEF EventPageView
<1>4. QED
    BY <1>1, <1>2, <1>3, PTL DEF Spec

-------------------------------------------------------------------------------
(* The customers                                                           *)

IsCustomer(c) ==
    /\ c = [id |-> c.id, phone |-> c.phone, opted |-> c.opted, bought |-> c.bought,
            turn |-> c.turn, consent |-> c.consent, anon |-> c.anon]
    /\ c.id \in Nat /\ (c = NoCustomer \/ c.id # 0)
IsOrder(r) ==
    r = [email |-> r.email, phone |-> r.phone, status |-> r.status, paid |-> r.paid,
         turn |-> r.turn, issued |-> r.issued]

CustomerRows ==
    /\ cust = [m \in Emails |-> cust[m]] /\ \A m \in Emails : IsCustomer(cust[m])
    /\ \A m, n \in Emails : cust[m].id = cust[n].id /\ cust[m].id # 0 => m = n
OrderRows == order = [o \in Orders |-> order[o]] /\ \A o \in Orders : IsOrder(order[o])

Kept(id) == \E m \in Emails : cust[m].id = id
Unordered(p) == \A o \in Orders : order[o].email # Email(p)

(* A row that is to be erased is that of a customer there still is; unless *)
(* the person's data came in anew it is the one under the person's e-mail, *)
(* and once the orders are done none of them is left.                      *)
RowOK(r) ==
    /\ r.email \in Emails /\ r.id \in Nat \ {0} /\ Kept(r.id)
    /\ \A p \in People \ given :
          r.email = Email(p) /\ known(Email(p)) => cust[Email(p)].id = r.id
ErasureOK(j) ==
    /\ j = [op |-> j.op, rows |-> j.rows, row |-> j.row, then |-> j.then]
    /\ j.row \in j.rows /\ \A r \in j.rows : RowOK(r)
    /\ j.op = "customer" => \A p \in People \ given : j.row.email = Email(p) => Unordered(p)

(* Data on its way has come in. *)
Writes(j, p) == j.op \in {"fulfil", "lead"} /\ j.email = Email(p)
Erases(j) == j.op \in {"orders", "customer"}
JobOK(w) ==
    /\ \A p \in People : Writes(job[w], p) => p \in given
    /\ Erases(job[w]) => ErasureOK(job[w])

Gone(p) == ~known(Email(p)) /\ Unordered(p)

CustomersInv ==
    /\ CustomerRows /\ OrderRows
    /\ job = [w \in Workers |-> job[w]] /\ \A w \in Workers : JobOK(w)
    /\ erased \subseteq People
    /\ \A p \in erased \ given : Gone(p)

(* No customer has the next id. *)
LEMMA NextIdIsNew ==
    ASSUME CustomerRows, NEW m \in Emails
    PROVE  NextId \in Nat \ {0} /\ cust[m].id < NextId
<1> DEFINE ids == {cust[n].id : n \in Emails}
<1>1. IsFiniteSet(Emails)
    <2>1. IsFiniteSet({"real", "anon", "again"})
        <3>1. IsFiniteSet({"real"})
            BY FS_Singleton
        <3>2. IsFiniteSet({"real"} \cup {"anon"})
            BY <3>1, FS_AddElement
        <3>3. IsFiniteSet(({"real"} \cup {"anon"}) \cup {"again"})
            BY <3>2, FS_AddElement
        <3>4. {"real", "anon", "again"} = ({"real"} \cup {"anon"}) \cup {"again"}
            OBVIOUS
        <3>5. QED
            BY <3>3, <3>4
    <2>2. QED
        BY <2>1, CustomersAssumption, FS_Product DEF Emails
<1>2. IsFiniteSet(ids)
    <2> DEFINE idOf == [n \in Emails |-> cust[n].id]
    <2>1. idOf \in Surjection(Emails, ids)
        BY DEF Surjection
    <2>2. QED
        BY <1>1, <2>1, FS_Surjection
<1>3. ids \subseteq Nat /\ cust[m].id \in ids
    BY DEF CustomerRows, IsCustomer
<1> HIDE DEF ids
<1>4. Max(ids) \in Nat /\ cust[m].id <= Max(ids)
    BY <1>2, <1>3, MaxIs
<1>5. NextId = 1 + Max(ids) /\ cust[m].id \in Nat
    BY <1>3 DEF NextId, ids
<1>6. QED
    BY <1>4, <1>5

(* The e-mail of a person is one; a pseudonym is nobody's. *)
LEMMA EmailsAre ==
    /\ \A p \in People : Email(p) \in Emails /\ Email(p)[1] = "real" /\ Email(p)[2] = p
    /\ \A m \in Emails : m[1] \in {"real", "anon", "again"} /\ m[2] \in People
    /\ \A m \in Emails : m[1] = "real" => m = Email(m[2])
    /\ \A m \in Emails : pseudonymFor(m) \in Emails /\ pseudonymFor(m)[1] # "real"
    /\ \A p, q : Email(p) = Email(q) => p = q
BY DEF Email, Emails, pseudonymFor

(* A step brings no customer and no order of a person whose data did not   *)
(* come in.                                                                *)
Respects(p) ==
    /\ known(Email(p))' => known(Email(p)) /\ cust'[Email(p)].id = cust[Email(p)].id
    /\ Unordered(p) => Unordered(p)'

(* What keeps the invariant: rows stay rows, ids stay with a customer, and *)
(* what is said to be erased is gone.                                      *)
LEMMA Respected ==
    ASSUME CustomersInv, CustomerRows', OrderRows',
           given \subseteq given', erased' \subseteq People,
           \A p \in People \ given' : Respects(p),
           \A i \in Nat \ {0} : Kept(i) => Kept(i)',
           job' = [w \in Workers |-> job'[w]],
           \A w \in Workers : job'[w] = job[w] \/ JobOK(w)',
           \A p \in erased' \ given' : p \in erased \/ Gone(p)'
    PROVE  CustomersInv'
<1>1. ASSUME NEW r, RowOK(r) PROVE RowOK(r)'
    <2>1. r.email \in Emails /\ r.id \in Nat \ {0} /\ Kept(r.id)'
        BY <1>1 DEF RowOK, Kept
    <2>2. ASSUME NEW p \in People \ given', r.email = Email(p), known(Email(p))'
          PROVE  cust'[Email(p)].id = r.id
        BY <1>1, <2>2 DEF RowOK, Respects
    <2>3. QED
        BY <2>1, <2>2 DEF RowOK
<1>2. ASSUME NEW w \in Workers, job'[w] = job[w] PROVE JobOK(w)'
    <2>1. JobOK(w)
        BY DEF CustomersInv
    <2>2. \A p \in People : Writes(job[w], p) => p \in given'
        BY <2>1 DEF JobOK
    <2>3. ASSUME Erases(job[w]) PROVE ErasureOK(job[w])'
        <3>1. ErasureOK(job[w])
            BY <2>1, <2>3 DEF JobOK
        <3> DEFINE j == job[w]
        <3>2. \A r \in j.rows : RowOK(r)'
            BY <1>1, <3>1 DEF ErasureOK
        <3>3. j.op = "customer" => \A p \in People \ given' : j.row.email = Email(p) => Unordered(p)'
            BY <3>1 DEF ErasureOK, Respects
        <3>4. QED
            BY <1>2, <3>1, <3>2, <3>3 DEF ErasureOK
    <2>4. QED
        BY <1>2, <2>2, <2>3 DEF JobOK
<1>3. ASSUME NEW p \in erased' \ given' PROVE Gone(p)'
    <2>1. CASE p \in erased
        BY <1>3, <2>1 DEF CustomersInv, Gone, Respects
    <2>2. QED
        BY <1>3, <2>1
<1>4. QED
    BY <1>2, <1>3 DEF CustomersInv

(* A worker goes on to what erases nothing. *)
LEMMA WorkerGoesOn ==
    ASSUME CustomersInv, given \subseteq given', NEW w \in Workers, NEW j,
           job' = [job EXCEPT ![w] = j], ~Erases(j), \A p \in People : Writes(j, p) => p \in given'
    PROVE  /\ job' = [v \in Workers |-> job'[v]]
           /\ \A v \in Workers : job'[v] = job[v] \/ JobOK(v)'
<1>1. job = [v \in Workers |-> job[v]]
    BY DEF CustomersInv
<1>2. job'[w] = j /\ \A v \in Workers : v # w => job'[v] = job[v]
    BY <1>1
<1>3. JobOK(w)'
    BY <1>2 DEF JobOK
<1>4. QED
    BY <1>1, <1>2, <1>3

(* The customers stay. *)
LEMMA CustomersStay ==
    ASSUME CustomersInv, UNCHANGED cust
    PROVE  /\ CustomerRows'
           /\ \A i \in Nat \ {0} : Kept(i) => Kept(i)'
           /\ \A p \in People : known(Email(p))' <=> known(Email(p))
BY DEF CustomersInv, CustomerRows, Kept, known

(* What the status, the dates and the tickets of orders become leaves the  *)
(* buyers alone.                                                           *)
LEMMA OrdersKeepBuyers ==
    ASSUME CustomersInv, order' = [o \in Orders |-> order'[o]],
           \A o \in Orders : IsOrder(order'[o]) /\ order'[o].email = order[o].email
    PROVE  OrderRows' /\ \A p \in People : Unordered(p) => Unordered(p)'
BY DEF OrderRows, Unordered

(* One order is written. *)
LEMMA OrderChanges ==
    ASSUME OrderRows, NEW o \in Orders, NEW r, order' = [order EXCEPT ![o] = r], IsOrder(r)
    PROVE  /\ OrderRows'
           /\ \A x \in Orders : order'[x] = IF x = o THEN r ELSE order[x]
BY DEF OrderRows

(* An order that is paid, ages or expires keeps its buyer. *)
LEMMA OrderFields ==
    ASSUME NEW r, IsOrder(r), NEW new, NEW v, NEW t,
           \/ new = [r EXCEPT !.status = v] \/ new = [r EXCEPT !.paid = v] \/ new = [r EXCEPT !.issued = v]
           \/ new = [r EXCEPT !.status = "PAID", !.paid = "recent", !.turn = t]
    PROVE  IsOrder(new) /\ new.email = r.email
BY DEF IsOrder

(* Steps of orders and workers that write no customer. *)
LEMMA OrdersMove ==
    ASSUME CustomersInv, UNCHANGED <<cust, erased>>, given \subseteq given', OrderRows',
           \A p \in People \ given' : Unordered(p) => Unordered(p)',
           job' = [w \in Workers |-> job'[w]],
           \A w \in Workers : job'[w] = job[w] \/ JobOK(w)'
    PROVE  CustomersInv'
<1>1. \A p \in People \ given' : Respects(p)
    BY CustomersStay DEF Respects
<1>2. erased' \subseteq People /\ \A p \in erased' \ given' : p \in erased
    BY DEF CustomersInv
<1>3. QED
    BY <1>1, <1>2, CustomersStay, Respected

(* Steps that leave customers, orders and jobs alone. *)
LEMMA NothingWritten ==
    ASSUME CustomersInv, UNCHANGED <<cust, order, job, erased, given>>
    PROVE  CustomersInv'
<1>1. /\ OrderRows' /\ \A p \in People : Unordered(p) => Unordered(p)'
      /\ job' = [w \in Workers |-> job'[w]]
    BY DEF CustomersInv, OrderRows, Unordered
<1>2. QED
    BY <1>1, OrdersMove

(* A worker goes on. *)
LEMMA WorkersMove ==
    ASSUME CustomersInv, UNCHANGED <<cust, order, erased>>, given \subseteq given',
           NEW w \in Workers, NEW j,
           job' = [job EXCEPT ![w] = j], ~Erases(j), \A p \in People : Writes(j, p) => p \in given'
    PROVE  CustomersInv'
<1>1. OrderRows' /\ \A p \in People : Unordered(p) => Unordered(p)'
    BY DEF CustomersInv, OrderRows, Unordered
<1>2. QED
    BY <1>1, WorkerGoesOn, OrdersMove

(* An order is written and keeps its buyer. *)
LEMMA OrderRenewed ==
    ASSUME CustomersInv, NEW o \in Orders, NEW new, IsOrder(new), new.email = order[o].email,
           order' = [order EXCEPT ![o] = new]
    PROVE  OrderRows' /\ \A p \in People : Unordered(p) => Unordered(p)'
<1>1. OrderRows /\ OrderRows' /\ \A x \in Orders : order'[x] = IF x = o THEN new ELSE order[x]
    BY OrderChanges DEF CustomersInv
<1>2. QED
    BY <1>1 DEF Unordered

(* An order is paid, or expires. *)
LEMMA OrderSettled ==
    ASSUME CustomersInv, NEW o,
           order' = markOrderPaid(o) \/ order' = [order EXCEPT ![o].status = "EXPIRED"],
           UNCHANGED <<cust, job, erased, given>>
    PROVE  CustomersInv'
<1>1. (o \in Orders => IsOrder(order[o])) /\ job = [w \in Workers |-> job[w]]
    BY DEF CustomersInv, OrderRows
<1>2. CASE o \notin Orders
    <2>1. UNCHANGED order
        BY <1>2 DEF CustomersInv, OrderRows, markOrderPaid
    <2>2. QED
        BY <2>1, NothingWritten
<1>3. CASE o \in Orders /\ order' = markOrderPaid(o)
    <2>1. PICK new : /\ order' = [order EXCEPT ![o] = new]
                     /\ new = [order[o] EXCEPT !.status = "PAID", !.paid = "recent",
                                   !.turn = 1 + Cardinality({x \in Orders : order[x].turn > 0})]
        BY ZenonT(40), <1>3 DEF markOrderPaid
    <2>2. IsOrder(new) /\ new.email = order[o].email
        BY <1>1, <1>3, <2>1, OrderFields
    <2>3. OrderRows' /\ \A p \in People : Unordered(p) => Unordered(p)'
        BY <1>3, <2>1, <2>2, OrderRenewed
    <2>4. QED
        BY <1>1, <2>3, OrdersMove
<1>4. CASE o \in Orders /\ order' = [order EXCEPT ![o].status = "EXPIRED"]
    <2>1. PICK new : order' = [order EXCEPT ![o] = new] /\ new = [order[o] EXCEPT !.status = "EXPIRED"]
        BY <1>4
    <2>2. IsOrder(new) /\ new.email = order[o].email
        BY <1>1, <1>4, <2>1, OrderFields
    <2>3. OrderRows' /\ \A p \in People : Unordered(p) => Unordered(p)'
        BY <1>4, <2>1, <2>2, OrderRenewed
    <2>4. QED
        BY <1>1, <2>3, OrdersMove
<1>5. QED
    BY <1>2, <1>3, <1>4

(* An order is placed: its buyer's data came in. *)
LEMMA OrderPlaced ==
    ASSUME CustomersInv, NEW o \in Orders, NEW email, NEW phone, placeOrder(o, email, phone),
           UNCHANGED <<cust, job, erased>>
    PROVE  CustomersInv'
<1>1. PICK new : /\ order' = [order EXCEPT ![o] = new]
                 /\ new = [NoOrder EXCEPT !.email = email, !.phone = phone, !.status = "AWAITING_PAYMENT"]
    BY DEF placeOrder
<1>2. IsOrder(new) /\ new.email = email
    BY <1>1 DEF IsOrder, NoOrder
<1>3. OrderRows /\ OrderRows' /\ \A x \in Orders : order'[x] = IF x = o THEN new ELSE order[x]
    <2>1. OrderRows
        BY DEF CustomersInv
    <2>2. order' = [order EXCEPT ![o] = new] /\ IsOrder(new)
        BY <1>1, <1>2
    <2>3. QED
        BY <2>1, <2>2, OrderChanges
<1>4. ASSUME NEW p \in People \ given', Unordered(p) PROVE Unordered(p)'
    <2>1. email # Email(p)
        BY <1>4, EmailsAre DEF placeOrder
    <2>2. QED
        BY <1>2, <1>3, <1>4, <2>1 DEF Unordered
<1>5. given \subseteq given' /\ job = [w \in Workers |-> job[w]]
    BY DEF placeOrder, CustomersInv
<1>6. QED
    BY <1>3, <1>4, <1>5, OrdersMove

(* The tickets of an order are issued, or the process stops and some are   *)
(* not.                                                                    *)
LEMMA TicketsIssued ==
    ASSUME CustomersInv, NEW w \in Workers, NEW j, job' = [job EXCEPT ![w] = j], j.op \in {"issued", "none"},
           \/ UNCHANGED order
           \/ \E o, issued : order' = [order EXCEPT ![o].issued = issued],
           UNCHANGED <<cust, erased, given>>
    PROVE  CustomersInv'
<1>1. /\ job' = [v \in Workers |-> job'[v]]
      /\ \A v \in Workers : job'[v] = job[v] \/ JobOK(v)'
    BY WorkerGoesOn DEF Erases, Writes
<1>2. OrderRows' /\ \A p \in People : Unordered(p) => Unordered(p)'
    <2>1. CASE UNCHANGED order
        BY <2>1 DEF CustomersInv, OrderRows, Unordered
    <2>2. ASSUME NEW o, NEW issued, order' = [order EXCEPT ![o].issued = issued]
          PROVE  OrderRows' /\ \A p \in People : Unordered(p) => Unordered(p)'
        <3>1. CASE o \notin Orders
            <4>1. UNCHANGED order
                BY <2>2, <3>1 DEF CustomersInv, OrderRows
            <4>2. QED
                BY <2>1, <4>1
        <3>2. CASE o \in Orders
            <4>1. PICK new : order' = [order EXCEPT ![o] = new] /\ new = [order[o] EXCEPT !.issued = issued]
                BY <2>2
            <4>2. IsOrder(order[o])
                BY <3>2 DEF CustomersInv, OrderRows
            <4>3. IsOrder(new) /\ new.email = order[o].email
                BY <4>1, <4>2, OrderFields
            <4>4. QED
                BY <3>2, <4>1, <4>3, OrderRenewed
        <3>3. QED
            BY <3>1, <3>2
    <2>3. QED
        BY <2>1, <2>2
<1>3. QED
    BY <1>1, <1>2, OrdersMove

(* A worker reads an order's buyer, or finds no customer for a lead. *)
LEMMA DataOnItsWay ==
    ASSUME CustomersInv, NEW w \in Workers,
           readOrder(w) \/ \E p, phone : captureLead(w, p, phone)
    PROVE  CustomersInv'
<1>1. CASE readOrder(w)
    <2>1. PICK o : o = order[job[w].order]
        OBVIOUS
    <2>2. PICK j : /\ j = [op |-> "fulfil", email |-> o.email, phone |-> o.phone, paid |-> o.paid,
                            turn |-> o.turn]
                   /\ job' = [job EXCEPT ![w] = j]
        BY <1>1, <2>1 DEF readOrder
    <2>3. given \subseteq given' /\ \A p \in People : Writes(j, p) => p \in given'
        BY <1>1, <2>1, <2>2, EmailsAre DEF readOrder, Writes
    <2>4. ~Erases(j) /\ UNCHANGED <<cust, order, erased>>
        BY <1>1, <2>2 DEF readOrder, Erases
    <2>5. QED
        BY <2>2, <2>3, <2>4, WorkersMove
<1>2. ASSUME NEW p, NEW phone, captureLead(w, p, phone) PROVE CustomersInv'
    <2>1. PICK j : j = [op |-> "lead", email |-> Email(p), phone |-> phone] /\ job' = [job EXCEPT ![w] = j]
        BY <1>2 DEF captureLead
    <2>2. given \subseteq given' /\ \A q \in People : Writes(j, q) => q \in given'
        BY <1>2, <2>1, EmailsAre DEF captureLead, Writes
    <2>3. ~Erases(j) /\ UNCHANGED <<cust, order, erased>>
        BY <1>2, <2>1 DEF captureLead, Erases
    <2>4. QED
        BY <2>1, <2>2, <2>3, WorkersMove
<1>3. QED
    BY <1>1, <1>2

(* A customer's row that is written again keeps its shape; *)
LEMMA CustomerFields ==
    ASSUME NEW c, IsCustomer(c), c.id # 0, NEW new, NEW u, NEW v,
           new = [c EXCEPT !.opted = v] \/ new = [c EXCEPT !.bought = u, !.consent = v]
    PROVE  IsCustomer(new) /\ new.id = c.id
<1> DEFINE shape(n) == n = [id |-> n.id, phone |-> n.phone, opted |-> n.opted, bought |-> n.bought,
                            turn |-> n.turn, consent |-> n.consent, anon |-> n.anon]
<1>1. shape(c) /\ c.id \in Nat \ {0}
    BY DEF IsCustomer
<1>2. shape(new) /\ new.id = c.id
    <2>1. CASE new = [c EXCEPT !.opted = v]
        <3>1. new = [id |-> c.id, phone |-> c.phone, opted |-> v, bought |-> c.bought,
                     turn |-> c.turn, consent |-> c.consent, anon |-> c.anon]
            BY <1>1, <2>1
        <3>2. QED
            BY <3>1
    <2>2. CASE new = [c EXCEPT !.bought = u, !.consent = v]
        <3>1. new = [id |-> c.id, phone |-> c.phone, opted |-> c.opted, bought |-> u,
                     turn |-> c.turn, consent |-> v, anon |-> c.anon]
            BY <1>1, <2>2
        <3>2. QED
            BY <3>1
    <2>3. QED
        BY <2>1, <2>2
<1>3. QED
    BY <1>1, <1>2 DEF IsCustomer

(* and rows with the ids they had are those of the same customers. *)
LEMMA CustomersRenewed ==
    ASSUME CustomersInv, cust' = [m \in Emails |-> cust'[m]],
           \A m \in Emails : IsCustomer(cust'[m]) /\ cust'[m].id = cust[m].id,
           UNCHANGED <<job, erased, given>>, OrderRows', \A p \in People : Unordered(p) => Unordered(p)'
    PROVE  CustomersInv'
<1>1. CustomerRows' /\ \A i \in Nat \ {0} : Kept(i) => Kept(i)'
    BY DEF CustomersInv, CustomerRows, Kept
<1>2. ASSUME NEW p \in People, known(Email(p))'
      PROVE  known(Email(p)) /\ cust'[Email(p)].id = cust[Email(p)].id
    <2>1. Email(p) \in Emails
        BY EmailsAre
    <2>2. cust'[Email(p)].id # 0 /\ cust'[Email(p)].id = cust[Email(p)].id
        BY <1>2, <2>1 DEF IsCustomer, known
    <2>3. QED
        BY <2>2 DEF known, NoCustomer
<1>3. \A p \in People \ given' : Respects(p)
    BY <1>2 DEF Respects
<1>4. given \subseteq given' /\ erased' \subseteq People /\ job' = [w \in Workers |-> job'[w]]
    BY DEF CustomersInv
<1>5. QED
    BY <1>1, <1>3, <1>4, Respected

(* A customer opts out, or in again. *)
LEMMA OptedOut ==
    ASSUME CustomersInv, NEW m \in Emails, NEW out, setOptOut(m, out)
    PROVE  CustomersInv'
<1>1. /\ cust = [n \in Emails |-> cust[n]] /\ \A n \in Emails : IsCustomer(cust[n])
      /\ cust[m].id # 0
    BY DEF CustomersInv, CustomerRows, IsCustomer, setOptOut, known
<1>2. PICK new : new = [cust[m] EXCEPT !.opted = out] /\ cust' = [cust EXCEPT ![m] = new]
    BY DEF setOptOut
<1>3. IsCustomer(new) /\ new.id = cust[m].id
    BY <1>1, <1>2, CustomerFields
<1>4. /\ cust' = [n \in Emails |-> cust'[n]]
      /\ \A n \in Emails : IsCustomer(cust'[n]) /\ cust'[n].id = cust[n].id
    BY <1>1, <1>2, <1>3
<1>5. OrderRows' /\ \A p \in People : Unordered(p) => Unordered(p)'
    BY DEF setOptOut, CustomersInv, OrderRows, Unordered
<1>6. QED
    BY <1>4, <1>5, CustomersRenewed DEF setOptOut

(* Dates grow old. *)
LEMMA DatesAge ==
    ASSUME CustomersInv, monthsPass
    PROVE  CustomersInv'
<1> DEFINE aged(d) == IF d = "recent" THEN "old" ELSE d
           later(c) == [c EXCEPT !.bought = aged(c.bought), !.consent = aged(c.consent)]
           since(r) == [r EXCEPT !.paid = aged(r.paid)]
<1>1. cust' = [m \in Emails |-> later(cust[m])] /\ order' = [o \in Orders |-> since(order[o])]
    BY DEF monthsPass
<1>2. ASSUME NEW m \in Emails PROVE IsCustomer(later(cust[m])) /\ later(cust[m]).id = cust[m].id
    <2>1. IsCustomer(cust[m])
        BY DEF CustomersInv, CustomerRows
    <2>2. CASE cust[m] = NoCustomer
        <3>1. later(NoCustomer) = NoCustomer
            BY DEF NoCustomer
        <3>2. QED
            BY <2>1, <2>2, <3>1
    <2>3. CASE cust[m].id # 0
        <3> HIDE DEF aged
        <3>1. QED
            BY <2>1, <2>3, CustomerFields
    <2>4. QED
        BY <2>1, <2>2, <2>3 DEF IsCustomer
<1>3. ASSUME NEW o \in Orders PROVE IsOrder(since(order[o])) /\ since(order[o]).email = order[o].email
    <2>1. IsOrder(order[o])
        BY DEF CustomersInv, OrderRows
    <2> HIDE DEF aged
    <2>2. QED
        BY <2>1, OrderFields
<1> HIDE DEF later, since
<1>4. /\ cust' = [m \in Emails |-> cust'[m]]
      /\ \A m \in Emails : IsCustomer(cust'[m]) /\ cust'[m].id = cust[m].id
    BY <1>1, <1>2
<1>5. OrderRows' /\ \A p \in People : Unordered(p) => Unordered(p)'
    <2>1. /\ order' = [o \in Orders |-> order'[o]]
          /\ \A o \in Orders : IsOrder(order'[o]) /\ order'[o].email = order[o].email
        BY <1>1, <1>3
    <2>2. QED
        BY <2>1, OrdersKeepBuyers
<1>6. QED
    BY <1>4, <1>5, CustomersRenewed DEF monthsPass

(* A customer is written: one there was, or a new one. *)
LEMMA CustomerWritten ==
    ASSUME CustomersInv, NEW e, NEW new, cust' = [cust EXCEPT ![e] = new],
           e \in Emails => IsCustomer(new) /\ new.id = IF cust[e].id = 0 THEN NextId ELSE cust[e].id,
           \A p \in People : e = Email(p) => p \in given,
           UNCHANGED <<order, erased, given>>, NEW w \in Workers, job' = [job EXCEPT ![w] = Idle]
    PROVE  CustomersInv'
<1>1. /\ job' = [v \in Workers |-> job'[v]]
      /\ \A v \in Workers : job'[v] = job[v] \/ JobOK(v)'
    <2>1. ~Erases(Idle) /\ \A p \in People : ~Writes(Idle, p)
        BY DEF Erases, Writes, Idle
    <2>2. QED
        BY <2>1, WorkerGoesOn
<1>2. CustomerRows
    BY DEF CustomersInv
<1>3. \A m \in Emails : cust'[m] = IF m = e THEN new ELSE cust[m]
    BY <1>2 DEF CustomerRows
<1>4. \A m \in Emails : cust[m].id # NextId /\ NextId # 0 /\ cust[m].id \in Nat
    BY <1>2, NextIdIsNew DEF CustomerRows, IsCustomer
<1>5. CustomerRows'
    BY <1>2, <1>3, <1>4 DEF CustomerRows
<1>6. \A i \in Nat \ {0} : Kept(i) => Kept(i)'
    <2>1. SUFFICES ASSUME NEW i \in Nat \ {0}, NEW m \in Emails, cust[m].id = i PROVE cust'[m].id = i
        BY DEF Kept
    <2>2. QED
        BY <1>3, <2>1
<1>7. \A p \in People \ given' : Respects(p)
    <2>1. SUFFICES ASSUME NEW p \in People, p \notin given PROVE cust'[Email(p)] = cust[Email(p)]
        BY DEF Respects, Unordered, known
    <2>2. QED
        BY <1>3, <2>1, EmailsAre
<1>8. /\ given \subseteq given' /\ OrderRows' /\ erased' \subseteq People
      /\ \A p \in erased' \ given' : p \in erased
    BY DEF CustomersInv, OrderRows
<1>9. QED
    BY <1>1, <1>5, <1>6, <1>7, <1>8, Respected

(* A row that exists keeps its id, and a new one has one of its own. *)
LEMMA RowWritten ==
    ASSUME CustomersInv, NEW e \in Emails, NEW phone, NEW consent
    PROVE  \E row : /\ upsert(e, phone, consent) = [cust EXCEPT ![e] = row]
                    /\ IsCustomer(row) /\ row.id = IF cust[e].id = 0 THEN NextId ELSE cust[e].id
<1> DEFINE i == IF cust[e].id = 0 THEN NextId ELSE cust[e].id
           tel == IF phone = NoPhone THEN cust[e].phone ELSE phone
           row == [id |-> i, phone |-> tel, opted |-> cust[e].opted, bought |-> cust[e].bought,
                   turn |-> cust[e].turn, consent |-> consent, anon |-> cust[e].anon]
<1>1. IsCustomer(cust[e]) /\ CustomerRows
    BY DEF CustomersInv, CustomerRows
<1>2. i \in Nat \ {0}
    BY <1>1, NextIdIsNew DEF IsCustomer
<1>3. upsert(e, phone, consent) = [cust EXCEPT ![e] = row]
    <2>1. PICK new : new = [cust[e] EXCEPT !.id = i, !.phone = tel, !.consent = consent]
        OBVIOUS
    <2>2. new = row
        BY <1>1, <2>1 DEF IsCustomer
    <2>3. upsert(e, phone, consent) = [cust EXCEPT ![e] = new]
        BY <2>1 DEF upsert
    <2>4. QED
        BY <2>2, <2>3
<1> HIDE DEF tel
<1>4. row.id = i
    OBVIOUS
<1>5. IsCustomer(row)
    <2> HIDE DEF i
    <2>1. QED
        BY <1>2 DEF IsCustomer
<1> HIDE DEF row
<1>6. QED
    BY <1>3, <1>4, <1>5

(* A fulfilment or a lead writes its customer. *)
LEMMA BuyerOrLead ==
    ASSUME CustomersInv, NEW w \in Workers, upsertFromPaidOrder(w) \/ upsertLead(w)
    PROVE  CustomersInv'
<1> DEFINE j == job[w]
<1>1. /\ j.op \in {"fulfil", "lead"} /\ job' = [job EXCEPT ![w] = Idle] /\ UNCHANGED <<order, erased, given>>
      /\ \/ cust' = upsert(j.email, j.phone, "recent")
         \/ cust' = [upsert(j.email, j.phone, j.paid) EXCEPT
                         ![j.email].bought = j.paid, ![j.email].turn = j.turn]
    BY DEF upsertFromPaidOrder, upsertLead
<1>2. \A p \in People : j.email = Email(p) => p \in given
    BY <1>1 DEF CustomersInv, JobOK, Writes
<1>3. cust = [m \in Emails |-> cust[m]]
    BY DEF CustomersInv, CustomerRows
<1>4. CASE j.email \notin Emails
    <2>1. \A phone, consent : upsert(j.email, phone, consent) = cust
        BY <1>3, <1>4 DEF upsert
    <2>2. cust' = cust
        <3>1. CASE cust' = upsert(j.email, j.phone, "recent")
            BY <2>1, <3>1
        <3>2. CASE cust' = [upsert(j.email, j.phone, j.paid) EXCEPT
                               ![j.email].bought = j.paid, ![j.email].turn = j.turn]
            <4>1. upsert(j.email, j.phone, j.paid) = cust
                BY <2>1
            <4>2. cust' = [cust EXCEPT ![j.email].bought = j.paid, ![j.email].turn = j.turn]
                BY <3>2, <4>1
            <4>3. QED
                BY <1>3, <1>4, <4>2
        <3>3. QED
            BY <1>1, <3>1, <3>2
    <2>3. ~Erases(Idle) /\ \A p \in People : ~Writes(Idle, p)
        BY DEF Erases, Writes, Idle
    <2>4. QED
        BY <1>1, <2>2, <2>3, WorkersMove
<1>5. CASE j.email \in Emails
    <2> DEFINE i == IF cust[j.email].id = 0 THEN NextId ELSE cust[j.email].id
    <2>0. ASSUME NEW phone, NEW consent
          PROVE  \E row : /\ upsert(j.email, phone, consent) = [cust EXCEPT ![j.email] = row]
                          /\ IsCustomer(row) /\ row.id = i
        <3>1. PICK e : e = j.email
            OBVIOUS
        <3>2. e \in Emails
            BY <1>5, <3>1
        <3> HIDE DEF j
        <3>3. \E row : /\ upsert(e, phone, consent) = [cust EXCEPT ![e] = row]
                       /\ IsCustomer(row) /\ row.id = IF cust[e].id = 0 THEN NextId ELSE cust[e].id
            BY <3>2, RowWritten
        <3>4. QED
            BY <3>1, <3>3
    <2>1. ASSUME NEW new, cust' = [cust EXCEPT ![j.email] = new], IsCustomer(new), new.id = i
          PROVE  CustomersInv'
        BY <1>1, <1>2, <2>1, CustomerWritten
    <2>2. CASE cust' = upsert(j.email, j.phone, "recent")
        <3>1. PICK row : /\ upsert(j.email, j.phone, "recent") = [cust EXCEPT ![j.email] = row]
                         /\ IsCustomer(row) /\ row.id = i
            BY <2>0
        <3>2. QED
            BY <2>1, <2>2, <3>1
    <2>3. CASE cust' = [upsert(j.email, j.phone, j.paid) EXCEPT
                           ![j.email].bought = j.paid, ![j.email].turn = j.turn]
        <3>1. PICK row : /\ upsert(j.email, j.phone, j.paid) = [cust EXCEPT ![j.email] = row]
                         /\ IsCustomer(row) /\ row.id = i
            BY <2>0
        <3>2. PICK new : new = [row EXCEPT !.bought = j.paid, !.turn = j.turn]
            OBVIOUS
        <3>3. cust' = [cust EXCEPT ![j.email] = new]
            BY <1>3, <1>5, <2>3, <3>1, <3>2
        <3>4. row.id # 0
            BY <1>5, <3>1, NextIdIsNew DEF CustomersInv, CustomerRows, IsCustomer
        <3>5. new = [id |-> row.id, phone |-> row.phone, opted |-> row.opted, bought |-> j.paid,
                     turn |-> j.turn, consent |-> row.consent, anon |-> row.anon]
            BY <3>1, <3>2 DEF IsCustomer
        <3>6. IsCustomer(new) /\ new.id = i
            BY <3>1, <3>4, <3>5 DEF IsCustomer
        <3>7. QED
            BY <2>1, <3>3, <3>6
    <2>4. QED
        BY <1>1, <2>2, <2>3
<1>6. QED
    BY <1>4, <1>5

(* An erasure begins: what came in before is its to erase.  A worker that  *)
(* is at an erasure of a person, or has the person's data on its way,      *)
(* leaves them among those whose data came in.                             *)
LEMMA ErasureBegins ==
    ASSUME CustomersInv, NEW w \in Workers, NEW rows, NEW r \in rows, NEW then,
           rows \subseteq {Row(m) : m \in {m \in Emails : known(m)}}, begin(rows),
           job' = [job EXCEPT ![w] = [op |-> "orders", rows |-> rows, row |-> r, then |-> then]],
           UNCHANGED <<cust, order>>, ~Erases(job[w])
    PROVE  CustomersInv'
<1> DEFINE them == {s.email[2] : s \in {s \in rows : s.email[1] = "real"}}
<1>1. /\ erased' = erased \ them
      /\ given' = {p \in given : p \notin them \/ Erasing(p)} \cup {p \in them : Underway(p)}
    BY DEF begin
<1> HIDE DEF them
<1>2. CustomerRows' /\ OrderRows' /\ erased' \subseteq People
    BY <1>1, CustomersStay DEF CustomersInv, OrderRows
<1>3. PICK j : j = [op |-> "orders", rows |-> rows, row |-> r, then |-> then] /\ job' = [job EXCEPT ![w] = j]
    OBVIOUS
<1>4. /\ job' = [v \in Workers |-> job'[v]] /\ job'[w] = j
      /\ \A v \in Workers : v # w => job'[v] = job[v]
    BY <1>3 DEF CustomersInv
<1>5. ASSUME NEW s \in rows PROVE RowOK(s)'
    <2>1. PICK m \in Emails : known(m) /\ s = [email |-> m, id |-> cust[m].id]
        BY <1>5 DEF Row
    <2>2. cust[m].id \in Nat \ {0}
        BY <2>1 DEF CustomersInv, CustomerRows, IsCustomer, known
    <2>3. s.email = m /\ s.id = cust[m].id
        BY <2>1
    <2>4. QED
        BY <2>2, <2>3 DEF RowOK, Kept
<1>6. JobOK(w)'
    <2>1. \A p \in People : ~Writes(job[w], p)'
        BY <1>3, <1>4 DEF Writes
    <2>2. ErasureOK(job[w])'
        BY <1>3, <1>4, <1>5 DEF ErasureOK
    <2>3. QED
        BY <2>1, <2>2 DEF JobOK
<1>7. ASSUME NEW v \in Workers, v # w PROVE JobOK(v)'
    <2>1. JobOK(v) /\ job'[v] = job[v]
        BY <1>4, <1>7 DEF CustomersInv
    <2>2. ASSUME NEW p \in People, Writes(job[v], p) PROVE p \in given'
        <3>1. p \in given /\ Underway(p)
            BY <2>1, <2>2 DEF JobOK, Writes, Underway
        <3>2. QED
            BY <1>1, <3>1
    <2>3. ASSUME Erases(job[v]) PROVE ErasureOK(job[v])'
        <3>1. ErasureOK(job[v])
            BY <2>1, <2>3 DEF JobOK
        <3>2. ASSUME NEW p \in People \ given', NEW s \in job[v].rows, s.email = Email(p) PROVE p \notin given
            <4>1. Erasing(p)
                BY <2>3, <3>2 DEF Erasing, Erases
            <4>2. QED
                BY <1>1, <3>2, <4>1
        <3>3. ASSUME NEW s \in job[v].rows PROVE RowOK(s)'
            <4>1. RowOK(s)
                BY <3>1 DEF ErasureOK
            <4>2. ASSUME NEW p \in People \ given', s.email = Email(p), known(Email(p))'
                  PROVE  cust'[Email(p)].id = s.id
                BY <3>2, <4>1, <4>2 DEF RowOK, known
            <4>3. QED
                BY <4>1, <4>2 DEF RowOK, Kept
        <3>4. ASSUME job[v].op = "customer", NEW p \in People \ given', job[v].row.email = Email(p)
              PROVE  Unordered(p)'
            BY <3>1, <3>2, <3>4 DEF ErasureOK, Unordered
        <3>5. QED
            BY <2>1, <3>1, <3>3, <3>4 DEF ErasureOK
    <2>4. QED
        BY <2>1, <2>2, <2>3 DEF JobOK
<1>8. ASSUME NEW p \in erased' \ given' PROVE Gone(p)'
    <2>1. p \in erased \ given
        BY <1>1, <1>8
    <2>2. QED
        BY <2>1 DEF CustomersInv, Gone, known, Unordered
<1>9. QED
    BY <1>2, <1>4, <1>6, <1>7, <1>8 DEF CustomersInv

(* An erasure asked for by staff, or by the retention job, which may find  *)
(* nobody.                                                                 *)
LEMMA ErasureAsked ==
    ASSUME CustomersInv, NEW w \in Workers,
           runRetention(w) \/ runLeads(w) \/ \E m \in Emails : anonymizeCustomer(w, m)
    PROVE  CustomersInv'
<1>1. ASSUME NEW m \in Emails, anonymizeCustomer(w, m) PROVE CustomersInv'
    <2>1. {Row(m)} \subseteq {Row(n) : n \in {n \in Emails : known(n)}} /\ Row(m) \in {Row(m)}
        BY <1>1 DEF anonymizeCustomer
    <2>2. ~Erases(job[w]) /\ begin({Row(m)}) /\ UNCHANGED <<cust, order>>
        <3>1. job[w] = Idle /\ begin({Row(m)}) /\ UNCHANGED <<cust, order>>
            BY <1>1 DEF anonymizeCustomer
        <3>2. ~Erases(Idle)
            BY DEF Erases, Idle
        <3>3. QED
            BY <3>1, <3>2
    <2>3. job' = [job EXCEPT ![w] = [op |-> "orders", rows |-> {Row(m)}, row |-> Row(m), then |-> "no run"]]
        BY <1>1 DEF anonymizeCustomer
    <2>4. QED
        BY <2>1, <2>2, <2>3, ErasureBegins
<1>2. ASSUME NEW rows, NEW then, Retains(w, rows, then), ~Erases(job[w]), UNCHANGED <<cust, order>>,
             rows \subseteq {Row(m) : m \in {m \in Emails : known(m)}}
      PROVE  CustomersInv'
    <2>1. CASE /\ begin(rows)
               /\ \E r \in rows : job' = [job EXCEPT
                      ![w] = [op |-> "orders", rows |-> rows, row |-> r, then |-> then]]
        BY <1>2, <2>1, ErasureBegins
    <2>2. CASE /\ UNCHANGED <<erased, given>>
               /\ job' = [job EXCEPT ![w] = IF then = "leads" THEN [op |-> "leads"] ELSE Idle]
        <3>1. PICK j : job' = [job EXCEPT ![w] = j] /\ j = IF then = "leads" THEN [op |-> "leads"] ELSE Idle
            BY <2>2
        <3>2. ~Erases(j) /\ \A p \in People : ~Writes(j, p)
            <4>1. j.op \in {"leads", "none"}
                BY <3>1 DEF Idle
            <4>2. QED
                BY <4>1 DEF Erases, Writes
        <3>3. QED
            BY <1>2, <2>2, <3>1, <3>2, WorkersMove
    <2>3. QED
        BY <1>2, <2>1, <2>2 DEF Retains
<1>3. CASE runRetention(w)
    <2>1. listAnonymizationCandidates \subseteq {Row(m) : m \in {m \in Emails : known(m)}}
        BY DEF listAnonymizationCandidates
    <2>2. ~Erases(job[w]) /\ UNCHANGED <<cust, order>> /\ Retains(w, listAnonymizationCandidates, "leads")
        BY <1>3 DEF runRetention, Erases, Idle
    <2>3. QED
        BY <1>2, <2>1, <2>2
<1>4. CASE runLeads(w)
    <2>1. listLeadAnonymizationCandidates \subseteq {Row(m) : m \in {m \in Emails : known(m)}}
        BY DEF listLeadAnonymizationCandidates
    <2>2. ~Erases(job[w]) /\ UNCHANGED <<cust, order>> /\ Retains(w, listLeadAnonymizationCandidates, "end")
        BY <1>4 DEF runLeads, Erases
    <2>3. QED
        BY <1>2, <2>1, <2>2
<1>5. QED
    BY <1>1, <1>3, <1>4

(* The orders of a row lose the person's data. *)
LEMMA OrdersErased ==
    ASSUME CustomersInv, NEW w \in Workers, anonymizeBuyer(w)
    PROVE  CustomersInv'
<1> DEFINE r == job[w].row
<1>1. /\ job[w].op = "orders" /\ order' = ordersAnonymized(r.email)
      /\ job' = [job EXCEPT ![w].op = "customer"] /\ UNCHANGED <<cust, erased, given>>
    BY DEF anonymizeBuyer
<1>2. ErasureOK(job[w]) /\ job = [v \in Workers |-> job[v]] /\ OrderRows
    BY <1>1 DEF CustomersInv, JobOK, Erases
<1>3. r.email \in Emails
    BY <1>2 DEF ErasureOK, RowOK
<1>4. PICK j : j = [op |-> "customer", rows |-> job[w].rows, row |-> r, then |-> job[w].then]
    OBVIOUS
<1>5. job' = [v \in Workers |-> job'[v]] /\ job'[w] = j /\ \A v \in Workers : v # w => job'[v] = job[v]
    <2>1. j = [job[w] EXCEPT !.op = "customer"]
        BY <1>2, <1>4 DEF ErasureOK
    <2>2. QED
        BY <1>1, <1>2, <2>1
<1> DEFINE anon(x) == [x EXCEPT !.email = pseudonymFor(r.email), !.phone = NoPhone]
<1>6. ASSUME NEW o \in Orders
      PROVE  /\ IsOrder(order'[o])
             /\ order'[o].email = IF order[o].email = r.email THEN pseudonymFor(r.email) ELSE order[o].email
    <2>1. IsOrder(order[o]) /\ order'[o] = IF order[o].email = r.email THEN anon(order[o]) ELSE order[o]
        BY <1>1, <1>2 DEF OrderRows, ordersAnonymized
    <2>2. IsOrder(anon(order[o])) /\ anon(order[o]).email = pseudonymFor(r.email)
        <3>1. PICK x, email, new : x = order[o] /\ email = pseudonymFor(r.email) /\ new = anon(x)
            OBVIOUS
        <3>2. new = [x EXCEPT !.email = email, !.phone = NoPhone] /\ IsOrder(x)
            BY <2>1, <3>1
        <3> HIDE DEF anon
        <3>3. IsOrder(new) /\ new.email = email
            <4>1. new = [email |-> email, phone |-> NoPhone, status |-> x.status, paid |-> x.paid,
                         turn |-> x.turn, issued |-> x.issued]
                BY <3>2 DEF IsOrder
            <4>2. QED
                BY <4>1 DEF IsOrder
        <3>4. QED
            BY <3>1, <3>3
    <2>3. QED
        BY <2>1, <2>2
<1>7. OrderRows'
    BY <1>1, <1>6 DEF OrderRows, ordersAnonymized
<1>8. \A p \in People : pseudonymFor(r.email) # Email(p)
    BY <1>3, EmailsAre
<1>9. \A p \in People : Unordered(p) => Unordered(p)'
    BY <1>6, <1>8 DEF Unordered
<1>10. \A p \in People : r.email = Email(p) => Unordered(p)'
    BY <1>6, <1>8 DEF Unordered
<1>11. JobOK(w)'
    <2>1. \A s \in j.rows : RowOK(s)'
        <3>1. \A s \in j.rows : RowOK(s)
            BY <1>2, <1>4 DEF ErasureOK
        <3>2. QED
            BY <1>1, <3>1 DEF RowOK, Kept, known
    <2>2. ErasureOK(job[w])'
        BY <1>2, <1>4, <1>5, <1>10, <2>1 DEF ErasureOK
    <2>3. \A p \in People : ~Writes(job[w], p)'
        BY <1>4, <1>5 DEF Writes
    <2>4. QED
        BY <2>2, <2>3 DEF JobOK
<1>12. \A v \in Workers : job'[v] = job[v] \/ JobOK(v)'
    BY <1>5, <1>11
<1>13. QED
    BY <1>1, <1>5, <1>7, <1>9, <1>12, OrdersMove

(* A customer's row that is anonymized keeps its id. *)
LEMMA CustomerGone ==
    ASSUME NEW c, IsCustomer(c), c.id # 0, NEW gone,
           gone = [c EXCEPT !.phone = NoPhone, !.opted = TRUE, !.anon = TRUE]
    PROVE  IsCustomer(gone) /\ gone.id = c.id
<1>1. gone = [id |-> c.id, phone |-> NoPhone, opted |-> TRUE, bought |-> c.bought,
              turn |-> c.turn, consent |-> c.consent, anon |-> TRUE]
    BY DEF IsCustomer
<1>2. QED
    BY <1>1 DEF IsCustomer

(* The retention job goes on to its next row. *)
LEMMA NextErasure ==
    ASSUME NEW j, j = [op |-> j.op, rows |-> j.rows, row |-> j.row, then |-> j.then], NEW rows, NEW row,
           NEW new, new = [j EXCEPT !.op = "orders", !.rows = rows, !.row = row]
    PROVE  new = [op |-> "orders", rows |-> rows, row |-> row, then |-> j.then]
OBVIOUS

(* The customer is found by the row's id, and moves to the pseudonym. *)
LEMMA CustomerErased ==
    ASSUME CustomersInv, NEW w \in Workers, anonymize(w)
    PROVE  CustomersInv'
<1> DEFINE j == job[w]
           r == j.row
           ps == pseudonymFor(r.email)
           rest == j.rows \ {r}
<1>1. j.op = "customer" /\ UNCHANGED <<order, given>>
    BY DEF anonymize
<1>2. /\ ErasureOK(j) /\ RowOK(r) /\ job = [v \in Workers |-> job[v]] /\ CustomerRows
      /\ \A p \in People \ given : r.email = Email(p) => Unordered(p)
    BY <1>1 DEF CustomersInv, JobOK, Erases, ErasureOK
<1>3. PICK at \in Emails : cust[at].id = r.id
    BY <1>2 DEF RowOK, Kept
<1>4. r.id \in Nat \ {0} /\ r.email \in Emails /\ ps \in Emails /\ \A p \in People : ps # Email(p)
    BY <1>2, EmailsAre DEF RowOK
<1>5. \A m \in Emails : cust[m].id = r.id => m = at
    BY <1>2, <1>3, <1>4 DEF CustomerRows
<1>6. at = CHOOSE m \in Emails : cust[m].id = r.id
    BY <1>3, <1>5
<1>7. \A p \in People : Unordered(p) => Unordered(p)'
    BY <1>1 DEF Unordered
<1>8. ~Erases(Idle) /\ \A p \in People : ~Writes(Idle, p)
    BY DEF Erases, Writes, Idle
<1>9. CASE job' = [job EXCEPT ![w] = Idle] /\ UNCHANGED <<cust, erased>>
    BY <1>1, <1>8, <1>9, WorkersMove
<1>10. ASSUME ~taken(r), NEW gone, gone = [cust[at] EXCEPT !.phone = NoPhone, !.opted = TRUE, !.anon = TRUE],
              cust' = [cust EXCEPT ![at] = NoCustomer, ![ps] = gone],
              erased' = erased \cup IF r.email[1] = "real" THEN {r.email[2]} ELSE {},
              \/ job' = [job EXCEPT ![w] = IF j.then = "leads" THEN [op |-> "leads"] ELSE Idle]
              \/ \E s \in rest :
                     job' = [job EXCEPT ![w] = [j EXCEPT !.op = "orders", !.rows = rest, !.row = s]]
       PROVE  CustomersInv'
    <2> HIDE DEF rest
    <2>1. IsCustomer(gone) /\ gone.id = r.id
        BY <1>2, <1>3, <1>4, <1>10, CustomerGone DEF CustomerRows
    <2>2. /\ cust' = [m \in Emails |-> cust'[m]]
          /\ \A m \in Emails : cust'[m] = IF m = ps THEN gone ELSE IF m = at THEN NoCustomer ELSE cust[m]
        BY <1>2, <1>4, <1>10 DEF CustomerRows
    <2>3. cust[ps].id = 0 \/ ps = at
        <3>1. cust[ps] = NoCustomer \/ cust[ps].id = r.id
            BY <1>10 DEF taken
        <3>2. CASE cust[ps] = NoCustomer
            BY <3>2 DEF NoCustomer
        <3>3. CASE cust[ps].id = r.id
            BY <1>4, <1>5, <3>3
        <3>4. QED
            BY <3>1, <3>2, <3>3
    <2>4. \A m \in Emails : cust'[m].id = IF m = ps THEN r.id ELSE IF m = at THEN 0 ELSE cust[m].id
        BY <2>1, <2>2 DEF NoCustomer
    <2>5. CustomerRows'
        <3>1. \A m \in Emails : IsCustomer(cust'[m])
            <4>1. IsCustomer(NoCustomer)
                BY DEF IsCustomer, NoCustomer
            <4>2. QED
                BY <1>2, <2>1, <2>2, <4>1 DEF CustomerRows
        <3>2. ASSUME NEW m \in Emails, NEW n \in Emails, cust'[m].id = cust'[n].id, cust'[m].id # 0
              PROVE  m = n
            BY <1>2, <1>5, <2>4, <3>2 DEF CustomerRows
        <3>3. QED
            BY <2>2, <3>1, <3>2 DEF CustomerRows
    <2>6. \A i \in Nat \ {0} : Kept(i) => Kept(i)'
        <3>1. SUFFICES ASSUME NEW i \in Nat \ {0}, NEW m \in Emails, cust[m].id = i
                       PROVE  \E n \in Emails : cust'[n].id = i
            BY DEF Kept
        <3>2. CASE m = at
            BY <1>3, <1>4, <2>4, <3>1, <3>2
        <3>3. CASE m # at
            BY <2>3, <2>4, <3>1, <3>3
        <3>4. QED
            BY <3>2, <3>3
    <2>7. \A p \in People : cust'[Email(p)] = IF Email(p) = at THEN NoCustomer ELSE cust[Email(p)]
        BY <1>4, <2>2, EmailsAre
    <2>8. \A p \in People : Respects(p)
        BY <1>7, <2>7 DEF Respects, known
    <2>9. /\ job' = [v \in Workers |-> job'[v]]
          /\ \A v \in Workers : job'[v] = job[v] \/ JobOK(v)'
        <3>1. CASE job' = [job EXCEPT ![w] = IF j.then = "leads" THEN [op |-> "leads"] ELSE Idle]
            <4>1. PICK k : /\ job' = [job EXCEPT ![w] = k]
                           /\ k = IF j.then = "leads" THEN [op |-> "leads"] ELSE Idle
                BY <3>1
            <4>2. k.op \in {"leads", "none"}
                BY <4>1 DEF Idle
            <4>3. ~Erases(k) /\ \A p \in People : ~Writes(k, p)
                BY <4>2 DEF Erases, Writes
            <4>4. QED
                BY <1>1, <4>1, <4>3, WorkerGoesOn
        <3>2. ASSUME NEW s \in rest,
                     job' = [job EXCEPT ![w] = [j EXCEPT !.op = "orders", !.rows = rest, !.row = s]]
              PROVE  /\ job' = [v \in Workers |-> job'[v]]
                     /\ \A v \in Workers : job'[v] = job[v] \/ JobOK(v)'
            <4>1. PICK k : k = [op |-> "orders", rows |-> rest, row |-> s, then |-> j.then]
                OBVIOUS
            <4>2. k = [j EXCEPT !.op = "orders", !.rows = rest, !.row = s]
                <5>1. PICK i, new : i = j /\ new = [i EXCEPT !.op = "orders", !.rows = rest, !.row = s]
                    OBVIOUS
                <5>2. i = [op |-> i.op, rows |-> i.rows, row |-> i.row, then |-> i.then]
                    BY <1>2, <5>1 DEF ErasureOK
                <5>3. new = [op |-> "orders", rows |-> rest, row |-> s, then |-> i.then]
                    BY <5>1, <5>2, NextErasure
                <5>4. QED
                    BY <4>1, <5>1, <5>3
            <4>3. /\ job' = [v \in Workers |-> job'[v]] /\ job'[w] = k
                  /\ \A v \in Workers : v # w => job'[v] = job[v]
                BY <1>2, <3>2, <4>2
            <4>4. \A x \in k.rows : RowOK(x)'
                <5>1. ASSUME NEW x \in rest PROVE RowOK(x)'
                    <6>1. RowOK(x)
                        BY <1>2, <5>1 DEF ErasureOK, rest
                    <6>2. x.email \in Emails /\ x.id \in Nat \ {0} /\ Kept(x.id)'
                        BY <2>6, <6>1 DEF RowOK, Kept
                    <6>3. ASSUME NEW p \in People \ given, x.email = Email(p), known(Email(p))'
                          PROVE  cust'[Email(p)].id = x.id
                        BY <2>8, <6>1, <6>3 DEF RowOK, Respects
                    <6>4. QED
                        BY <1>1, <6>2, <6>3 DEF RowOK
                <5>2. QED
                    BY <4>1, <5>1
            <4>5. ErasureOK(job[w])'
                BY <3>2, <4>1, <4>3, <4>4 DEF ErasureOK
            <4>6. \A p \in People : ~Writes(job[w], p)'
                BY <4>1, <4>3 DEF Writes
            <4>7. JobOK(w)'
                BY <4>5, <4>6 DEF JobOK
            <4>8. QED
                BY <4>3, <4>7
        <3>3. QED
            BY <1>10, <3>1, <3>2
    <2>10. erased' \subseteq People /\ \A p \in erased' \ given' : p \in erased \/ Gone(p)'
        <3>1. r.email[2] \in People /\ (r.email[1] = "real" => r.email = Email(r.email[2]))
            BY <1>4, EmailsAre
        <3>2. ASSUME NEW p \in People \ given, r.email = Email(p) PROVE Gone(p)'
            <4>1. ~known(Email(p))'
                <5>1. CASE known(Email(p))
                    <6>1. cust[Email(p)].id = r.id /\ Email(p) \in Emails
                        BY <1>2, <3>2, <5>1, EmailsAre DEF RowOK
                    <6>2. QED
                        BY <1>5, <2>7, <6>1 DEF known
                <5>2. CASE ~known(Email(p))
                    BY <2>7, <5>2 DEF known
                <5>3. QED
                    BY <5>1, <5>2
            <4>2. QED
                BY <1>2, <1>7, <3>2, <4>1 DEF Gone
        <3>3. QED
            BY <1>1, <1>10, <3>1, <3>2 DEF CustomersInv
    <2>11. OrderRows' /\ given \subseteq given'
        BY <1>1 DEF CustomersInv, OrderRows
    <2>12. QED
        BY <2>5, <2>6, <2>8, <2>9, <2>10, <2>11, Respected
<1>11. QED
    BY <1>6, <1>9, <1>10 DEF anonymize

(* A job ends where it is. *)
LEMMA JobStops ==
    ASSUME CustomersInv, NEW w \in Workers, stopJob(w)
    PROVE  CustomersInv'
<1>1. /\ job' = [job EXCEPT ![w] = Idle] /\ Idle.op \in {"issued", "none"}
      /\ UNCHANGED <<cust, erased, given>>
    BY DEF stopJob, Idle
<1>2. UNCHANGED order \/ \E o, issued : order' = [order EXCEPT ![o].issued = issued]
    BY DEF stopJob
<1>3. QED
    BY <1>1, <1>2, TicketsIssued

(* A fulfilment issues the tickets. *)
LEMMA FulfilmentBegins ==
    ASSUME CustomersInv, NEW w \in Workers, NEW o \in Orders, fulfil(w, o)
    PROVE  CustomersInv'
<1>1. PICK j : j = [op |-> "issued", order |-> o] /\ job' = [job EXCEPT ![w] = j]
    BY DEF fulfil
<1>2. j.op \in {"issued", "none"} /\ UNCHANGED <<cust, erased, given>>
    BY <1>1 DEF fulfil
<1>3. \E x, issued : order' = [order EXCEPT ![x].issued = issued]
    BY DEF fulfil
<1>4. QED
    BY <1>1, <1>2, <1>3, TicketsIssued

(* Every operation on customers. *)
LEMMA CustomersSteps ==
    ASSUME CustomersInv, CustomersNext
    PROVE  CustomersInv'
<1>1. ASSUME NEW o \in Orders, payOrder(o) PROVE CustomersInv'
    BY <1>1, OrderSettled DEF payOrder
<1>2. ASSUME NEW o \in Orders, NEW p \in People, NEW phone, checkout(o, p, phone) PROVE CustomersInv'
    BY <1>2, OrderPlaced DEF checkout
<1>3. ASSUME NEW m \in Emails, setOptOut(m, TRUE) \/ setOptOut(m, FALSE) PROVE CustomersInv'
    BY <1>3, OptedOut
<1>4. ASSUME NEW w \in Workers,
             \/ readOrder(w) \/ upsertFromPaidOrder(w) \/ upsertLead(w) \/ runRetention(w) \/ runLeads(w)
             \/ anonymizeBuyer(w) \/ anonymize(w) \/ stopJob(w)
             \/ \E p \in People, phone \in Phones : Spend("crm") /\ captureLead(w, p, phone)
             \/ \E m \in Emails : anonymizeCustomer(w, m)
      PROVE  CustomersInv'
    BY <1>4, DataOnItsWay, BuyerOrLead, ErasureAsked, OrdersErased, CustomerErased, JobStops
<1>5. QED
    BY <1>1, <1>2, <1>3, <1>4, FulfilmentBegins, DatesAge DEF CustomersNext

(* The checkout looks phones up, keeps leads, and places and pays orders. *)
LEMMA CheckoutSteps ==
    ASSUME CustomersInv, ShopNext
    PROVE  CustomersInv'
<1>1. ASSUME NEW b \in Buyers,
             \/ goToData(b) \/ back(b) \/ lookupByPhone(b) \/ lookupAnswered(b)
             \/ lookupFails(b) \/ setUseOther(b) \/ goToReview(b) \/ typeCoupon(b) \/ applyCoupon(b)
             \/ previewCoupon(b) \/ removeCoupon(b) \/ submit(b) \/ priceOrder(b) \/ loseOrder(b)
             \/ startPix(b) \/ pixAnswered(b) \/ switchMethod(b) \/ track(b) \/ OrderTracker(b)
             \/ \E n \in 0..MaxUnits : setQuantity(b, n)
             \/ \E k \in Offers : toggleOffer(b, k)
             \/ \E phone \in Phones \cup {NoPhone} : typePhone(b, phone) \/ buildPublicEventView(b, phone)
             \/ \E p \in People : typeIdentity(b, p)
             \/ \E method \in {"pix", "card"}, pix \in {"none", "shown"} : orderCreated(b, method, pix)
      PROVE  CustomersInv'
    <2>1. UNCHANGED <<cust, order, job, erased, given>>
        BY <1>1 DEF goToData, back, lookupByPhone, lookupAnswered, lookupFails, setUseOther, goToReview,
               typeCoupon, applyCoupon, previewCoupon, removeCoupon, submit, priceOrder, loseOrder,
               startPix, pixAnswered, switchMethod, track, OrderTracker, setQuantity, toggleOffer,
               typePhone, buildPublicEventView, typeIdentity, orderCreated, Touched, Shows, customerVars
    <2>2. QED
        BY <2>1, NothingWritten
<1>2. ASSUME NEW b \in Buyers, NEW w \in Workers, lead(b, w) PROVE CustomersInv'
    <2>1. \/ \E phone : captureLead(w, buy[b].lead.who[2], phone)
          \/ UNCHANGED <<cust, order, job, erased, given>>
        BY <1>2 DEF lead, customerVars
    <2>2. QED
        BY <2>1, DataOnItsWay, NothingWritten
<1>3. ASSUME NEW b \in Buyers, NEW o \in Orders, createOrder(b, o) PROVE CustomersInv'
    <2>1. /\ UNCHANGED <<cust, job, erased>>
          /\ UNCHANGED <<order, given>> \/ \E email : placeOrder(o, email, buy[b].phone)
        BY <1>3 DEF createOrder
    <2>2. QED
        BY <2>1, OrderPlaced, NothingWritten
<1>4. ASSUME NEW b \in Buyers, submitCard(b) PROVE CustomersInv'
    <2>1. \/ \E o : order' = markOrderPaid(o) /\ UNCHANGED <<cust, job, erased, given>>
          \/ UNCHANGED <<cust, order, job, erased, given>>
        BY <1>4 DEF submitCard, Shows, customerVars
    <2>2. QED
        BY <2>1, OrderSettled, NothingWritten
<1>5. ASSUME NEW o \in Orders, expire(o) PROVE CustomersInv'
    BY <1>5, OrderSettled DEF expire
<1>6. ASSUME NEW price \in Prices,
             \/ updateSalesBatch(price) \/ \E open \in BOOLEAN : updateProduct(price, open)
             \/ \E k \in Offers, active \in BOOLEAN : updateOffer(k, price, active)
      PROVE  CustomersInv'
    BY <1>6, NothingWritten DEF updateSalesBatch, updateProduct, updateOffer, stock, customerVars
<1>7. CASE couponEnds \/ salesWindowEnds
    BY <1>7, NothingWritten DEF couponEnds, salesWindowEnds, stock, customerVars
<1>8. QED
    BY <1>1, <1>2, <1>3, <1>4, <1>5, <1>6, <1>7 DEF ShopNext

(* At first nobody's data was erased, and the customers known are those    *)
(* who left a phone at an earlier visit.                                   *)
LEMMA CustomersStart ==
    ASSUME CustomersInit
    PROVE  CustomersInv
<1>1. PICK s \in Scenarios :
          cust = [m \in Emails |->
                      IF m[1] = "real" /\ s.phones[m[2]] # NoPhone
                      THEN [NoCustomer EXCEPT !.id = FirstId[m[2]], !.phone = s.phones[m[2]],
                                              !.consent = "recent"]
                      ELSE NoCustomer]
    BY DEF CustomersInit
<1>2. /\ order = [o \in Orders |-> NoOrder] /\ job = [w \in Workers |-> Idle]
      /\ erased = {}
    BY DEF CustomersInit
<1>3. ASSUME NEW m \in Emails
      PROVE  /\ IsCustomer(cust[m])
             /\ cust[m].id # 0 => m = Email(m[2]) /\ m[2] \in People /\ cust[m].id = FirstId[m[2]]
    <2>1. m[2] \in People /\ (m[1] = "real" => m = Email(m[2]))
        BY EmailsAre
    <2>2. CASE cust[m] = NoCustomer
        BY <2>2 DEF IsCustomer, NoCustomer
    <2>3. CASE m[1] = "real" /\ cust[m] # NoCustomer
        <3>1. PICK tel : cust[m] = [NoCustomer EXCEPT !.id = FirstId[m[2]], !.phone = tel,
                                                      !.consent = "recent"]
            BY <1>1, <2>3
        <3>2. cust[m] = [id |-> FirstId[m[2]], phone |-> tel, opted |-> FALSE, bought |-> "never",
                         turn |-> 0, consent |-> "recent", anon |-> FALSE]
            BY <3>1 DEF NoCustomer
        <3>3. FirstId[m[2]] \in Nat \ {0}
            BY <2>1, CustomersAssumption
        <3>4. QED
            BY <2>1, <2>3, <3>2, <3>3 DEF IsCustomer
    <2>4. QED
        BY <1>1, <2>2, <2>3
<1>4. CustomerRows
    <2>1. ASSUME NEW m \in Emails, NEW n \in Emails, cust[m].id = cust[n].id, cust[m].id # 0 PROVE m = n
        BY <1>3, <2>1, CustomersAssumption
    <2>2. QED
        BY <1>1, <1>3, <2>1 DEF CustomerRows
<1>5. OrderRows
    <2>1. IsOrder(NoOrder)
        BY DEF IsOrder, NoOrder
    <2>2. QED
        BY <1>2, <2>1 DEF OrderRows
<1>6. \A w \in Workers : JobOK(w)
    <2>1. ~Erases(Idle) /\ \A p \in People : ~Writes(Idle, p)
        BY DEF Erases, Writes, Idle
    <2>2. QED
        BY <1>2, <2>1 DEF JobOK
<1>7. QED
    BY <1>2, <1>4, <1>5, <1>6 DEF CustomersInv

(* Once a person's erasure has ended, no customer and no order holds the   *)
(* person's data, in whatever order payments, fulfilments, leads, erasures *)
(* on request, retention runs and stops came, unless the data came in anew *)
(* or was on its way (customers/service.ts: the orders first, found by the *)
(* e-mail, then the customer, found by its id).                            *)
THEOREM ErasedStays == Spec => []ErasedStaysErased
<1>1. Init => CustomersInv
    BY CustomersStart DEF Init
<1>2. CustomersInv /\ [Next]_storeVars => CustomersInv'
    <2>1. SUFFICES ASSUME CustomersInv, [Next]_storeVars PROVE CustomersInv'
        OBVIOUS
    <2>2. CASE UNCHANGED customerVars
        BY <2>1, <2>2, NothingWritten DEF customerVars
    <2>3. QED
        BY <2>1, <2>2, CustomersSteps, CheckoutSteps DEF Next, storeVars
<1>3. CustomersInv => ErasedStaysErased
    BY DEF CustomersInv, ErasedStaysErased, Gone, Unordered, Holds
<1>4. QED
    BY <1>1, <1>2, <1>3, PTL DEF Spec

-------------------------------------------------------------------------------
(* The checkout                                                            *)

(* A percentage of more is no less. *)
LEMMA RoundedGrows ==
    ASSUME NEW a \in Nat, NEW c \in Nat, a <= c, NEW bps \in Nat
    PROVE  /\ RoundedRatio(a * bps, Bps) \in Nat
           /\ RoundedRatio(a * bps, Bps) <= RoundedRatio(c * bps, Bps)
<1>1. PICK x, y : x = a * bps /\ y = c * bps
    OBVIOUS
<1>2. x \in Nat /\ y \in Nat /\ x <= y
    BY <1>1
<1>3. RoundedRatio(x, Bps) \in Nat /\ RoundedRatio(x, Bps) <= RoundedRatio(y, Bps)
    BY <1>2 DEF RoundedRatio, Bps
<1>4. QED
    BY <1>1, <1>3

(* A discount is no more than the tickets cost. *)
LEMMA DiscountWithin ==
    ASSUME NEW voucher, voucher.value \in Nat, NEW tickets \in Nat
    PROVE  couponDiscountCents(voucher, tickets) \in 0..tickets
<1>1. percentageOf(tickets, AtMost(voucher.value, Bps)) \in Nat
    <2>1. AtMost(voucher.value, Bps) \in Nat
        BY DEF AtMost, Bps
    <2>2. QED
        BY <2>1, RoundedGrows DEF percentageOf
<1>2. PICK raw \in Nat : couponDiscountCents(voucher, tickets) = AtMost(raw, tickets)
    BY <1>1 DEF couponDiscountCents
<1>3. QED
    BY <1>2 DEF AtMost

(* With a discount the total is no more than without. *)
LEMMA DiscountTakesOff ==
    ASSUME NEW tickets \in Nat, NEW products \in Nat, NEW d \in 0..tickets, NEW fee, fee.bps \in Nat
    PROVE  /\ orderTotals(tickets, products, d, fee).total \in Nat
           /\ orderTotals(tickets, products, d, fee).total <= orderTotals(tickets, products, 0, fee).total
<1>1. PICK m, n : m = percentageOf(tickets - d, fee.bps) /\ n = percentageOf(tickets - 0, fee.bps)
    OBVIOUS
<1>2. m \in Nat /\ n \in Nat /\ m <= n
    BY <1>1, RoundedGrows DEF percentageOf
<1>3. /\ orderTotals(tickets, products, d, fee).total
             = (tickets - d) + products + (IF fee.mode = "BUYER" THEN m ELSE 0)
      /\ orderTotals(tickets, products, 0, fee).total
             = (tickets - 0) + products + (IF fee.mode = "BUYER" THEN n ELSE 0)
    BY <1>1 DEF orderTotals
<1>4. QED
    BY <1>2, <1>3

(* The page's bound on a fee changes none that is allowed. *)
LEMMA AtMostSelf ==
    ASSUME NEW bps \in 0..Bps
    PROVE  AtMost(bps, Bps) = bps
BY DEF AtMost, Bps

(* The page computes the totals the server does: without a coupon, *)
LEMMA ShownWithout ==
    ASSUME NEW tickets \in Nat, NEW products \in Nat, NEW fee, fee.bps \in 0..Bps
    PROVE  shownTotal(tickets, products, {}, fee) = orderTotals(tickets, products, 0, fee).total
<1> DEFINE raw(c) == IF c.kind = "PERCENT"
                     THEN RoundedRatio(tickets * AtMost(c.value, Bps), Bps) ELSE c.value
           off == [c \in {} |-> AtMost(raw(c), tickets)]
<1>1. SumFunction(off) = 0
    BY SumOfNone DEF SumFunction
<1>2. AtMost(fee.bps, Bps) = fee.bps
    BY AtMostSelf
<1> HIDE DEF off
<1>3. shownTotal(tickets, products, {}, fee)
          = (tickets - SumFunction(off)) + products
                + (IF fee.mode = "BUYER"
                   THEN RoundedRatio((tickets - SumFunction(off)) * AtMost(fee.bps, Bps), Bps) ELSE 0)
    BY DEF shownTotal, off
<1>4. QED
    BY <1>1, <1>2, <1>3 DEF orderTotals, percentageOf

(* and with one. *)
LEMMA ShownWith ==
    ASSUME NEW tickets \in Nat, NEW products \in Nat, NEW fee, fee.bps \in 0..Bps,
           NEW voucher, voucher.value \in Nat
    PROVE  shownTotal(tickets, products, {voucher}, fee)
               = orderTotals(tickets, products, couponDiscountCents(voucher, tickets), fee).total
<1> DEFINE raw(c) == IF c.kind = "PERCENT"
                     THEN RoundedRatio(tickets * AtMost(c.value, Bps), Bps) ELSE c.value
           off == [c \in {voucher} |-> AtMost(raw(c), tickets)]
           d == couponDiscountCents(voucher, tickets)
<1>1. off[voucher] = d /\ DOMAIN off = {voucher} /\ d \in 0..tickets
    <2>1. off[voucher] = AtMost(raw(voucher), tickets) /\ DOMAIN off = {voucher}
        OBVIOUS
    <2>2. AtMost(raw(voucher), tickets) = d
        BY DEF couponDiscountCents, percentageOf
    <2>3. d \in 0..tickets
        BY DiscountWithin
    <2>4. QED
        BY <2>1, <2>2, <2>3
<1>2. AtMost(fee.bps, Bps) = fee.bps
    BY AtMostSelf
<1> HIDE DEF off, d
<1>3. SumFunction(off) = d
    <2>1. IsFiniteSet({voucher}) /\ {voucher} # {} /\ Pick({voucher}) = voucher /\ {voucher} \ {voucher} = {}
        BY FS_Singleton DEF Pick
    <2>2. SumFunctionOnSet(off, {voucher}) = off[voucher] + SumFunctionOnSet(off, {})
        BY <2>1, SumOfPick
    <2>3. QED
        BY <1>1, <2>2, SumOfNone DEF SumFunction
<1>4. shownTotal(tickets, products, {voucher}, fee)
          = (tickets - SumFunction(off)) + products
                + (IF fee.mode = "BUYER"
                   THEN RoundedRatio((tickets - SumFunction(off)) * AtMost(fee.bps, Bps), Bps) ELSE 0)
    BY DEF shownTotal, off
<1>5. QED
    BY <1>2, <1>3, <1>4 DEF orderTotals, percentageOf, d

(* What customers, orders and requests hold: a pseudonym comes with no     *)
(* phone, and only a pseudonym's customer is anonymous.                    *)
CustomerData(m, c) ==
    /\ c.bought \in Ages /\ c.turn \in Nat
    /\ m[1] # "real" => c.phone = NoPhone
    /\ c.anon => m[1] # "real"
OrderData(r) ==
    /\ r.email \in Emails \cup {Nobody} /\ r.paid \in Ages /\ r.turn \in Nat
    /\ r.email[1] # "real" => r.phone = NoPhone
JobData(j) ==
    /\ j.op = "issued" => j.order \in Orders
    /\ j.op = "lead" => j.email[1] = "real"
    /\ j.op = "fulfil" => OrderData(j)
DataInv ==
    /\ \A m \in Emails : CustomerData(m, cust[m])
    /\ \A o \in Orders : OrderData(order[o])
    /\ \A w \in Workers : JobData(job[w])

(* A step keeps what it does not write. *)
LEMMA DataKept ==
    ASSUME DataInv,
           \A m \in Emails : cust'[m] = cust[m] \/ CustomerData(m, cust'[m]),
           \A o \in Orders : order'[o] = order[o] \/ OrderData(order'[o]),
           \A w \in Workers : job'[w] = job[w] \/ JobData(job'[w])
    PROVE  DataInv'
BY DEF DataInv

(* Of the jobs one is written; *)
LEMMA JobsBut ==
    ASSUME CustomersInv, NEW w, NEW j, JobData(j), job' = [job EXCEPT ![w] = j]
    PROVE  \A v \in Workers : job'[v] = job[v] \/ JobData(job'[v])
BY DEF CustomersInv

(* of the orders one. *)
LEMMA OrdersBut ==
    ASSUME CustomersInv, NEW o, NEW r, o \in Orders => OrderData(r), order' = [order EXCEPT ![o] = r]
    PROVE  \A x \in Orders : order'[x] = order[x] \/ OrderData(order'[x])
BY DEF CustomersInv, OrderRows

(* An order is paid, or expires. *)
LEMMA SettledData ==
    ASSUME CustomersInv, DataInv, NEW o,
           order' = markOrderPaid(o) \/ order' = [order EXCEPT ![o].status = "EXPIRED"]
    PROVE  \A x \in Orders : order'[x] = order[x] \/ OrderData(order'[x])
<1>1. o \in Orders => IsOrder(order[o]) /\ OrderData(order[o])
    BY DEF CustomersInv, OrderRows, DataInv
<1>2. CASE order' = markOrderPaid(o)
    <2> DEFINE turn == 1 + Cardinality({x \in Orders : order[x].turn > 0})
    <2>1. turn \in Nat
        <3>1. IsFiniteSet({x \in Orders : order[x].turn > 0})
            BY ShopAssumption, FS_Subset
        <3>2. QED
            BY <3>1, FS_CardinalityType
    <2>2. PICK new : /\ order' = [order EXCEPT ![o] = new]
                     /\ new = [order[o] EXCEPT !.status = "PAID", !.paid = "recent", !.turn = turn]
        BY ZenonT(40), <1>2 DEF markOrderPaid
    <2> HIDE DEF turn
    <2>3. ASSUME o \in Orders PROVE OrderData(new)
        <3>1. PICK r : r = order[o] /\ IsOrder(r) /\ OrderData(r)
            BY <1>1, <2>3
        <3>2. new = [email |-> r.email, phone |-> r.phone, status |-> "PAID", paid |-> "recent",
                     turn |-> turn, issued |-> r.issued]
            BY <2>2, <3>1 DEF IsOrder
        <3>3. QED
            BY <2>1, <3>1, <3>2 DEF OrderData, Ages
    <2>4. QED
        BY <2>2, <2>3, OrdersBut
<1>3. CASE order' = [order EXCEPT ![o].status = "EXPIRED"]
    <2>1. PICK new : order' = [order EXCEPT ![o] = new] /\ new = [order[o] EXCEPT !.status = "EXPIRED"]
        BY <1>3
    <2>2. ASSUME o \in Orders PROVE OrderData(new)
        <3>1. PICK r : r = order[o] /\ IsOrder(r) /\ OrderData(r)
            BY <1>1, <2>2
        <3>2. new = [email |-> r.email, phone |-> r.phone, status |-> "EXPIRED", paid |-> r.paid,
                     turn |-> r.turn, issued |-> r.issued]
            BY <2>1, <3>1 DEF IsOrder
        <3>3. QED
            BY <3>1, <3>2 DEF OrderData
    <2>3. QED
        BY <2>1, <2>2, OrdersBut
<1>4. QED
    BY <1>2, <1>3

(* An order is placed. *)
LEMMA PlacedData ==
    ASSUME CustomersInv, DataInv, NEW o, NEW email \in Emails \cup {Nobody}, NEW phone,
           email[1] # "real" => phone = NoPhone, placeOrder(o, email, phone)
    PROVE  \A x \in Orders : order'[x] = order[x] \/ OrderData(order'[x])
<1>1. PICK new : /\ order' = [order EXCEPT ![o] = new]
                 /\ new = [NoOrder EXCEPT !.email = email, !.phone = phone, !.status = "AWAITING_PAYMENT"]
    BY DEF placeOrder
<1>2. new.email = email /\ new.phone = phone /\ new.paid = "never" /\ new.turn = 0
    BY <1>1 DEF NoOrder
<1>3. OrderData(new)
    BY <1>2 DEF OrderData, Ages
<1>4. QED
    BY <1>1, <1>3, OrdersBut

(* Tickets are issued, or not all of them. *)
LEMMA IssuedData ==
    ASSUME CustomersInv, DataInv, NEW o, NEW issued, order' = [order EXCEPT ![o].issued = issued]
    PROVE  \A x \in Orders : order'[x] = order[x] \/ OrderData(order'[x])
<1>1. PICK new : order' = [order EXCEPT ![o] = new] /\ new = [order[o] EXCEPT !.issued = issued]
    OBVIOUS
<1>2. ASSUME o \in Orders PROVE OrderData(new)
    <2>1. PICK r : r = order[o] /\ IsOrder(r) /\ OrderData(r)
        BY <1>2 DEF CustomersInv, OrderRows, DataInv
    <2>2. new = [email |-> r.email, phone |-> r.phone, status |-> r.status, paid |-> r.paid,
                 turn |-> r.turn, issued |-> issued]
        BY <1>1, <2>1 DEF IsOrder
    <2>3. QED
        BY <2>1, <2>2 DEF OrderData
<1>3. QED
    BY <1>1, <1>2, OrdersBut

(* A buyer's row, or a lead's, is written. *)
Rewritten(e, phone, consent, row) ==
    /\ upsert(e, phone, consent) = [cust EXCEPT ![e] = row]
    /\ IsCustomer(row) /\ row.phone \in {phone, cust[e].phone}
    /\ row.bought = cust[e].bought /\ row.turn = cust[e].turn /\ row.anon = cust[e].anon

(* A customer is written from a paid order, or from a lead. *)
LEMMA WrittenData ==
    ASSUME CustomersInv, DataInv, NEW w \in Workers, upsertFromPaidOrder(w) \/ upsertLead(w)
    PROVE  \A m \in Emails : cust'[m] = cust[m] \/ CustomerData(m, cust'[m])
<1> DEFINE j == job[w]
<1>1. \A m \in Emails : IsCustomer(cust[m]) /\ CustomerData(m, cust[m])
    BY DEF CustomersInv, CustomerRows, DataInv
<1>2. JobData(j) /\ cust = [m \in Emails |-> cust[m]]
    BY DEF DataInv, CustomersInv, CustomerRows
<1>3. ASSUME NEW e \in Emails, NEW phone, NEW consent
      PROVE  \E row : Rewritten(e, phone, consent, row)
    <2> DEFINE i == IF cust[e].id = 0 THEN NextId ELSE cust[e].id
               tel == IF phone = NoPhone THEN cust[e].phone ELSE phone
    <2>1. PICK c, row : c = cust[e] /\ row = [c EXCEPT !.id = i, !.phone = tel, !.consent = consent]
        OBVIOUS
    <2>2. upsert(e, phone, consent) = [cust EXCEPT ![e] = row]
        BY <2>1 DEF upsert
    <2>3. tel \in {phone, cust[e].phone}
        OBVIOUS
    <2>4. i \in Nat \ {0}
        BY <1>1, NextIdIsNew DEF IsCustomer, CustomersInv
    <2>5. row = [id |-> i, phone |-> tel, opted |-> c.opted, bought |-> c.bought,
                 turn |-> c.turn, consent |-> consent, anon |-> c.anon]
        <3> HIDE DEF i, tel
        <3>1. IsCustomer(c)
            BY <1>1, <2>1
        <3>2. QED
            BY <2>1, <3>1 DEF IsCustomer
    <2> HIDE DEF i, tel
    <2>6. IsCustomer(row)
        BY <2>4, <2>5 DEF IsCustomer
    <2>7. row.phone = tel /\ row.bought = c.bought /\ row.turn = c.turn /\ row.anon = c.anon
        BY <2>5
    <2>8. Rewritten(e, phone, consent, row)
        BY <2>1, <2>2, <2>3, <2>6, <2>7 DEF Rewritten
    <2>9. QED
        BY <2>8
<1>4. CASE upsertLead(w)
    <2>1. cust' = upsert(j.email, j.phone, "recent") /\ j.email[1] = "real"
        BY <1>2, <1>4 DEF upsertLead, JobData
    <2>2. CASE j.email \notin Emails
        BY <1>2, <2>1, <2>2 DEF upsert
    <2>3. CASE j.email \in Emails
        <3>1. PICK e, phone : e = j.email /\ phone = j.phone /\ e \in Emails
            BY <2>3
        <3>2. PICK row : Rewritten(e, phone, "recent", row)
            BY <1>3, <3>1
        <3>3. CustomerData(e, row)
            BY <1>1, <2>1, <3>1, <3>2 DEF CustomerData, Rewritten
        <3>4. cust' = [cust EXCEPT ![e] = row]
            BY <2>1, <3>1, <3>2 DEF Rewritten
        <3>5. QED
            BY <1>2, <3>1, <3>3, <3>4
    <2>4. QED
        BY <2>2, <2>3
<1>5. CASE upsertFromPaidOrder(w)
    <2>1. OrderData(j)
        BY <1>2, <1>5 DEF upsertFromPaidOrder, JobData
    <2>2. cust' = [upsert(j.email, j.phone, j.paid) EXCEPT ![j.email].bought = j.paid,
                                                           ![j.email].turn = j.turn]
        BY <1>5 DEF upsertFromPaidOrder
    <2>3. CASE j.email \notin Emails
        <3>1. upsert(j.email, j.phone, j.paid) = cust
            BY <1>2, <2>3 DEF upsert
        <3>2. cust' = [cust EXCEPT ![j.email].bought = j.paid, ![j.email].turn = j.turn]
            BY <2>2, <3>1
        <3>3. QED
            BY <1>2, <2>3, <3>2
    <2>4. CASE j.email \in Emails
        <3>1. PICK e, phone, paid, turn : /\ e = j.email /\ phone = j.phone /\ paid = j.paid /\ turn = j.turn
                                          /\ e \in Emails
            BY <2>4
        <3>2. PICK row : Rewritten(e, phone, paid, row)
            BY <1>3, <3>1
        <3>3. PICK new : new = [row EXCEPT !.bought = paid, !.turn = turn]
            OBVIOUS
        <3>4. cust' = [[cust EXCEPT ![e] = row] EXCEPT ![e].bought = paid, ![e].turn = turn]
            BY <2>2, <3>1, <3>2 DEF Rewritten
        <3>5. cust' = [cust EXCEPT ![e] = new]
            BY <1>2, <3>1, <3>3, <3>4
        <3>6. new = [id |-> row.id, phone |-> row.phone, opted |-> row.opted, bought |-> paid,
                     turn |-> turn, consent |-> row.consent, anon |-> row.anon]
            BY <3>2, <3>3 DEF IsCustomer, Rewritten
        <3>7. /\ paid \in Ages /\ turn \in Nat /\ (e[1] # "real" => phone = NoPhone)
              /\ (e[1] # "real" => cust[e].phone = NoPhone) /\ (cust[e].anon => e[1] # "real")
            BY <1>1, <2>1, <3>1 DEF OrderData, CustomerData
        <3>8. CustomerData(e, new)
            BY <3>2, <3>6, <3>7 DEF CustomerData, Rewritten
        <3>9. QED
            BY <1>2, <3>1, <3>5, <3>8
    <2>5. QED
        BY <2>3, <2>4
<1>6. QED
    BY <1>4, <1>5

(* A customer is anonymized, opts out, or grows old. *)
LEMMA ErasedData ==
    ASSUME CustomersInv, DataInv, NEW w \in Workers, anonymize(w)
    PROVE  \A m \in Emails : cust'[m] = cust[m] \/ CustomerData(m, cust'[m])
<1> DEFINE r == job[w].row
           ps == pseudonymFor(r.email)
<1>1. PICK at : at = CHOOSE m \in Emails : cust[m].id = r.id
    OBVIOUS
<1>2. RowOK(r)
    BY DEF anonymize, CustomersInv, JobOK, Erases, ErasureOK
<1>3. at \in Emails /\ ps[1] # "real"
    <2>1. \E m \in Emails : cust[m].id = r.id
        BY <1>2 DEF RowOK, Kept
    <2>2. r.email \in Emails
        BY <1>2 DEF RowOK
    <2>3. QED
        BY <1>1, <2>1, <2>2, EmailsAre
<1>4. cust = [m \in Emails |-> cust[m]] /\ IsCustomer(cust[at]) /\ CustomerData(at, cust[at])
    BY <1>3 DEF CustomersInv, CustomerRows, DataInv
<1>5. PICK gone : gone = [cust[at] EXCEPT !.phone = NoPhone, !.opted = TRUE, !.anon = TRUE]
    OBVIOUS
<1>6. UNCHANGED cust \/ cust' = [cust EXCEPT ![at] = NoCustomer, ![ps] = gone]
    BY <1>1, <1>5 DEF anonymize
<1>7. gone = [id |-> cust[at].id, phone |-> NoPhone, opted |-> TRUE, bought |-> cust[at].bought,
              turn |-> cust[at].turn, consent |-> cust[at].consent, anon |-> TRUE]
    BY <1>4, <1>5 DEF IsCustomer
<1>8. CustomerData(ps, gone)
    BY <1>3, <1>4, <1>7 DEF CustomerData
<1>9. CustomerData(at, NoCustomer)
    BY DEF CustomerData, NoCustomer, Ages
<1>10. QED
    BY <1>4, <1>6, <1>8, <1>9

(* A customer opts out. *)
LEMMA OptedData ==
    ASSUME CustomersInv, DataInv, NEW e \in Emails, NEW out, setOptOut(e, out)
    PROVE  \A m \in Emails : cust'[m] = cust[m] \/ CustomerData(m, cust'[m])
<1>1. PICK c, new : /\ c = cust[e] /\ new = [c EXCEPT !.opted = out]
                    /\ cust' = [cust EXCEPT ![e] = new]
    BY DEF setOptOut
<1>2. IsCustomer(c) /\ CustomerData(e, c) /\ cust = [m \in Emails |-> cust[m]]
    BY <1>1 DEF CustomersInv, CustomerRows, DataInv
<1>3. new = [id |-> c.id, phone |-> c.phone, opted |-> out, bought |-> c.bought,
             turn |-> c.turn, consent |-> c.consent, anon |-> c.anon]
    BY <1>1, <1>2 DEF IsCustomer
<1>4. CustomerData(e, new)
    BY <1>2, <1>3 DEF CustomerData
<1>5. QED
    BY <1>1, <1>2, <1>4

(* Months pass. *)
LEMMA AgedData ==
    ASSUME CustomersInv, DataInv, monthsPass
    PROVE  DataInv'
<1> DEFINE aged(d) == IF d = "recent" THEN "old" ELSE d
<1>1. \A d \in Ages : aged(d) \in Ages
    BY DEF Ages
<1>2. ASSUME NEW m \in Emails PROVE CustomerData(m, cust'[m])
    <2>1. PICK c : c = cust[m] /\ IsCustomer(c) /\ CustomerData(m, c)
        BY DEF CustomersInv, CustomerRows, DataInv
    <2>2. cust'[m] = [c EXCEPT !.bought = aged(c.bought), !.consent = aged(c.consent)]
        BY <2>1 DEF monthsPass
    <2> HIDE DEF aged
    <2>3. cust'[m] = [id |-> c.id, phone |-> c.phone, opted |-> c.opted, bought |-> aged(c.bought),
                      turn |-> c.turn, consent |-> aged(c.consent), anon |-> c.anon]
        BY <2>1, <2>2 DEF IsCustomer
    <2>4. QED
        BY <1>1, <2>1, <2>3 DEF CustomerData
<1>3. ASSUME NEW o \in Orders PROVE OrderData(order'[o])
    <2>1. PICK r : r = order[o] /\ IsOrder(r) /\ OrderData(r)
        BY DEF CustomersInv, OrderRows, DataInv
    <2>2. order'[o] = [r EXCEPT !.paid = aged(r.paid)]
        BY <2>1 DEF monthsPass
    <2> HIDE DEF aged
    <2>3. order'[o] = [email |-> r.email, phone |-> r.phone, status |-> r.status, paid |-> aged(r.paid),
                       turn |-> r.turn, issued |-> r.issued]
        BY <2>1, <2>2 DEF IsOrder
    <2>4. QED
        BY <1>1, <2>1, <2>3 DEF OrderData
<1>4. UNCHANGED job
    BY DEF monthsPass
<1>5. QED
    BY <1>2, <1>3, <1>4, DataKept

(* Orders lose the person's data. *)
LEMMA PseudonymisedData ==
    ASSUME CustomersInv, DataInv, NEW w \in Workers, anonymizeBuyer(w)
    PROVE  \A o \in Orders : order'[o] = order[o] \/ OrderData(order'[o])
<1>1. PICK email : email = job[w].row.email /\ order' = ordersAnonymized(email)
    BY DEF anonymizeBuyer
<1>2. email \in Emails
    BY <1>1 DEF anonymizeBuyer, CustomersInv, JobOK, Erases, ErasureOK, RowOK
<1>3. ASSUME NEW o \in Orders, order[o].email = email PROVE OrderData(order'[o])
    <2>1. PICK r : r = order[o] /\ IsOrder(r) /\ OrderData(r)
        BY DEF CustomersInv, OrderRows, DataInv
    <2>2. order'[o] = [r EXCEPT !.email = pseudonymFor(email), !.phone = NoPhone]
        BY <1>1, <1>3, <2>1 DEF ordersAnonymized
    <2>3. order'[o] = [email |-> pseudonymFor(email), phone |-> NoPhone, status |-> r.status,
                       paid |-> r.paid, turn |-> r.turn, issued |-> r.issued]
        BY <2>1, <2>2 DEF IsOrder
    <2>4. pseudonymFor(email) \in Emails
        BY <1>2, EmailsAre
    <2>5. QED
        BY <2>1, <2>3, <2>4 DEF OrderData
<1>4. QED
    BY <1>1, <1>3 DEF ordersAnonymized

(* A lead is a person's. *)
LEMMA LeadData ==
    ASSUME CustomersInv, DataInv, NEW w \in Workers, NEW p, NEW phone, captureLead(w, p, phone)
    PROVE  DataInv'
<1>1. PICK j : /\ j = [op |-> "lead", email |-> Email(p), phone |-> phone]
               /\ job' = [job EXCEPT ![w] = j]
    BY DEF captureLead
<1>2. JobData(j)
    BY <1>1 DEF JobData, Email
<1>3. \A v \in Workers : job'[v] = job[v] \/ JobData(job'[v])
    BY <1>1, <1>2, JobsBut
<1>4. QED
    BY <1>3, DataKept DEF captureLead

(* The customers' part of what is held. *)
LEMMA DataSteps ==
    ASSUME CustomersInv, DataInv, CustomersNext
    PROVE  DataInv'
<1>1. JobData(Idle) /\ JobData([op |-> "leads"])
    BY DEF JobData, Idle
<1>2. ASSUME NEW o \in Orders, payOrder(o) PROVE DataInv'
    BY <1>2, SettledData, DataKept DEF payOrder
<1>3. ASSUME NEW o \in Orders, NEW w \in Workers, fulfil(w, o) PROVE DataInv'
    <2>1. PICK j : j = [op |-> "issued", order |-> o] /\ job' = [job EXCEPT ![w] = j]
        BY <1>3 DEF fulfil
    <2>2. JobData(j)
        BY <2>1 DEF JobData
    <2>3. UNCHANGED cust /\ order' = [order EXCEPT ![o].issued = TRUE]
        BY <1>3 DEF fulfil
    <2>4. \A x \in Orders : order'[x] = order[x] \/ OrderData(order'[x])
        BY <2>3, IssuedData
    <2>5. \A v \in Workers : job'[v] = job[v] \/ JobData(job'[v])
        BY <2>1, <2>2, JobsBut
    <2>6. QED
        BY <2>3, <2>4, <2>5, DataKept
<1>4. ASSUME NEW o \in Orders, NEW p \in People, NEW phone, checkout(o, p, phone) PROVE DataInv'
    <2>1. Email(p) \in Emails /\ Email(p)[1] = "real"
        BY EmailsAre
    <2>2. QED
        BY <1>4, <2>1, PlacedData, DataKept DEF checkout
<1>5. ASSUME NEW w \in Workers, readOrder(w) PROVE DataInv'
    <2>1. PICK o, j : /\ o = order[job[w].order] /\ job' = [job EXCEPT ![w] = j]
                      /\ j = [op |-> "fulfil", email |-> o.email, phone |-> o.phone, paid |-> o.paid,
                              turn |-> o.turn]
        BY <1>5 DEF readOrder
    <2>2. OrderData(o)
        BY <1>5, <2>1 DEF readOrder, DataInv, JobData
    <2>3. JobData(j)
        BY <2>1, <2>2 DEF JobData, OrderData
    <2>4. \A v \in Workers : job'[v] = job[v] \/ JobData(job'[v])
        BY <2>1, <2>3, JobsBut
    <2>5. QED
        BY <1>5, <2>4, DataKept DEF readOrder
<1>6. ASSUME NEW w \in Workers, upsertFromPaidOrder(w) \/ upsertLead(w) PROVE DataInv'
    <2>1. UNCHANGED order /\ job' = [job EXCEPT ![w] = Idle]
        BY <1>6 DEF upsertFromPaidOrder, upsertLead
    <2>2. \A v \in Workers : job'[v] = job[v] \/ JobData(job'[v])
        BY <1>1, <2>1, JobsBut
    <2>3. QED
        BY <1>6, <2>1, <2>2, WrittenData, DataKept
<1>7. ASSUME NEW w \in Workers, NEW p, NEW phone, captureLead(w, p, phone) PROVE DataInv'
    BY <1>7, LeadData
<1>8. ASSUME NEW w \in Workers, NEW j, job' = [job EXCEPT ![w] = j], j.op \in {"orders", "customer",
             "leads", "none"}
      PROVE  \A v \in Workers : job'[v] = job[v] \/ JobData(job'[v])
    <2>1. JobData(j)
        BY <1>8 DEF JobData
    <2>2. QED
        BY <1>8, <2>1, JobsBut
<1>9. ASSUME NEW w \in Workers, runRetention(w) \/ runLeads(w) \/ \E m \in Emails : anonymizeCustomer(w, m)
      PROVE  DataInv'
    <2>1. ASSUME NEW rows, NEW r, NEW then,
                 job' = [job EXCEPT ![w] = [op |-> "orders", rows |-> rows, row |-> r, then |-> then]]
          PROVE  \A v \in Workers : job'[v] = job[v] \/ JobData(job'[v])
        <3>1. PICK j : /\ j = [op |-> "orders", rows |-> rows, row |-> r, then |-> then]
                       /\ job' = [job EXCEPT ![w] = j]
            BY <2>1
        <3>2. j.op = "orders"
            BY <3>1
        <3>3. QED
            BY <1>8, <3>1, <3>2
    <2>2. \A v \in Workers : job'[v] = job[v] \/ JobData(job'[v])
        <3>1. ASSUME NEW rows, NEW then, Retains(w, rows, then)
              PROVE  \A v \in Workers : job'[v] = job[v] \/ JobData(job'[v])
            BY <1>1, <2>1, <3>1, JobsBut DEF Retains
        <3>2. QED
            BY <1>9, <2>1, <3>1 DEF runRetention, runLeads, anonymizeCustomer
    <2>3. UNCHANGED <<cust, order>>
        BY <1>9 DEF runRetention, runLeads, anonymizeCustomer
    <2>4. QED
        BY <2>2, <2>3, DataKept
<1>10. ASSUME NEW w \in Workers, anonymizeBuyer(w) PROVE DataInv'
    <2>1. PICK j : j = [job[w] EXCEPT !.op = "customer"] /\ job' = [job EXCEPT ![w] = j]
        BY <1>10 DEF anonymizeBuyer
    <2>2. ErasureOK(job[w])
        BY <1>10 DEF anonymizeBuyer, CustomersInv, JobOK, Erases
    <2>3. j.op = "customer"
        <3>1. PICK i : i = job[w] /\ i = [op |-> i.op, rows |-> i.rows, row |-> i.row, then |-> i.then]
            BY <2>2 DEF ErasureOK
        <3>2. QED
            BY <2>1, <3>1
    <2>4. UNCHANGED cust
        BY <1>10 DEF anonymizeBuyer
    <2>5. QED
        BY <1>8, <1>10, <2>1, <2>3, <2>4, PseudonymisedData, DataKept
<1>11. ASSUME NEW w \in Workers, anonymize(w) PROVE DataInv'
    <2>1. \A v \in Workers : job'[v] = job[v] \/ JobData(job'[v])
        <3>1. CASE job' = [job EXCEPT ![w] = IF job[w].then = "leads" THEN [op |-> "leads"] ELSE Idle]
            BY <1>1, <3>1, JobsBut
        <3>2. ASSUME NEW rows, NEW r,
                     job' = [job EXCEPT ![w] = [job[w] EXCEPT !.op = "orders", !.rows = rows, !.row = r]]
              PROVE  \A v \in Workers : job'[v] = job[v] \/ JobData(job'[v])
            <4>1. PICK i, j : i = job[w] /\ j = [i EXCEPT !.op = "orders", !.rows = rows, !.row = r]
                OBVIOUS
            <4>2. i = [op |-> i.op, rows |-> i.rows, row |-> i.row, then |-> i.then]
                BY <1>11, <4>1 DEF anonymize, CustomersInv, JobOK, Erases, ErasureOK
            <4>3. j = [op |-> "orders", rows |-> rows, row |-> r, then |-> i.then]
                BY <4>1, <4>2, NextErasure
            <4>4. job' = [job EXCEPT ![w] = j] /\ j.op = "orders"
                BY <3>2, <4>1, <4>3
            <4>5. QED
                BY <1>8, <4>4
        <3>3. CASE job' = [job EXCEPT ![w] = Idle]
            BY <1>1, <3>3, JobsBut
        <3>4. QED
            BY <1>11, <3>1, <3>2, <3>3 DEF anonymize
    <2>2. UNCHANGED order
        BY <1>11 DEF anonymize
    <2>3. QED
        BY <1>11, <2>1, <2>2, ErasedData, DataKept
<1>12. ASSUME NEW w \in Workers, stopJob(w) PROVE DataInv'
    <2>1. UNCHANGED order \/ \E o, issued : order' = [order EXCEPT ![o].issued = issued]
        BY <1>12 DEF stopJob
    <2>2. UNCHANGED cust /\ job' = [job EXCEPT ![w] = Idle]
        BY <1>12 DEF stopJob
    <2>3. \A v \in Workers : job'[v] = job[v] \/ JobData(job'[v])
        BY <1>1, <2>2, JobsBut
    <2>4. \A x \in Orders : order'[x] = order[x] \/ OrderData(order'[x])
        BY <2>1, IssuedData
    <2>5. QED
        BY <2>2, <2>3, <2>4, DataKept
<1>13. ASSUME NEW m \in Emails, NEW out, setOptOut(m, out) PROVE DataInv'
    BY <1>13, OptedData, DataKept DEF setOptOut
<1>14. QED
    BY <1>2, <1>3, <1>4, <1>5, <1>6, <1>7, <1>9, <1>10, <1>11, <1>12, <1>13, AgedData DEF CustomersNext

(* What is on sale: the prices change, the coupon and the fee do not. *)
Sold(s) == s \in Shelves /\ s.coupon = FirstShelf.coupon

(* A change of a price or an offer leaves something on sale. *)
LEMMA Restocked ==
    ASSUME NEW s, Sold(s), NEW price \in Nat, NEW open \in BOOLEAN, NEW k \in Offers
    PROVE  /\ Sold([s EXCEPT !.batch.price = price])
           /\ Sold([s EXCEPT !.product = [price |-> price, open |-> open]])
           /\ Sold([s EXCEPT !.offer[k] = [own |-> price, active |-> open]])
           /\ Sold([s EXCEPT !.valid = FALSE])
           /\ Sold([s EXCEPT !.inWindow = FALSE])
<1>1. s \in Shelves /\ s.coupon = FirstShelf.coupon
    BY DEF Sold
<1>2. Sold([s EXCEPT !.batch.price = price])
    <2>1. PICK c, d : c = s.batch /\ d = [c EXCEPT !.price = price]
        OBVIOUS
    <2>2. d \in [price : Nat, open : BOOLEAN]
        BY <1>1, <2>1 DEF Shelves
    <2>3. [s EXCEPT !.batch = d] \in Shelves /\ [s EXCEPT !.batch = d].coupon = s.coupon
        BY <1>1, <2>2 DEF Shelves
    <2>4. [s EXCEPT !.batch.price = price] = [s EXCEPT !.batch = d]
        BY <1>1, <2>1 DEF Shelves
    <2>5. QED
        BY <1>1, <2>3, <2>4 DEF Sold
<1>3. Sold([s EXCEPT !.product = [price |-> price, open |-> open]])
    <2>1. PICK d : d = [price |-> price, open |-> open]
        OBVIOUS
    <2>2. d \in [price : Nat, open : BOOLEAN]
        BY <2>1
    <2>3. [s EXCEPT !.product = d] \in Shelves /\ [s EXCEPT !.product = d].coupon = s.coupon
        BY <1>1, <2>2 DEF Shelves
    <2>4. QED
        BY <1>1, <2>1, <2>3 DEF Sold
<1>4. Sold([s EXCEPT !.offer[k] = [own |-> price, active |-> open]])
    <2>1. PICK c, d, f : /\ c = s.offer /\ d = [own |-> price, active |-> open]
                         /\ f = [c EXCEPT ![k] = d]
        OBVIOUS
    <2>2. d \in [own : Nat \cup {NoPrice}, active : BOOLEAN]
        BY <2>1
    <2>3. c \in [Offers -> [own : Nat \cup {NoPrice}, active : BOOLEAN]]
        BY <1>1, <2>1 DEF Shelves
    <2>4. f \in [Offers -> [own : Nat \cup {NoPrice}, active : BOOLEAN]]
        BY <2>1, <2>2, <2>3
    <2>5. [s EXCEPT !.offer = f] \in Shelves /\ [s EXCEPT !.offer = f].coupon = s.coupon
        BY <1>1, <2>4 DEF Shelves
    <2>6. [s EXCEPT !.offer[k] = d] = [s EXCEPT !.offer = f]
        BY <1>1, <2>1 DEF Shelves
    <2>7. QED
        BY <1>1, <2>1, <2>5, <2>6 DEF Sold
<1>5. Sold([s EXCEPT !.valid = FALSE]) /\ Sold([s EXCEPT !.inWindow = FALSE])
    BY <1>1 DEF Sold, Shelves
<1>6. QED
    BY <1>2, <1>3, <1>4, <1>5

(* Prices are amounts of cents. *)
LEMMA Cents ==
    ASSUME NEW s, Sold(s), NEW qty \in Nat, NEW picked
    PROVE  /\ ticketCents(s, qty, picked) \in Nat /\ productCents(s, picked) \in Nat
           /\ s.fee.bps \in 0..Bps /\ s.coupon.value \in Nat
<1>1. /\ s.batch.price \in Nat /\ s.product.price \in Nat /\ s.fee.bps \in 0..Bps /\ s.coupon.value \in Nat
      /\ \A k \in Offers : s.offer[k].own \in Nat \cup {NoPrice}
    BY DEF Sold, Shelves
<1>2. \A k \in Offers : offerPrice(s, k) \in Nat
    BY <1>1 DEF offerPrice, target, NoPrice
<1>3. qty * s.batch.price \in Nat
    BY <1>1
<1>4. "ticket" \in Offers /\ "product" \in Offers
    BY DEF Offers
<1>5. QED
    BY <1>1, <1>2, <1>3, <1>4 DEF ticketCents, productCents

(* A tab of the checkout.  It has one look-up at most on its way, for the  *)
(* phone it shows, and while it has one it recognises nobody.              *)
IsTab(t) ==
    t = [step |-> t.step, seen |-> t.seen, qty |-> t.qty, picked |-> t.picked, phone |-> t.phone,
         asks |-> t.asks, look |-> t.look, who |-> t.who, other |-> t.other, typed |-> t.typed,
         code |-> t.code, preview |-> t.preview, applied |-> t.applied, lead |-> t.lead,
         leadSent |-> t.leadSent]
IsAsk(a) == a = [phone |-> a.phone, at |-> a.at, who |-> a.who]
PageOK(t) ==
    /\ IsTab(t) /\ t.step \in 0..4 /\ Sold(t.seen) /\ t.qty \in Nat /\ t.picked \subseteq Offers
    /\ t.applied \subseteq {FirstShelf.coupon}
    /\ \A a \in t.asks : IsAsk(a) /\ a.phone = t.phone
    /\ \A a, c \in t.asks : a = c
    /\ t.asks # {} => t.look # "found"
    /\ t.typed \in Emails \cup {Nobody} /\ t.typed[1] = "real"

(* While no customer was written since the look-up, its answer is who the  *)
(* server would find.                                                      *)
Recognises(t) ==
    /\ \A a \in t.asks : a.at = "answer" => a.who = findByPhone(t.phone)
    /\ t.look = "found" => t.who \in findByPhone(t.phone)

(* An order that was asked for is the one the tab shows. *)
Shown(r, t) ==
    \E applied \in {{}, {FirstShelf.coupon}} :
        /\ applied # {} => r.coupon
        /\ r.shown = shownTotal(ticketCents(t.seen, t.qty, t.picked), productCents(t.seen, t.picked),
                                applied, t.seen.fee)
ReqOK(r, t, recent) ==
    /\ r = NoReq \/ r.at \in {"server", "priced", "answer"}
    /\ r.at \in {"server", "priced"} =>
           /\ t.step = 3
           /\ r.reuse => t.asks = {} /\ (recent => r.who \in findByPhone(t.phone))
           /\ ~r.reuse => r.who \in Emails \cup {Nobody} /\ r.who[1] = "real"
    /\ r.at = "server" => Shown(r, t)
    /\ r.at = "answer" => r.order \in Orders /\ t.step = 3

(* The payment screen of an order, when there is one. *)
IsScreen(s) == s = [order |-> s.order, status |-> s.status, method |-> s.method, pix |-> s.pix,
                    card |-> s.card]
Matches(t, s) == IsScreen(s) /\ (t.step = 4 <=> s.order # "none")

TabFine(b) ==
    /\ PageOK(buy[b]) /\ (b \in quiet => Recognises(buy[b]))
    /\ ReqOK(req[b], buy[b], b \in quiet)
    /\ Matches(buy[b], pay[b])
ShopInv ==
    /\ Sold(shelf)
    /\ buy = [b \in Buyers |-> buy[b]] /\ req = [b \in Buyers |-> req[b]] /\ pay = [b \in Buyers |-> pay[b]]
    /\ \A b \in Buyers : TabFine(b)

(* Who is found by a phone does not change; *)
SameFound == \A phone : findByPhone(phone)' = findByPhone(phone)

(* it depends on the customers; *)
LEMMA FoundSame ==
    ASSUME UNCHANGED cust
    PROVE  SameFound
BY DEF SameFound, findByPhone, known, before

(* a tab that does nothing stays as it was; *)
LEMMA PageStays ==
    ASSUME NEW b, TabFine(b), buy'[b] = buy[b], req'[b] = req[b], pay'[b] = pay[b],
           b \in quiet' => b \in quiet /\ SameFound
    PROVE  TabFine(b)'
<1>1. PageOK(buy[b])' /\ Matches(buy[b], pay[b])'
    BY DEF TabFine, PageOK, Matches
<1>2. (b \in quiet)' => Recognises(buy[b])'
    <2>1. SUFFICES ASSUME b \in quiet' PROVE Recognises(buy[b])'
        OBVIOUS
    <2>2. Recognises(buy[b]) /\ SameFound
        BY <2>1 DEF TabFine
    <2>3. QED
        BY <2>2 DEF Recognises, SameFound
<1>3. ReqOK(req[b], buy[b], b \in quiet)'
    <2>1. PICK r, t : r = req[b] /\ t = buy[b]
        OBVIOUS
    <2>2. ReqOK(r, t, b \in quiet)
        BY <2>1 DEF TabFine
    <2>3. Shown(r, t) => Shown(r, t)'
        BY DEF Shown
    <2>4. ReqOK(r, t, b \in quiet)'
        BY <2>2, <2>3 DEF ReqOK, SameFound
    <2>5. QED
        BY <2>1, <2>4
<1>4. QED
    BY <1>1, <1>2, <1>3 DEF TabFine

(* so the shop is as good as the one tab a step is of. *)
LEMMA OthersStay ==
    ASSUME ShopInv, NEW b \in Buyers, Sold(shelf)',
           buy' = [c \in Buyers |-> buy'[c]], req' = [c \in Buyers |-> req'[c]],
           pay' = [c \in Buyers |-> pay'[c]],
           \A c \in Buyers : c # b => /\ buy'[c] = buy[c] /\ req'[c] = req[c] /\ pay'[c] = pay[c]
                                      /\ c \in quiet' => c \in quiet /\ SameFound,
           TabFine(b)'
    PROVE  ShopInv'
<1>1. ASSUME NEW c \in Buyers, c # b PROVE TabFine(c)'
    <2>1. TabFine(c)
        BY DEF ShopInv
    <2>2. QED
        BY <1>1, <2>1, PageStays
<1>2. QED
    BY <1>1 DEF ShopInv

(* When no tab does anything they are all as good as they were. *)
LEMMA AllStay ==
    ASSUME ShopInv, Sold(shelf)', UNCHANGED <<buy, req, pay>>,
           \A b \in Buyers : b \in quiet' => b \in quiet /\ SameFound
    PROVE  ShopInv'
<1>1. ASSUME NEW b \in Buyers PROVE TabFine(b)'
    <2>1. TabFine(b)
        BY DEF ShopInv
    <2>2. QED
        BY <2>1, PageStays
<1>2. QED
    BY <1>1 DEF ShopInv

(* A tab becomes t. *)
LEMMA TabBecomes ==
    ASSUME ShopInv, NEW b \in Buyers, NEW t, PageOK(t), buy' = [buy EXCEPT ![b] = t],
           UNCHANGED <<shelf, req, pay, cust>>, quiet' \subseteq quiet \cup {b},
           b \in quiet' => Recognises(t),
           t.step = 4 <=> buy[b].step = 4,
           \/ req[b] = NoReq
           \/ /\ t.step = buy[b].step /\ t.seen = buy[b].seen /\ t.qty = buy[b].qty
              /\ t.picked = buy[b].picked
              /\ t.phone = buy[b].phone
              /\ buy[b].asks = {} => t.asks = {} /\ (b \in quiet' => b \in quiet)
    PROVE  ShopInv'
<1>1. buy' = [c \in Buyers |-> buy'[c]] /\ buy'[b] = t /\ \A c \in Buyers : c # b => buy'[c] = buy[c]
    BY DEF ShopInv
<1>2. SameFound
    BY FoundSame
<1>3. Recognises(t) => Recognises(t)'
    BY <1>2 DEF Recognises, SameFound
<1>4. PICK r, s : r = req[b] /\ s = buy[b]
    OBVIOUS
<1>5. TabFine(b)
    BY DEF ShopInv
<1>6. ReqOK(r, t, b \in quiet)'
    <2>1. CASE req[b] = NoReq
        BY <1>4, <2>1 DEF ReqOK, NoReq
    <2>2. CASE /\ t.step = s.step /\ t.seen = s.seen /\ t.qty = s.qty /\ t.picked = s.picked
               /\ t.phone = s.phone
               /\ s.asks = {} => t.asks = {} /\ (b \in quiet' => b \in quiet)
        <3>1. ReqOK(r, s, b \in quiet)
            BY <1>4, <1>5 DEF TabFine
        <3>2. Shown(r, s) => Shown(r, t)'
            BY <2>2 DEF Shown
        <3>3. QED
            BY <1>2, <2>2, <3>1, <3>2 DEF ReqOK, SameFound
    <2>3. QED
        BY <1>4, <2>1, <2>2
<1>7. TabFine(b)'
    <2>1. PageOK(t)' /\ Matches(t, pay[b])'
        BY <1>5 DEF TabFine, PageOK, Matches
    <2>2. req'[b] = r /\ buy'[b] = t
        BY <1>1, <1>4
    <2>3. QED
        BY <1>3, <1>6, <2>1, <2>2 DEF TabFine
<1>8. Sold(shelf)' /\ req' = [c \in Buyers |-> req'[c]] /\ pay' = [c \in Buyers |-> pay'[c]]
    BY DEF ShopInv
<1>9. QED
    BY <1>1, <1>2, <1>7, <1>8, OthersStay

(* A request becomes r. *)
LEMMA RequestBecomes ==
    ASSUME ShopInv, NEW b \in Buyers, NEW r, req' = [req EXCEPT ![b] = r], ReqOK(r, buy[b], b \in quiet),
           UNCHANGED <<shelf, buy, pay, cust, quiet>>
    PROVE  ShopInv'
<1>1. req' = [c \in Buyers |-> req'[c]] /\ req'[b] = r /\ \A c \in Buyers : c # b => req'[c] = req[c]
    BY DEF ShopInv
<1>2. SameFound
    BY FoundSame
<1>3. TabFine(b)
    BY DEF ShopInv
<1>4. PICK t : t = buy[b]
    OBVIOUS
<1>5. ReqOK(r, t, b \in quiet)'
    <2>1. Shown(r, t) => Shown(r, t)'
        BY DEF Shown
    <2>2. ReqOK(r, t, b \in quiet)
        BY <1>4
    <2>3. QED
        BY <1>2, <2>1, <2>2 DEF ReqOK, SameFound
<1>6. TabFine(b)'
    <2>1. PageOK(t)' /\ Matches(t, pay[b])'
        BY <1>3, <1>4 DEF TabFine, PageOK, Matches
    <2>2. b \in quiet' => Recognises(t)'
        BY <1>2, <1>3, <1>4 DEF TabFine, Recognises, SameFound
    <2>3. req'[b] = r /\ buy'[b] = t
        BY <1>1, <1>4
    <2>4. QED
        BY <1>5, <2>1, <2>2, <2>3 DEF TabFine
<1>7. Sold(shelf)' /\ buy' = [c \in Buyers |-> buy'[c]] /\ pay' = [c \in Buyers |-> pay'[c]]
    BY DEF ShopInv
<1>8. QED
    BY <1>1, <1>2, <1>6, <1>7, OthersStay

(* A screen of the same order becomes s. *)
LEMMA ScreenBecomes ==
    ASSUME ShopInv, NEW b \in Buyers, NEW s, pay' = [pay EXCEPT ![b] = s], s.order = pay[b].order,
           IsScreen(s),
           UNCHANGED <<shelf, buy, req, cust, quiet>>
    PROVE  ShopInv'
<1>1. /\ pay' = [c \in Buyers |-> pay'[c]] /\ pay'[b].order = pay[b].order /\ IsScreen(pay'[b])
      /\ \A c \in Buyers : c # b => pay'[c] = pay[c]
    BY DEF ShopInv
<1>2. SameFound
    BY FoundSame
<1>3. ASSUME NEW c \in Buyers, TabFine(c), pay'[c].order = pay[c].order, IsScreen(pay'[c]) PROVE TabFine(c)'
    <2>1. PICK r, t : r = req[c] /\ t = buy[c]
        OBVIOUS
    <2>2. PageOK(t)' /\ Matches(t, pay[c])'
        BY <1>3, <2>1 DEF TabFine, PageOK, Matches
    <2>3. c \in quiet' => Recognises(t)'
        BY <1>2, <1>3, <2>1 DEF TabFine, Recognises, SameFound
    <2>4. ReqOK(r, t, c \in quiet)'
        <3>1. Shown(r, t) => Shown(r, t)'
            BY DEF Shown
        <3>2. ReqOK(r, t, c \in quiet)
            BY <1>3, <2>1 DEF TabFine
        <3>3. QED
            BY <1>2, <3>1, <3>2 DEF ReqOK, SameFound
    <2>5. QED
        BY <2>1, <2>2, <2>3, <2>4 DEF TabFine
<1>4. \A c \in Buyers : TabFine(c) /\ IsScreen(pay'[c])
    BY <1>1 DEF ShopInv, TabFine, Matches
<1>5. QED
    BY <1>1, <1>3, <1>4 DEF ShopInv

(* What changes in a tab leaves the rest of it as it was. *)
SameLook(t, s) == t.phone = s.phone /\ t.look = s.look /\ t.who = s.who /\ t.asks = s.asks
SameCart(t, s) ==
    /\ t.step = s.step /\ t.seen = s.seen /\ t.qty = s.qty /\ t.picked = s.picked /\ t.phone = s.phone

(* The quantities and offers change; *)
LEMMA CartTab ==
    ASSUME NEW s, PageOK(s), NEW t,
           \/ \E n \in Nat : t = [s EXCEPT !.qty = n]
           \/ \E picked \in SUBSET Offers : t = [s EXCEPT !.picked = picked]
    PROVE  PageOK(t) /\ SameLook(t, s) /\ t.step = s.step
<1>1. ASSUME NEW n \in Nat, t = [s EXCEPT !.qty = n]
      PROVE  PageOK(t) /\ SameLook(t, s) /\ t.step = s.step
    <2>1. t = [step |-> s.step, seen |-> s.seen, qty |-> n, picked |-> s.picked, phone |-> s.phone,
               asks |-> s.asks, look |-> s.look, who |-> s.who, other |-> s.other, typed |-> s.typed,
               code |-> s.code, preview |-> s.preview, applied |-> s.applied, lead |-> s.lead,
               leadSent |-> s.leadSent]
        BY <1>1 DEF PageOK, IsTab
    <2>2. IsTab(t) /\ SameLook(t, s) /\ t.step = s.step
        BY <2>1 DEF IsTab, SameLook
    <2>3. QED
        BY <2>1, <2>2 DEF PageOK
<1>2. ASSUME NEW picked \in SUBSET Offers, t = [s EXCEPT !.picked = picked]
      PROVE  PageOK(t) /\ SameLook(t, s) /\ t.step = s.step
    <2>1. t = [step |-> s.step, seen |-> s.seen, qty |-> s.qty, picked |-> picked, phone |-> s.phone,
               asks |-> s.asks, look |-> s.look, who |-> s.who, other |-> s.other, typed |-> s.typed,
               code |-> s.code, preview |-> s.preview, applied |-> s.applied, lead |-> s.lead,
               leadSent |-> s.leadSent]
        BY <1>2 DEF PageOK, IsTab
    <2>2. IsTab(t) /\ SameLook(t, s) /\ t.step = s.step
        BY <2>1 DEF IsTab, SameLook
    <2>3. QED
        BY <2>1, <2>2 DEF PageOK
<1>3. QED
    BY <1>1, <1>2

(* the buyer goes to another step. *)
LEMMA StepTab ==
    ASSUME NEW s, PageOK(s), NEW step \in 0..4, NEW t, t = [s EXCEPT !.step = step]
    PROVE  PageOK(t) /\ SameLook(t, s) /\ t.step = step
<1>1. t = [step |-> step, seen |-> s.seen, qty |-> s.qty, picked |-> s.picked, phone |-> s.phone,
           asks |-> s.asks, look |-> s.look, who |-> s.who, other |-> s.other, typed |-> s.typed,
           code |-> s.code, preview |-> s.preview, applied |-> s.applied, lead |-> s.lead,
           leadSent |-> s.leadSent]
    BY DEF PageOK, IsTab
<1>2. IsTab(t) /\ SameLook(t, s) /\ t.step = step
    BY <1>1 DEF IsTab, SameLook
<1>3. QED
    BY <1>1, <1>2 DEF PageOK

(* At review, and while the order is asked for, the cart stays. *)
LEMMA ReviewTab ==
    ASSUME NEW s, PageOK(s), NEW t,
           \/ \E code : t = [s EXCEPT !.code = code]
           \/ \E tried : t = [s EXCEPT !.preview = tried]
           \/ \E tried, applied : /\ applied \subseteq {FirstShelf.coupon}
                                  /\ t = [s EXCEPT !.preview = tried, !.applied = applied]
           \/ t = [s EXCEPT !.applied = {}, !.code = FALSE]
           \/ t = [s EXCEPT !.lead = NoLead] \/ t = [s EXCEPT !.lead = NoLead, !.leadSent = FALSE]
    PROVE  PageOK(t) /\ SameLook(t, s) /\ SameCart(t, s)
<1>1. IsTab(s) /\ s.applied \subseteq {FirstShelf.coupon}
    BY DEF PageOK
<1>2. ASSUME NEW c, NEW p, NEW a, a \subseteq {FirstShelf.coupon}, NEW l, NEW d,
             t = [step |-> s.step, seen |-> s.seen, qty |-> s.qty, picked |-> s.picked, phone |-> s.phone,
                  asks |-> s.asks, look |-> s.look, who |-> s.who, other |-> s.other, typed |-> s.typed,
                  code |-> c, preview |-> p, applied |-> a, lead |-> l,
                  leadSent |-> d]
      PROVE  PageOK(t) /\ SameLook(t, s) /\ SameCart(t, s)
    <2>1. IsTab(t) /\ SameLook(t, s) /\ SameCart(t, s)
        BY <1>2 DEF IsTab, SameLook, SameCart
    <2>2. QED
        BY <1>2, <2>1 DEF PageOK
<1>3. ASSUME NEW code, t = [s EXCEPT !.code = code]
      PROVE  PageOK(t) /\ SameLook(t, s) /\ SameCart(t, s)
    <2>1. t = [step |-> s.step, seen |-> s.seen, qty |-> s.qty, picked |-> s.picked, phone |-> s.phone,
               asks |-> s.asks, look |-> s.look, who |-> s.who, other |-> s.other, typed |-> s.typed,
               code |-> code, preview |-> s.preview, applied |-> s.applied, lead |-> s.lead,
               leadSent |-> s.leadSent]
        BY <1>1, <1>3 DEF IsTab
    <2>2. QED
        BY <1>1, <1>2, <1>3, <2>1
<1>4. ASSUME NEW tried, t = [s EXCEPT !.preview = tried]
      PROVE  PageOK(t) /\ SameLook(t, s) /\ SameCart(t, s)
    <2>1. t = [step |-> s.step, seen |-> s.seen, qty |-> s.qty, picked |-> s.picked, phone |-> s.phone,
               asks |-> s.asks, look |-> s.look, who |-> s.who, other |-> s.other, typed |-> s.typed,
               code |-> s.code, preview |-> tried, applied |-> s.applied, lead |-> s.lead,
               leadSent |-> s.leadSent]
        BY <1>1, <1>4 DEF IsTab
    <2>2. QED
        BY <1>1, <1>2, <1>4, <2>1
<1>5. ASSUME NEW tried, NEW applied, applied \subseteq {FirstShelf.coupon},
             t = [s EXCEPT !.preview = tried, !.applied = applied]
      PROVE  PageOK(t) /\ SameLook(t, s) /\ SameCart(t, s)
    <2>1. t = [step |-> s.step, seen |-> s.seen, qty |-> s.qty, picked |-> s.picked, phone |-> s.phone,
               asks |-> s.asks, look |-> s.look, who |-> s.who, other |-> s.other, typed |-> s.typed,
               code |-> s.code, preview |-> tried, applied |-> applied, lead |-> s.lead,
               leadSent |-> s.leadSent]
        BY <1>1, <1>5 DEF IsTab
    <2>2. QED
        BY <1>1, <1>2, <1>5, <2>1
<1>6. CASE t = [s EXCEPT !.applied = {}, !.code = FALSE]
    <2>1. t = [step |-> s.step, seen |-> s.seen, qty |-> s.qty, picked |-> s.picked, phone |-> s.phone,
               asks |-> s.asks, look |-> s.look, who |-> s.who, other |-> s.other, typed |-> s.typed,
               code |-> FALSE, preview |-> s.preview, applied |-> {}, lead |-> s.lead,
               leadSent |-> s.leadSent]
        BY <1>1, <1>6 DEF IsTab
    <2>2. QED
        BY ZenonT(40), <1>1, <1>2, <1>6, <2>1
<1>7. ASSUME NEW l, l = NoLead, t = [s EXCEPT !.lead = l]
      PROVE  PageOK(t) /\ SameLook(t, s) /\ SameCart(t, s)
    <2>1. t = [step |-> s.step, seen |-> s.seen, qty |-> s.qty, picked |-> s.picked, phone |-> s.phone,
               asks |-> s.asks, look |-> s.look, who |-> s.who, other |-> s.other, typed |-> s.typed,
               code |-> s.code, preview |-> s.preview, applied |-> s.applied, lead |-> l,
               leadSent |-> s.leadSent]
        BY <1>1, <1>7 DEF IsTab
    <2>2. QED
        BY ZenonT(40), <1>1, <1>2, <1>7, <2>1
<1>8. ASSUME NEW l, l = NoLead, t = [s EXCEPT !.lead = l, !.leadSent = FALSE]
      PROVE  PageOK(t) /\ SameLook(t, s) /\ SameCart(t, s)
    <2>1. t = [step |-> s.step, seen |-> s.seen, qty |-> s.qty, picked |-> s.picked, phone |-> s.phone,
               asks |-> s.asks, look |-> s.look, who |-> s.who, other |-> s.other, typed |-> s.typed,
               code |-> s.code, preview |-> s.preview, applied |-> s.applied, lead |-> l,
               leadSent |-> FALSE]
        BY <1>1, <1>8 DEF IsTab
    <2>2. QED
        BY <1>1, <1>2, <1>8, <2>1
<1>9. PICK l : l = NoLead
    OBVIOUS
<1>10. QED
    BY <1>3, <1>4, <1>5, <1>6, <1>7, <1>8, <1>9

(* The buyer's part of a tab changes. *)
LEMMA BuyerTab ==
    ASSUME NEW s, PageOK(s), NEW t, IsTab(t), t.step \in 0..4, t.seen = s.seen, t.qty = s.qty,
           t.picked = s.picked, t.applied = s.applied,
           t.typed \in Emails \cup {Nobody}, t.typed[1] = "real",
           \A a \in t.asks : IsAsk(a) /\ a.phone = t.phone, \A a, c \in t.asks : a = c,
           t.asks # {} => t.look # "found"
    PROVE  PageOK(t)
BY DEF PageOK

(* The phone is changed; *)
LEMMA PhoneTab ==
    ASSUME NEW s, PageOK(s), NEW phone
    PROVE  /\ PageOK(withPhone(s, phone)) /\ Recognises(withPhone(s, phone))
           /\ withPhone(s, phone).step = s.step
<1>1. PICK asks, look, t :
          /\ asks = {} \cup IF phone = NoPhone THEN {} ELSE {[phone |-> phone, at |-> "sent", who |-> {}]}
          /\ look = IF phone = NoPhone THEN "idle" ELSE "checking"
          /\ t = [s EXCEPT !.phone = phone, !.look = look, !.asks = asks]
    OBVIOUS
<1>2. withPhone(s, phone) = t
    BY <1>1 DEF withPhone, cancelled
<1>3. t = [step |-> s.step, seen |-> s.seen, qty |-> s.qty, picked |-> s.picked, phone |-> phone,
           asks |-> asks, look |-> look, who |-> s.who, other |-> s.other, typed |-> s.typed,
           code |-> s.code, preview |-> s.preview, applied |-> s.applied, lead |-> s.lead,
           leadSent |-> s.leadSent]
    BY <1>1 DEF PageOK, IsTab
<1>4. \A a \in asks : IsAsk(a) /\ a.phone = phone /\ a.at = "sent"
    BY <1>1 DEF IsAsk
<1>5. (\A a, c \in asks : a = c) /\ look # "found"
    BY <1>1
<1>6. s.step \in 0..4 /\ s.typed \in Emails \cup {Nobody} /\ s.typed[1] = "real"
    BY DEF PageOK
<1>7. /\ IsTab(t) /\ t.step = s.step /\ t.phone = phone /\ t.asks = asks /\ t.look = look
      /\ t.seen = s.seen /\ t.qty = s.qty /\ t.picked = s.picked /\ t.typed = s.typed /\ t.applied = s.applied
    BY <1>3 DEF IsTab
<1>8. PageOK(t)
    BY <1>4, <1>5, <1>6, <1>7, BuyerTab
<1>9. Recognises(t)
    BY <1>4, <1>5, <1>7 DEF Recognises
<1>10. QED
    BY <1>2, <1>7, <1>8, <1>9

(* a look-up is answered, from the customers as they are; *)
LEMMA AnsweringTab ==
    ASSUME NEW s, PageOK(s), NEW a \in s.asks, NEW who, NEW d, d = [a EXCEPT !.at = "answer", !.who = who],
           NEW asks, asks = (s.asks \ {a}) \cup {d}, NEW t, t = [s EXCEPT !.asks = asks]
    PROVE  PageOK(t) /\ SameCart(t, s) /\ (who = findByPhone(a.phone) => Recognises(t))
<1>1. IsAsk(a) /\ a.phone = s.phone /\ s.look # "found" /\ asks = {d}
    BY DEF PageOK
<1>2. IsAsk(d) /\ d.phone = s.phone /\ d.at = "answer" /\ d.who = who
    BY <1>1 DEF IsAsk
<1>3. t = [step |-> s.step, seen |-> s.seen, qty |-> s.qty, picked |-> s.picked, phone |-> s.phone,
           asks |-> asks, look |-> s.look, who |-> s.who, other |-> s.other, typed |-> s.typed,
           code |-> s.code, preview |-> s.preview, applied |-> s.applied, lead |-> s.lead,
           leadSent |-> s.leadSent]
    BY DEF PageOK, IsTab
<1>4. s.step \in 0..4 /\ s.typed \in Emails \cup {Nobody} /\ s.typed[1] = "real"
    BY DEF PageOK
<1>5. (\A c \in asks : IsAsk(c) /\ c.phone = s.phone) /\ (\A c, e \in asks : c = e)
    BY <1>1, <1>2
<1>6. /\ IsTab(t) /\ t.step = s.step /\ t.phone = s.phone /\ t.asks = asks /\ t.look = s.look
      /\ t.seen = s.seen /\ t.qty = s.qty /\ t.picked = s.picked /\ t.typed = s.typed /\ t.applied = s.applied
    BY <1>3 DEF IsTab
<1>7. PageOK(t)
    <2>1. /\ \A c \in t.asks : IsAsk(c) /\ c.phone = t.phone
          /\ \A c, e \in t.asks : c = e
          /\ t.look # "found"
        BY <1>1, <1>5, <1>6
    <2>2. t.step \in 0..4 /\ t.typed \in Emails \cup {Nobody} /\ t.typed[1] = "real"
        BY <1>4, <1>6
    <2>3. QED
        BY <1>6, <2>1, <2>2, BuyerTab
<1>8. QED
    BY <1>1, <1>2, <1>6, <1>7 DEF SameCart, Recognises

(* its answer is taken, or lost. *)
LEMMA UnansweredTab ==
    ASSUME NEW s, PageOK(s), NEW t, t = [s EXCEPT !.asks = {}, !.look = "none"]
    PROVE  PageOK(t) /\ SameCart(t, s) /\ t.asks = {} /\ Recognises(t)
<1>1. s.step \in 0..4 /\ s.typed \in Emails \cup {Nobody} /\ s.typed[1] = "real"
    BY DEF PageOK
<1>2. t = [step |-> s.step, seen |-> s.seen, qty |-> s.qty, picked |-> s.picked, phone |-> s.phone,
           asks |-> {}, look |-> "none", who |-> s.who, other |-> s.other, typed |-> s.typed,
           code |-> s.code, preview |-> s.preview, applied |-> s.applied, lead |-> s.lead,
           leadSent |-> s.leadSent]
    BY DEF PageOK, IsTab
<1>3. /\ IsTab(t) /\ t.step = s.step /\ t.phone = s.phone /\ t.asks = {} /\ t.look = "none"
      /\ t.seen = s.seen /\ t.qty = s.qty /\ t.picked = s.picked /\ t.typed = s.typed /\ t.applied = s.applied
    BY <1>2 DEF IsTab
<1>4. PageOK(t)
    BY <1>1, <1>3, BuyerTab
<1>5. QED
    BY <1>3, <1>4 DEF SameCart, Recognises

(* and someone was. *)
LEMMA AnsweredTab ==
    ASSUME NEW s, PageOK(s), NEW t, NEW who, t = [s EXCEPT !.asks = {}, !.look = "found", !.other = FALSE,
           !.who = who]
    PROVE  PageOK(t) /\ SameCart(t, s) /\ t.asks = {} /\ (who \in findByPhone(s.phone) => Recognises(t))
<1>1. s.step \in 0..4 /\ s.typed \in Emails \cup {Nobody} /\ s.typed[1] = "real"
    BY DEF PageOK
<1>2. t = [step |-> s.step, seen |-> s.seen, qty |-> s.qty, picked |-> s.picked, phone |-> s.phone,
           asks |-> {}, look |-> "found", who |-> who, other |-> FALSE, typed |-> s.typed,
           code |-> s.code, preview |-> s.preview, applied |-> s.applied, lead |-> s.lead,
           leadSent |-> s.leadSent]
    BY DEF PageOK, IsTab
<1>3. /\ IsTab(t) /\ t.step = s.step /\ t.phone = s.phone /\ t.asks = {} /\ t.who = who
      /\ t.seen = s.seen /\ t.qty = s.qty /\ t.picked = s.picked /\ t.typed = s.typed /\ t.applied = s.applied
    BY <1>2 DEF IsTab
<1>4. PageOK(t)
    BY <1>1, <1>3, BuyerTab
<1>5. QED
    BY <1>3, <1>4 DEF SameCart, Recognises

(* The buyer is typed in, and the data step left. *)
LEMMA TypedTab ==
    ASSUME NEW s, PageOK(s), NEW l, NEW t,
           \/ t = [s EXCEPT !.other = TRUE] \/ \E p \in People : t = [s EXCEPT !.typed = Email(p)]
           \/ t = [s EXCEPT !.step = 3, !.leadSent = TRUE, !.lead = l]
    PROVE  PageOK(t) /\ SameLook(t, s) /\ t.step \in {s.step, 3}
<1>1. s.step \in 0..4 /\ s.typed \in Emails \cup {Nobody} /\ s.typed[1] = "real"
    BY DEF PageOK
<1>2. /\ \A a \in s.asks : IsAsk(a) /\ a.phone = s.phone
      /\ \A a, c \in s.asks : a = c
      /\ s.asks # {} => s.look # "found"
    BY DEF PageOK
<1>3. \A p \in People : Email(p) \in Emails \cup {Nobody} /\ Email(p)[1] = "real"
    BY EmailsAre
<1>4. CASE t = [s EXCEPT !.other = TRUE]
    <2>1. t = [step |-> s.step, seen |-> s.seen, qty |-> s.qty, picked |-> s.picked, phone |-> s.phone,
               asks |-> s.asks, look |-> s.look, who |-> s.who, other |-> TRUE, typed |-> s.typed,
               code |-> s.code, preview |-> s.preview, applied |-> s.applied, lead |-> s.lead,
               leadSent |-> s.leadSent]
        BY <1>4 DEF PageOK, IsTab
    <2>2. /\ IsTab(t) /\ t.step = s.step /\ t.phone = s.phone /\ t.asks = s.asks /\ t.look = s.look
          /\ t.who = s.who
          /\ t.seen = s.seen /\ t.qty = s.qty /\ t.picked = s.picked /\ t.typed = s.typed
          /\ t.applied = s.applied
        BY <2>1 DEF IsTab
    <2>3. PageOK(t)
        BY <1>1, <1>2, <2>2, BuyerTab
    <2>4. QED
        BY <2>2, <2>3 DEF SameLook
<1>5. ASSUME NEW p \in People, t = [s EXCEPT !.typed = Email(p)]
      PROVE  PageOK(t) /\ SameLook(t, s) /\ t.step = s.step
    <2>1. PICK typed : typed = Email(p)
        OBVIOUS
    <2>2. t = [step |-> s.step, seen |-> s.seen, qty |-> s.qty, picked |-> s.picked, phone |-> s.phone,
               asks |-> s.asks, look |-> s.look, who |-> s.who, other |-> s.other, typed |-> typed,
               code |-> s.code, preview |-> s.preview, applied |-> s.applied, lead |-> s.lead,
               leadSent |-> s.leadSent]
        BY <1>5, <2>1 DEF PageOK, IsTab
    <2>3. /\ IsTab(t) /\ t.step = s.step /\ t.phone = s.phone /\ t.asks = s.asks /\ t.look = s.look
          /\ t.who = s.who
          /\ t.seen = s.seen /\ t.qty = s.qty /\ t.picked = s.picked /\ t.typed = typed
          /\ t.applied = s.applied
        BY <2>2 DEF IsTab
    <2>4. PageOK(t)
        BY <1>1, <1>2, <1>3, <2>1, <2>3, BuyerTab
    <2>5. QED
        BY <2>3, <2>4 DEF SameLook
<1>6. CASE t = [s EXCEPT !.step = 3, !.leadSent = TRUE, !.lead = l]
    <2>1. t = [step |-> 3, seen |-> s.seen, qty |-> s.qty, picked |-> s.picked, phone |-> s.phone,
               asks |-> s.asks, look |-> s.look, who |-> s.who, other |-> s.other, typed |-> s.typed,
               code |-> s.code, preview |-> s.preview, applied |-> s.applied, lead |-> l,
               leadSent |-> TRUE]
        BY <1>6 DEF PageOK, IsTab
    <2>2. /\ IsTab(t) /\ t.step = 3 /\ t.phone = s.phone /\ t.asks = s.asks /\ t.look = s.look
          /\ t.who = s.who
          /\ t.seen = s.seen /\ t.qty = s.qty /\ t.picked = s.picked /\ t.typed = s.typed
          /\ t.applied = s.applied
        BY <2>1 DEF IsTab
    <2>3. PageOK(t)
        BY <1>1, <1>2, <2>2, BuyerTab
    <2>4. QED
        BY <2>2, <2>3 DEF SameLook
<1>7. QED
    BY <1>4, <1>5, <1>6

(* The tab that opens on what is on sale. *)
LEMMA FreshTab ==
    ASSUME NEW s, Sold(s)
    PROVE  /\ PageOK([Fresh EXCEPT !.step = 1, !.seen = s]) /\ [Fresh EXCEPT !.step = 1, !.seen = s].step = 1
           /\ PageOK(Fresh) /\ Recognises(Fresh) /\ Fresh.step = 0
<1>1. Nobody \in Emails \cup {Nobody} /\ Nobody[1] = "real" /\ Sold(FirstShelf)
    BY ShopAssumption DEF Nobody, Email, Sold
<1>2. PICK t, no, nl : /\ no = Nobody /\ nl = NoLead /\ t = [Fresh EXCEPT !.step = 1, !.seen = s]
    OBVIOUS
<1>3. t = [step |-> 1, seen |-> s, qty |-> 0, picked |-> {}, phone |-> NoPhone, asks |-> {}, look |-> "idle",
           who |-> no, other |-> FALSE, typed |-> no, code |-> FALSE, preview |-> FALSE, applied |-> {},
           lead |-> nl, leadSent |-> FALSE]
    BY <1>2 DEF Fresh
<1>4. /\ IsTab(t) /\ t.step = 1 /\ t.seen = s /\ t.qty = 0 /\ t.picked = {} /\ t.asks = {} /\ t.typed = no
      /\ t.applied = {}
    BY <1>3 DEF IsTab
<1>5. PageOK(t)
    BY <1>1, <1>2, <1>4 DEF PageOK
<1>6. PICK f : f = Fresh
    OBVIOUS
<1>7. f = [step |-> 0, seen |-> FirstShelf, qty |-> 0, picked |-> {}, phone |-> NoPhone, asks |-> {},
           look |-> "idle", who |-> no, other |-> FALSE, typed |-> no, code |-> FALSE, preview |-> FALSE,
           applied |-> {}, lead |-> nl, leadSent |-> FALSE]
    BY <1>2, <1>6 DEF Fresh
<1>8. /\ IsTab(f) /\ f.step = 0 /\ f.seen = FirstShelf /\ f.qty = 0 /\ f.picked = {} /\ f.asks = {}
      /\ f.typed = no /\ f.applied = {}
    BY <1>7 DEF IsTab
<1>9. PageOK(f)
    BY <1>1, <1>2, <1>8 DEF PageOK
<1>10. Recognises(f) /\ f.step = 0
    BY <1>7 DEF Recognises
<1>11. QED
    BY <1>2, <1>3, <1>5, <1>6, <1>9, <1>10

(* A step of a tab that looks nobody up and changes no look-up. *)
LEMMA TabTouched ==
    ASSUME ShopInv, NEW b \in Buyers, NEW t, PageOK(t), SameLook(t, buy[b]), Became(b, t),
           UNCHANGED <<cust, quiet>>, t.step = 4 <=> buy[b].step = 4, req[b] = NoReq \/ SameCart(t, buy[b])
    PROVE  ShopInv'
<1>1. b \in quiet' => Recognises(t)
    <2>1. b \in quiet => Recognises(buy[b])
        BY DEF ShopInv, TabFine
    <2>2. QED
        BY <2>1 DEF Recognises, SameLook
<1>2. \/ req[b] = NoReq
      \/ /\ t.step = buy[b].step /\ t.seen = buy[b].seen /\ t.qty = buy[b].qty /\ t.picked = buy[b].picked
         /\ t.phone = buy[b].phone
         /\ buy[b].asks = {} => t.asks = {} /\ (b \in quiet' => b \in quiet)
    BY DEF SameCart, SameLook
<1>3. buy' = [buy EXCEPT ![b] = t] /\ UNCHANGED <<shelf, req, pay, cust>> /\ quiet' \subseteq quiet \cup {b}
    BY DEF Became
<1>4. QED
    BY <1>1, <1>2, <1>3, TabBecomes

(* What the buyer does at the steps of the page. *)
LEMMA PageSteps ==
    ASSUME ShopInv, NEW b \in Buyers,
           \/ goToData(b) \/ back(b) \/ setUseOther(b) \/ goToReview(b) \/ typeCoupon(b) \/ applyCoupon(b)
           \/ previewCoupon(b) \/ removeCoupon(b)
           \/ \E n \in 0..MaxUnits : setQuantity(b, n)
           \/ \E k \in Offers : toggleOffer(b, k)
           \/ \E p \in People : typeIdentity(b, p)
           \/ \E w \in Workers : lead(b, w)
    PROVE  ShopInv'
<1>1. PICK s : s = buy[b] /\ PageOK(s)
    BY DEF ShopInv, TabFine
<1>2. ASSUME NEW n \in 0..MaxUnits, setQuantity(b, n) PROVE ShopInv'
    <2>1. n \in Nat
        BY ShopAssumption
    <2>2. PICK t : t = [s EXCEPT !.qty = n]
        OBVIOUS
    <2>3. PageOK(t) /\ SameLook(t, s) /\ t.step = s.step
        BY <1>1, <2>1, <2>2, CartTab
    <2>4. req[b] = NoReq /\ Became(b, t) /\ UNCHANGED <<cust, quiet>>
        BY <1>1, <1>2, <2>2 DEF setQuantity, On, Touched, customerVars
    <2>5. QED
        BY <1>1, <2>3, <2>4, TabTouched
<1>3. ASSUME NEW k \in Offers, toggleOffer(b, k) PROVE ShopInv'
    <2>1. PICK picked, t : picked = (s.picked \ {k}) \cup ({k} \ s.picked) /\ t = [s EXCEPT !.picked = picked]
        OBVIOUS
    <2>2. picked \in SUBSET Offers
        BY <1>1, <2>1 DEF PageOK
    <2>3. PageOK(t) /\ SameLook(t, s) /\ t.step = s.step
        BY <1>1, <2>1, <2>2, CartTab
    <2>4. req[b] = NoReq /\ Became(b, t) /\ UNCHANGED <<cust, quiet>>
        BY <1>1, <1>3, <2>1 DEF toggleOffer, On, Touched, customerVars
    <2>5. QED
        BY <1>1, <2>3, <2>4, TabTouched
<1>4. CASE goToData(b) \/ back(b) \/ (goToReview(b) /\ Became(b, [buy[b] EXCEPT !.step = 3]))
    <2>1. PICK step \in {1, 2, 3} : Became(b, [s EXCEPT !.step = step])
        <3>1. CASE goToData(b)
            BY <1>1, <3>1 DEF goToData
        <3>2. CASE back(b)
            BY <1>1, <3>2 DEF back, On, Touched
        <3>3. QED
            BY <1>1, <1>4, <3>1, <3>2
    <2>2. PICK t : t = [s EXCEPT !.step = step]
        OBVIOUS
    <2>3. PageOK(t) /\ SameLook(t, s) /\ t.step = step
        BY <1>1, <2>1, <2>2, StepTab
    <2>4. req[b] = NoReq /\ s.step # 4 /\ UNCHANGED <<cust, quiet>>
        BY <1>1, <1>4 DEF goToData, back, goToReview, On, Touched, customerVars
    <2>5. Became(b, t) /\ (t.step = 4 <=> s.step = 4)
        BY <2>1, <2>2, <2>3, <2>4
    <2>6. QED
        BY <1>1, <2>3, <2>4, <2>5, TabTouched
<1>5. ASSUME NEW l, NEW t, req[b] = NoReq, s.step # 4, Became(b, t), UNCHANGED <<cust, quiet>>,
             \/ t = [s EXCEPT !.other = TRUE] \/ \E p \in People : t = [s EXCEPT !.typed = Email(p)]
             \/ t = [s EXCEPT !.step = 3, !.leadSent = TRUE, !.lead = l]
      PROVE  ShopInv'
    <2>1. PageOK(t) /\ SameLook(t, s) /\ t.step \in {s.step, 3}
        BY <1>1, <1>5, TypedTab
    <2>2. QED
        BY <1>1, <1>5, <2>1, TabTouched
<1>6. ASSUME NEW t, Became(b, t), UNCHANGED <<cust, quiet>>,
             \/ \E code : t = [s EXCEPT !.code = code]
             \/ \E tried : t = [s EXCEPT !.preview = tried]
             \/ \E tried, applied : /\ applied \subseteq {FirstShelf.coupon}
                                    /\ t = [s EXCEPT !.preview = tried, !.applied = applied]
             \/ t = [s EXCEPT !.applied = {}, !.code = FALSE]
             \/ t = [s EXCEPT !.lead = NoLead] \/ t = [s EXCEPT !.lead = NoLead, !.leadSent = FALSE]
      PROVE  ShopInv'
    <2>1. PageOK(t) /\ SameLook(t, s) /\ SameCart(t, s)
        BY <1>1, <1>6, ReviewTab
    <2>2. t.step = s.step
        BY <2>1 DEF SameCart
    <2>3. QED
        BY <1>1, <1>6, <2>1, <2>2, TabTouched
<1>7. CASE setUseOther(b)
    <2>1. PICK t : t = [s EXCEPT !.other = TRUE]
        OBVIOUS
    <2>2. req[b] = NoReq /\ s.step # 4 /\ Became(b, t) /\ UNCHANGED <<cust, quiet>>
        BY <1>1, <1>7, <2>1 DEF setUseOther, On, Touched, customerVars
    <2>3. QED
        BY <1>5, <2>1, <2>2
<1>8. ASSUME NEW p \in People, typeIdentity(b, p) PROVE ShopInv'
    <2>1. PICK t : t = [s EXCEPT !.typed = Email(p)]
        OBVIOUS
    <2>2. req[b] = NoReq /\ s.step # 4 /\ Became(b, t) /\ UNCHANGED <<cust, quiet>>
        BY <1>1, <1>8, <2>1 DEF typeIdentity, On, Touched, customerVars
    <2>3. QED
        BY <1>5, <2>1, <2>2
<1>9. CASE goToReview(b)
    <2>1. PICK l, t : /\ l = [who |-> buy[b].typed, phone |-> buy[b].phone]
                      /\ t = [s EXCEPT !.step = 3, !.leadSent = TRUE, !.lead = l]
        OBVIOUS
    <2>2. req[b] = NoReq /\ s.step # 4 /\ UNCHANGED <<cust, quiet>>
        BY <1>1, <1>9 DEF goToReview, On, customerVars
    <2>3. Became(b, t) \/ Became(b, [buy[b] EXCEPT !.step = 3])
        BY <1>1, <1>9, <2>1 DEF goToReview
    <2>4. QED
        BY <1>4, <1>5, <1>9, <2>1, <2>2, <2>3
<1>10. CASE typeCoupon(b)
    <2>1. PICK code, t : code = ~s.code /\ t = [s EXCEPT !.code = code]
        OBVIOUS
    <2>2. Became(b, t) /\ UNCHANGED <<cust, quiet>>
        BY <1>1, <1>10, <2>1 DEF typeCoupon, Touched, customerVars
    <2>3. QED
        BY <1>6, <2>1, <2>2
<1>11. CASE applyCoupon(b)
    <2>1. Became(b, [s EXCEPT !.preview = TRUE]) /\ UNCHANGED <<cust, quiet>>
        BY <1>1, <1>11 DEF applyCoupon, Touched, customerVars
    <2>2. QED
        BY <1>6, <2>1
<1>12. CASE previewCoupon(b)
    <2>1. PICK applied : applied = IF shelf.valid THEN {shelf.coupon} ELSE {}
        OBVIOUS
    <2>2. applied \subseteq {FirstShelf.coupon}
        BY <2>1 DEF ShopInv, Sold
    <2>3. Became(b, [s EXCEPT !.preview = FALSE, !.applied = applied]) /\ UNCHANGED <<cust, quiet>>
        BY <1>1, <1>12, <2>1 DEF previewCoupon, customerVars
    <2>4. QED
        BY <1>6, <2>2, <2>3
<1>13. CASE removeCoupon(b)
    <2>1. Became(b, [s EXCEPT !.applied = {}, !.code = FALSE]) /\ UNCHANGED <<cust, quiet>>
        BY <1>1, <1>13 DEF removeCoupon, Touched, customerVars
    <2>2. QED
        BY <1>6, <2>1
<1>14. ASSUME NEW w \in Workers, lead(b, w) PROVE ShopInv'
    <2>1. UNCHANGED <<cust, quiet>>
        BY <1>14 DEF lead, captureLead, customerVars
    <2>2. Became(b, [s EXCEPT !.lead = NoLead]) \/ Became(b, [s EXCEPT !.lead = NoLead, !.leadSent = FALSE])
        BY <1>1, <1>14 DEF lead
    <2>3. QED
        BY <1>6, <2>1, <2>2
<1>15. QED
    BY <1>2, <1>3, <1>4, <1>7, <1>8, <1>9, <1>10, <1>11, <1>12, <1>13, <1>14

(* The phone, and who is found by it. *)
LEMMA PhoneSteps ==
    ASSUME ShopInv, NEW b \in Buyers,
           \/ lookupByPhone(b) \/ lookupAnswered(b) \/ lookupFails(b)
           \/ \E phone \in Phones \cup {NoPhone} : typePhone(b, phone) \/ buildPublicEventView(b, phone)
    PROVE  ShopInv'
<1>1. PICK s : s = buy[b] /\ PageOK(s) /\ (b \in quiet => Recognises(s))
    BY DEF ShopInv, TabFine
<1>2. CASE lookupByPhone(b)
    <2>1. PICK a \in s.asks :
              /\ Became(b, [s EXCEPT !.asks = (s.asks \ {a}) \cup
                                {[a EXCEPT !.at = "answer", !.who = findByPhone(a.phone)]}])
              /\ quiet' = quiet \cup {b} /\ UNCHANGED cust
        BY <1>1, <1>2 DEF lookupByPhone
    <2>2. PICK who, d, asks, t :
              /\ who = findByPhone(a.phone) /\ d = [a EXCEPT !.at = "answer", !.who = who]
              /\ asks = (s.asks \ {a}) \cup {d} /\ t = [s EXCEPT !.asks = asks]
        OBVIOUS
    <2>3. PageOK(t) /\ SameCart(t, s) /\ Recognises(t)
        BY <1>1, <2>2, AnsweringTab
    <2>4. buy' = [buy EXCEPT ![b] = t] /\ UNCHANGED <<shelf, req, pay, cust>>
        BY <2>1, <2>2 DEF Became
    <2>5. s.asks # {}
        OBVIOUS
    <2>6. QED
        BY <1>1, <2>1, <2>3, <2>4, <2>5, TabBecomes DEF SameCart
<1>3. ASSUME NEW t, UNCHANGED <<cust, quiet>>, Became(b, t),
             PageOK(t) /\ SameCart(t, s) /\ t.asks = {} /\ (b \in quiet => Recognises(t))
      PROVE  ShopInv'
    BY <1>1, <1>3, TabBecomes DEF SameCart, Became
<1>4. ASSUME NEW a \in s.asks, UNCHANGED <<cust, quiet>>,
             Became(b, [s EXCEPT !.asks = s.asks \ {a}, !.look = "none"])
      PROVE  ShopInv'
    <2>1. PICK t : t = [s EXCEPT !.asks = {}, !.look = "none"]
        OBVIOUS
    <2>2. s.asks \ {a} = {}
        BY <1>1 DEF PageOK
    <2>3. PageOK(t) /\ SameCart(t, s) /\ t.asks = {} /\ Recognises(t)
        BY <1>1, <2>1, UnansweredTab
    <2>4. Became(b, t)
        BY <1>4, <2>1, <2>2
    <2>5. QED
        BY <1>3, <1>4, <2>3, <2>4
<1>5. CASE lookupAnswered(b)
    <2>1. PICK a \in s.asks :
              /\ a.at = "answer"
              /\ Became(b, IF a.who = {}
                     THEN [s EXCEPT !.asks = s.asks \ {a}, !.look = "none"]
                     ELSE [s EXCEPT !.asks = s.asks \ {a}, !.look = "found", !.other = FALSE,
                                    !.who = CHOOSE m \in a.who : TRUE])
              /\ UNCHANGED <<cust, quiet>>
        BY <1>1, <1>5 DEF lookupAnswered, customerVars
    <2>2. PICK who : who = CHOOSE m \in a.who : TRUE
        OBVIOUS
    <2>3. CASE a.who = {}
        BY <1>4, <2>1, <2>3
    <2>4. CASE a.who # {}
        <3>1. who \in a.who
            BY <2>2, <2>4
        <3>2. b \in quiet => who \in findByPhone(s.phone)
            BY <1>1, <2>1, <3>1 DEF Recognises
        <3>3. PICK t : t = [s EXCEPT !.asks = {}, !.look = "found", !.other = FALSE, !.who = who]
            OBVIOUS
        <3>4. s.asks \ {a} = {}
            BY <1>1 DEF PageOK
        <3>5. PageOK(t) /\ SameCart(t, s) /\ t.asks = {} /\ (b \in quiet => Recognises(t))
            BY <1>1, <3>2, <3>3, AnsweredTab
        <3>6. Became(b, t)
            BY <2>1, <2>2, <2>4, <3>3, <3>4
        <3>7. QED
            BY <1>3, <2>1, <3>5, <3>6
    <2>5. QED
        BY <2>3, <2>4
<1>6. CASE lookupFails(b)
    BY <1>1, <1>6, <1>4 DEF lookupFails, customerVars
<1>7. ASSUME NEW phone, typePhone(b, phone) PROVE ShopInv'
    <2>1. PICK t : t = withPhone(s, phone)
        OBVIOUS
    <2>2. PageOK(t) /\ Recognises(t) /\ t.step = s.step
        BY <1>1, <2>1, PhoneTab
    <2>3. /\ req[b] = NoReq /\ buy' = [buy EXCEPT ![b] = t]
          /\ UNCHANGED <<shelf, req, pay, cust>> /\ quiet' \subseteq quiet \cup {b}
        BY <1>1, <1>7, <2>1 DEF typePhone, On, Touched, Became, customerVars
    <2>4. QED
        BY <1>1, <2>2, <2>3, TabBecomes
<1>8. ASSUME NEW phone, buildPublicEventView(b, phone) PROVE ShopInv'
    <2>1. PICK f, t : f = [Fresh EXCEPT !.step = 1, !.seen = shelf] /\ t = withPhone(f, phone)
        OBVIOUS
    <2>2. PageOK(f) /\ f.step = 1
        BY <2>1, FreshTab DEF ShopInv
    <2>3. PageOK(t) /\ Recognises(t) /\ t.step = 1
        BY <2>1, <2>2, PhoneTab
    <2>4. s.step = 0
        BY <1>1, <1>8 DEF buildPublicEventView
    <2>5. req[b] = NoReq
        BY <1>1, <2>4 DEF ShopInv, TabFine, ReqOK
    <2>6. /\ buy' = [buy EXCEPT ![b] = t]
          /\ UNCHANGED <<shelf, req, pay, cust>> /\ quiet' \subseteq quiet \cup {b}
        BY <1>1, <1>8, <2>1 DEF buildPublicEventView, Became, customerVars
    <2>7. t.step = 4 <=> buy[b].step = 4
        BY <1>1, <2>3, <2>4
    <2>8. QED
        BY <2>3, <2>5, <2>6, <2>7, TabBecomes
<1>9. QED
    BY <1>2, <1>5, <1>6, <1>7, <1>8

(* The order is asked for with what is shown, and for whom; *)
LEMMA SubmitSteps ==
    ASSUME ShopInv, NEW b \in Buyers, submit(b)
    PROVE  ShopInv'
<1>1. PICK s : s = buy[b] /\ PageOK(s) /\ (b \in quiet => Recognises(s))
    BY DEF ShopInv, TabFine
<1>2. PICK r, reuse, who, voucher, cents :
          /\ reuse = reuseActive(b) /\ who = Comprador(b) /\ voucher = (s.applied # {} \/ s.code)
          /\ cents = totalCents(b)
          /\ r = [at |-> "server", reuse |-> reuse, who |-> who, coupon |-> voucher, shown |-> cents]
    OBVIOUS
<1>3. /\ req' = [req EXCEPT ![b] = r] /\ UNCHANGED <<shelf, buy, pay, cust, quiet>>
      /\ s.step = 3
    BY <1>1, <1>2 DEF submit, On, customerVars
<1>4. r.at = "server" /\ r.reuse = reuse /\ r.who = who /\ r.coupon = voucher /\ r.shown = cents
    BY <1>2
<1>5. Shown(r, s)
    <2>1. s.applied \in {{}, {FirstShelf.coupon}}
        BY <1>1 DEF PageOK
    <2>2. s.applied # {} => r.coupon
        BY <1>2, <1>4
    <2>3. r.shown = shownTotal(ticketCents(s.seen, s.qty, s.picked), productCents(s.seen, s.picked),
                               s.applied, s.seen.fee)
        BY <1>1, <1>2, <1>4 DEF totalCents
    <2>4. QED
        BY <2>1, <2>2, <2>3 DEF Shown
<1>6. r.reuse => s.asks = {} /\ (b \in quiet => r.who \in findByPhone(s.phone))
    <2>1. SUFFICES ASSUME reuseActive(b)
                   PROVE  s.asks = {} /\ (b \in quiet => who \in findByPhone(s.phone))
        BY <1>2, <1>4
    <2>2. s.look = "found" /\ who = s.who
        BY <1>1, <1>2, <2>1 DEF reuseActive, Comprador
    <2>3. QED
        BY <1>1, <2>2 DEF PageOK, Recognises
<1>7. ~r.reuse => r.who \in Emails \cup {Nobody} /\ r.who[1] = "real"
    <2>1. SUFFICES ASSUME ~reuseActive(b) PROVE who \in Emails \cup {Nobody} /\ who[1] = "real"
        BY <1>2, <1>4
    <2>2. who = s.typed
        BY <1>1, <1>2, <2>1 DEF Comprador
    <2>3. QED
        BY <1>1, <2>2 DEF PageOK
<1>8. ReqOK(r, s, b \in quiet)
    BY <1>3, <1>4, <1>5, <1>6, <1>7 DEF ReqOK
<1>9. QED
    BY <1>1, <1>3, <1>8, RequestBecomes

(* priced, placed, or refused and lost. *)
LEMMA RequestSteps ==
    ASSUME ShopInv, NEW b \in Buyers, priceOrder(b) \/ loseOrder(b) \/ \E o \in Orders : createOrder(b, o)
    PROVE  ShopInv'
<1>1. PICK s, q : s = buy[b] /\ q = req[b] /\ ReqOK(q, s, b \in quiet)
    BY DEF ShopInv, TabFine
<1>2. UNCHANGED <<shelf, buy, pay, cust, quiet>>
    BY DEF priceOrder, loseOrder, createOrder, customerVars
<1>3. CASE Refused(b)
    <2>1. ReqOK(NoReq, s, b \in quiet)
        BY DEF ReqOK, NoReq
    <2>2. req' = [req EXCEPT ![b] = NoReq]
        BY <1>3 DEF Refused
    <2>3. QED
        BY <1>1, <1>2, <2>1, <2>2, RequestBecomes
<1>4. CASE priceOrder(b)
    <2>1. PICK total :
              \/ req' = [req EXCEPT ![b] = [at |-> "priced", reuse |-> req[b].reuse, who |-> req[b].who,
                                            shown |-> req[b].shown, total |-> total]]
              \/ Refused(b)
        BY <1>4 DEF priceOrder
    <2>2. q.at = "server"
        BY <1>1, <1>4 DEF priceOrder
    <2>3. PICK r : r = [at |-> "priced", reuse |-> q.reuse, who |-> q.who, shown |-> q.shown, total |-> total]
        OBVIOUS
    <2>4. r.at = "priced" /\ r.reuse = q.reuse /\ r.who = q.who
        BY <2>3
    <2>5. ReqOK(r, s, b \in quiet)
        BY <1>1, <2>2, <2>4 DEF ReqOK
    <2>6. CASE req' = [req EXCEPT ![b] = r]
        BY <1>1, <1>2, <2>5, <2>6, RequestBecomes
    <2>7. QED
        BY <1>1, <1>3, <2>1, <2>3, <2>6
<1>5. ASSUME NEW o \in Orders, createOrder(b, o) PROVE ShopInv'
    <2>1. PICK r : r = [at |-> "answer", order |-> o]
        OBVIOUS
    <2>2. Refused(b) \/ req' = [req EXCEPT ![b] = r]
        BY <1>5, <2>1 DEF createOrder
    <2>3. q.at = "priced"
        BY <1>1, <1>5 DEF createOrder
    <2>4. ReqOK(r, s, b \in quiet)
        BY <1>1, <2>1, <2>3 DEF ReqOK
    <2>5. QED
        BY <1>1, <1>2, <1>3, <2>2, <2>4, RequestBecomes
<1>6. QED
    BY <1>3, <1>4, <1>5 DEF loseOrder

(* The answer opens the payment screen. *)
LEMMA ScreenOpens ==
    ASSUME ShopInv, NEW b \in Buyers, NEW method, NEW pix, orderCreated(b, method, pix)
    PROVE  ShopInv'
<1>1. PICK s, q : /\ s = buy[b] /\ q = req[b] /\ ReqOK(q, s, b \in quiet) /\ PageOK(s)
                  /\ b \in quiet => Recognises(s)
    BY DEF ShopInv, TabFine
<1>2. q.order \in Orders
    BY <1>1 DEF orderCreated, ReqOK
<1>3. PICK t, n : /\ t = [s EXCEPT !.step = 4]
                  /\ n = [NoScreen EXCEPT !.order = q.order, !.method = method, !.pix = pix,
                                          !.status = "AWAITING_PAYMENT"]
    OBVIOUS
<1>4. PageOK(t) /\ SameLook(t, s) /\ t.step = 4
    BY <1>1, <1>3, StepTab
<1>5. IsScreen(n) /\ n.order = q.order
    <2>1. n = [order |-> q.order, status |-> "AWAITING_PAYMENT", method |-> method, pix |-> pix,
               card |-> "idle"]
        BY <1>3 DEF NoScreen
    <2>2. QED
        BY <2>1 DEF IsScreen
<1>6. n.order # "none"
    BY <1>2, <1>5, ShopAssumption
<1>7. UNCHANGED <<shelf, cust, quiet>>
    BY DEF orderCreated, customerVars
<1>8. /\ req' = [req EXCEPT ![b] = NoReq] /\ pay' = [pay EXCEPT ![b] = n]
      /\ buy' = [buy EXCEPT ![b] = t]
    BY <1>1, <1>3 DEF orderCreated, Refused
<1>9. SameFound
    BY <1>7, FoundSame
<1>10. /\ buy' = [c \in Buyers |-> buy'[c]] /\ req' = [c \in Buyers |-> req'[c]]
       /\ pay' = [c \in Buyers |-> pay'[c]]
       /\ buy'[b] = t /\ req'[b] = NoReq /\ pay'[b] = n
       /\ \A c \in Buyers : c # b => buy'[c] = buy[c] /\ req'[c] = req[c] /\ pay'[c] = pay[c]
    BY <1>8 DEF ShopInv
<1>11. TabFine(b)'
    <2>1. PageOK(t)' /\ Matches(t, n)'
        BY <1>4, <1>5, <1>6 DEF PageOK, Matches
    <2>2. b \in quiet' => Recognises(t)'
        BY <1>1, <1>4, <1>7, <1>9 DEF Recognises, SameLook, SameFound
    <2>3. ReqOK(NoReq, t, b \in quiet)'
        BY DEF ReqOK, NoReq
    <2>4. QED
        BY <1>10, <2>1, <2>2, <2>3 DEF TabFine
<1>12. Sold(shelf)'
    BY <1>7 DEF ShopInv
<1>13. QED
    BY <1>7, <1>9, <1>10, <1>11, <1>12, OthersStay

(* What the payment screen shows and does. *)
LEMMA ScreenSteps ==
    ASSUME ShopInv, NEW b \in Buyers,
           startPix(b) \/ pixAnswered(b) \/ switchMethod(b) \/ submitCard(b) \/ track(b) \/ OrderTracker(b)
    PROVE  ShopInv'
<1>1. PICK s : s = pay[b] /\ IsScreen(s)
    BY DEF ShopInv, TabFine, Matches
<1>2. UNCHANGED <<shelf, buy, req, cust, quiet>>
    BY DEF startPix, pixAnswered, switchMethod, submitCard, track, OrderTracker, Shows, customerVars
<1>3. ASSUME NEW st, NEW method, NEW pix, NEW card, NEW n, pay' = [pay EXCEPT ![b] = n],
             n = [order |-> s.order, status |-> st, method |-> method, pix |-> pix, card |-> card]
      PROVE  ShopInv'
    <2>1. IsScreen(n) /\ n.order = s.order
        BY <1>3 DEF IsScreen
    <2>2. QED
        BY <1>1, <1>2, <1>3, <2>1, ScreenBecomes
<1>4. \E n : /\ pay' = [pay EXCEPT ![b] = n]
             /\ \/ \E pix : n = [s EXCEPT !.pix = pix]
                \/ \E method, pix : n = [s EXCEPT !.method = method, !.pix = pix]
                \/ \E st : n = [s EXCEPT !.status = st]
                \/ n = [s EXCEPT !.card = "processing"]
                \/ \E st : n = [NoScreen EXCEPT !.order = s.order, !.status = st]
    <2>1. CASE startPix(b)
        BY <1>1, <2>1 DEF startPix, Shows
    <2>2. CASE pixAnswered(b)
        BY <1>1, <2>2 DEF pixAnswered, Shows
    <2>3. CASE switchMethod(b)
        <3>1. PICK method, pix : /\ method = IF s.method = "pix" THEN "card" ELSE "pix"
                                 /\ pix = IF s.pix = "failed" THEN "none" ELSE s.pix
            OBVIOUS
        <3>2. pay' = [pay EXCEPT ![b] = [s EXCEPT !.method = method, !.pix = pix]]
            BY <1>1, <2>3, <3>1 DEF switchMethod, Shows
        <3>3. QED
            BY <3>2
    <2>4. CASE submitCard(b)
        BY <1>1, <2>4 DEF submitCard, Shows
    <2>5. CASE track(b)
        BY <1>1, <2>5 DEF track, Shows
    <2>6. CASE OrderTracker(b)
        BY <1>1, <2>6 DEF OrderTracker, Shows
    <2>7. QED
        BY <2>1, <2>2, <2>3, <2>4, <2>5, <2>6
<1>5. PICK n : /\ pay' = [pay EXCEPT ![b] = n]
               /\ \/ \E pix : n = [s EXCEPT !.pix = pix]
                  \/ \E method, pix : n = [s EXCEPT !.method = method, !.pix = pix]
                  \/ \E st : n = [s EXCEPT !.status = st]
                  \/ n = [s EXCEPT !.card = "processing"]
                  \/ \E st : n = [NoScreen EXCEPT !.order = s.order, !.status = st]
    BY <1>4
<1>6. ASSUME NEW pix, n = [s EXCEPT !.pix = pix] PROVE ShopInv'
    <2>1. n = [order |-> s.order, status |-> s.status, method |-> s.method, pix |-> pix, card |-> s.card]
        BY <1>1, <1>6 DEF IsScreen
    <2>2. QED
        BY <1>3, <1>5, <2>1
<1>7. ASSUME NEW method, NEW pix, n = [s EXCEPT !.method = method, !.pix = pix] PROVE ShopInv'
    <2>1. n = [order |-> s.order, status |-> s.status, method |-> method, pix |-> pix, card |-> s.card]
        BY <1>1, <1>7 DEF IsScreen
    <2>2. QED
        BY <1>3, <1>5, <2>1
<1>8. ASSUME NEW st, n = [s EXCEPT !.status = st] PROVE ShopInv'
    <2>1. n = [order |-> s.order, status |-> st, method |-> s.method, pix |-> s.pix, card |-> s.card]
        BY <1>1, <1>8 DEF IsScreen
    <2>2. QED
        BY <1>3, <1>5, <2>1
<1>9. CASE n = [s EXCEPT !.card = "processing"]
    <2>1. n = [order |-> s.order, status |-> s.status, method |-> s.method, pix |-> s.pix,
               card |-> "processing"]
        BY <1>1, <1>9 DEF IsScreen
    <2>2. QED
        BY <1>3, <1>5, <2>1
<1>10. ASSUME NEW st, n = [NoScreen EXCEPT !.order = s.order, !.status = st] PROVE ShopInv'
    <2>1. n = [order |-> s.order, status |-> st, method |-> "pix", pix |-> "none", card |-> "idle"]
        BY <1>10 DEF NoScreen
    <2>2. QED
        BY <1>3, <1>5, <2>1
<1>11. QED
    BY <1>5, <1>6, <1>7, <1>8, <1>9, <1>10

(* What is on sale changes, or an order expires: no tab does. *)
LEMMA ShelfSteps ==
    ASSUME ShopInv,
           \/ \E price \in Prices :
                \/ updateSalesBatch(price) \/ \E open \in BOOLEAN : updateProduct(price, open)
                \/ \E k \in Offers, active \in BOOLEAN : updateOffer(k, price, active)
           \/ couponEnds \/ salesWindowEnds \/ \E o \in Orders : expire(o)
    PROVE  ShopInv'
<1>1. Sold(shelf) /\ "ticket" \in Offers /\ 0 \in Nat /\ TRUE \in BOOLEAN
    BY DEF ShopInv, Offers
<1>2. UNCHANGED <<buy, req, pay, cust, quiet>>
    BY DEF updateSalesBatch, updateProduct, updateOffer, couponEnds, salesWindowEnds, stock, expire,
           customerVars
<1>3. Sold(shelf')
    <2>1. ASSUME NEW price \in Prices, updateSalesBatch(price) PROVE Sold(shelf')
        <3>1. price \in Nat
            BY ShopAssumption
        <3>2. Sold([shelf EXCEPT !.batch.price = price])
            BY <1>1, <3>1, Restocked
        <3>3. QED
            BY <2>1, <3>2 DEF updateSalesBatch, stock
    <2>2. ASSUME NEW price \in Prices, NEW open \in BOOLEAN, updateProduct(price, open) PROVE Sold(shelf')
        <3>1. price \in Nat
            BY ShopAssumption
        <3>2. Sold([shelf EXCEPT !.product = [price |-> price, open |-> open]])
            BY <1>1, <3>1, Restocked
        <3>3. QED
            BY <2>2, <3>2 DEF updateProduct, stock
    <2>3. ASSUME NEW price \in Prices, NEW k \in Offers, NEW active \in BOOLEAN, updateOffer(k, price, active)
          PROVE  Sold(shelf')
        <3>1. price \in Nat
            BY ShopAssumption
        <3>2. Sold([shelf EXCEPT !.offer[k] = [own |-> price, active |-> active]])
            BY <1>1, <3>1, Restocked
        <3>3. QED
            BY <2>3, <3>2 DEF updateOffer, stock
    <2>4. CASE couponEnds \/ salesWindowEnds
        <3>1. Sold([shelf EXCEPT !.valid = FALSE]) /\ Sold([shelf EXCEPT !.inWindow = FALSE])
            BY <1>1, Restocked
        <3>2. QED
            BY <2>4, <3>1 DEF couponEnds, salesWindowEnds, stock
    <2>5. CASE \E o \in Orders : expire(o)
        BY <1>1, <2>5 DEF expire
    <2>6. QED
        BY <2>1, <2>2, <2>3, <2>4, <2>5
<1>4. SameFound
    BY <1>2, FoundSame
<1>5. Sold(shelf)'
    BY <1>3
<1>6. QED
    BY <1>2, <1>4, <1>5, AllStay

(* Together they are what the shop does. *)
LEMMA ShopSteps ==
    ASSUME ShopInv, ShopNext
    PROVE  ShopInv'
BY PageSteps, PhoneSteps, SubmitSteps, RequestSteps, ScreenOpens, ScreenSteps, ShelfSteps DEF ShopNext

(* Who is found by a phone depends on the ids, phones and purchases of the *)
(* customers alone.                                                        *)
LEMMA SameRows ==
    ASSUME CustomersInv, CustomersInv',
           \A m \in Emails : /\ cust'[m].id = cust[m].id /\ cust'[m].phone = cust[m].phone
                             /\ cust'[m].turn = cust[m].turn /\ cust'[m].anon = cust[m].anon
    PROVE  SameFound
<1>1. ASSUME NEW m \in Emails PROVE known(m)' <=> known(m)
    <2>1. (known(m) <=> cust[m].id # 0) /\ (known(m)' <=> cust'[m].id # 0)
        BY DEF CustomersInv, CustomerRows, IsCustomer, known, NoCustomer
    <2>2. QED
        BY <2>1
<1>2. ASSUME NEW m \in Emails, NEW n \in Emails PROVE before(m, n)' <=> before(m, n)
    BY DEF before
<1>3. ASSUME NEW phone PROVE findByPhone(phone)' = findByPhone(phone)
    <2> DEFINE rows == {m \in Emails : known(m) /\ cust[m].phone = phone /\ ~cust[m].anon}
               rows2 == {m \in Emails : known(m)' /\ cust'[m].phone = phone /\ ~cust'[m].anon}
    <2>1. rows2 = rows
        BY <1>1
    <2>2. /\ findByPhone(phone) = {m \in rows : \A n \in rows : before(m, n)}
          /\ findByPhone(phone)' = {m \in rows2 : \A n \in rows2 : before(m, n)'}
        BY DEF findByPhone
    <2>3. rows \subseteq Emails
        OBVIOUS
    <2> HIDE DEF rows, rows2
    <2>4. QED
        BY <1>2, <2>1, <2>2, <2>3
<1>4. QED
    BY <1>3 DEF SameFound

(* A customer's step forgets every look-up, or does not change who is      *)
(* found.                                                                  *)
LEMMA QuietSteps ==
    ASSUME CustomersInv, CustomersInv', CustomersNext
    PROVE  \A b : b \in quiet' => b \in quiet /\ SameFound
<1>1. ASSUME NEW m \in Emails, NEW out, setOptOut(m, out) PROVE quiet' = quiet /\ SameFound
    <2>1. ASSUME NEW n \in Emails
          PROVE  /\ cust'[n].id = cust[n].id /\ cust'[n].phone = cust[n].phone
                 /\ cust'[n].turn = cust[n].turn /\ cust'[n].anon = cust[n].anon
        <3>1. PICK c, new : c = cust[m] /\ new = [c EXCEPT !.opted = out] /\ cust' = [cust EXCEPT ![m] = new]
            BY <1>1 DEF setOptOut
        <3>2. IsCustomer(c) /\ cust = [x \in Emails |-> cust[x]]
            BY <3>1 DEF CustomersInv, CustomerRows
        <3>3. new = [id |-> c.id, phone |-> c.phone, opted |-> out, bought |-> c.bought,
                     turn |-> c.turn, consent |-> c.consent, anon |-> c.anon]
            BY <3>1, <3>2 DEF IsCustomer
        <3>4. new.id = c.id /\ new.phone = c.phone /\ new.turn = c.turn /\ new.anon = c.anon
            BY <3>3
        <3>5. cust'[n] = IF n = m THEN new ELSE cust[n]
            BY <3>1, <3>2
        <3>6. QED
            BY <3>1, <3>4, <3>5
    <2>2. QED
        BY <1>1, <2>1, SameRows DEF setOptOut
<1>2. CASE monthsPass
    <2> DEFINE aged(d) == IF d = "recent" THEN "old" ELSE d
    <2>1. ASSUME NEW m \in Emails
          PROVE  /\ cust'[m].id = cust[m].id /\ cust'[m].phone = cust[m].phone
                 /\ cust'[m].turn = cust[m].turn /\ cust'[m].anon = cust[m].anon
        <3>1. PICK c : c = cust[m] /\ IsCustomer(c)
            BY DEF CustomersInv, CustomerRows
        <3>2. cust'[m] = [c EXCEPT !.bought = aged(c.bought), !.consent = aged(c.consent)]
            BY <1>2, <3>1 DEF monthsPass
        <3> HIDE DEF aged
        <3>3. cust'[m] = [id |-> c.id, phone |-> c.phone, opted |-> c.opted, bought |-> aged(c.bought),
                          turn |-> c.turn, consent |-> aged(c.consent), anon |-> c.anon]
            BY <3>1, <3>2 DEF IsCustomer
        <3>4. QED
            BY <3>1, <3>3
    <2>2. QED
        BY <1>2, <2>1, SameRows DEF monthsPass
<1>3. ASSUME NEW w \in Workers, upsertFromPaidOrder(w) \/ upsertLead(w) \/ anonymize(w) PROVE quiet' = {}
    BY <1>3 DEF upsertFromPaidOrder, upsertLead, anonymize
<1>4. ASSUME NEW o \in Orders,
             \/ payOrder(o) \/ \E w \in Workers : fulfil(w, o)
             \/ \E p \in People, phone \in Phones : checkout(o, p, phone)
      PROVE  UNCHANGED <<cust, quiet>>
    BY <1>4 DEF payOrder, fulfil, checkout
<1>5. ASSUME NEW w \in Workers,
             \/ readOrder(w) \/ runRetention(w) \/ runLeads(w) \/ anonymizeBuyer(w) \/ stopJob(w)
             \/ \E p \in People, phone \in Phones : Spend("crm") /\ captureLead(w, p, phone)
             \/ \E m \in Emails : anonymizeCustomer(w, m)
      PROVE  UNCHANGED <<cust, quiet>>
    BY <1>5 DEF readOrder, runRetention, runLeads, anonymizeBuyer, stopJob, captureLead, anonymizeCustomer
<1>6. CASE UNCHANGED <<cust, quiet>>
    BY <1>6, FoundSame
<1>7. CASE quiet' = {}
    BY <1>7
<1>8. CASE \E w \in Workers : upsertFromPaidOrder(w) \/ upsertLead(w) \/ anonymize(w)
    BY <1>3, <1>7, <1>8
<1>9. QED
    BY <1>1, <1>2, <1>4, <1>5, <1>6, <1>8 DEF CustomersNext

(* A phone finds one customer at most. *)
LEMMA FoundOne ==
    ASSUME CustomersInv, DataInv, NEW phone, NEW m \in findByPhone(phone), NEW n \in findByPhone(phone)
    PROVE  m = n
<1>1. m \in Emails /\ n \in Emails /\ before(m, n) /\ before(n, m) /\ known(m) /\ known(n)
    BY DEF findByPhone
<1>2. /\ cust[m].id \in Nat \ {0} /\ cust[n].id \in Nat \ {0}
      /\ cust[m].id = cust[n].id => m = n
      /\ cust[m].turn \in Nat /\ cust[n].turn \in Nat
    BY <1>1 DEF CustomersInv, CustomerRows, IsCustomer, known, DataInv, CustomerData
<1>3. QED
    BY <1>1, <1>2 DEF before

(* Who is found is a customer, and by no phone if a pseudonym. *)
LEMMA FoundIs ==
    ASSUME DataInv, NEW phone, NEW m \in findByPhone(phone)
    PROVE  m \in Emails /\ (m[1] # "real" => phone = NoPhone)
<1>1. m \in Emails /\ cust[m].phone = phone
    BY DEF findByPhone
<1>2. CustomerData(m, cust[m])
    BY <1>1 DEF DataInv
<1>3. QED
    BY <1>1, <1>2 DEF CustomerData

(* The checkout places and settles orders as they should be held. *)
LEMMA ShopData ==
    ASSUME CustomersInv, DataInv, ShopInv, ShopNext
    PROVE  DataInv'
<1>1. ASSUME UNCHANGED <<cust, order, job>> PROVE DataInv'
    BY <1>1, DataKept
<1>2. ASSUME NEW b \in Buyers,
             \/ goToData(b) \/ back(b) \/ lookupByPhone(b) \/ lookupAnswered(b)
             \/ lookupFails(b) \/ setUseOther(b) \/ goToReview(b) \/ typeCoupon(b) \/ applyCoupon(b)
             \/ previewCoupon(b) \/ removeCoupon(b) \/ submit(b) \/ priceOrder(b) \/ loseOrder(b)
             \/ startPix(b) \/ pixAnswered(b) \/ switchMethod(b) \/ track(b) \/ OrderTracker(b)
             \/ \E n \in 0..MaxUnits : setQuantity(b, n)
             \/ \E k \in Offers : toggleOffer(b, k)
             \/ \E phone \in Phones \cup {NoPhone} : typePhone(b, phone) \/ buildPublicEventView(b, phone)
             \/ \E p \in People : typeIdentity(b, p)
             \/ \E method \in {"pix", "card"}, pix \in {"none", "shown"} : orderCreated(b, method, pix)
      PROVE  DataInv'
    <2>1. UNCHANGED <<cust, order, job>>
        BY <1>2 DEF goToData, back, lookupByPhone, lookupAnswered, lookupFails, setUseOther, goToReview,
               typeCoupon, applyCoupon, previewCoupon, removeCoupon, submit, priceOrder, loseOrder,
               startPix, pixAnswered, switchMethod, track, OrderTracker, setQuantity, toggleOffer,
               typePhone, buildPublicEventView, typeIdentity, orderCreated, Touched, Shows, customerVars
    <2>2. QED
        BY <1>1, <2>1
<1>3. ASSUME NEW b \in Buyers, NEW w \in Workers, lead(b, w) PROVE DataInv'
    <2>1. (\E p, phone : captureLead(w, p, phone)) \/ UNCHANGED <<cust, order, job>>
        BY <1>3 DEF lead, customerVars
    <2>2. QED
        BY <1>1, <2>1, LeadData
<1>4. ASSUME NEW b \in Buyers, NEW o \in Orders, createOrder(b, o) PROVE DataInv'
    <2>1. PICK r, t, recent : r = req[b] /\ t = buy[b] /\ ReqOK(r, t, recent)
        BY DEF ShopInv, TabFine
    <2>2. UNCHANGED <<cust, job>>
        BY <1>4 DEF createOrder
    <2>3. ASSUME NEW m, placeOrder(o, m, t.phone), m \in IF r.reuse THEN findByPhone(t.phone) ELSE {r.who}
          PROVE  DataInv'
        <3>1. m \in Emails \cup {Nobody} /\ (m[1] # "real" => t.phone = NoPhone)
            <4>1. CASE r.reuse
                BY <2>3, <4>1, FoundIs
            <4>2. CASE ~r.reuse
                <5>1. r.at = "priced"
                    BY <1>4, <2>1 DEF createOrder
                <5>2. QED
                    BY <2>1, <2>3, <4>2, <5>1 DEF ReqOK
            <4>3. QED
                BY <4>1, <4>2
        <3>2. QED
            BY <2>2, <2>3, <3>1, PlacedData, DataKept
    <2>4. QED
        BY <1>1, <1>4, <2>1, <2>2, <2>3 DEF createOrder
<1>5. ASSUME NEW b \in Buyers, submitCard(b) PROVE DataInv'
    <2>1. \/ \E o : order' = markOrderPaid(o) /\ UNCHANGED <<cust, job>>
          \/ UNCHANGED <<cust, order, job>>
        BY <1>5 DEF submitCard, Shows, customerVars
    <2>2. QED
        BY <1>1, <2>1, SettledData, DataKept
<1>6. ASSUME NEW o \in Orders, expire(o) PROVE DataInv'
    BY <1>6, SettledData, DataKept DEF expire
<1>7. ASSUME \/ \E price \in Prices :
                  \/ updateSalesBatch(price) \/ \E open \in BOOLEAN : updateProduct(price, open)
                  \/ \E k \in Offers, active \in BOOLEAN : updateOffer(k, price, active)
             \/ couponEnds \/ salesWindowEnds
      PROVE  DataInv'
    <2>1. UNCHANGED <<cust, order, job>>
        BY <1>7 DEF updateSalesBatch, updateProduct, updateOffer, couponEnds, salesWindowEnds, stock,
                    customerVars
    <2>2. QED
        BY <1>1, <2>1
<1>8. QED
    BY <1>2, <1>3, <1>4, <1>5, <1>6, <1>7 DEF ShopNext

CheckoutInv == CustomersInv /\ DataInv /\ ShopInv

(* At first it holds: the tabs are fresh, and no order is asked for. *)
LEMMA CheckoutStart ==
    ASSUME Init
    PROVE  CheckoutInv
<1>1. CustomersInv
    BY CustomersStart DEF Init
<1>2. DataInv
    <2>1. PICK s \in Scenarios :
              cust = [m \in Emails |->
                          IF m[1] = "real" /\ s.phones[m[2]] # NoPhone
                          THEN [NoCustomer EXCEPT !.id = FirstId[m[2]], !.phone = s.phones[m[2]],
                                                  !.consent = "recent"]
                          ELSE NoCustomer]
        BY DEF Init, CustomersInit
    <2>2. ASSUME NEW m \in Emails PROVE CustomerData(m, cust[m])
        <3>1. CASE cust[m] = NoCustomer
            BY <3>1 DEF CustomerData, NoCustomer, Ages
        <3>2. CASE cust[m] # NoCustomer
            <4>1. PICK id, tel : cust[m] = [NoCustomer EXCEPT !.id = id, !.phone = tel, !.consent = "recent"]
                BY <2>1, <3>2
            <4>2. cust[m] = [id |-> id, phone |-> tel, opted |-> FALSE, bought |-> "never",
                             turn |-> 0, consent |-> "recent", anon |-> FALSE]
                BY <4>1 DEF NoCustomer
            <4>3. m[1] = "real"
                BY <2>1, <3>2
            <4>4. QED
                BY <4>2, <4>3 DEF CustomerData, Ages
        <3>3. QED
            BY <3>1, <3>2
    <2>3. OrderData(NoOrder) /\ JobData(Idle)
        BY DEF OrderData, NoOrder, Nobody, Email, Ages, JobData, Idle
    <2>4. order = [o \in Orders |-> NoOrder] /\ job = [w \in Workers |-> Idle]
        BY DEF Init, CustomersInit
    <2>5. QED
        BY <2>2, <2>3, <2>4 DEF DataInv
<1>3. ShopInv
    <2>1. /\ shelf = FirstShelf /\ buy = [b \in Buyers |-> Fresh] /\ req = [b \in Buyers |-> NoReq]
          /\ pay = [b \in Buyers |-> NoScreen]
        BY DEF Init, ShopInit
    <2>2. Sold(FirstShelf)
        BY ShopAssumption DEF Sold
    <2>3. PageOK(Fresh) /\ Recognises(Fresh) /\ Fresh.step = 0
        BY <2>2, FreshTab
    <2>4. \A recent : ReqOK(NoReq, Fresh, recent)
        BY DEF ReqOK, NoReq
    <2>5. IsScreen(NoScreen) /\ NoScreen.order = "none"
        BY DEF IsScreen, NoScreen
    <2>6. Matches(Fresh, NoScreen)
        BY <2>3, <2>5 DEF Matches
    <2>7. ASSUME NEW b \in Buyers PROVE TabFine(b)
        BY <2>1, <2>3, <2>4, <2>6 DEF TabFine
    <2>8. QED
        BY <2>1, <2>2, <2>7 DEF ShopInv
<1>4. QED
    BY <1>1, <1>2, <1>3 DEF CheckoutInv

(* It stays so, whatever a step of the store is of. *)
LEMMA CheckoutGoesOn ==
    ASSUME CheckoutInv, [Next]_storeVars
    PROVE  CheckoutInv'
<1>1. CustomersInv /\ DataInv /\ ShopInv
    BY DEF CheckoutInv
<1>2. CASE UNCHANGED <<customerVars, shopVars>>
    <2>1. UNCHANGED <<cust, order, job, erased, given, quiet, shelf, buy, req, pay>>
        BY <1>2 DEF customerVars, shopVars
    <2>2. CustomersInv' /\ DataInv'
        BY <1>1, <2>1, NothingWritten, DataKept
    <2>3. SameFound /\ Sold(shelf)'
        BY <1>1, <2>1, FoundSame DEF ShopInv
    <2>4. ShopInv'
        BY <1>1, <2>1, <2>3, AllStay
    <2>5. QED
        BY <2>2, <2>4 DEF CheckoutInv
<1>3. CASE CustomersNext /\ UNCHANGED shopVars
    <2>1. CustomersInv' /\ DataInv'
        BY <1>1, <1>3, CustomersSteps, DataSteps
    <2>2. \A b : b \in quiet' => b \in quiet /\ SameFound
        BY <1>1, <1>3, <2>1, QuietSteps
    <2>3. UNCHANGED <<buy, req, pay>> /\ Sold(shelf)'
        BY <1>1, <1>3 DEF shopVars, ShopInv
    <2>4. ShopInv'
        BY <1>1, <2>2, <2>3, AllStay
    <2>5. QED
        BY <2>1, <2>4 DEF CheckoutInv
<1>4. CASE ShopNext
    BY <1>1, <1>4, CheckoutSteps, ShopData, ShopSteps DEF CheckoutInv
<1>5. QED
    BY <1>2, <1>3, <1>4 DEF Next, storeVars

(* A request changes when it is sent, priced, placed, answered or lost. *)
LEMMA RequestMoves ==
    ASSUME ShopNext
    PROVE  \/ UNCHANGED req
           \/ \E c \in Buyers : \/ submit(c) \/ priceOrder(c) \/ loseOrder(c)
                                \/ \E o \in Orders : createOrder(c, o)
                                \/ \E method, pix : orderCreated(c, method, pix)
<1>1. ASSUME NEW b \in Buyers,
             \/ goToData(b) \/ back(b) \/ lookupByPhone(b) \/ lookupAnswered(b)
             \/ lookupFails(b) \/ setUseOther(b) \/ goToReview(b) \/ typeCoupon(b) \/ applyCoupon(b)
             \/ previewCoupon(b) \/ removeCoupon(b)
             \/ \E n \in 0..MaxUnits : setQuantity(b, n)
             \/ \E k \in Offers : toggleOffer(b, k)
             \/ \E phone \in Phones \cup {NoPhone} : typePhone(b, phone) \/ buildPublicEventView(b, phone)
             \/ \E p \in People : typeIdentity(b, p)
             \/ \E w \in Workers : lead(b, w)
      PROVE  UNCHANGED req
    BY <1>1 DEF goToData, back, lookupByPhone, lookupAnswered, lookupFails, setUseOther, goToReview,
           typeCoupon, applyCoupon, previewCoupon, removeCoupon, setQuantity, toggleOffer, typePhone,
           buildPublicEventView, typeIdentity, lead, Touched, Became
<1>2. ASSUME NEW b \in Buyers,
             startPix(b) \/ pixAnswered(b) \/ switchMethod(b) \/ submitCard(b) \/ track(b) \/ OrderTracker(b)
      PROVE  UNCHANGED req
    BY <1>2 DEF startPix, pixAnswered, switchMethod, submitCard, track, OrderTracker, Shows
<1>3. ASSUME \/ \E price \in Prices :
                  \/ updateSalesBatch(price) \/ \E open \in BOOLEAN : updateProduct(price, open)
                  \/ \E k \in Offers, active \in BOOLEAN : updateOffer(k, price, active)
             \/ couponEnds \/ salesWindowEnds \/ \E o \in Orders : expire(o)
      PROVE  UNCHANGED req
    BY <1>3 DEF updateSalesBatch, updateProduct, updateOffer, couponEnds, salesWindowEnds, stock, expire
<1>4. QED
    BY <1>1, <1>2, <1>3 DEF ShopNext

(* A tab's request is its own. *)
LEMMA OwnRequest ==
    ASSUME ShopInv, ShopNext, NEW b \in Buyers, req'[b] # req[b]
    PROVE  \/ submit(b) \/ priceOrder(b) \/ req'[b] = NoReq
           \/ \E o \in Orders : createOrder(b, o)
<1>1. req = [c \in Buyers |-> req[c]]
    BY DEF ShopInv
<1>2. PICK c \in Buyers : \/ submit(c) \/ priceOrder(c) \/ loseOrder(c)
                          \/ \E o \in Orders : createOrder(c, o)
                          \/ \E method, pix : orderCreated(c, method, pix)
    BY RequestMoves
<1>3. \E r : req' = [req EXCEPT ![c] = r]
    BY <1>2 DEF submit, priceOrder, loseOrder, createOrder, orderCreated, Refused
<1>4. c = b
    BY <1>1, <1>3
<1>5. loseOrder(b) \/ (\E method, pix : orderCreated(b, method, pix)) => req'[b] = NoReq
    BY <1>1 DEF loseOrder, orderCreated, Refused
<1>6. QED
    BY <1>2, <1>4, <1>5

(* An order that is priced from what the page was loaded with costs no     *)
(* more than the page showed.                                              *)
LEMMA PricedAsShown ==
    ASSUME CheckoutInv, NEW b \in Buyers, priceOrder(b), req'[b].at = "priced", shelf = buy[b].seen
    PROVE  req'[b].total <= req[b].shown
<1>1. PICK r, t : r = req[b] /\ t = buy[b] /\ ReqOK(r, t, b \in quiet) /\ PageOK(t)
    BY DEF CheckoutInv, ShopInv, TabFine
<1>2. PICK tickets, products, fee, c :
          /\ tickets = ticketCents(shelf, t.qty, t.picked) /\ products = productCents(shelf, t.picked)
          /\ fee = shelf.fee /\ c = shelf.coupon
    OBVIOUS
<1>3. Sold(shelf) /\ t.qty \in Nat
    BY <1>1 DEF CheckoutInv, ShopInv, PageOK
<1>4. tickets \in Nat /\ products \in Nat /\ fee.bps \in 0..Bps /\ c.value \in Nat
    BY <1>2, <1>3, Cents
<1>5. c = FirstShelf.coupon
    BY <1>2, <1>3 DEF Sold
<1>6. PICK discount, total :
          /\ discount = IF r.coupon THEN couponDiscountCents(c, tickets) ELSE 0
          /\ total = orderTotals(tickets, products, discount, fee).total
    OBVIOUS
<1>7. req'[b].total = total
    <2>1. req = [x \in Buyers |-> req[x]]
        BY DEF CheckoutInv, ShopInv
    <2>2. ~Refused(b)
        <3>1. Refused(b) => req'[b] = NoReq
            BY <2>1 DEF Refused
        <3>2. NoReq.at # "priced"
            BY DEF NoReq
        <3>3. QED
            BY <3>1, <3>2
    <2>3. req' = [req EXCEPT ![b] = [at |-> "priced", reuse |-> r.reuse, who |-> r.who,
                                     shown |-> r.shown, total |-> total]]
        BY <1>1, <1>2, <1>6, <2>2 DEF priceOrder
    <2>4. QED
        BY <2>1, <2>3
<1>8. discount \in 0..tickets
    BY <1>4, <1>6, DiscountWithin
<1>9. fee.bps \in Nat
    BY <1>4
<1>10. total \in Nat /\ total <= orderTotals(tickets, products, 0, fee).total
    BY <1>4, <1>6, <1>8, <1>9, DiscountTakesOff
<1>11. r.at = "server"
    BY <1>1 DEF priceOrder
<1>12. PICK applied \in {{}, {c}} :
           (applied # {} => r.coupon) /\ r.shown = shownTotal(tickets, products, applied, fee)
    <2>1. PICK applied \in {{}, {FirstShelf.coupon}} :
              /\ applied # {} => r.coupon
              /\ r.shown = shownTotal(ticketCents(t.seen, t.qty, t.picked), productCents(t.seen, t.picked),
                                      applied, t.seen.fee)
        BY <1>1, <1>11 DEF ReqOK, Shown
    <2>2. t.seen = shelf
        BY <1>1
    <2>3. r.shown = shownTotal(tickets, products, applied, fee)
        BY <1>2, <2>1, <2>2
    <2>4. QED
        BY <1>5, <2>1, <2>3
<1>13. CASE applied = {}
    BY <1>1, <1>4, <1>7, <1>10, <1>12, <1>13, ShownWithout
<1>14. CASE applied = {c}
    <2>1. r.coupon
        BY <1>12, <1>14
    <2>2. total = orderTotals(tickets, products, couponDiscountCents(c, tickets), fee).total
        BY <1>6, <2>1
    <2>3. r.shown = total
        BY <1>4, <1>12, <1>14, <2>2, ShownWith
    <2>4. QED
        BY <1>1, <1>7, <1>10, <2>3
<1>15. QED
    BY <1>12, <1>13, <1>14

(* An order is placed for whom the page had, when no customer was written  *)
(* since the phone was looked up.                                          *)
LEMMA PlacedAsShown ==
    ASSUME CheckoutInv, NEW b \in Buyers, NEW o \in Orders, createOrder(b, o), req'[b].at = "answer",
           req[b].reuse => b \in quiet
    PROVE  order'[req'[b].order].email = req[b].who
<1>1. PICK r, t : r = req[b] /\ t = buy[b] /\ ReqOK(r, t, b \in quiet)
    BY DEF CheckoutInv, ShopInv, TabFine
<1>2. req = [x \in Buyers |-> req[x]] /\ order = [x \in Orders |-> order[x]]
    BY DEF CheckoutInv, ShopInv, CustomersInv, OrderRows
<1>3. ~Refused(b)
    <2>1. Refused(b) => req'[b] = NoReq
        BY <1>2 DEF Refused
    <2>2. NoReq.at # "answer"
        BY DEF NoReq
    <2>3. QED
        BY <2>1, <2>2
<1>4. PICK m : /\ m \in IF r.reuse THEN findByPhone(t.phone) ELSE {r.who}
               /\ placeOrder(o, m, t.phone)
               /\ req' = [req EXCEPT ![b] = [at |-> "answer", order |-> o]]
    BY <1>1, <1>3 DEF createOrder
<1>5. m = r.who
    <2>1. CASE r.reuse
        <3>1. r.at = "priced"
            BY <1>1 DEF createOrder
        <3>2. r.who \in findByPhone(t.phone) /\ m \in findByPhone(t.phone)
            BY <1>1, <1>4, <2>1, <3>1 DEF ReqOK
        <3>3. QED
            BY <3>2, FoundOne DEF CheckoutInv
    <2>2. CASE ~r.reuse
        BY <1>4, <2>2
    <2>3. QED
        BY <2>1, <2>2
<1>6. req'[b].order = o
    BY <1>2, <1>4
<1>7. order'[o].email = m
    <2>1. PICK new : /\ order' = [order EXCEPT ![o] = new]
                     /\ new = [NoOrder EXCEPT !.email = m, !.phone = t.phone, !.status = "AWAITING_PAYMENT"]
        BY <1>4 DEF placeOrder
    <2>2. new.email = m
        BY <2>1 DEF NoOrder
    <2>3. QED
        BY <1>2, <2>1, <2>2
<1>8. QED
    BY <1>1, <1>5, <1>6, <1>7

(* The order is the one that was reviewed: for the buyer the review step   *)
(* showed, typed or recognised, unless a customer was written since the    *)
(* phone was looked up; and for no more than the total it showed, unless   *)
(* what is on sale changed since the page was loaded, though the page and  *)
(* the server each compute it, and each look for the buyer, on their own   *)
(* (checkout-form.tsx and pricing.ts against orders/service.ts).           *)
THEOREM OrderIsAsReviewed == Spec => OrderAsReviewed
<1> DEFINE Reviewed(b) ==
               LET r == req[b]
               IN /\ r.at = "server" /\ req'[b].at = "priced" /\ shelf = buy[b].seen
                         => req'[b].total <= r.shown
                  /\ r.at = "priced" /\ req'[b].at = "answer" /\ (r.reuse => b \in quiet)
                         => order'[req'[b].order].email = r.who
<1>1. Init => CheckoutInv
    BY CheckoutStart
<1>2. CheckoutInv /\ [Next]_storeVars => CheckoutInv'
    BY CheckoutGoesOn
<1>3. CheckoutInv /\ [Next]_storeVars => [\A b \in Buyers : Reviewed(b)]_<<req, order, buy, shelf, quiet>>
    <2>1. SUFFICES ASSUME CheckoutInv, [Next]_storeVars, NEW b \in Buyers
                   PROVE  Reviewed(b)
        OBVIOUS
    <2>2. CASE req'[b] = req[b]
        BY <2>2
    <2>3. CASE req'[b] # req[b]
        <3>1. ShopNext
            BY <2>1, <2>3 DEF Next, storeVars, shopVars
        <3>2. \/ submit(b) \/ priceOrder(b) \/ req'[b] = NoReq
              \/ \E o \in Orders : createOrder(b, o)
            BY <2>1, <2>3, <3>1, OwnRequest DEF CheckoutInv
        <3>3. CASE req'[b] = NoReq
            BY <3>3 DEF NoReq
        <3>4. CASE submit(b)
            <4>1. req[b] = NoReq
                BY <3>4 DEF submit, On
            <4>2. QED
                BY <4>1 DEF NoReq
        <3>5. CASE priceOrder(b)
            <4>1. req[b].at = "server"
                BY <3>5 DEF priceOrder
            <4>2. QED
                BY <2>1, <3>5, <4>1, PricedAsShown
        <3>6. ASSUME NEW o \in Orders, createOrder(b, o) PROVE Reviewed(b)
            <4>1. req[b].at = "priced"
                BY <3>6 DEF createOrder
            <4>2. QED
                BY <2>1, <3>6, <4>1, PlacedAsShown
        <3>7. QED
            BY <3>2, <3>3, <3>4, <3>5, <3>6
    <2>4. QED
        BY <2>2, <2>3
<1>4. QED
    BY <1>1, <1>2, <1>3, PTL DEF Spec, OrderAsReviewed

-------------------------------------------------------------------------------
(* The types: what is stored is what the server takes, and keeps of it     *)

(* A process has built the services of producers. *)
WarmInv == warm \in [Instances -> SUBSET Orgs]

(* Only producers that were found are served. *)
LEMMA WarmSteps ==
    ASSUME CatalogInv, WarmInv, [Next]_storeVars
    PROVE  WarmInv'
<1>1. CASE UNCHANGED warm
    BY <1>1 DEF WarmInv
<1>2. ASSUME NEW i \in Instances, recycle(i) PROVE WarmInv'
    BY <1>2 DEF recycle, WarmInv
<1>3. ASSUME NEW i \in Instances, NEW k \in Keys, visit(i, k) PROVE WarmInv'
    <2>1. PICK o : o = resolveOrgByRef(k)
        OBVIOUS
    <2>2. o \in Orgs \cup {"none"}
        BY <2>1 DEF resolveOrgByRef, CatalogInv, CatalogRows
    <2>3. getTenantServices(i, o)
        BY <1>3, <2>1 DEF visit
    <2>4. CASE mayServe(i, o)
        <3>1. o \in Orgs
            BY <2>2, <2>4 DEF mayServe
        <3>2. warm' = [warm EXCEPT ![i] = warm[i] \cup {o}]
            BY <2>3, <2>4 DEF getTenantServices
        <3>3. QED
            BY <3>1, <3>2 DEF WarmInv
    <2>5. CASE ~mayServe(i, o)
        BY <1>1, <2>3, <2>5 DEF getTenantServices
    <2>6. QED
        BY <2>4, <2>5
<1>4. ASSUME NEW t \in Tabs,
             \/ createEvent(t) \/ routeEvent(t) \/ stop(t) \/ createSalesBatch(t) \/ transition(t)
             \/ \E s \in Slugs : submitNewEvent(t, s)
             \/ \E d \in Details : updateEventDetails(t, d)
             \/ \E a \in DOMAIN applyAction : runConfirmed(t, a)
      PROVE  UNCHANGED warm
    BY <1>4 DEF createEvent, routeEvent, stop, createSalesBatch, transition, submitNewEvent,
        updateEventDetails, runConfirmed
<1>5. CASE CatalogNext
    BY <1>1, <1>2, <1>3, <1>4, <1>5 DEF CatalogNext, suspendTenant, setOrgDefaultFee, setEventFee, openEvent,
        Keys
<1>6. QED
    BY <1>1, <1>5 DEF Next, storeVars, catalogVars

(* What the rows of the catalogue hold. *)
LEMMA CatalogTypes ==
    ASSUME CatalogInv, WarmInv
    PROVE  CatalogTypeOK
<1>1. CatalogRows
    BY DEF CatalogInv
<1>2. \A e \in Events : event[e].status \in Statuses /\ event[e].has \subseteq Details
    BY <1>1 DEF CatalogRows, EventRow
<1>3. \A t \in Tabs : tab[t].event \in Events \cup {0} /\ tab[t].status \in Statuses
    BY <1>1 DEF CatalogRows
<1>4. QED
    BY <1>1, <1>2, <1>3 DEF CatalogTypeOK, CatalogRows, Keys, WarmInv

(* A link is of a promoter and an event that were assigned, and no event   *)
(* has one code twice, though the code is looked for before it is written. *)
LinksInv ==
    /\ link \subseteq assigned
    /\ \E S : coupon \in Seq(S)
    /\ \A c, d \in DOMAIN coupon : coupon[c] = coupon[d] /\ coupon[c].event # OrgWide => c = d

(* A coupon of an event is written when its code is free by then, though  *)
(* it was free when it was looked for too.                                 *)
LEMMA CouponInserted ==
    ASSUME LinksInv, NEW t \in Tabs, insertCoupon(t)
    PROVE  LinksInv'
<1>1. PICK d, row : d = desk[t] /\ row = [org |-> Staff[t], event |-> d.event, code |-> d.code]
    OBVIOUS
<1>2. /\ coupon' = IF d.event # OrgWide /\ findByCode(Staff[t], d.event, d.code) # {} THEN coupon
                   ELSE Append(coupon, row)
      /\ UNCHANGED <<link, assigned>>
    BY <1>1 DEF insertCoupon
<1>3. CASE UNCHANGED coupon
    BY <1>2, <1>3 DEF LinksInv
<1>4. CASE coupon' = Append(coupon, row) /\ (d.event # OrgWide => findByCode(Staff[t], d.event, d.code) = {})
    <2>1. PICK S : coupon \in Seq(S)
        BY DEF LinksInv
    <2>2. PICK n \in Nat : n = Len(coupon) /\ DOMAIN coupon = 1..n
        BY <2>1
    <2>3. coupon \in Seq(S \cup {row})
        BY <2>1
    <2>4. /\ coupon' \in Seq(S \cup {row}) /\ DOMAIN coupon' = 1..(n + 1) /\ coupon'[n + 1] = row
          /\ \A c \in 1..n : coupon'[c] = coupon[c]
        BY <1>4, <2>2, <2>3, AppendProperties
    <2>5. ASSUME NEW c \in 1..n, row.event # OrgWide PROVE coupon[c] # row
        <3>1. row.org = Staff[t] /\ row.event = d.event /\ row.code = d.code
            BY <1>1
        <3>2. QED
            BY <1>4, <2>2, <2>5, <3>1 DEF findByCode
    <2>6. ASSUME NEW c \in DOMAIN coupon', NEW e \in DOMAIN coupon', coupon'[c] = coupon'[e],
                 coupon'[c].event # OrgWide
          PROVE  c = e
        <3>1. (c \in 1..n \/ c = n + 1) /\ (e \in 1..n \/ e = n + 1)
            BY <2>4
        <3>2. CASE c \in 1..n /\ e \in 1..n
            BY <2>2, <2>4, <2>6, <3>2 DEF LinksInv
        <3>3. CASE c \in 1..n /\ e = n + 1
            BY <2>4, <2>5, <2>6, <3>3
        <3>4. CASE e \in 1..n /\ c = n + 1
            BY <2>4, <2>5, <2>6, <3>4
        <3>5. QED
            BY <3>1, <3>2, <3>3, <3>4
    <2>7. QED
        BY <1>2, <2>4, <2>6 DEF LinksInv
<1>5. QED
    BY <1>2, <1>3, <1>4

(* A step of promoters assigns before it links. *)
LEMMA LinksSteps ==
    ASSUME LinksInv, [Next]_storeVars
    PROVE  LinksInv'
<1>1. CASE UNCHANGED <<link, assigned, coupon>>
    BY <1>1 DEF LinksInv
<1>2. ASSUME NEW t \in Tabs, NEW p \in Names, NEW e \in Events,
             linkPromoterToEvent(t, p, e) \/ createLink(t, p, e)
      PROVE  LinksInv'
    BY <1>2 DEF linkPromoterToEvent, createLink, LinksInv
<1>3. ASSUME NEW t \in Tabs,
             \/ reserveReport(t) \/ stopRequest(t) \/ insertRule(t)
             \/ \E p \in Names :
                  \/ promoteToLogin(t, p)
                  \/ \E k \in Tokens : createPromoter(t, p, k) \/ regenerateReportToken(t, p, k)
             \/ \E e \in Events \cup {OrgWide} : createSuperseding(t, e) \/ \E c \in Codes : createCoupon(t, e, c)
      PROVE  UNCHANGED <<link, assigned, coupon>>
    BY <1>3 DEF reserveReport, stopRequest, insertRule, promoteToLogin, createPromoter,
        regenerateReportToken, createSuperseding, createCoupon
<1>4. CASE PromotersNext
    <2>1. CASE \E p \in Names, e \in Events : incrementClick(p, e)
        BY <1>1, <2>1 DEF incrementClick
    <2>2. CASE ~\E p \in Names, e \in Events : incrementClick(p, e)
        BY <1>1, <1>2, <1>3, <1>4, <2>2, CouponInserted DEF PromotersNext
    <2>3. QED
        BY <2>1, <2>2
<1>5. QED
    BY <1>1, <1>4 DEF Next, storeVars, promoterVars

(* A storefront's form is filled in, and what is sent of it has no blank   *)
(* item.                                                                   *)
IsForm(f) == f = [enabled |-> f.enabled, look |-> f.look, items |-> f.items] /\ Listed(f.items)
NoBlanks(c) == \A n \in DOMAIN c : c[n] # Blank
FrontInv ==
    /\ front = [o \in Orgs |-> front[o]] /\ \A o \in Orgs : NoBlanks(front[o].items)
    /\ fed = [t \in Tabs |-> fed[t]]
    /\ \A t \in Tabs :
          /\ fed[t] = [form |-> fed[t].form, req |-> fed[t].req, saved |-> fed[t].saved]
          /\ IsForm(fed[t].form) /\ NoBlanks(fed[t].req.items)

(* One tab's editor changes. *)
LEMMA FedChanges ==
    ASSUME FrontInv, UNCHANGED front, NEW t \in Tabs, NEW form, NEW request, NEW saved,
           IsForm(form), NoBlanks(request.items),
           fed' = [fed EXCEPT ![t] = [form |-> form, req |-> request, saved |-> saved]]
    PROVE  FrontInv'
<1>1. PICK x : x = [form |-> form, req |-> request, saved |-> saved]
    OBVIOUS
<1>2. fed' = [u \in Tabs |-> IF u = t THEN x ELSE fed[u]]
    BY <1>1 DEF FrontInv
<1>3. x.form = form /\ x.req = request /\ x.saved = saved
    BY <1>1
<1>4. ASSUME NEW u \in Tabs
      PROVE  /\ fed'[u] = [form |-> fed'[u].form, req |-> fed'[u].req, saved |-> fed'[u].saved]
             /\ IsForm(fed'[u].form) /\ NoBlanks(fed'[u].req.items)
    <2>1. CASE u = t
        BY <1>1, <1>2, <1>3, <2>1
    <2>2. CASE u # t
        BY <1>2, <2>2 DEF FrontInv
    <2>3. QED
        BY <2>1, <2>2
<1>5. QED
    BY <1>2, <1>4 DEF FrontInv

(* A form is filled in. *)
LEMMA FormSet ==
    ASSUME FrontInv, NEW t \in Tabs, NEW f, IsForm(f), set(t, f)
    PROVE  FrontInv'
<1>1. PICK x, no : x = fed[t] /\ no = FALSE
    OBVIOUS
<1>2. x = [form |-> x.form, req |-> x.req, saved |-> x.saved] /\ NoBlanks(x.req.items)
    BY <1>1 DEF FrontInv
<1>3. fed' = [fed EXCEPT ![t].form = f, ![t].saved = no] /\ UNCHANGED front
    BY <1>1 DEF set
<1>4. [x EXCEPT !.form = f, !.saved = no] = [form |-> f, req |-> x.req, saved |-> no]
    <2>1. PICK y : y = [x EXCEPT !.form = f]
        OBVIOUS
    <2>2. y = [form |-> f, req |-> x.req, saved |-> x.saved]
        BY <1>2, <2>1
    <2>3. [x EXCEPT !.form = f, !.saved = no] = [y EXCEPT !.saved = no]
        BY ZenonT(40), <2>1
    <2>4. [y EXCEPT !.saved = no] = [form |-> f, req |-> x.req, saved |-> no]
        BY <2>2
    <2>5. QED
        BY <2>3, <2>4
<1>5. fed' = [fed EXCEPT ![t] = [x EXCEPT !.form = f, !.saved = no]]
    BY ZenonT(40), <1>1, <1>3 DEF FrontInv
<1>6. PICK q : q = x.req /\ NoBlanks(q.items)
    BY <1>2
<1>7. fed' = [fed EXCEPT ![t] = [form |-> f, req |-> q, saved |-> no]]
    BY <1>4, <1>5, <1>6
<1>8. QED
    BY <1>3, <1>6, <1>7, FedChanges

(* What a form becomes when something in it changes. *)
LEMMA FormChanges ==
    ASSUME NEW f, IsForm(f)
    PROVE  /\ \A look : IsForm([f EXCEPT !.look = look])
           /\ \A on : IsForm([f EXCEPT !.enabled = on])
           /\ \A c : Listed(c) => IsForm([f EXCEPT !.items = c])
BY DEF IsForm

(* What is sent is what is stored, and has no blank item. *)
LEMMA FrontSteps ==
    ASSUME FrontInv, [Next]_storeVars
    PROVE  FrontInv'
<1>1. CASE UNCHANGED <<front, fed>>
    BY <1>1 DEF FrontInv
<1>2. ASSUME NEW t \in Tabs
      PROVE  IsForm(fed[t].form) /\ Listed(fed[t].form.items)
    BY DEF FrontInv, IsForm
<1>3. ASSUME NEW t \in Tabs, NEW f,
             (\E look \in Looks : f = [fed[t].form EXCEPT !.look = look])
                \/ f = [fed[t].form EXCEPT !.enabled = ~@],
             set(t, f)
      PROVE  FrontInv'
    <2>1. PICK g : g = fed[t].form /\ IsForm(g)
        BY <1>2
    <2>2. CASE \E look \in Looks : f = [fed[t].form EXCEPT !.look = look]
        <3>1. PICK look : f = [g EXCEPT !.look = look]
            BY <2>1, <2>2
        <3>2. IsForm(f)
            BY <2>1, <3>1, FormChanges
        <3>3. QED
            BY <1>3, <3>2, FormSet
    <2>3. CASE f = [fed[t].form EXCEPT !.enabled = ~@]
        <3>1. PICK on : on = ~g.enabled
            OBVIOUS
        <3>2. f = [g EXCEPT !.enabled = on]
            BY <2>1, <2>3, <3>1
        <3>3. IsForm(f)
            BY <2>1, <3>2, FormChanges
        <3>4. QED
            BY <1>3, <3>3, FormSet
    <2>4. QED
        BY <1>3, <2>2, <2>3
<1>4. ASSUME NEW t \in Tabs, NEW c, Listed(c), set(t, [fed[t].form EXCEPT !.items = c]) PROVE FrontInv'
    BY <1>2, <1>4, FormChanges, FormSet
<1>5. ASSUME NEW t \in Tabs, addTrustItem(t) PROVE FrontInv'
    <2>1. PICK c : c = Append(fed[t].form.items, Blank)
        OBVIOUS
    <2>2. set(t, [fed[t].form EXCEPT !.items = c])
        BY <1>5, <2>1 DEF addTrustItem
    <2>3. QED
        BY <1>2, <1>4, <2>1, <2>2, ListChanges
<1>6. ASSUME NEW t \in Tabs, NEW j, removeTrustItem(t, j) PROVE FrontInv'
    <2>1. PICK c : c = RemoveAt(fed[t].form.items, j)
        OBVIOUS
    <2>2. j \in DOMAIN fed[t].form.items /\ set(t, [fed[t].form EXCEPT !.items = c])
        BY <1>6, <2>1 DEF removeTrustItem
    <2>3. QED
        BY <1>2, <1>4, <2>1, <2>2, ListChanges
<1>7. ASSUME NEW t \in Tabs, NEW j, NEW x, setTrustItem(t, j, x) PROVE FrontInv'
    <2>1. PICK f, c : f = fed[t].form /\ c = [f.items EXCEPT ![j] = x]
        OBVIOUS
    <2>2. j \in DOMAIN f.items /\ set(t, [f EXCEPT !.items[j] = x])
        BY <1>7, <2>1 DEF setTrustItem
    <2>3. [f EXCEPT !.items[j] = x] = [f EXCEPT !.items = c]
        BY <2>1
    <2>4. Listed(c)
        BY <1>2, <2>1, <2>2, ListChanges
    <2>5. QED
        BY <1>4, <2>1, <2>2, <2>3, <2>4
<1>8. ASSUME NEW t \in Tabs, submitStorefront(t) PROVE FrontInv'
    <2>1. PICK x, f, c, no : x = fed[t] /\ no = FALSE /\ f = x.form /\ c = withoutBlanks(f.items)
        OBVIOUS
    <2>2. /\ x = [form |-> f, req |-> x.req, saved |-> x.saved] /\ IsForm(f)
        BY <2>1 DEF FrontInv
    <2>3. PICK q : q = [f EXCEPT !.items = c]
        OBVIOUS
    <2>4. UNCHANGED front /\ fed' = [fed EXCEPT ![t].saved = no, ![t].req = q]
        BY <1>8, <2>1, <2>3 DEF submitStorefront
    <2>5. q.items = c /\ NoBlanks(c)
        <3>1. q.items = c
            BY <2>2, <2>3 DEF IsForm
        <3>2. PICK S : f.items \in Seq(S)
            BY <2>2 DEF IsForm, Listed
        <3>3. NoBlanks(c)
            BY <2>1, <3>2, BlanksGo DEF NoBlanks
        <3>4. QED
            BY <3>1, <3>3
    <2>6. [x EXCEPT !.saved = no, !.req = q] = [form |-> f, req |-> q, saved |-> no]
        <3>1. PICK y : y = [x EXCEPT !.saved = no]
            OBVIOUS
        <3>2. y = [form |-> f, req |-> x.req, saved |-> no]
            BY <2>2, <3>1
        <3>3. [x EXCEPT !.saved = no, !.req = q] = [y EXCEPT !.req = q]
            BY ZenonT(40), <3>1
        <3>4. [y EXCEPT !.req = q] = [form |-> f, req |-> q, saved |-> no]
            BY <3>2
        <3>5. QED
            BY <3>3, <3>4
    <2>7. fed' = [fed EXCEPT ![t] = [x EXCEPT !.saved = no, !.req = q]]
        BY ZenonT(40), <2>1, <2>4 DEF FrontInv
    <2>8. fed' = [fed EXCEPT ![t] = [form |-> f, req |-> q, saved |-> no]]
        BY <2>6, <2>7
    <2>9. QED
        BY <2>2, <2>4, <2>5, <2>8, FedChanges
<1>9. ASSUME NEW t \in Tabs, updateStorefront(t) PROVE FrontInv'
    <2>1. PICK x, f, yes : x = fed[t] /\ yes = TRUE /\ f = x.form
        OBVIOUS
    <2>2. /\ x = [form |-> f, req |-> x.req, saved |-> x.saved] /\ IsForm(f) /\ NoBlanks(x.req.items)
        BY <2>1 DEF FrontInv
    <2>3. Staff[t] \in Orgs
        BY CatalogAssumption
    <2>4. front' = [front EXCEPT ![Staff[t]] = x.req] /\ fed' = [fed EXCEPT ![t].req = EMPTY, ![t].saved = yes]
        BY <1>9, <2>1 DEF updateStorefront
    <2>5. front' = [o \in Orgs |-> front'[o]] /\ \A o \in Orgs : NoBlanks(front'[o].items)
        BY <2>2, <2>3, <2>4 DEF FrontInv
    <2>6. [x EXCEPT !.req = EMPTY, !.saved = yes] = [form |-> f, req |-> EMPTY, saved |-> yes]
        <3>1. PICK y : y = [x EXCEPT !.req = EMPTY]
            OBVIOUS
        <3>2. y = [form |-> f, req |-> EMPTY, saved |-> x.saved]
            BY <2>2, <3>1
        <3>3. [x EXCEPT !.req = EMPTY, !.saved = yes] = [y EXCEPT !.saved = yes]
            BY ZenonT(40), <3>1
        <3>4. [y EXCEPT !.saved = yes] = [form |-> f, req |-> EMPTY, saved |-> yes]
            BY <3>2
        <3>5. QED
            BY <3>3, <3>4
    <2>7. fed' = [fed EXCEPT ![t] = [form |-> f, req |-> EMPTY, saved |-> yes]]
        <3>1. fed' = [fed EXCEPT ![t] = [x EXCEPT !.req = EMPTY, !.saved = yes]]
            BY ZenonT(40), <2>1, <2>4 DEF FrontInv
        <3>2. QED
            BY <2>6, <3>1
    <2>8. NoBlanks(EMPTY.items)
        BY DEF EMPTY, NoBlanks
    <2>9. PICK y : y = [form |-> f, req |-> EMPTY, saved |-> yes]
        OBVIOUS
    <2>10. y.form = f /\ y.req = EMPTY
        BY <2>9
    <2>11. ASSUME NEW u \in Tabs
           PROVE  /\ fed'[u] = [form |-> fed'[u].form, req |-> fed'[u].req, saved |-> fed'[u].saved]
                  /\ IsForm(fed'[u].form) /\ NoBlanks(fed'[u].req.items)
        <3>1. CASE u = t
            <4>1. fed'[u] = y
                BY <2>7, <2>9, <3>1 DEF FrontInv
            <4>2. QED
                BY <2>2, <2>8, <2>9, <2>10, <4>1
        <3>2. CASE u # t
            <4>1. fed'[u] = fed[u]
                BY <2>7, <3>2 DEF FrontInv
            <4>2. QED
                BY <4>1 DEF FrontInv
        <3>3. QED
            BY <3>1, <3>2
    <2>12. fed' = [u \in Tabs |-> fed'[u]]
        BY <2>7 DEF FrontInv
    <2>13. QED
        BY <2>5, <2>11, <2>12 DEF FrontInv
<1>10. ASSUME NEW t \in Tabs,
             \/ save(t) \/ updatePage(t) \/ answer(t) \/ loseAnswer(t) \/ leave(t)
             \/ \E e \in Events : getPage(t, e)
             \/ \E look \in Looks : setLook(t, look)
             \/ \E type \in addGroups : addBlock(t, type)
             \/ \E url \in Images : onUploaded(t, url)
             \/ editing(t) /\ editSection(t)
      PROVE  UNCHANGED <<front, fed>>
    BY <1>10 DEF save, updatePage, answer, loseAnswer, leave, getPage, setLook, addBlock, onUploaded,
        editSection, move, hide, removeBlock, addItem, setField, removeItem, moveLeft,
        setItem, setConfig, startUpload, change
<1> HIDE DEF FrontInv
<1>11. CASE EditorsNext
    <2>1. PICK t \in Tabs :
             \/ save(t) \/ updatePage(t) \/ answer(t) \/ loseAnswer(t) \/ leave(t)
             \/ \E e \in Events : getPage(t, e)
             \/ \E look \in Looks : setLook(t, look)
             \/ \E type \in addGroups : addBlock(t, type)
             \/ \E url \in Images : onUploaded(t, url)
             \/ editing(t) /\ editSection(t)
             \/ \E look \in Looks : set(t, [fed[t].form EXCEPT !.look = look])
             \/ set(t, [fed[t].form EXCEPT !.enabled = ~@])
             \/ addTrustItem(t) \/ submitStorefront(t) \/ updateStorefront(t)
             \/ \E j \in 1..Items : removeTrustItem(t, j) \/ \E x \in {Blank, "given"} : setTrustItem(t, j, x)
        BY <1>11 DEF EditorsNext
    <2>2. QED
        BY <1>1, <1>3, <1>5, <1>6, <1>7, <1>8, <1>9, <1>10, <2>1
<1>12. QED
    BY <1>1, <1>11 DEF Next, storeVars, editorVars

(* What the server keeps of a page and of a storefront. *)
LEMMA EditorsTypes ==
    ASSUME EditorsInv, FrontInv
    PROVE  EditorsTypeOK
<1>1. \A e \in Events : eventPageBlocksSchema(page[e].blocks) /\ ~problem(page[e].blocks)
    BY DEF EditorsInv, IsPage
<1>2. \A o \in Orgs : Blank \notin ToSet(front[o].items)
    BY DEF FrontInv, NoBlanks, ToSet
<1>3. QED
    BY <1>1, <1>2 DEF EditorsTypeOK

(* A customer is anonymous under a pseudonym, and without a phone. *)
LEMMA CustomersTypes ==
    ASSUME DataInv
    PROVE  CustomersTypeOK
<1>1. \A m \in Emails : cust[m].bought \in Ages /\ (cust[m].anon => m[1] # "real" /\ cust[m].phone = NoPhone)
    BY DEF DataInv, CustomerData
<1>2. \A o \in Orders : order[o].email \in Emails \cup {NoOrder.email}
    BY DEF DataInv, OrderData, NoOrder, Nobody
<1>3. QED
    BY <1>1, <1>2 DEF CustomersTypeOK

(* A checkout awaits one look-up, and pays for an order it has. *)
LEMMA ShopTypes ==
    ASSUME ShopInv
    PROVE  ShopTypeOK
<1>1. ASSUME NEW b \in Buyers PROVE PageOK(buy[b]) /\ Matches(buy[b], pay[b])
    BY DEF ShopInv, TabFine
<1>2. ASSUME NEW b \in Buyers PROVE Cardinality(buy[b].asks) <= 1
    <2>1. \A a, c \in buy[b].asks : a = c
        BY <1>1 DEF PageOK
    <2>2. CASE buy[b].asks = {}
        BY <2>2, FS_EmptySet
    <2>3. CASE buy[b].asks # {}
        <3>1. PICK a \in buy[b].asks : buy[b].asks = {a}
            BY <2>1, <2>3
        <3>2. Cardinality(buy[b].asks) = 1
            BY <3>1, FS_Singleton
        <3>3. QED
            BY <3>2
    <2>4. QED
        BY <2>2, <2>3
<1>3. QED
    BY <1>1, <1>2 DEF ShopTypeOK, PageOK, Matches

(* What the store keeps is what its writers check: no page without a place *)
(* to sell tickets, with a section twice or with one that holds nothing    *)
(* (event-page/schemas.ts, page-editor.tsx), no blank item in a            *)
(* storefront, no link without an assignment, no code twice for an event   *)
(* though the look-up and the write are apart (schema.prisma, Coupon), no  *)
(* anonymous customer with an e-mail or a phone, and no tab that awaits    *)
(* two look-ups or pays for no order (checkout-form.tsx).                  *)
THEOREM TypesHold == Spec => []StoreTypeOK
<1> DEFINE Inv == /\ CatalogInv /\ WarmInv /\ PromotersInv /\ LinksInv
                  /\ EditorsInv /\ UploadInv /\ FrontInv /\ CheckoutInv
<1>1. ASSUME Init PROVE Inv
    <2>1. CatalogInit /\ EditorsInit /\ PromotersInit /\ CustomersInit /\ ShopInit
        BY <1>1 DEF Init
    <2>2. CatalogInv /\ CheckoutInv /\ EditorsInv /\ UploadInv
        BY <1>1, <2>1, CatalogStarts, CheckoutStart, EditorsStart
    <2>3. WarmInv
        BY <2>1 DEF CatalogInit, WarmInv
    <2>4. PromotersInv
        BY <2>1, PromotersStart
    <2>5. LinksInv
        BY <2>1 DEF PromotersInit, LinksInv
    <2>6. FrontInv
        <3>1. IsForm(EMPTY) /\ NoBlanks(EMPTY.items)
            BY DEF IsForm, EMPTY, Listed, NoBlanks
        <3>2. /\ front = [o \in Orgs |-> EMPTY]
              /\ fed = [t \in Tabs |-> [form |-> EMPTY, req |-> EMPTY, saved |-> FALSE]]
            BY <2>1 DEF EditorsInit
        <3>3. QED
            BY <3>1, <3>2 DEF FrontInv
    <2>7. QED
        BY <2>2, <2>3, <2>4, <2>5, <2>6
<1>2. Inv /\ [Next]_storeVars => Inv'
    BY CatalogSteps, WarmSteps, PromotersSteps, LinksSteps, EditorsSteps, FrontSteps, CheckoutGoesOn
<1>3. Inv => StoreTypeOK
    <2>1. SUFFICES ASSUME Inv PROVE StoreTypeOK
        OBVIOUS
    <2>2. PromotersTypeOK
        BY <2>1 DEF PromotersInv, PromoterRows, IsPromoter, LinksInv, PromotersTypeOK
    <2>3. QED
        BY <2>1, <2>2, CatalogTypes, EditorsTypes, CustomersTypes, ShopTypes DEF CheckoutInv, StoreTypeOK
<1>4. QED
    BY <1>1, <1>2, <1>3, PTL DEF Spec
================================================================================
