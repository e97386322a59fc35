-------------------------------- MODULE MCStore --------------------------------
(* Producers A and B with databases of their own; two tabs of A's panel    *)
(* and one of B's; a buyer at the checkout of A's event.  Each scenario    *)
(* lets one or two kinds of things happen, so that they interleave without *)
(* multiplying all the others.                                             *)
EXTENDS Store, TLC

CONSTANTS t1, t2, t3

MCDb == [o \in Orgs |-> o]
MCStaff == t1 :> "A" @@ t2 :> "A" @@ t3 :> "B"
MCFirstId == [p \in People |-> IF p = "ana" THEN 1 ELSE 2]
MCEmployer == [p \in Names |-> "A"]
MCFirstShelf ==
    [batch |-> [price |-> 1001, open |-> TRUE], product |-> [price |-> 350, open |-> TRUE],
     offer |-> [ticket |-> [own |-> 777, active |-> TRUE], product |-> [own |-> -1, active |-> TRUE]],
     inWindow |-> TRUE, valid |-> TRUE, coupon |-> [kind |-> "PERCENT", value |-> 1050],
     fee |-> [bps |-> 1250, mode |-> "BUYER"]]

Nothing == [staff |-> 0, visits |-> 0, admin |-> 0, faults |-> 0, edits |-> 0, window |-> 0,
            crm |-> 0, shop |-> 0, desk |-> 0, promo |-> 0]
NoEvents == [e \in Events |-> NoEvent]
First(status) ==
    [NoEvents EXCEPT ![1] = [NoEvent EXCEPT !.org = "A", !.slug = <<"show", 1>>,
        !.has = Details, !.batches = 1, !.status = status]]
Missing(what, batches) == [First("DRAFT") EXCEPT ![1].has = what, ![1].batches = batches]

Unknown == [p \in People |-> "no phone"]
Same == [p \in People |-> "phone1"]
Apart == [p \in People |-> IF p = "ana" THEN "phone1" ELSE "phone2"]

Scene(events, phones, limits) == [events |-> events, phones |-> phones, left |-> limits]
MCScenarios ==
    { Scene(NoEvents, Unknown, [Nothing EXCEPT !.staff = 3, !.visits = 1, !.faults = 1]),
      Scene(Missing({"city", "venueName"}, 0), Unknown, [Nothing EXCEPT !.staff = 4]),
      Scene(First("SALES_PAUSED"), Unknown, [Nothing EXCEPT !.staff = 4]),
      Scene(First("SALES_CLOSED"), Unknown, [Nothing EXCEPT !.staff = 4]),
      Scene(First("PUBLISHED"), Unknown, [Nothing EXCEPT !.staff = 1, !.visits = 2, !.admin = 2]),
      Scene(First("PUBLISHED"), Unknown, [Nothing EXCEPT !.edits = 2, !.faults = 1]),
      Scene(First("DRAFT"), Unknown, [Nothing EXCEPT !.window = 4]),
      Scene(First("PUBLISHED"), Unknown, [Nothing EXCEPT !.promo = 3, !.faults = 1, !.visits = 1]),
      Scene(First("PUBLISHED"), Unknown, [Nothing EXCEPT !.crm = 4, !.faults = 1]),
      Scene(First("PUBLISHED"), Apart, [Nothing EXCEPT !.shop = 4, !.faults = 1]),
      Scene(First("CANCELLED"), Unknown, [Nothing EXCEPT !.edits = 1]),
      Scene(First("PUBLISHED"), Apart, [Nothing EXCEPT !.shop = 2, !.crm = 1]),
      Scene(First("PUBLISHED"), Same, [Nothing EXCEPT !.shop = 3, !.crm = 1]),
      Scene(First("PUBLISHED"), Unknown, [Nothing EXCEPT !.shop = 3, !.desk = 1]) }

(* A contact who is erased by the retention job, and comes back.           *)
MCReturning == { Scene(First("PUBLISHED"), Unknown, [Nothing EXCEPT !.crm = 5]) }

Symmetry == Permutations({t1, t2}) \cup Permutations(Workers)
================================================================================
