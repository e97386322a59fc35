----------------------------- MODULE CheckInProofs -----------------------------
(***************************************************************************)
(* CheckIn, for any number of tickets, devices, requests, scans, undos,    *)
(* support operations, lost answers and crashes: types, the safety         *)
(* invariants of the gate, and that a void ticket stays void.              *)
(***************************************************************************)
EXTENDS CheckIn, FiniteSetTheorems, TLAPS

Outcomes == {"applied", "duplicate", "conflict", "rejected"}
Running ==
    [op : {"admit", "sync", "undo", "transfer"},
     step : {"claim", "record", "next", "existing", "create", "mark", "revert", "delete", "rotate"},
     device : Devices \cup {Desk}, token : Tokens, left : SUBSET Tokens,
     results : SUBSET (Tokens \X Outcomes)]

(* A device that waits for a scan waits for the request that admits it. *)
Waits ==
    \A d \in Devices : scanning[d] # NoWorker =>
        LET r == request[scanning[d]] IN r # Free /\ r.op = "admit" /\ r.device = d

-------------------------------------------------------------------------------
(* Types                                                                   *)

(* A request, the ticket and the place it is about, are typed. *)
LEMMA RunningType ==
    ASSUME TypeOK, NEW w \in Workers
    PROVE  /\ request \in [Workers -> {Free} \cup Running]
           /\ request[w] # Free => /\ request[w] \in Running
                                   /\ request[w].token \in Tokens /\ ticketOf(w) \in Tickets
                                   /\ request[w].device \in Devices \cup {Desk}
BY DEF TypeOK, RequestState, Running, Outcomes, ticketOf, Tokens

(* The requests stay typed when one of them becomes a typed one, ... *)
LEMMA TypeRequest ==
    ASSUME TypeOK, NEW w \in Workers, NEW r \in {Free} \cup Running,
           request' = [request EXCEPT ![w] = r]
    PROVE  request' \in [Workers -> RequestState]
BY DEF TypeOK, RequestState, Running, Outcomes

(* ... when one goes on, ... *)
LEMMA TypeGoto ==
    ASSUME TypeOK, NEW w \in Workers, request[w] # Free,
           NEW step \in {"claim", "record", "next", "existing", "create", "mark",
                         "revert", "delete", "rotate"},
           goto(w, step)
    PROVE  request' \in [Workers -> RequestState]
<1>1. request[w] \in Running
    BY RunningType
<1>2. [request[w] EXCEPT !.step = step] \in Running
    BY <1>1 DEF Running
<1>3. QED
    BY <1>2, TypeRequest DEF goto

(* ... when one ends, and ... *)
LEMMA TypeEnds ==
    ASSUME TypeOK, NEW w \in Workers, ends(w)
    PROVE  request' \in [Workers -> RequestState]
BY DEF TypeOK, ends, RequestState

(* ... when one starts. *)
LEMMA TypeBegins ==
    ASSUME TypeOK, NEW w \in Workers,
           NEW op \in {"admit", "sync", "undo", "transfer"},
           NEW step \in {"claim", "next", "revert", "rotate"},
           NEW d \in Devices \cup {Desk}, NEW k \in Tokens, NEW left \in SUBSET Tokens,
           begins(w, Request(op, step, d, k, left))
    PROVE  request' \in [Workers -> RequestState]
<1>1. Request(op, step, d, k, left) \in Running
    BY DEF Request, Running
<1>2. QED
    BY <1>1, TypeRequest DEF begins

(* The outcome of an item joins the results of its request. *)
LEMMA TypeYields ==
    ASSUME TypeOK, NEW w \in Workers, request[w] # Free, NEW k \in Tokens, NEW o \in Outcomes,
           yields(w, k, o)
    PROVE  request' \in [Workers -> RequestState]
<1>1. request[w] \in Running
    BY RunningType
<1>2. request' = [request EXCEPT ![w] = [request[w] EXCEPT
                      !.step = "next", !.left = request[w].left \ {k},
                      !.results = request[w].results \cup {<<k, o>>}]]
    BY <1>1, RunningType DEF yields
<1>3. /\ request[w].left \ {k} \in SUBSET Tokens
      /\ request[w].results \cup {<<k, o>>} \in SUBSET (Tokens \X Outcomes)
    BY <1>1 DEF Running
<1>4. ASSUME NEW left \in SUBSET Tokens, NEW results \in SUBSET (Tokens \X Outcomes)
      PROVE  [request[w] EXCEPT !.step = "next", !.left = left, !.results = results] \in Running
    BY <1>1 DEF Running
<1>5. QED
    BY <1>2, <1>3, <1>4, TypeRequest

(* No more is spent than there is. *)
LEMMA TypeSpends ==
    ASSUME TypeOK, NEW x \in Kinds, spends(x)
    PROVE  spent' \in [Kinds -> Nat] /\ \A y \in Kinds : spent'[y] <= Budget[y]
<1>1. /\ spent \in [Kinds -> Nat] /\ \A y \in Kinds : spent[y] <= Budget[y]
      /\ Budget[x] \in Nat
    BY CheckInAssumption DEF TypeOK
<1>2. spent' = [spent EXCEPT ![x] = spent[x] + 1] /\ spent[x] < Budget[x]
    BY <1>1 DEF spends
<1>3. spent[x] + 1 \in Nat /\ spent[x] + 1 <= Budget[x]
    BY <1>1, <1>2
<1>4. QED
    BY <1>1, <1>2, <1>3

(* The three stores of a device. *)
LEMMA Stores ==
    TypeOK => /\ pack \in [Devices -> SUBSET Tokens]
              /\ used \in [Devices -> SUBSET Tokens]
              /\ queue \in [Devices -> SUBSET Tokens]
BY DEF TypeOK

(* A token names a ticket, and a ticket has a token. *)
LEMMA TokenType ==
    ASSUME TypeOK
    PROVE  /\ \A k \in Tokens : k[1] \in Tickets
           /\ \A t \in Tickets : TokenOf(t) \in Tokens /\ TokenOf(t)[1] = t
           /\ Tickets \X {0} \subseteq Tokens
<1>1. \A t \in Tickets : gen[t] \in 0..MaxGen
    BY DEF TypeOK
<1>2. 0 \in 0..MaxGen
    BY CheckInAssumption
<1>3. QED
    BY <1>1, <1>2 DEF Tokens, TokenOf

(* The initial state is well typed. *)
LEMMA TypeInit == Init => TypeOK
<1> SUFFICES ASSUME Init PROVE TypeOK
    OBVIOUS
<1>1. 0 \in 0..MaxGen
    BY CheckInAssumption
<1>2. Tickets \X {0} \subseteq Tokens
    BY <1>1 DEF Tokens
<1>3. \A store \in {pack, used, queue} : store \in [Devices -> SUBSET Tokens]
    BY <1>2 DEF Init
<1>4. request \in [Workers -> RequestState]
    BY DEF Init, RequestState
<1>5. /\ told \in [Devices -> SUBSET (Tokens \X Outcomes)]
      /\ offline \in [Devices -> SUBSET Tickets]
      /\ accepted \in [Tickets -> Nat] /\ undos \in [Tickets -> Nat]
      /\ gen \in [Tickets -> 0..MaxGen]
      /\ spent \in [Kinds -> Nat] /\ \A x \in Kinds : spent[x] <= Budget[x]
    BY <1>1, CheckInAssumption DEF Init
<1>6. /\ status \in [Tickets -> TicketStatus]
      /\ row \in [Tickets -> Devices \cup {Desk, NoRow}]
      /\ scanning \in [Devices -> Workers \cup {NoWorker}]
      /\ syncing \in [Devices -> Workers \cup {NoWorker}]
    BY DEF Init, TicketStatus
<1>7. QED
    BY <1>3, <1>4, <1>5, <1>6 DEF TypeOK, Outcomes

(* A local admission keeps the stores of the devices typed, ... *)
LEMMA TypeLocally ==
    ASSUME TypeOK, NEW d \in Devices, NEW k \in Tokens, admitLocally(d, k)
    PROVE  /\ \A store \in {pack', used', queue'} : store \in [Devices -> SUBSET Tokens]
           /\ offline' \in [Devices -> SUBSET Tickets]
<1>1. pack' \in [Devices -> SUBSET Tokens]
    BY Stores DEF admitLocally
<1>2. used' \in [Devices -> SUBSET Tokens] /\ queue' \in [Devices -> SUBSET Tokens]
    BY Stores DEF admitLocally
<1>3. offline' \in [Devices -> SUBSET Tickets]
    BY TokenType DEF admitLocally, TypeOK
<1>4. QED
    BY <1>1, <1>2, <1>3

(* ... and so does the turn to the pack after a scan without an answer. *)
LEMMA TypeFallBack ==
    ASSUME TypeOK, Waits, NEW d \in Devices, scanning[d] # NoWorker, fallBack(d)
    PROVE  /\ \A store \in {pack', used', queue'} : store \in [Devices -> SUBSET Tokens]
           /\ offline' \in [Devices -> SUBSET Tickets]
           /\ scanning' \in [Devices -> Workers \cup {NoWorker}]
<1>1. request[scanning[d]].token \in Tokens
    BY RunningType DEF Waits, TypeOK
<1>2. scanning' \in [Devices -> Workers \cup {NoWorker}]
    BY DEF fallBack, TypeOK
<1>3. CASE admitLocally(d, request[scanning[d]].token)
    BY <1>1, <1>2, <1>3, TypeLocally
<1>4. CASE UNCHANGED <<pack, used, queue, offline>>
    BY <1>2, <1>4 DEF TypeOK
<1>5. QED
    BY <1>3, <1>4 DEF fallBack

(* The device. *)
LEMMA TypeDevice ==
    ASSUME TypeOK, Waits, NEW d \in Devices,
           \/ downloadPack(d) \/ loseScan(d) \/ loseSync(d)
           \/ \E k \in Tokens : scanOffline(d, k)
    PROVE  TypeOK'
<1>1. CASE downloadPack(d)
    <2>1. pack' \in [Devices -> SUBSET Tokens]
        BY <1>1, Stores, TokenType DEF downloadPack
    <2>2. UNCHANGED <<server, used, queue, scanning, syncing, request, history, spent>>
        BY <1>1 DEF downloadPack
    <2>3. QED
        BY <2>1, <2>2 DEF TypeOK, server, history
<1>2. CASE loseScan(d)
    <2>1. /\ \A store \in {pack', used', queue'} : store \in [Devices -> SUBSET Tokens]
          /\ offline' \in [Devices -> SUBSET Tickets]
          /\ scanning' \in [Devices -> Workers \cup {NoWorker}]
        BY <1>2, TypeFallBack DEF loseScan
    <2>2. spent' \in [Kinds -> Nat] /\ \A y \in Kinds : spent'[y] <= Budget[y]
        BY <1>2, TypeSpends DEF loseScan, Kinds
    <2>3. UNCHANGED <<server, syncing, request, accepted, told, undos>>
        BY <1>2 DEF loseScan
    <2>4. QED
        BY <2>1, <2>2, <2>3 DEF TypeOK, server
<1>3. CASE loseSync(d)
    <2>1. syncing' \in [Devices -> Workers \cup {NoWorker}]
        BY <1>3 DEF loseSync, TypeOK
    <2>2. spent' \in [Kinds -> Nat] /\ \A y \in Kinds : spent'[y] <= Budget[y]
        BY <1>3, TypeSpends DEF loseSync, Kinds
    <2>3. UNCHANGED <<server, pack, used, queue, scanning, request, history>>
        BY <1>3 DEF loseSync
    <2>4. QED
        BY <2>1, <2>2, <2>3 DEF TypeOK, server, history
<1>4. ASSUME NEW k \in Tokens, scanOffline(d, k) PROVE TypeOK'
    <2>1. /\ \A store \in {pack', used', queue'} : store \in [Devices -> SUBSET Tokens]
          /\ offline' \in [Devices -> SUBSET Tickets]
        BY <1>4, TypeLocally DEF scanOffline
    <2>2. spent' \in [Kinds -> Nat] /\ \A y \in Kinds : spent'[y] <= Budget[y]
        BY <1>4, TypeSpends DEF scanOffline, Kinds
    <2>3. UNCHANGED <<server, scanning, syncing, request, accepted, told, undos>>
        BY <1>4 DEF scanOffline
    <2>4. QED
        BY <2>1, <2>2, <2>3 DEF TypeOK, server
<1>5. QED
    BY <1>1, <1>2, <1>3, <1>4

(* The start of a request by a scan, the desk or the support. *)
LEMMA TypeStarts ==
    ASSUME TypeOK, NEW w \in Workers,
           \/ \E d \in Devices, k \in Tokens : validateAndCheckIn(w, d, k)
           \/ \E t \in Tickets : manualCheckIn(w, t) \/ undoCheckIn(w, t) \/ transferTicket(w, t)
    PROVE  TypeOK'
<1>1. ASSUME NEW d \in Devices, NEW k \in Tokens, validateAndCheckIn(w, d, k) PROVE TypeOK'
    <2>1. request' \in [Workers -> RequestState]
        BY <1>1, TypeBegins DEF validateAndCheckIn
    <2>2. scanning' \in [Devices -> Workers \cup {NoWorker}]
        BY <1>1 DEF validateAndCheckIn, TypeOK
    <2>3. spent' \in [Kinds -> Nat] /\ \A y \in Kinds : spent'[y] <= Budget[y]
        BY <1>1, TypeSpends DEF validateAndCheckIn, Kinds
    <2>4. UNCHANGED <<server, pack, used, queue, syncing, history>>
        BY <1>1 DEF validateAndCheckIn
    <2>5. QED
        BY <2>1, <2>2, <2>3, <2>4 DEF TypeOK, server, history
<1>2. ASSUME NEW t \in Tickets, manualCheckIn(w, t) \/ undoCheckIn(w, t) \/ transferTicket(w, t)
      PROVE  TypeOK'
    <2>1. request' \in [Workers -> RequestState]
        BY <1>2, TypeBegins, TokenType DEF manualCheckIn, undoCheckIn, transferTicket
    <2>2. spent' \in [Kinds -> Nat] /\ \A y \in Kinds : spent'[y] <= Budget[y]
        BY <1>2, TypeSpends DEF manualCheckIn, undoCheckIn, transferTicket, Kinds
    <2>3. UNCHANGED <<server, device, history>>
        BY <1>2 DEF manualCheckIn, undoCheckIn, transferTicket
    <2>4. QED
        BY <2>1, <2>2, <2>3 DEF TypeOK, server, device, history
<1>3. QED
    BY <1>1, <1>2

(* A guarded update and the creation of a row. *)
LEMMA TypeUpdate ==
    ASSUME TypeOK, NEW t \in Tickets, NEW from, NEW to \in TicketStatus, updateStatus(t, from, to)
    PROVE  status' \in [Tickets -> TicketStatus]
BY DEF TypeOK, updateStatus

(* The answer of a scan. *)
LEMMA TypeAnswer ==
    ASSUME TypeOK, NEW w, answerScan(w)
    PROVE  scanning' \in [Devices -> Workers \cup {NoWorker}]
BY DEF TypeOK, answerScan

(* The admission. *)
LEMMA TypeAdmit ==
    ASSUME TypeOK, NEW w \in Workers, claim(w) \/ record(w)
    PROVE  TypeOK'
<1>0. request[w] # Free /\ ticketOf(w) \in Tickets /\ request[w].device \in Devices \cup {Desk}
    BY RunningType DEF claim, record, at
<1>1. CASE claim(w)
    <2>1. status' \in [Tickets -> TicketStatus]
        BY <1>0, <1>1, TypeUpdate DEF claim, TicketStatus
    <2>2. request' \in [Workers -> RequestState]
        BY <1>0, <1>1, TypeGoto, TypeEnds DEF claim
    <2>3. scanning' \in [Devices -> Workers \cup {NoWorker}]
        BY <1>1, TypeAnswer DEF claim, TypeOK
    <2>4. UNCHANGED <<gen, row, pack, used, queue, syncing, history, spent>>
        BY <1>1 DEF claim
    <2>5. QED
        BY <2>1, <2>2, <2>3, <2>4 DEF TypeOK, history
<1>2. CASE record(w)
    <2>1. row' \in [Tickets -> Devices \cup {Desk, NoRow}]
        BY <1>0, <1>2 DEF record, createRow, TypeOK
    <2>2. accepted' \in [Tickets -> Nat]
        BY <1>0, <1>2 DEF record, TypeOK
    <2>3. /\ request' \in [Workers -> RequestState]
          /\ scanning' \in [Devices -> Workers \cup {NoWorker}]
        BY <1>2, TypeEnds, TypeAnswer DEF record
    <2>4. UNCHANGED <<status, gen, pack, used, queue, syncing, offline, told, undos, spent>>
        BY <1>2 DEF record
    <2>5. QED
        BY <2>1, <2>2, <2>3, <2>4 DEF TypeOK
<1>3. QED
    BY <1>1, <1>2

(* The synchronization. *)
LEMMA TypeSync ==
    ASSUME TypeOK, NEW w \in Workers,
           \/ \E d \in Devices : syncQueue(w, d)
           \/ \E k \in Tokens : syncFind(w, k)
           \/ syncExisting(w) \/ syncCreate(w) \/ syncMark(w)
    PROVE  TypeOK'
<1>1. ASSUME NEW d \in Devices, syncQueue(w, d) PROVE TypeOK'
    <2>1. queue[d] \in SUBSET Tokens /\ queue[d] # {}
        BY <1>1, Stores DEF syncQueue
    <2>2. (CHOOSE k \in queue[d] : TRUE) \in Tokens
        BY <2>1
    <2>3. request' \in [Workers -> RequestState]
        BY <1>1, <2>1, <2>2, TypeBegins DEF syncQueue
    <2>4. syncing' \in [Devices -> Workers \cup {NoWorker}]
        BY <1>1 DEF syncQueue, TypeOK
    <2>5. UNCHANGED <<server, pack, used, queue, scanning, history, spent>>
        BY <1>1 DEF syncQueue
    <2>6. QED
        BY <2>3, <2>4, <2>5 DEF TypeOK, server, history
<1>2. ASSUME NEW k \in Tokens, syncFind(w, k) PROVE TypeOK'
    <2>1. request[w] # Free /\ request[w] \in Running
        BY <1>2, RunningType DEF syncFind, at
    <2>2. CASE yields(w, k, "rejected")
        <3>1. request' \in [Workers -> RequestState]
            BY <2>1, <2>2, TypeYields DEF Outcomes
        <3>2. QED
            BY <1>2, <3>1 DEF syncFind, TypeOK, server, device, history
    <2>3. CASE request' = [request EXCEPT ![w].token = k, ![w].step = "existing"]
        <3>1. [request[w] EXCEPT !.token = k, !.step = "existing"] \in Running
            BY <2>1 DEF Running
        <3>2. request' = [request EXCEPT ![w] = [request[w] EXCEPT !.token = k, !.step = "existing"]]
            BY <2>3, RunningType
        <3>3. request' \in [Workers -> RequestState]
            BY <3>1, <3>2, TypeRequest
        <3>4. QED
            BY <1>2, <3>3 DEF syncFind, TypeOK, server, device, history
    <2>4. QED
        BY <1>2, <2>2, <2>3 DEF syncFind
<1>3. CASE syncExisting(w)
    <2>1. request[w] # Free /\ request[w].token \in Tokens /\ found(w) \in Outcomes
        BY <1>3, RunningType DEF syncExisting, at, found, Outcomes
    <2>2. request' \in [Workers -> RequestState]
        BY <1>3, <2>1, TypeGoto, TypeYields DEF syncExisting
    <2>3. QED
        BY <1>3, <2>2 DEF syncExisting, TypeOK, server, device, history
<1>4. CASE syncCreate(w)
    <2>1. /\ request[w] # Free /\ request[w].token \in Tokens /\ "conflict" \in Outcomes
          /\ request[w].device \in Devices \cup {Desk}
        BY <1>4, RunningType DEF syncCreate, at, Outcomes
    <2>2. request' \in [Workers -> RequestState]
        BY <1>4, <2>1, TypeGoto, TypeYields DEF syncCreate
    <2>3. row' \in [Tickets -> Devices \cup {Desk, NoRow}]
        BY <1>4, <2>1 DEF syncCreate, createRow, TypeOK
    <2>4. QED
        BY <1>4, <2>2, <2>3 DEF syncCreate, TypeOK, device, history
<1>5. CASE syncMark(w)
    <2>1. /\ request[w] # Free /\ request[w].token \in Tokens /\ "applied" \in Outcomes
          /\ ticketOf(w) \in Tickets
        BY <1>5, RunningType DEF syncMark, at, Outcomes
    <2>2. request' \in [Workers -> RequestState]
        BY <1>5, <2>1, TypeYields DEF syncMark
    <2>3. status' \in [Tickets -> TicketStatus]
        BY <1>5, <2>1, TypeUpdate DEF syncMark, TicketStatus
    <2>4. QED
        BY <1>5, <2>2, <2>3 DEF syncMark, TypeOK, device, history
<1>6. QED
    BY <1>1, <1>2, <1>3, <1>4, <1>5

(* The answer of a synchronization. *)
LEMMA TypeSyncAnswer ==
    ASSUME TypeOK, NEW w \in Workers, syncAnswer(w)
    PROVE  TypeOK'
<1> DEFINE d == request[w].device
<1>1. request[w] # Free /\ request[w].results \subseteq Tokens \X Outcomes
    BY RunningType DEF syncAnswer, at, Running
<1>2. request' \in [Workers -> RequestState]
    BY TypeEnds DEF syncAnswer
<1>3. UNCHANGED <<server, pack, scanning, accepted, offline, undos, spent>>
    BY DEF syncAnswer
<1>4. CASE syncing[d] = w
    <2>1. queue' \in [Devices -> SUBSET Tokens] /\ used' \in [Devices -> SUBSET Tokens]
        BY <1>4, Stores DEF syncAnswer
    <2>2. told' = [told EXCEPT ![d] = @ \cup request[w].results]
        BY <1>4 DEF syncAnswer
    <2>3. told' \in [Devices -> SUBSET (Tokens \X Outcomes)]
        BY <1>1, <2>2 DEF TypeOK, Outcomes
    <2>4. syncing' \in [Devices -> Workers \cup {NoWorker}]
        BY <1>4 DEF syncAnswer, TypeOK
    <2>5. pack' \in [Devices -> SUBSET Tokens]
        BY <1>3, Stores
    <2>6. QED
        BY <1>2, <1>3, <2>1, <2>3, <2>4, <2>5 DEF TypeOK, server, Outcomes
<1>5. CASE syncing[d] # w
    BY <1>2, <1>3, <1>5 DEF syncAnswer, TypeOK, server
<1>6. QED
    BY <1>4, <1>5

(* Undo, support and refund. *)
LEMMA TypeStaff ==
    ASSUME TypeOK,
           \/ \E w \in Workers : undoRevert(w) \/ undoDelete(w) \/ updateTokenHash(w)
           \/ \E t \in Tickets : blockTicket(t) \/ unblockTicket(t)
           \/ refundTicketsForOrder
    PROVE  TypeOK'
<1>1. ASSUME NEW w \in Workers, undoRevert(w) PROVE TypeOK'
    <2>1. request[w] # Free /\ ticketOf(w) \in Tickets
        BY <1>1, RunningType DEF undoRevert, at
    <2>2. request' \in [Workers -> RequestState]
        BY <1>1, <2>1, TypeGoto, TypeEnds DEF undoRevert
    <2>3. status' \in [Tickets -> TicketStatus]
        BY <1>1, <2>1, TypeUpdate DEF undoRevert, TicketStatus
    <2>4. undos' \in [Tickets -> Nat]
        BY <1>1, <2>1 DEF undoRevert, TypeOK
    <2>5. QED
        BY <1>1, <2>2, <2>3, <2>4 DEF undoRevert, TypeOK, device
<1>2. ASSUME NEW w \in Workers, undoDelete(w) PROVE TypeOK'
    <2>1. row' \in [Tickets -> Devices \cup {Desk, NoRow}]
        BY <1>2 DEF undoDelete, TypeOK
    <2>2. request' \in [Workers -> RequestState]
        BY <1>2, TypeEnds DEF undoDelete
    <2>3. QED
        BY <1>2, <2>1, <2>2 DEF undoDelete, TypeOK, device, history
<1>3. ASSUME NEW w \in Workers, updateTokenHash(w) PROVE TypeOK'
    <2>1. request[w] # Free /\ ticketOf(w) \in Tickets
        BY <1>3, RunningType DEF updateTokenHash, at
    <2>2. gen[ticketOf(w)] \in 0..MaxGen /\ gen[ticketOf(w)] < MaxGen
        BY <1>3, <2>1 DEF updateTokenHash, TypeOK
    <2>3. gen[ticketOf(w)] + 1 \in 0..MaxGen
        BY <2>2, CheckInAssumption
    <2>4. gen' \in [Tickets -> 0..MaxGen]
        BY <1>3, <2>1, <2>3 DEF updateTokenHash, TypeOK
    <2>5. request' \in [Workers -> RequestState]
        BY <1>3, TypeEnds DEF updateTokenHash
    <2>6. QED
        BY <1>3, <2>4, <2>5 DEF updateTokenHash, TypeOK, device, history
<1>4. ASSUME NEW t \in Tickets, unblockTicket(t) PROVE TypeOK'
    <2>1. status' \in [Tickets -> TicketStatus]
        BY <1>4, TypeUpdate DEF unblockTicket, TicketStatus
    <2>2. QED
        BY <1>4, <2>1 DEF unblockTicket, TypeOK, device, history
<1>5. ASSUME NEW t \in Tickets, blockTicket(t) PROVE TypeOK'
    <2>1. status' \in [Tickets -> TicketStatus]
        BY <1>5, TypeUpdate DEF blockTicket, TicketStatus
    <2>2. spent' \in [Kinds -> Nat] /\ \A y \in Kinds : spent'[y] <= Budget[y]
        BY <1>5, TypeSpends DEF blockTicket, Kinds
    <2>3. UNCHANGED <<gen, row, device, request, history>>
        BY <1>5 DEF blockTicket
    <2>4. QED
        BY <2>1, <2>2, <2>3 DEF TypeOK, device, history
<1>6. CASE refundTicketsForOrder
    <2>1. status' \in [Tickets -> TicketStatus]
        BY <1>6 DEF refundTicketsForOrder, TypeOK, TicketStatus
    <2>2. spent' \in [Kinds -> Nat] /\ \A y \in Kinds : spent'[y] <= Budget[y]
        BY <1>6, TypeSpends DEF refundTicketsForOrder, Kinds
    <2>3. UNCHANGED <<gen, row, device, request, history>>
        BY <1>6 DEF refundTicketsForOrder
    <2>4. QED
        BY <2>1, <2>2, <2>3 DEF TypeOK, device, history
<1>7. QED
    BY <1>1, <1>2, <1>3, <1>4, <1>5, <1>6

(* A request that stops. *)
LEMMA TypeDies ==
    ASSUME TypeOK, Waits, NEW w \in Workers, Dies(w)
    PROVE  TypeOK'
<1>1. request' \in [Workers -> RequestState]
    BY TypeEnds DEF Dies
<1>2. spent' \in [Kinds -> Nat] /\ \A y \in Kinds : spent'[y] <= Budget[y]
    BY TypeSpends DEF Dies, Kinds
<1>3. syncing' \in [Devices -> Workers \cup {NoWorker}]
    BY DEF Dies, TypeOK
<1>4. /\ \A store \in {pack', used', queue'} : store \in [Devices -> SUBSET Tokens]
      /\ offline' \in [Devices -> SUBSET Tickets]
      /\ scanning' \in [Devices -> Workers \cup {NoWorker}]
    <2>1. CASE UNCHANGED <<pack, used, queue, offline, scanning>>
        BY <2>1 DEF TypeOK
    <2>2. ASSUME NEW d \in Devices, scanning[d] = w, fallBack(d)
          PROVE  /\ \A store \in {pack', used', queue'} : store \in [Devices -> SUBSET Tokens]
                 /\ offline' \in [Devices -> SUBSET Tickets]
                 /\ scanning' \in [Devices -> Workers \cup {NoWorker}]
        BY <2>2, CheckInAssumption, TypeFallBack
    <2>3. QED
        BY <2>1, <2>2 DEF Dies
<1>5. UNCHANGED <<server, accepted, told, undos>>
    BY DEF Dies
<1>6. QED
    BY <1>1, <1>2, <1>3, <1>4, <1>5 DEF TypeOK, server

(* Every step keeps the types. *)
LEMMA TypeNext == TypeOK /\ Waits /\ [Next]_vars => TypeOK'
<1> SUFFICES ASSUME TypeOK, Waits, [Next]_vars PROVE TypeOK'
    OBVIOUS
<1>1. CASE UNCHANGED vars
    BY <1>1 DEF vars, server, device, history, TypeOK
<1>2. CASE Next
    BY <1>2, TypeDevice, TypeStarts, TypeAdmit, TypeSync, TypeSyncAnswer, TypeStaff, TypeDies
    DEF Next, Continue
<1>3. QED
    BY <1>1, <1>2

-------------------------------------------------------------------------------
(* One request at a time                                                   *)

(* What a worker may do next. *)
Handles(w) ==
    \/ \E d \in Devices : syncQueue(w, d)
    \/ \E d \in Devices, k \in Tokens : validateAndCheckIn(w, d, k)
    \/ \E t \in Tickets : manualCheckIn(w, t) \/ undoCheckIn(w, t) \/ transferTicket(w, t)
    \/ Continue(w) \/ Dies(w)

(* A request moves only by its worker, ... *)
LEMMA OneHandles ==
    ASSUME [Next]_vars
    PROVE  UNCHANGED request \/ \E w \in Workers : Handles(w)
BY DEF Next, vars, Handles, downloadPack, loseScan, loseSync, scanOffline, blockTicket,
       unblockTicket, refundTicketsForOrder

(* ... which moves no other. *)
LEMMA OthersWait ==
    ASSUME TypeOK, NEW w \in Workers, Handles(w), NEW v \in Workers \ {w}
    PROVE  request'[v] = request[v]
<1>0. request \in [Workers -> RequestState]
    BY DEF TypeOK
<1>1. CASE ends(w) \/ (\E step : goto(w, step)) \/ (\E r : begins(w, r)) \/ \E k, o : yields(w, k, o)
    BY <1>0, <1>1 DEF ends, goto, begins, yields
<1>2. CASE \/ \E d \in Devices : syncQueue(w, d)
           \/ \E d \in Devices, k \in Tokens : validateAndCheckIn(w, d, k)
           \/ \E t \in Tickets : manualCheckIn(w, t) \/ undoCheckIn(w, t) \/ transferTicket(w, t)
    BY <1>0, <1>2 DEF syncQueue, validateAndCheckIn, manualCheckIn, undoCheckIn, transferTicket, begins
<1>3. CASE claim(w) \/ record(w) \/ undoRevert(w) \/ undoDelete(w) \/ updateTokenHash(w) \/ Dies(w)
    BY <1>1, <1>3 DEF claim, record, undoRevert, undoDelete, updateTokenHash, Dies
<1>4. CASE syncExisting(w) \/ syncCreate(w) \/ syncMark(w) \/ syncAnswer(w)
    BY <1>1, <1>4 DEF syncExisting, syncCreate, syncMark, syncAnswer
<1>5. CASE \E k \in Tokens : syncFind(w, k)
    BY <1>0, <1>1, <1>5 DEF syncFind
<1>6. QED
    BY <1>2, <1>3, <1>4, <1>5 DEF Handles, Continue

(* Going on leaves everything else of a request. *)
LEMMA GotoFields ==
    ASSUME TypeOK, NEW w \in Workers, NEW step, request[w] # Free, goto(w, step)
    PROVE  /\ request[w] \in Running /\ request'[w].step = step /\ request'[w] # Free
           /\ request'[w].op = request[w].op /\ request'[w].device = request[w].device
           /\ request'[w].token = request[w].token /\ request'[w].results = request[w].results
<1>1. request[w] \in Running /\ w \in DOMAIN request
    BY RunningType
<1>2. request'[w] = [request[w] EXCEPT !.step = step]
    BY <1>1 DEF goto
<1>3. /\ request'[w].step = step /\ DOMAIN request'[w] = DOMAIN request[w]
      /\ request'[w].op = request[w].op /\ request'[w].device = request[w].device
      /\ request'[w].token = request[w].token /\ request'[w].results = request[w].results
    BY <1>1, <1>2 DEF Running
<1>4. request'[w] # Free
    BY <1>1, <1>3 DEF Free, Running
<1>5. QED
    BY <1>1, <1>3, <1>4

(* An outcome leaves everything else of a request but adds to its results. *)
LEMMA YieldsFields ==
    ASSUME TypeOK, NEW w \in Workers, NEW k, NEW o, request[w] # Free, yields(w, k, o)
    PROVE  /\ request[w] \in Running /\ request'[w].step = "next" /\ request'[w] # Free
           /\ request'[w].op = request[w].op /\ request'[w].device = request[w].device
           /\ request'[w].token = request[w].token
           /\ request'[w].results = request[w].results \cup {<<k, o>>}
<1>1. request[w] \in Running /\ w \in DOMAIN request
    BY RunningType
<1>2. request'[w] = [request[w] EXCEPT !.step = "next", !.left = request[w].left \ {k},
                                       !.results = request[w].results \cup {<<k, o>>}]
    BY <1>1 DEF yields
<1>3. /\ request'[w].step = "next" /\ DOMAIN request'[w] = DOMAIN request[w]
      /\ request'[w].op = request[w].op /\ request'[w].device = request[w].device
      /\ request'[w].token = request[w].token
      /\ request'[w].results = request[w].results \cup {<<k, o>>}
    BY <1>1, <1>2 DEF Running
<1>4. request'[w] # Free
    BY <1>1, <1>3 DEF Free, Running
<1>5. QED
    BY <1>1, <1>3, <1>4

(* A synchronization that takes up an item. *)
LEMMA TakesFields ==
    ASSUME TypeOK, NEW w \in Workers, NEW k, request[w] # Free,
           request' = [request EXCEPT ![w].token = k, ![w].step = "existing"]
    PROVE  /\ request[w] \in Running /\ request'[w].step = "existing" /\ request'[w] # Free
           /\ request'[w].op = request[w].op /\ request'[w].device = request[w].device
           /\ request'[w].token = k /\ request'[w].results = request[w].results
<1>1. request[w] \in Running /\ w \in DOMAIN request
    BY RunningType
<1>2. request'[w] = [request[w] EXCEPT !.token = k, !.step = "existing"]
    BY <1>1
<1>3. /\ request'[w].step = "existing" /\ DOMAIN request'[w] = DOMAIN request[w]
      /\ request'[w].op = request[w].op /\ request'[w].device = request[w].device
      /\ request'[w].token = k /\ request'[w].results = request[w].results
    BY <1>1, <1>2 DEF Running
<1>4. request'[w] # Free
    BY <1>1, <1>3 DEF Free, Running
<1>5. QED
    BY <1>1, <1>3, <1>4

(* A new request. *)
LEMMA BeginsFields ==
    ASSUME TypeOK, NEW w \in Workers, NEW op, NEW step, NEW d, NEW k, NEW left,
           begins(w, Request(op, step, d, k, left))
    PROVE  /\ request[w] = Free /\ request'[w].op = op /\ request'[w].step = step
           /\ request'[w].device = d /\ request'[w].token = k /\ request'[w].results = {}
           /\ request'[w] # Free
<1>1. request'[w] = Request(op, step, d, k, left) /\ request[w] = Free
    BY RunningType DEF begins
<1>2. DOMAIN request'[w] # DOMAIN Free
    BY <1>1 DEF Request, Free
<1>3. QED
    BY <1>1, <1>2 DEF Request

(* A request that goes on stays the same operation of the same device. *)
LEMMA SameRequest ==
    ASSUME TypeOK, NEW w \in Workers, Handles(w), request[w] # Free, request'[w] # Free
    PROVE  request'[w].op = request[w].op /\ request'[w].device = request[w].device
<1>1. ~ends(w) /\ \A r : ~begins(w, r)
    BY RunningType DEF ends, begins
<1>2. CASE (\E step : goto(w, step)) \/ \E k, o : yields(w, k, o)
    BY <1>2, GotoFields, YieldsFields
<1>3. CASE \/ \E d \in Devices : syncQueue(w, d)
           \/ \E d \in Devices, k \in Tokens : validateAndCheckIn(w, d, k)
           \/ \E t \in Tickets : manualCheckIn(w, t) \/ undoCheckIn(w, t) \/ transferTicket(w, t)
    BY <1>1, <1>3 DEF syncQueue, validateAndCheckIn, manualCheckIn, undoCheckIn, transferTicket
<1>4. CASE claim(w) \/ record(w) \/ undoRevert(w) \/ undoDelete(w) \/ updateTokenHash(w) \/ Dies(w)
    BY <1>1, <1>2, <1>4 DEF claim, record, undoRevert, undoDelete, updateTokenHash, Dies
<1>5. CASE syncExisting(w) \/ syncCreate(w) \/ syncMark(w) \/ syncAnswer(w)
    BY <1>1, <1>2, <1>5 DEF syncExisting, syncCreate, syncMark, syncAnswer
<1>6. ASSUME NEW k \in Tokens, syncFind(w, k)
      PROVE  request'[w].op = request[w].op /\ request'[w].device = request[w].device
    BY <1>2, <1>6, TakesFields DEF syncFind
<1>7. QED
    BY <1>3, <1>4, <1>5, <1>6 DEF Handles, Continue

(* A device starts to wait only with a request of its own. *)
LEMMA ScanStarts ==
    ASSUME TypeOK, [Next]_vars, NEW d \in Devices, scanning'[d] # NoWorker,
           scanning'[d] # scanning[d]
    PROVE  \E w \in Workers, k \in Tokens : validateAndCheckIn(w, d, k) /\ scanning'[d] = w
<1>1. CASE UNCHANGED scanning
    BY <1>1
<1>2. ASSUME NEW e \in Devices, fallBack(e) PROVE FALSE
    BY <1>2 DEF fallBack, TypeOK
<1>3. ASSUME NEW w, answerScan(w) PROVE FALSE
    BY <1>3 DEF answerScan, TypeOK
<1>4. ASSUME NEW w \in Workers, NEW e \in Devices, NEW k \in Tokens, validateAndCheckIn(w, e, k)
      PROVE  e = d /\ scanning'[d] = w
    BY <1>4 DEF validateAndCheckIn, TypeOK
<1>5. CASE \/ UNCHANGED vars
           \/ \E e \in Devices : \/ downloadPack(e) \/ loseSync(e)
                                 \/ \E k \in Tokens : scanOffline(e, k)
                                 \/ \E w \in Workers : syncQueue(w, e)
           \/ \E w \in Workers, t \in Tickets :
                 manualCheckIn(w, t) \/ undoCheckIn(w, t) \/ transferTicket(w, t)
           \/ \E t \in Tickets : blockTicket(t) \/ unblockTicket(t)
           \/ refundTicketsForOrder
    BY <1>1, <1>5 DEF vars, downloadPack, loseSync, scanOffline, syncQueue, manualCheckIn,
       undoCheckIn, transferTicket, blockTicket, unblockTicket, refundTicketsForOrder, device
<1>6. CASE \/ \E w \in Workers : \/ \E k \in Tokens : syncFind(w, k)
                                 \/ syncExisting(w) \/ syncCreate(w) \/ syncMark(w)
                                 \/ syncAnswer(w) \/ undoRevert(w) \/ undoDelete(w)
                                 \/ updateTokenHash(w)
    BY <1>1, <1>6 DEF syncFind, syncExisting, syncCreate, syncMark, syncAnswer, undoRevert,
       undoDelete, updateTokenHash, device
<1>7. CASE (\E e \in Devices : loseScan(e)) \/ (\E w \in Workers : claim(w) \/ record(w) \/ Dies(w))
    BY <1>1, <1>2, <1>3, <1>7 DEF loseScan, claim, record, Dies
<1>8. QED
    BY <1>4, <1>5, <1>6, <1>7 DEF Next, Continue

(* Devices go on waiting for their own requests. *)
LEMMA WaitsNext == TypeOK /\ Waits /\ [Next]_vars => Waits'
<1> SUFFICES ASSUME TypeOK, Waits, [Next]_vars, NEW d \in Devices, scanning'[d] # NoWorker
             PROVE  LET r == request'[scanning'[d]] IN r # Free /\ r.op = "admit" /\ r.device = d
    BY DEF Waits
<1>1. CASE scanning'[d] # scanning[d]
    <2>1. PICK w \in Workers, k \in Tokens : validateAndCheckIn(w, d, k) /\ scanning'[d] = w
        BY <1>1, ScanStarts
    <2>2. QED
        BY <2>1, BeginsFields DEF validateAndCheckIn
<1>2. CASE scanning'[d] = scanning[d]
    <2> DEFINE w == scanning[d]
    <2>1. w \in Workers /\ request[w] # Free /\ request[w].op = "admit" /\ request[w].device = d
        BY <1>2 DEF Waits, TypeOK
    <2>2. CASE request'[w] = request[w]
        BY <1>2, <2>1, <2>2
    <2>3. CASE Handles(w)
        <3>1. ~answerScan(w)
            BY <1>2, <2>1 DEF answerScan
        <3>2. /\ ~\E e \in Devices : syncQueue(w, e)
              /\ ~\E e \in Devices, k \in Tokens : validateAndCheckIn(w, e, k)
            BY <2>1 DEF syncQueue, validateAndCheckIn, begins
        <3>3. ~(\E t \in Tickets : manualCheckIn(w, t) \/ undoCheckIn(w, t) \/ transferTicket(w, t))
            BY <2>1 DEF manualCheckIn, undoCheckIn, transferTicket, begins
        <3>4. ~record(w)
            BY <3>1 DEF record
        <3>5. ~Dies(w)
            <4>1. ASSUME NEW e \in Devices, scanning[e] = w, fallBack(e) PROVE FALSE
                <5>1. e = d
                    BY <2>1, <4>1, CheckInAssumption DEF Waits
                <5>2. scanning'[d] = NoWorker
                    BY <4>1, <5>1 DEF fallBack, TypeOK
                <5>3. QED
                    BY <5>2
            <4>2. QED
                BY <4>1 DEF Dies
        <3>6. ~\/ \E k \in Tokens : syncFind(w, k)
               \/ syncExisting(w) \/ syncCreate(w) \/ syncMark(w) \/ syncAnswer(w)
               \/ undoRevert(w) \/ undoDelete(w) \/ updateTokenHash(w)
            BY <2>1 DEF syncFind, syncExisting, syncCreate, syncMark, syncAnswer, undoRevert,
               undoDelete, updateTokenHash, at
        <3>7. claim(w) /\ goto(w, "record")
            BY <2>3, <3>1, <3>2, <3>3, <3>4, <3>5, <3>6 DEF Handles, Continue, claim
        <3>8. QED
            BY <1>2, <2>1, <3>7, GotoFields
    <2>4. QED
        BY <2>1, <2>2, <2>3, OneHandles, OthersWait
<1>3. QED
    BY <1>1, <1>2

-------------------------------------------------------------------------------
(* What requests and devices were told                                     *)

(* Who was told that it admitted a ticket, has the ticket's row.           *)
KnownRow(d, S) ==
    \A x \in S : x[2] \in {"applied", "duplicate"} /\ undos[x[1][1]] = 0 => row[x[1][1]] = d

RequestKnows(w) ==
    LET r == request[w]
        t == ticketOf(w)
    IN  /\ r.op = "sync" => r.device \in Devices /\ KnownRow(r.device, r.results)
        /\ r.op = "sync" /\ r.step = "mark" /\ undos[t] = 0 => row[t] = r.device
        /\ r.op = "undo" /\ r.step = "delete" => undos[t] > 0

RequestsKnow == \A w \in Workers : request[w] # Free => RequestKnows(w)

(* A device that let a ticket in still has it in its queue, or was told    *)
(* what became of it.                                                      *)
DevicesKnow ==
    \A d \in Devices :
        /\ KnownRow(d, told[d])
        /\ \A t \in offline[d] : (\E k \in queue[d] : k[1] = t) \/ \E x \in told[d] : x[1][1] = t

Inv == TypeOK /\ Waits /\ RequestsKnow /\ DevicesKnow

(* Undos are only counted up, and a row goes only after an undo. *)
LEMMA UndosGrow ==
    ASSUME TypeOK, [Next]_vars, NEW t \in Tickets
    PROVE  undos'[t] \in Nat /\ undos[t] \in Nat /\ undos'[t] >= undos[t]
<1>0. undos \in [Tickets -> Nat]
    BY DEF TypeOK
<1>1. CASE UNCHANGED undos
    BY <1>0, <1>1
<1>2. ASSUME NEW w \in Workers, undoRevert(w)
      PROVE  undos'[t] \in Nat /\ undos[t] \in Nat /\ undos'[t] >= undos[t]
    BY <1>0, <1>2 DEF undoRevert
<1>3. ASSUME ~\E w \in Workers : undoRevert(w) PROVE UNCHANGED undos
    <2>1. CASE \/ UNCHANGED vars
               \/ \E e \in Devices : \/ downloadPack(e) \/ loseSync(e) \/ loseScan(e)
                                     \/ \E k \in Tokens : scanOffline(e, k)
                                     \/ \E w \in Workers : syncQueue(w, e)
                                     \/ \E w \in Workers, k \in Tokens : validateAndCheckIn(w, e, k)
               \/ \E w \in Workers, u \in Tickets :
                     manualCheckIn(w, u) \/ undoCheckIn(w, u) \/ transferTicket(w, u)
               \/ \E u \in Tickets : blockTicket(u) \/ unblockTicket(u)
               \/ refundTicketsForOrder
        BY <2>1 DEF vars, downloadPack, loseSync, loseScan, scanOffline, syncQueue,
           validateAndCheckIn, manualCheckIn, undoCheckIn, transferTicket, blockTicket,
           unblockTicket, refundTicketsForOrder, history
    <2>2. CASE \E w \in Workers : \/ \E k \in Tokens : syncFind(w, k)
                                  \/ syncExisting(w) \/ syncCreate(w) \/ syncMark(w)
                                  \/ syncAnswer(w) \/ undoDelete(w) \/ updateTokenHash(w)
                                  \/ claim(w) \/ record(w) \/ Dies(w)
        BY <2>2 DEF syncFind, syncExisting, syncCreate, syncMark, syncAnswer, undoDelete,
           updateTokenHash, claim, record, Dies, history
    <2>3. QED
        BY <1>3, <2>1, <2>2 DEF Next, Continue
<1>4. QED
    BY <1>1, <1>2, <1>3

(* A row that is there stays, while its ticket was never undone. *)
LEMMA RowStays ==
    ASSUME Inv, [Next]_vars, NEW t \in Tickets, row[t] # NoRow, undos'[t] = 0
    PROVE  row'[t] = row[t] /\ undos[t] = 0
<1>0. TypeOK /\ undos[t] = 0
    BY UndosGrow DEF Inv
<1>1. CASE UNCHANGED row
    BY <1>0, <1>1
<1>2. ASSUME NEW w \in Workers, record(w) \/ syncCreate(w) PROVE row'[t] = row[t]
    BY <1>0, <1>2 DEF record, syncCreate, createRow, TypeOK
<1>3. ASSUME NEW w \in Workers, undoDelete(w) PROVE row'[t] = row[t]
    <2>1. undos[ticketOf(w)] > 0
        BY <1>3 DEF undoDelete, at, Inv, RequestsKnow, RequestKnows
    <2>2. ticketOf(w) # t
        BY <1>0, <2>1
    <2>3. QED
        BY <1>0, <1>3, <2>2 DEF undoDelete, TypeOK
<1>4. ASSUME ~\E w \in Workers : record(w) \/ syncCreate(w) \/ undoDelete(w) PROVE UNCHANGED row
    <2>1. CASE \/ UNCHANGED vars
               \/ \E e \in Devices : \/ downloadPack(e) \/ loseSync(e) \/ loseScan(e)
                                     \/ \E k \in Tokens : scanOffline(e, k)
                                     \/ \E w \in Workers : syncQueue(w, e)
                                     \/ \E w \in Workers, k \in Tokens : validateAndCheckIn(w, e, k)
               \/ \E w \in Workers, u \in Tickets :
                     manualCheckIn(w, u) \/ undoCheckIn(w, u) \/ transferTicket(w, u)
               \/ \E u \in Tickets : blockTicket(u) \/ unblockTicket(u)
               \/ refundTicketsForOrder
        BY <2>1 DEF vars, downloadPack, loseSync, loseScan, scanOffline, syncQueue,
           validateAndCheckIn, manualCheckIn, undoCheckIn, transferTicket, blockTicket,
           unblockTicket, refundTicketsForOrder, server
    <2>2. CASE \E w \in Workers : \/ \E k \in Tokens : syncFind(w, k)
                                  \/ syncExisting(w) \/ syncMark(w) \/ syncAnswer(w)
                                  \/ undoRevert(w) \/ updateTokenHash(w) \/ claim(w) \/ Dies(w)
        BY <2>2 DEF syncFind, syncExisting, syncMark, syncAnswer, undoRevert,
           updateTokenHash, claim, Dies, server
    <2>3. QED
        BY <1>4, <2>1, <2>2 DEF Next, Continue
<1>5. QED
    BY <1>0, <1>1, <1>2, <1>3, <1>4

(* What was known of the rows stays known. *)
LEMMA KnownStays ==
    ASSUME Inv, [Next]_vars, NEW d \in Devices, NEW S \in SUBSET (Tokens \X Outcomes),
           KnownRow(d, S)
    PROVE  KnownRow(d, S)'
<1> SUFFICES ASSUME NEW x \in S, x[2] \in {"applied", "duplicate"}, undos'[x[1][1]] = 0
             PROVE  row'[x[1][1]] = d
    BY DEF KnownRow
<1>1. x[1][1] \in Tickets /\ TypeOK
    BY DEF Tokens, Inv
<1>2. undos[x[1][1]] = 0
    BY <1>1, UndosGrow
<1>3. row[x[1][1]] = d /\ d # NoRow
    BY <1>2, CheckInAssumption DEF KnownRow
<1>4. QED
    BY <1>1, <1>3, RowStays

(* A request that does not run still knows what it knew. *)
LEMMA OthersKnow ==
    ASSUME Inv, [Next]_vars, NEW w \in Workers, request[w] # Free, request'[w] = request[w]
    PROVE  RequestKnows(w)'
<1>1. /\ TypeOK /\ request[w] \in Running /\ ticketOf(w) \in Tickets /\ RequestKnows(w)
    BY RunningType DEF Inv, RequestsKnow
<1>2. request[w].op = "sync" => KnownRow(request[w].device, request[w].results)'
    BY <1>1, KnownStays DEF RequestKnows, KnownRow, Running
<1>3. ticketOf(w)' = ticketOf(w)
    BY DEF ticketOf
<1>4. ASSUME request[w].op = "sync", request[w].step = "mark", undos'[ticketOf(w)] = 0
      PROVE  row'[ticketOf(w)] = request[w].device
    <2>1. undos[ticketOf(w)] = 0 /\ request[w].device \in Devices
        BY <1>1, <1>4, UndosGrow DEF RequestKnows
    <2>2. row[ticketOf(w)] = request[w].device /\ row[ticketOf(w)] # NoRow
        BY <1>1, <1>4, <2>1, CheckInAssumption DEF RequestKnows
    <2>3. QED
        BY <1>1, <1>4, <2>2, RowStays
<1>5. request[w].op = "undo" /\ request[w].step = "delete" => undos'[ticketOf(w)] > 0
    BY <1>1, UndosGrow DEF RequestKnows
<1>6. QED
    BY <1>1, <1>2, <1>3, <1>4, <1>5 DEF RequestKnows, KnownRow

(* A synchronization that goes on with what it knew and one more outcome. *)
LEMMA SyncKnows ==
    ASSUME Inv, [Next]_vars, NEW w \in Workers, NEW k \in Tokens, NEW o \in Outcomes,
           request[w] # Free, request[w].op = "sync", yields(w, k, o),
           o \in {"applied", "duplicate"} /\ undos'[k[1]] = 0 => row'[k[1]] = request[w].device
    PROVE  RequestKnows(w)'
<1> DEFINE d == request[w].device
           S == request[w].results
<1>1. TypeOK /\ request[w] \in Running /\ RequestKnows(w)
    BY RunningType DEF Inv, RequestsKnow
<1>2. d \in Devices /\ S \in SUBSET (Tokens \X Outcomes) /\ KnownRow(d, S)
    BY <1>1 DEF RequestKnows, Running
<1>3. /\ request'[w].op = "sync" /\ request'[w].step = "next" /\ request'[w].device = d
      /\ request'[w].results = S \cup {<<k, o>>}
    BY <1>1, YieldsFields
<1>4. ASSUME NEW x \in S, x[2] \in {"applied", "duplicate"}, undos'[x[1][1]] = 0
      PROVE  row'[x[1][1]] = d
    BY <1>2, <1>4, KnownStays DEF KnownRow
<1>5. \A x \in S \cup {<<k, o>>} :
          x[2] \in {"applied", "duplicate"} /\ undos'[x[1][1]] = 0 => row'[x[1][1]] = d
    BY <1>4
<1>6. QED
    BY <1>2, <1>3, <1>5 DEF RequestKnows, KnownRow

(* Every request goes on knowing the rows it found or created. *)
LEMMA RequestsKnowNext == Inv /\ [Next]_vars => RequestsKnow'
<1> SUFFICES ASSUME Inv, [Next]_vars, NEW w \in Workers, request'[w] # Free
             PROVE  RequestKnows(w)'
    BY DEF RequestsKnow
<1>0. TypeOK
    BY DEF Inv
<1>1. CASE request'[w] = request[w]
    BY <1>1, OthersKnow
<1>2. CASE Handles(w)
    <2> DEFINE t == ticketOf(w)
    <2>1. ~ends(w)
        BY RunningType, <1>0 DEF ends
    <2>2. request[w] # Free => /\ RequestKnows(w) /\ request[w] \in Running
                               /\ request[w].token \in Tokens /\ t \in Tickets
        BY <1>0, RunningType DEF Inv, RequestsKnow
    <2>3. ASSUME NEW op \in {"admit", "sync", "undo", "transfer"},
                 NEW step \in {"claim", "next", "revert", "rotate"},
                 NEW d \in Devices \cup {Desk}, NEW k \in Tokens, NEW left,
                 op = "sync" => d \in Devices, begins(w, Request(op, step, d, k, left))
          PROVE  RequestKnows(w)'
        BY <1>0, <2>3, BeginsFields DEF RequestKnows, KnownRow
    <2>4. ASSUME NEW d \in Devices, syncQueue(w, d) PROVE RequestKnows(w)'
        <3>1. (CHOOSE k \in queue[d] : TRUE) \in Tokens
            BY <1>0, <2>4, Stores DEF syncQueue
        <3>2. QED
            BY <2>3, <2>4, <3>1 DEF syncQueue
    <2>5. ASSUME NEW d \in Devices, NEW k \in Tokens, validateAndCheckIn(w, d, k)
          PROVE  RequestKnows(w)'
        BY <2>3, <2>5 DEF validateAndCheckIn
    <2>6. ASSUME NEW u \in Tickets, manualCheckIn(w, u) \/ undoCheckIn(w, u) \/ transferTicket(w, u)
          PROVE  RequestKnows(w)'
        BY <1>0, <2>3, <2>6, TokenType DEF manualCheckIn, undoCheckIn, transferTicket
    <2>7. CASE claim(w)
        <3>1. request[w] # Free /\ request[w].op = "admit" /\ goto(w, "record")
            BY <2>1, <2>7 DEF claim, at
        <3>2. QED
            BY <1>0, <3>1, GotoFields DEF RequestKnows
    <2>8. ASSUME NEW k \in Tokens, syncFind(w, k) PROVE RequestKnows(w)'
        <3>1. request[w] # Free /\ request[w].op = "sync"
            BY <2>8 DEF syncFind, at
        <3>2. CASE yields(w, k, "rejected")
            BY <3>1, <3>2, SyncKnows DEF Outcomes
        <3>3. CASE request' = [request EXCEPT ![w].token = k, ![w].step = "existing"]
            <4>1. request[w].device \in Devices /\ request[w].results \in SUBSET (Tokens \X Outcomes)
                BY <2>2, <3>1 DEF RequestKnows, Running
            <4>2. /\ request'[w].op = "sync" /\ request'[w].step = "existing"
                  /\ request'[w].device = request[w].device
                  /\ request'[w].results = request[w].results
                BY <1>0, <3>1, <3>3, TakesFields
            <4>3. ASSUME NEW x \in request[w].results, x[2] \in {"applied", "duplicate"},
                         undos'[x[1][1]] = 0
                  PROVE  row'[x[1][1]] = request[w].device
                BY <2>2, <3>1, <4>1, <4>3, KnownStays DEF RequestKnows, KnownRow
            <4>4. QED
                BY <4>1, <4>2, <4>3 DEF RequestKnows, KnownRow
        <3>4. QED
            BY <2>8, <3>2, <3>3 DEF syncFind
    <2>9. CASE syncExisting(w)
        <3>1. request[w] # Free /\ request[w].op = "sync" /\ UNCHANGED row
            BY <2>9 DEF syncExisting, at, server
        <3>2. CASE goto(w, "create")
            <4>1. request[w].device \in Devices /\ request[w].results \in SUBSET (Tokens \X Outcomes)
                BY <2>2, <3>1 DEF RequestKnows, Running
            <4>2. ASSUME NEW x \in request[w].results, x[2] \in {"applied", "duplicate"},
                         undos'[x[1][1]] = 0
                  PROVE  row'[x[1][1]] = request[w].device
                BY <2>2, <3>1, <4>1, <4>2, KnownStays DEF RequestKnows, KnownRow
            <4>3. QED
                BY <1>0, <3>1, <3>2, <4>1, <4>2, GotoFields DEF RequestKnows, KnownRow
        <3>3. CASE yields(w, request[w].token, found(w))
            <4>1. found(w) \in Outcomes /\ (found(w) = "duplicate" => row[t] = request[w].device)
                BY DEF found, Outcomes
            <4>2. found(w) # "applied" /\ request[w].token[1] = t
                BY DEF found, ticketOf
            <4>3. QED
                BY <2>2, <3>1, <3>3, <4>1, <4>2, SyncKnows
        <3>4. QED
            BY <2>9, <3>2, <3>3 DEF syncExisting
    <2>10. CASE syncCreate(w)
        <3>1. request[w] # Free /\ request[w].op = "sync"
            BY <2>10 DEF syncCreate, at
        <3>2. CASE row[t] = NoRow /\ goto(w, "mark")
            <4>1. request[w].device \in Devices /\ request[w].results \in SUBSET (Tokens \X Outcomes)
                BY <2>2, <3>1 DEF RequestKnows, Running
            <4>2. ASSUME NEW x \in request[w].results, x[2] \in {"applied", "duplicate"},
                         undos'[x[1][1]] = 0
                  PROVE  row'[x[1][1]] = request[w].device
                BY <2>2, <3>1, <4>1, <4>2, KnownStays DEF RequestKnows, KnownRow
            <4>3. row'[t] = request[w].device
                BY <1>0, <2>2, <2>10, <3>1, <3>2 DEF syncCreate, createRow, TypeOK
            <4>4. ticketOf(w)' = t
                BY <1>0, <3>1, <3>2, GotoFields DEF ticketOf
            <4>5. QED
                BY <1>0, <3>1, <3>2, <4>1, <4>2, <4>3, <4>4, GotoFields DEF RequestKnows, KnownRow
        <3>3. CASE yields(w, request[w].token, "conflict")
            BY <2>2, <3>1, <3>3, SyncKnows DEF Outcomes
        <3>4. QED
            BY <2>10, <3>2, <3>3 DEF syncCreate
    <2>11. CASE syncMark(w)
        <3>1. /\ request[w] # Free /\ request[w].op = "sync" /\ request[w].step = "mark"
              /\ UNCHANGED <<row, undos>> /\ yields(w, request[w].token, "applied")
            BY <2>11 DEF syncMark, at, history
        <3>2. undos[t] = 0 => row[t] = request[w].device
            BY <2>2, <3>1 DEF RequestKnows
        <3>3. QED
            BY <2>2, <3>1, <3>2, SyncKnows DEF Outcomes, ticketOf
    <2>12. CASE undoRevert(w)
        <3>1. /\ request[w] # Free /\ request[w].op = "undo" /\ goto(w, "delete")
              /\ undos' = [undos EXCEPT ![t] = @ + 1]
            BY <2>1, <2>12 DEF undoRevert, at
        <3>2. undos'[t] > 0
            BY <1>0, <2>2, <3>1 DEF TypeOK
        <3>3. ticketOf(w)' = t
            BY <1>0, <3>1, GotoFields DEF ticketOf
        <3>4. QED
            BY <1>0, <3>1, <3>2, <3>3, GotoFields DEF RequestKnows
    <2>13. ~record(w) /\ ~syncAnswer(w) /\ ~undoDelete(w) /\ ~updateTokenHash(w) /\ ~Dies(w)
        BY <2>1 DEF record, syncAnswer, undoDelete, updateTokenHash, Dies
    <2>14. QED
        BY <1>2, <2>4, <2>5, <2>6, <2>7, <2>8, <2>9, <2>10, <2>11, <2>12, <2>13
        DEF Handles, Continue
<1>3. QED
    BY <1>0, <1>1, <1>2, OneHandles, OthersWait

(* A device that lets somebody in has the ticket in its queue, ... *)
LEMMA QueueKeeps ==
    ASSUME Inv, NEW e \in Devices, NEW k \in Tokens,
           admitLocally(e, k) \/ UNCHANGED <<queue, offline>>, UNCHANGED told,
           NEW d \in Devices, NEW t \in offline'[d]
    PROVE  (\E j \in queue'[d] : j[1] = t) \/ \E x \in told'[d] : x[1][1] = t
<1>1. TypeOK /\ queue \in [Devices -> SUBSET Tokens] /\ offline \in [Devices -> SUBSET Tickets]
    BY Stores DEF Inv, TypeOK
<1>2. CASE t \in offline[d]
    BY <1>1, <1>2 DEF Inv, DevicesKnow, admitLocally
<1>3. CASE t \notin offline[d]
    <2>1. admitLocally(e, k) /\ e = d /\ t = k[1]
        BY <1>1, <1>3 DEF admitLocally
    <2>2. k \in queue'[d]
        BY <1>1, <2>1 DEF admitLocally
    <2>3. QED
        BY <2>1, <2>2
<1>4. QED
    BY <1>2, <1>3

(* ... and what leaves the queue was answered. *)
LEMMA AnswerTells ==
    ASSUME Inv, [Next]_vars, NEW w \in Workers, syncAnswer(w), NEW d \in Devices
    PROVE  /\ KnownRow(d, told[d])'
           /\ \A t \in offline'[d] :
                 (\E j \in queue'[d] : j[1] = t) \/ \E x \in told'[d] : x[1][1] = t
<1> DEFINE e == request[w].device
           S == request[w].results
<1>1. /\ TypeOK /\ request[w] \in Running /\ request[w] # Free /\ request[w].op = "sync"
      /\ RequestKnows(w)
    BY RunningType DEF Inv, RequestsKnow, syncAnswer, at
<1>2. /\ e \in Devices /\ S \in SUBSET (Tokens \X Outcomes) /\ KnownRow(e, S)
      /\ told[d] \in SUBSET (Tokens \X Outcomes) /\ KnownRow(d, told[d])
      /\ queue \in [Devices -> SUBSET Tokens]
      /\ told \in [Devices -> SUBSET (Tokens \X Outcomes)]
    BY <1>1, Stores DEF RequestKnows, Running, Inv, DevicesKnow, TypeOK, Outcomes
<1>3. UNCHANGED offline
    BY DEF syncAnswer
<1>4. CASE d # e \/ syncing[e] # w
    <2>1. told'[d] = told[d] /\ queue'[d] = queue[d]
        BY <1>2, <1>4 DEF syncAnswer
    <2>2. \A x \in told[d] : x[2] \in {"applied", "duplicate"} /\ undos'[x[1][1]] = 0 => row'[x[1][1]] = d
        BY <1>2, KnownStays DEF KnownRow
    <2>3. QED
        BY <1>3, <2>1, <2>2 DEF KnownRow, Inv, DevicesKnow
<1>5. CASE d = e /\ syncing[e] = w
    <2>1. told'[d] = told[d] \cup S /\ queue'[d] = queue[d] \ {r[1] : r \in S}
        BY <1>2, <1>5 DEF syncAnswer
    <2>2. \A x \in told[d] \cup S :
              x[2] \in {"applied", "duplicate"} /\ undos'[x[1][1]] = 0 => row'[x[1][1]] = d
        BY <1>2, <1>5, KnownStays DEF KnownRow
    <2>3. KnownRow(d, told[d])'
        BY <2>1, <2>2 DEF KnownRow
    <2>4. ASSUME NEW t \in offline[d]
          PROVE  (\E j \in queue'[d] : j[1] = t) \/ \E x \in told'[d] : x[1][1] = t
        <3>1. CASE \E x \in told[d] : x[1][1] = t
            BY <2>1, <3>1
        <3>2. ASSUME NEW j \in queue[d], j[1] = t
              PROVE  (\E i \in queue'[d] : i[1] = t) \/ \E x \in told'[d] : x[1][1] = t
            BY <2>1, <3>2
        <3>3. QED
            BY <3>1, <3>2 DEF Inv, DevicesKnow
    <2>5. QED
        BY <1>3, <2>3, <2>4
<1>6. QED
    BY <1>4, <1>5

(* What devices let in, queued and were told changes in these ways only. *)
LEMMA DeviceMoves ==
    ASSUME TypeOK, Waits, [Next]_vars
    PROVE  \/ UNCHANGED <<queue, offline, told>>
           \/ \E e \in Devices, k \in Tokens : admitLocally(e, k) /\ UNCHANGED told
           \/ \E w \in Workers : syncAnswer(w)
<1>1. ASSUME NEW e \in Devices, scanning[e] # NoWorker, fallBack(e)
      PROVE  UNCHANGED <<queue, offline>> \/ \E k \in Tokens : admitLocally(e, k)
    <2>1. request[scanning[e]].token \in Tokens
        BY <1>1, RunningType DEF Waits, TypeOK
    <2>2. QED
        BY <1>1, <2>1 DEF fallBack
<1>2. CASE \E e \in Devices : loseScan(e)
    BY <1>1, <1>2 DEF loseScan
<1>3. CASE \E w \in Workers : Dies(w)
    <2>1. PICK w \in Workers : Dies(w)
        BY <1>3
    <2>2. UNCHANGED told
        BY <2>1 DEF Dies
    <2>3. ASSUME NEW e \in Devices, scanning[e] = w, fallBack(e)
          PROVE  UNCHANGED <<queue, offline>> \/ \E k \in Tokens : admitLocally(e, k)
        BY <1>1, <2>3, CheckInAssumption
    <2>4. QED
        BY <2>1, <2>2, <2>3 DEF Dies
<1>4. CASE \E e \in Devices, k \in Tokens : scanOffline(e, k)
    BY <1>4 DEF scanOffline
<1>5. CASE \/ UNCHANGED vars
           \/ \E e \in Devices : \/ downloadPack(e) \/ loseSync(e)
                                 \/ \E w \in Workers : syncQueue(w, e)
                                 \/ \E w \in Workers, k \in Tokens : validateAndCheckIn(w, e, k)
           \/ \E w \in Workers, u \in Tickets :
                 manualCheckIn(w, u) \/ undoCheckIn(w, u) \/ transferTicket(w, u)
           \/ \E u \in Tickets : blockTicket(u) \/ unblockTicket(u)
           \/ refundTicketsForOrder
    BY <1>5 DEF vars, downloadPack, loseSync, syncQueue, validateAndCheckIn, manualCheckIn,
       undoCheckIn, transferTicket, blockTicket, unblockTicket, refundTicketsForOrder, device, history
<1>6. CASE \E w \in Workers : \/ \E k \in Tokens : syncFind(w, k)
                              \/ syncExisting(w) \/ syncCreate(w) \/ syncMark(w)
                              \/ undoRevert(w) \/ undoDelete(w) \/ updateTokenHash(w)
                              \/ claim(w) \/ record(w)
    BY <1>6 DEF syncFind, syncExisting, syncCreate, syncMark, undoRevert, undoDelete,
       updateTokenHash, claim, record, device, history
<1>7. QED
    BY <1>2, <1>3, <1>4, <1>5, <1>6 DEF Next, Continue

(* Every device goes on knowing what became of its admissions. *)
LEMMA DevicesKnowNext == Inv /\ [Next]_vars => DevicesKnow'
<1> SUFFICES ASSUME Inv, [Next]_vars, NEW d \in Devices
             PROVE  /\ KnownRow(d, told[d])'
                    /\ \A t \in offline'[d] :
                          (\E j \in queue'[d] : j[1] = t) \/ \E x \in told'[d] : x[1][1] = t
    BY DEF DevicesKnow
<1>1. TypeOK /\ Waits /\ told[d] \in SUBSET (Tokens \X Outcomes) /\ KnownRow(d, told[d])
    BY DEF Inv, TypeOK, DevicesKnow, Outcomes
<1>2. ASSUME UNCHANGED told PROVE KnownRow(d, told[d])'
    BY <1>1, <1>2, KnownStays DEF KnownRow
<1>3. CASE UNCHANGED <<queue, offline, told>>
    BY <1>2, <1>3 DEF Inv, DevicesKnow
<1>4. ASSUME NEW e \in Devices, NEW k \in Tokens, admitLocally(e, k), UNCHANGED told
      PROVE  \A t \in offline'[d] :
                (\E j \in queue'[d] : j[1] = t) \/ \E x \in told'[d] : x[1][1] = t
    BY <1>4, QueueKeeps
<1>5. QED
    BY <1>1, <1>2, <1>3, <1>4, AnswerTells, DeviceMoves

-------------------------------------------------------------------------------
(* The inductive invariant                                                 *)

(* It holds initially. *)
LEMMA InvInit == Init => Inv
<1> SUFFICES ASSUME Init PROVE Inv
    OBVIOUS
<1>1. TypeOK
    BY TypeInit
<1>2. Waits
    BY DEF Init, Waits
<1>3. RequestsKnow /\ DevicesKnow
    BY DEF Init, RequestsKnow, DevicesKnow, KnownRow
<1>4. QED
    BY <1>1, <1>2, <1>3 DEF Inv

(* Every step preserves it. *)
LEMMA InvNext == Inv /\ [Next]_vars => Inv'
BY TypeNext, WaitsNext, RequestsKnowNext, DevicesKnowNext DEF Inv

(* It is an invariant of the specification. *)
THEOREM Invariance == Spec => []Inv
BY InvInit, InvNext, PTL DEF Spec

(* Tickets, rows, tokens, queues, requests and counters keep their types *)
(* (checkin/service.ts, checkin-offline.ts).                               *)
THEOREM TypesHold == Spec => []TypeOK
<1>1. Inv => TypeOK
    BY DEF Inv
<1>2. QED
    BY <1>1, Invariance, PTL

(* FR-CIN-014, BR-CIN-003: of two devices that let the same ticket in      *)
(* offline and synchronized, one was told of the conflict or a refusal: the*)
(* other outcomes say that the row is the device's own (syncOfflineBatch). *)
THEOREM ConflictsReachDevices == Spec => []OfflineConflictsTold
<1>1. Inv => OfflineConflictsTold
    <2> SUFFICES ASSUME Inv, NEW t \in Tickets, NEW d \in Devices, NEW e \in Devices, d # e,
                        AdmittedOffline(d, t), AdmittedOffline(e, t), undos[t] = 0,
                        ~WasTold(d, t, {"conflict", "rejected"}),
                        ~WasTold(e, t, {"conflict", "rejected"})
                 PROVE  FALSE
        BY DEF OfflineConflictsTold
    <2>1. ASSUME NEW f \in Devices, AdmittedOffline(f, t), ~WasTold(f, t, {"conflict", "rejected"})
          PROVE  row[t] = f
        <3>1. PICK x \in told[f] : x[1][1] = t
            BY <2>1 DEF AdmittedOffline, Inv, DevicesKnow
        <3>2. x \in Tokens \X Outcomes
            BY <3>1 DEF Inv, TypeOK, Outcomes
        <3>3. x[2] \in {"applied", "duplicate"}
            BY <2>1, <3>1, <3>2 DEF WasTold, Outcomes
        <3>4. QED
            BY <3>1, <3>3 DEF Inv, DevicesKnow, KnownRow
    <2>2. QED
        BY <2>1
<1>2. QED
    BY <1>1, Invariance, PTL

-------------------------------------------------------------------------------
(* Admissions and their rows                                               *)

(* A ticket is checked in only by a claim that goes on to record it, or by *)
(* a synchronization that has its row.                                     *)
LEMMA CheckedIn ==
    ASSUME Inv, [Next]_vars, NEW t \in Tickets, status'[t] # status[t]
    PROVE  \/ \E w \in Workers : /\ claim(w) /\ ticketOf(w) = t /\ goto(w, "record")
                                 /\ status[t] = "VALID" /\ status'[t] = "CHECKED_IN"
           \/ \E w \in Workers : /\ syncMark(w) /\ ticketOf(w) = t
                                 /\ status[t] = "VALID" /\ status'[t] = "CHECKED_IN"
           \/ \E w \in Workers : /\ undoRevert(w) /\ ticketOf(w) = t
                                 /\ undos' = [undos EXCEPT ![t] = @ + 1]
                                 /\ status[t] = "CHECKED_IN" /\ status'[t] = "VALID"
           \/ /\ status[t] \in {"VALID", "BLOCKED"}
              /\ status'[t] \in {"VALID", "BLOCKED", "REFUNDED"}
              /\ UNCHANGED <<undos, request>>
<1>0. TypeOK /\ status \in [Tickets -> TicketStatus]
    BY DEF Inv, TypeOK
<1>1. ASSUME NEW u, NEW from, NEW to, updateStatus(u, from, to)
      PROVE  u = t /\ status[t] \in from /\ status'[t] = to
    BY <1>0, <1>1 DEF updateStatus
<1>2. ASSUME NEW w \in Workers, claim(w)
      PROVE  /\ ticketOf(w) = t /\ goto(w, "record")
             /\ status[t] = "VALID" /\ status'[t] = "CHECKED_IN"
    BY <1>1, <1>2 DEF claim
<1>3. ASSUME NEW w \in Workers, syncMark(w)
      PROVE  ticketOf(w) = t /\ status[t] = "VALID" /\ status'[t] = "CHECKED_IN"
    BY <1>1, <1>3 DEF syncMark
<1>4. ASSUME NEW w \in Workers, undoRevert(w)
      PROVE  /\ ticketOf(w) = t /\ undos' = [undos EXCEPT ![t] = @ + 1]
             /\ status[t] = "CHECKED_IN" /\ status'[t] = "VALID"
    BY <1>1, <1>4 DEF undoRevert
<1>5. ASSUME \/ \E u \in Tickets : blockTicket(u) \/ unblockTicket(u)
             \/ refundTicketsForOrder
      PROVE  /\ status[t] \in {"VALID", "BLOCKED"}
             /\ status'[t] \in {"VALID", "BLOCKED", "REFUNDED"}
             /\ UNCHANGED <<undos, request>>
    <2>1. CASE refundTicketsForOrder
        BY <2>1 DEF refundTicketsForOrder, history
    <2>2. CASE \E u \in Tickets : blockTicket(u) \/ unblockTicket(u)
        BY <1>1, <2>2 DEF blockTicket, unblockTicket, history
    <2>3. QED
        BY <1>5, <2>1, <2>2
<1>6. CASE \/ UNCHANGED vars
           \/ \E e \in Devices : \/ downloadPack(e) \/ loseSync(e) \/ loseScan(e)
                                 \/ \E k \in Tokens : scanOffline(e, k)
                                 \/ \E w \in Workers : syncQueue(w, e)
                                 \/ \E w \in Workers, k \in Tokens : validateAndCheckIn(w, e, k)
           \/ \E w \in Workers, u \in Tickets :
                 manualCheckIn(w, u) \/ undoCheckIn(w, u) \/ transferTicket(w, u)
    BY <1>6 DEF vars, downloadPack, loseSync, loseScan, scanOffline, syncQueue,
       validateAndCheckIn, manualCheckIn, undoCheckIn, transferTicket, server
<1>7. CASE \E w \in Workers : \/ \E k \in Tokens : syncFind(w, k)
                              \/ syncExisting(w) \/ syncCreate(w) \/ syncAnswer(w)
                              \/ undoDelete(w) \/ updateTokenHash(w) \/ record(w) \/ Dies(w)
    BY <1>7 DEF syncFind, syncExisting, syncCreate, syncAnswer, undoDelete,
       updateTokenHash, record, Dies, server
<1>8. QED
    BY <1>2, <1>3, <1>4, <1>5, <1>6, <1>7 DEF Next, Continue

(* A request about to write a row writes it, or stops. *)
LEMMA Recording ==
    ASSUME Inv, [Next]_vars, NEW w \in Workers, at(w, "admit", "record")
    PROVE  \/ request'[w] = request[w]
           \/ record(w)
           \/ Dies(w)
<1>0. TypeOK
    BY DEF Inv
<1>1. ASSUME Handles(w) PROVE record(w) \/ Dies(w)
    <2>1. request[w] # Free /\ request[w].op = "admit" /\ request[w].step = "record"
        BY DEF at
    <2>2. ~\/ \E d \in Devices : syncQueue(w, d)
           \/ \E d \in Devices, k \in Tokens : validateAndCheckIn(w, d, k)
           \/ \E t \in Tickets : manualCheckIn(w, t) \/ undoCheckIn(w, t) \/ transferTicket(w, t)
        BY <2>1 DEF syncQueue, validateAndCheckIn, manualCheckIn, undoCheckIn, transferTicket, begins
    <2>3. ~\/ \E k \in Tokens : syncFind(w, k)
           \/ syncExisting(w) \/ syncCreate(w) \/ syncMark(w) \/ syncAnswer(w)
           \/ undoRevert(w) \/ undoDelete(w) \/ updateTokenHash(w) \/ claim(w)
        BY <2>1 DEF syncFind, syncExisting, syncCreate, syncMark, syncAnswer, undoRevert,
           undoDelete, updateTokenHash, claim, at
    <2>4. QED
        BY <1>1, <2>2, <2>3 DEF Handles, Continue
<1>2. QED
    BY <1>0, <1>1, OneHandles, OthersWait

(* A crash stays counted. *)
LEMMA CrashesGrow ==
    ASSUME TypeOK, [Next]_vars, spent'["crash"] = 0
    PROVE  spent["crash"] = 0 /\ \A w \in Workers : ~Dies(w)
<1>0. /\ spent \in [Kinds -> Nat] /\ "crash" \in Kinds /\ spent["crash"] \in Nat
      /\ "scan" \in Kinds /\ "undo" \in Kinds /\ "staff" \in Kinds /\ "drop" \in Kinds
    BY DEF TypeOK, Kinds
<1>1. ASSUME NEW x \in Kinds, spends(x) PROVE spent["crash"] = 0 /\ x # "crash"
    BY <1>0, <1>1 DEF spends
<1>2. CASE UNCHANGED spent
    BY <1>0, <1>2 DEF Dies, spends
<1>3. ~\E w \in Workers : Dies(w)
    BY <1>0, <1>1 DEF Dies
<1>4. CASE \/ \E e \in Devices : \/ loseSync(e) \/ loseScan(e)
                                 \/ \E k \in Tokens : scanOffline(e, k)
                                 \/ \E w \in Workers, k \in Tokens : validateAndCheckIn(w, e, k)
           \/ \E w \in Workers, u \in Tickets :
                 manualCheckIn(w, u) \/ undoCheckIn(w, u) \/ transferTicket(w, u)
           \/ \E u \in Tickets : blockTicket(u)
           \/ refundTicketsForOrder
    BY <1>0, <1>1, <1>3, <1>4 DEF loseSync, loseScan, scanOffline,
       validateAndCheckIn, manualCheckIn, undoCheckIn, transferTicket, blockTicket,
       refundTicketsForOrder
<1>5. CASE \/ UNCHANGED vars
           \/ \E e \in Devices : downloadPack(e) \/ \E w \in Workers : syncQueue(w, e)
           \/ \E u \in Tickets : unblockTicket(u)
           \/ \E w \in Workers : \/ \E k \in Tokens : syncFind(w, k)
                                 \/ syncExisting(w) \/ syncCreate(w) \/ syncMark(w)
                                 \/ syncAnswer(w)
    BY <1>2, <1>5 DEF vars, downloadPack, syncQueue, unblockTicket, syncFind, syncExisting,
       syncCreate, syncMark, syncAnswer
<1>6. CASE \E w \in Workers : \/ undoRevert(w) \/ undoDelete(w) \/ updateTokenHash(w)
                              \/ claim(w) \/ record(w)
    BY <1>2, <1>6 DEF undoRevert, undoDelete, updateTokenHash, claim, record
<1>7. QED
    BY <1>3, <1>4, <1>5, <1>6 DEF Next, Continue

(* FR-CIN-005: without an undo or a crash an admitted ticket has its row,  *)
(* or the request that is about to write it (admit, syncOfflineBatch).     *)
THEOREM AdmissionsHaveRows == Spec => []AdmissionRecorded
<1>1. Init => AdmissionRecorded
    BY DEF Init, AdmissionRecorded
<1>2. Inv /\ AdmissionRecorded /\ [Next]_vars => AdmissionRecorded'
    <2> SUFFICES ASSUME Inv, AdmissionRecorded, [Next]_vars, NEW t \in Tickets,
                        status'[t] = "CHECKED_IN", undos'[t] = 0, spent'["crash"] = 0
                 PROVE  \/ row'[t] # NoRow
                        \/ \E w \in Workers : at(w, "admit", "record")' /\ ticketOf(w)' = t
        BY DEF AdmissionRecorded
    <2>0. TypeOK /\ undos[t] = 0 /\ spent["crash"] = 0 /\ \A w \in Workers : ~Dies(w)
        BY UndosGrow, CrashesGrow DEF Inv
    <2>1. CASE row[t] # NoRow
        BY <2>1, RowStays
    <2>2. ASSUME NEW w \in Workers, at(w, "admit", "record"), ticketOf(w) = t
          PROVE  row'[t] # NoRow \/ (at(w, "admit", "record")' /\ ticketOf(w)' = t)
        <3>1. CASE request'[w] = request[w]
            BY <2>2, <3>1 DEF at, ticketOf
        <3>2. CASE record(w)
            <4>1. request[w].device \in Devices \cup {Desk}
                BY <2>0, <2>2, RunningType DEF at
            <4>2. QED
                BY <2>0, <2>2, <3>2, <4>1, CheckInAssumption DEF record, createRow, TypeOK
        <3>3. QED
            BY <2>0, <2>2, <3>1, <3>2, Recording
    <2>3. CASE status[t] = "CHECKED_IN"
        BY <2>0, <2>1, <2>2, <2>3 DEF AdmissionRecorded
    <2>4. ASSUME NEW w \in Workers, claim(w), ticketOf(w) = t, goto(w, "record")
          PROVE  at(w, "admit", "record")' /\ ticketOf(w)' = t
        BY <2>0, <2>4, GotoFields DEF claim, at, ticketOf
    <2>5. ASSUME NEW w \in Workers, syncMark(w), ticketOf(w) = t
          PROVE  row[t] # NoRow
        BY <2>0, <2>5, CheckInAssumption DEF syncMark, at, Inv, RequestsKnow, RequestKnows
    <2>6. QED
        BY <2>1, <2>3, <2>4, <2>5, CheckedIn
<1>3. QED
    BY <1>1, <1>2, Invariance, PTL DEF Spec

(* BR-TKT-004: no request brings back a refunded ticket or lets a blocked  *)
(* one in, whatever it read before (admit, syncOfflineBatch, undoCheckIn). *)
THEOREM VoidTicketsStayVoid == Spec => VoidStaysVoid
<1>1. Inv /\ [Next]_vars =>
          \A t \in Tickets : /\ status[t] = "REFUNDED" => status'[t] = "REFUNDED"
                             /\ status[t] = "BLOCKED" => status'[t] # "CHECKED_IN"
    BY CheckedIn
<1>2. QED
    BY <1>1, Invariance, PTL DEF Spec, VoidStaysVoid

-------------------------------------------------------------------------------
(* One acceptance per undo                                                 *)

(* The requests that claimed ticket t and did not answer yet, and whether  *)
(* the ticket may still be claimed.                                        *)
Recorders(t) == {w \in Workers : at(w, "admit", "record") /\ ticketOf(w) = t}
Open(t) == IF status[t] \in {"VALID", "BLOCKED"} THEN 1 ELSE 0

(* Every acceptance, given or on its way, took the ticket once.            *)
AcceptancesCounted ==
    \A t \in Tickets :
        accepted[t] + Cardinality(Recorders(t)) + Open(t) <= 1 + undos[t]

(* A request comes to record an admission only by its claim. *)
LEMMA NewRecorder ==
    ASSUME Inv, [Next]_vars, NEW t \in Tickets, NEW w \in Recorders(t)', w \notin Recorders(t)
    PROVE  /\ claim(w) /\ ticketOf(w) = t /\ Handles(w)
           /\ status[t] = "VALID" /\ status'[t] = "CHECKED_IN"
<1>0. TypeOK /\ w \in Workers
    BY DEF Inv, Recorders
<1>1. /\ request'[w] # Free /\ request'[w].op = "admit" /\ request'[w].step = "record"
      /\ request'[w].token[1] = t
    BY DEF Recorders, at, ticketOf
<1>2. request'[w] # request[w]
    BY <1>0, <1>1 DEF Recorders, at, ticketOf
<1>3. Handles(w)
    BY <1>0, <1>2, OneHandles, OthersWait
<1>4. ~ends(w)
    BY <1>0, <1>1, RunningType DEF ends
<1>5. ASSUME NEW op, NEW step, NEW d, NEW k, NEW left, begins(w, Request(op, step, d, k, left))
      PROVE  step = "record"
    BY <1>0, <1>1, <1>5, BeginsFields
<1>6. ASSUME NEW step, request[w] # Free, goto(w, step) PROVE step = "record"
    BY <1>0, <1>1, <1>6, GotoFields
<1>7. ASSUME NEW k, NEW o, request[w] # Free, yields(w, k, o) PROVE FALSE
    BY <1>0, <1>1, <1>7, YieldsFields
<1>8. ASSUME NEW k, request[w] # Free,
             request' = [request EXCEPT ![w].token = k, ![w].step = "existing"]
      PROVE  FALSE
    BY <1>0, <1>1, <1>8, TakesFields
<1>9. ~\/ \E d \in Devices : syncQueue(w, d)
       \/ \E d \in Devices, k \in Tokens : validateAndCheckIn(w, d, k)
       \/ \E u \in Tickets : manualCheckIn(w, u) \/ undoCheckIn(w, u) \/ transferTicket(w, u)
    BY <1>5 DEF syncQueue, validateAndCheckIn, manualCheckIn, undoCheckIn, transferTicket
<1>10. ~\/ \E k \in Tokens : syncFind(w, k)
        \/ syncExisting(w) \/ syncCreate(w) \/ syncMark(w) \/ undoRevert(w)
    BY <1>4, <1>6, <1>7, <1>8 DEF syncFind, syncExisting, syncCreate, syncMark, undoRevert, at
<1>11. ~(syncAnswer(w) \/ undoDelete(w) \/ updateTokenHash(w) \/ record(w) \/ Dies(w))
    BY <1>4 DEF syncAnswer, undoDelete, updateTokenHash, record, Dies
<1>12. claim(w)
    BY <1>3, <1>9, <1>10, <1>11 DEF Handles, Continue
<1>13. request[w] # Free /\ goto(w, "record") /\ status[ticketOf(w)] = "VALID"
    BY <1>4, <1>12 DEF claim, at
<1>14. ticketOf(w) = t
    BY <1>0, <1>1, <1>13, GotoFields DEF ticketOf
<1>15. status'[t] = "CHECKED_IN"
    BY <1>0, <1>12, <1>13, <1>14 DEF claim, updateStatus, TypeOK
<1>16. QED
    BY <1>3, <1>12, <1>13, <1>14, <1>15

(* An acceptance is shown only by the request that records it. *)
LEMMA AcceptedMoves ==
    ASSUME Inv, [Next]_vars, NEW t \in Tickets, accepted'[t] # accepted[t]
    PROVE  \E w \in Workers : record(w) /\ ticketOf(w) = t /\ accepted'[t] = accepted[t] + 1
<1>0. accepted \in [Tickets -> Nat]
    BY DEF Inv, TypeOK
<1>1. CASE UNCHANGED accepted
    BY <1>1
<1>2. ASSUME NEW w \in Workers, record(w)
      PROVE  ticketOf(w) = t /\ accepted'[t] = accepted[t] + 1
    BY <1>0, <1>2 DEF record
<1>3. CASE \/ UNCHANGED vars
           \/ \E e \in Devices : \/ downloadPack(e) \/ loseSync(e) \/ loseScan(e)
                                 \/ \E k \in Tokens : scanOffline(e, k)
                                 \/ \E w \in Workers : syncQueue(w, e)
                                 \/ \E w \in Workers, k \in Tokens : validateAndCheckIn(w, e, k)
           \/ \E w \in Workers, u \in Tickets :
                 manualCheckIn(w, u) \/ undoCheckIn(w, u) \/ transferTicket(w, u)
           \/ \E u \in Tickets : blockTicket(u) \/ unblockTicket(u)
           \/ refundTicketsForOrder
    BY <1>1, <1>3 DEF vars, downloadPack, loseSync, loseScan, scanOffline, syncQueue,
       validateAndCheckIn, manualCheckIn, undoCheckIn, transferTicket, blockTicket,
       unblockTicket, refundTicketsForOrder, history
<1>4. CASE \E w \in Workers : \/ \E k \in Tokens : syncFind(w, k)
                              \/ syncExisting(w) \/ syncCreate(w) \/ syncMark(w)
                              \/ syncAnswer(w) \/ undoRevert(w) \/ undoDelete(w)
                              \/ updateTokenHash(w) \/ claim(w) \/ Dies(w)
    BY <1>1, <1>4 DEF syncFind, syncExisting, syncCreate, syncMark, syncAnswer, undoRevert,
       undoDelete, updateTokenHash, claim, Dies, history
<1>5. QED
    BY <1>2, <1>3, <1>4 DEF Next, Continue

(* The requests about to record are finitely many. *)
LEMMA RecordersFinite ==
    ASSUME NEW t
    PROVE  /\ IsFiniteSet(Recorders(t)) /\ Cardinality(Recorders(t)) \in Nat
           /\ IsFiniteSet(Recorders(t)') /\ Cardinality(Recorders(t)') \in Nat
<1>1. Recorders(t) \subseteq Workers /\ Recorders(t)' \subseteq Workers
    BY DEF Recorders
<1>2. QED
    BY <1>1, CheckInAssumption, FS_Subset, FS_CardinalityType

(* Every step keeps the count. *)
LEMMA AcceptancesNext == Inv /\ AcceptancesCounted /\ [Next]_vars => AcceptancesCounted'
<1> SUFFICES ASSUME Inv, AcceptancesCounted, [Next]_vars, NEW t \in Tickets
             PROVE  accepted'[t] + Cardinality(Recorders(t)') + Open(t)' <= 1 + undos'[t]
    BY DEF AcceptancesCounted
<1> DEFINE now == Cardinality(Recorders(t))
           next == Cardinality(Recorders(t)')
<1>0. /\ TypeOK /\ accepted[t] \in Nat /\ undos[t] \in Nat /\ undos'[t] \in Nat
      /\ undos'[t] >= undos[t] /\ accepted[t] + now + Open(t) <= 1 + undos[t]
      /\ now \in Nat /\ next \in Nat /\ Open(t) \in {0, 1} /\ Open(t)' \in {0, 1}
    BY RecordersFinite, UndosGrow DEF Inv, TypeOK, AcceptancesCounted, Open
<1>1. ASSUME NEW w \in Recorders(t)', w \notin Recorders(t)
      PROVE  accepted'[t] + next + Open(t)' <= 1 + undos'[t]
    <2>1. claim(w) /\ w \in Workers /\ Open(t) = 1 /\ Open(t)' = 0 /\ Handles(w)
        BY <1>1, NewRecorder DEF Open, Recorders
    <2>2. Recorders(t)' \subseteq Recorders(t) \cup {w}
        <3> SUFFICES ASSUME NEW v \in Recorders(t)', v # w PROVE v \in Recorders(t)
            OBVIOUS
        <3>1. v \in Workers /\ request'[v] = request[v]
            BY <1>0, <2>1, OthersWait DEF Recorders
        <3>2. QED
            BY <3>1 DEF Recorders, at, ticketOf
    <2>3. next <= now + 1
        <3>1. /\ IsFiniteSet(Recorders(t) \cup {w})
              /\ Cardinality(Recorders(t) \cup {w}) = now + 1
            BY <1>1, RecordersFinite, FS_AddElement
        <3>2. QED
            BY <2>2, <3>1, FS_Subset
    <2>4. UNCHANGED <<accepted, undos>>
        BY <2>1 DEF claim, history
    <2>5. QED
        BY <1>0, <2>1, <2>3, <2>4
<1>2. CASE Recorders(t)' \subseteq Recorders(t)
    <2>1. next <= now
        BY <1>2, RecordersFinite, FS_Subset
    <2>2. ASSUME NEW w \in Workers, record(w), ticketOf(w) = t
          PROVE  next <= now - 1
        <3>1. w \in Recorders(t)
            BY <2>2 DEF Recorders, record
        <3>2. w \notin Recorders(t)'
            BY <1>0, <2>2 DEF Recorders, record, ends, at, TypeOK
        <3>3. /\ IsFiniteSet(Recorders(t) \ {w})
              /\ Cardinality(Recorders(t) \ {w}) = now - 1
            BY <3>1, RecordersFinite, FS_RemoveElement
        <3>4. QED
            BY <1>2, <3>2, <3>3, FS_Subset
    <2>3. accepted'[t] \in Nat /\ accepted'[t] + next <= accepted[t] + now
        BY <1>0, <2>1, <2>2, AcceptedMoves
    <2>4. Open(t)' <= Open(t) \/ (Open(t)' = Open(t) + 1 /\ undos'[t] = undos[t] + 1)
        <3>1. CASE status'[t] = status[t]
            BY <1>0, <3>1 DEF Open
        <3>2. ASSUME NEW w \in Workers, undos' = [undos EXCEPT ![t] = @ + 1]
              PROVE  undos'[t] = undos[t] + 1
            BY <1>0, <3>2 DEF TypeOK
        <3>3. CASE status'[t] # status[t]
            BY <3>2, <3>3, CheckedIn DEF Open
        <3>4. QED
            BY <3>1, <3>3
    <2>5. QED
        BY <1>0, <2>3, <2>4
<1>3. QED
    BY <1>1, <1>2

(* BR-CIN-002: however many devices and coordinators validate a ticket at  *)
(* once, it is accepted online once, and once more per undo (admit).       *)
THEOREM OneAcceptancePerUndo == Spec => []AcceptedOnceOnline
<1>1. Init => AcceptancesCounted
    <2> SUFFICES ASSUME Init, NEW t \in Tickets
                 PROVE  accepted[t] + Cardinality(Recorders(t)) + Open(t) <= 1 + undos[t]
        BY DEF AcceptancesCounted
    <2>1. Recorders(t) = {}
        BY DEF Init, Recorders, at
    <2>2. Cardinality(Recorders(t)) = 0
        BY <2>1, FS_EmptySet
    <2>3. accepted[t] = 0 /\ undos[t] = 0 /\ Open(t) = 1
        BY DEF Init, Open
    <2>4. QED
        BY <2>2, <2>3
<1>2. Inv /\ AcceptancesCounted => AcceptedOnceOnline
    <2> SUFFICES ASSUME Inv, AcceptancesCounted, NEW t \in Tickets
                 PROVE  accepted[t] <= 1 + undos[t]
        BY DEF AcceptedOnceOnline
    <2>1. accepted[t] \in Nat /\ undos[t] \in Nat /\ Cardinality(Recorders(t)) \in Nat /\ Open(t) \in {0, 1}
        BY RecordersFinite DEF Inv, TypeOK, Open
    <2>2. accepted[t] + Cardinality(Recorders(t)) + Open(t) <= 1 + undos[t]
        BY DEF AcceptancesCounted
    <2>3. QED
        BY <2>1, <2>2
<1>3. QED
    BY <1>1, <1>2, AcceptancesNext, Invariance, PTL DEF Spec

================================================================================
