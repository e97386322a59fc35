-------------------------------- MODULE CheckIn --------------------------------
(***************************************************************************)
(* Entry of one order's tickets: online validation, offline devices and    *)
(* their synchronization, manual admission, undo, and the support and      *)
(* refund operations that change a ticket meanwhile.                       *)
(*                                                                         *)
(* A worker is one request at the server, a step per statement, which goes *)
(* on when the device stops waiting for it.  A device keeps its pack, the  *)
(* tokens it used and its queue in localStorage (checkin-offline.ts) and   *)
(* may at any time be online or offline.                                   *)
(***************************************************************************)
EXTENDS Naturals, FiniteSets

CONSTANTS
    Tickets,   \* the tickets of the order
    Devices,   \* gate devices
    Desk,      \* the coordinator, who admits by ticket and not by token
    Workers,   \* requests the server runs at the same time
    NoRow,     \* no Checkin row
    NoWorker,  \* the device waits for nothing
    MaxGen,    \* bound: token rotations of a ticket
    Budget     \* bounds: how often each of Kinds may happen

(* What is bounded: scans, undos, support operations (an unblock goes with *)
(* its block), lost answers, crashes.                                      *)
Kinds == {"scan", "undo", "staff", "drop", "crash"}

ASSUME CheckInAssumption ==
    /\ IsFiniteSet(Workers)
    /\ Desk \notin Devices /\ NoRow \notin Devices \cup {Desk} /\ NoWorker \notin Workers
    /\ MaxGen \in Nat
    /\ Budget \in [Kinds -> Nat]

VARIABLES
    status,             \* Ticket.status
    gen,                \* which token the ticket has: its tokenHash
    row,                \* the device on the ticket's Checkin row, or NoRow
    pack, used, queue,  \* per device, tokens in localStorage
    scanning, syncing,  \* per device, the request it waits for
    request,            \* per worker
    accepted,           \* per ticket, online acceptances that were shown
    offline,            \* per device, the tickets it let in by its pack
    told,               \* per device, what synchronizations answered
    undos,              \* per ticket, how often its check-in was undone
    spent               \* used up of Budget

server == <<status, gen, row>>
device == <<pack, used, queue, scanning, syncing>>
history == <<accepted, offline, told, undos>>
vars == <<server, device, request, history, spent>>

TicketStatus == {"VALID", "BLOCKED", "CHECKED_IN", "REFUNDED"}
(* A token, as in a QR code: a ticket and the rotation it was made by.     *)
Tokens == Tickets \X (0..MaxGen)
TokenOf(t) == <<t, gen[t]>>

Free == [op |-> "free"]
Request(op, step, d, k, left) ==
    [op |-> op, step |-> step, device |-> d, token |-> k, left |-> left, results |-> {}]

Init ==
    /\ status = [t \in Tickets |-> "VALID"]
    /\ gen = [t \in Tickets |-> 0]
    /\ row = [t \in Tickets |-> NoRow]
    /\ pack = [d \in Devices |-> Tickets \X {0}]
    /\ used = [d \in Devices |-> {}]
    /\ queue = [d \in Devices |-> {}]
    /\ scanning = [d \in Devices |-> NoWorker]
    /\ syncing = [d \in Devices |-> NoWorker]
    /\ request = [w \in Workers |-> Free]
    /\ accepted = [t \in Tickets |-> 0]
    /\ offline = [d \in Devices |-> {}]
    /\ told = [d \in Devices |-> {}]
    /\ undos = [t \in Tickets |-> 0]
    /\ spent = [x \in Kinds |-> 0]

at(w, op, step) == request[w] # Free /\ request[w].op = op /\ request[w].step = step
ticketOf(w) == request[w].token[1]
goto(w, step) == request' = [request EXCEPT ![w].step = step]
ends(w) == request' = [request EXCEPT ![w] = Free]
begins(w, req) == request[w] = Free /\ request' = [request EXCEPT ![w] = req]
spends(x) == spent[x] < Budget[x] /\ spent' = [spent EXCEPT ![x] = @ + 1]

(* The guarded updateMany of the ticket repository. *)
updateStatus(t, from, to) ==
    status' = [status EXCEPT ![t] = IF @ \in from THEN to ELSE @]
(* checkins.create: the unique ticketId refuses a second row. *)
createRow(t, d) == row' = [row EXCEPT ![t] = IF @ = NoRow THEN d ELSE @]

-------------------------------------------------------------------------------
(* The device                                                              *)

(* validateLocally: in the pack and not used here. *)
admitsLocally(d, k) == k \in pack[d] /\ k \notin used[d]
admitLocally(d, k) ==
    /\ used' = [used EXCEPT ![d] = @ \cup {k}]
    /\ queue' = [queue EXCEPT ![d] = @ \cup {k}]
    /\ offline' = [offline EXCEPT ![d] = @ \cup {k[1]}]
    /\ UNCHANGED pack

downloadPack(d) ==
    /\ pack' = [pack EXCEPT ![d] = {TokenOf(t) : t \in {u \in Tickets : status[u] = "VALID"}}]
    /\ UNCHANGED <<server, used, queue, scanning, syncing, request, history, spent>>

(* A scan while the device is offline. *)
scanOffline(d, k) ==
    /\ scanning[d] = NoWorker
    /\ k[2] <= gen[k[1]]
    /\ admitsLocally(d, k)
    /\ spends("scan")
    /\ admitLocally(d, k)
    /\ UNCHANGED <<server, scanning, syncing, request, accepted, told, undos>>

(* The device stops waiting for its scan and turns to the pack: the network*)
(* is gone, or the answer was not 200.                                     *)
fallBack(d) ==
    LET k == request[scanning[d]].token IN
    /\ scanning' = [scanning EXCEPT ![d] = NoWorker]
    /\ IF admitsLocally(d, k) THEN admitLocally(d, k)
       ELSE UNCHANGED <<pack, used, queue, offline>>

(* The network drops while the device waits for a scan or a sync. *)
loseScan(d) ==
    /\ scanning[d] # NoWorker
    /\ spends("drop")
    /\ fallBack(d)
    /\ UNCHANGED <<server, syncing, request, accepted, told, undos>>
loseSync(d) ==
    /\ syncing[d] # NoWorker
    /\ spends("drop")
    /\ syncing' = [syncing EXCEPT ![d] = NoWorker]
    /\ UNCHANGED <<server, pack, used, queue, scanning, request, history>>

-------------------------------------------------------------------------------
(* Admission                                                               *)

(* validateAndCheckIn finds a VALID ticket by the token.  (A scan refused  *)
(* here changes nothing.)                                                  *)
validateAndCheckIn(w, d, k) ==
    /\ scanning[d] = NoWorker
    /\ k = TokenOf(k[1]) /\ status[k[1]] = "VALID"
    /\ spends("scan")
    /\ begins(w, Request("admit", "claim", d, k, {}))
    /\ scanning' = [scanning EXCEPT ![d] = w]
    /\ UNCHANGED <<server, pack, used, queue, syncing, history>>

manualCheckIn(w, t) ==
    /\ status[t] = "VALID"
    /\ spends("scan")
    /\ begins(w, Request("admit", "claim", Desk, TokenOf(t), {}))
    /\ UNCHANGED <<server, device, history>>

answerScan(w) == scanning' = [d \in Devices |-> IF scanning[d] = w THEN NoWorker ELSE scanning[d]]

(* Fault: admits on the status read before. *)
claimUnguarded(w) ==
    /\ at(w, "admit", "claim")
    /\ status' = [status EXCEPT ![ticketOf(w)] = "CHECKED_IN"]
    /\ goto(w, "record")
    /\ UNCHANGED <<gen, row, device, history, spent>>

(* admit: the atomic gate, VALID to CHECKED_IN; a scan that lost is refused. *)
claim(w) ==
    LET t == ticketOf(w) IN
    /\ at(w, "admit", "claim")
    /\ updateStatus(t, {"VALID"}, "CHECKED_IN")
    /\ \/ status[t] = "VALID" /\ goto(w, "record") /\ UNCHANGED scanning
       \/ status[t] # "VALID" /\ ends(w) /\ answerScan(w)
    /\ UNCHANGED <<gen, row, pack, used, queue, syncing, history, spent>>

(* admit: the Checkin row, and the answer "accepted" if anyone waits. *)
record(w) ==
    LET t == ticketOf(w)
        d == request[w].device
    IN  /\ at(w, "admit", "record")
        /\ createRow(t, d)
        /\ ends(w)
        /\ answerScan(w)
        /\ accepted' = IF d = Desk \/ scanning[d] = w
                       THEN [accepted EXCEPT ![t] = @ + 1] ELSE accepted
        /\ UNCHANGED <<status, gen, pack, used, queue, syncing, offline, told, undos, spent>>

-------------------------------------------------------------------------------
(* Synchronization                                                         *)

(* syncQueue sends the whole queue. *)
syncQueue(w, d) ==
    /\ syncing[d] = NoWorker /\ queue[d] # {}
    /\ begins(w, Request("sync", "next", d, CHOOSE k \in queue[d] : TRUE, queue[d]))
    /\ syncing' = [syncing EXCEPT ![d] = w]
    /\ UNCHANGED <<server, pack, used, queue, scanning, history, spent>>

(* The outcome of the item in hand; the loop goes on with the next. *)
yields(w, k, outcome) ==
    request' = [request EXCEPT ![w].step = "next", ![w].left = @ \ {k},
                               ![w].results = @ \cup {<<k, outcome>>}]

syncFind(w, k) ==
    LET refused == k # TokenOf(k[1]) \/ status[k[1]] \in {"REFUNDED", "BLOCKED"} IN
    /\ at(w, "sync", "next")
    /\ k \in request[w].left
    /\ IF refused THEN yields(w, k, "rejected")
       ELSE request' = [request EXCEPT ![w].token = k, ![w].step = "existing"]
    /\ UNCHANGED <<server, device, history, spent>>

(* Fault: whoever finds a row takes it for its own. *)
foundBySelf(w) == "duplicate"
(* An admission that is there already: ours or another device's. *)
found(w) == IF row[ticketOf(w)] = request[w].device THEN "duplicate" ELSE "conflict"

syncExisting(w) ==
    /\ at(w, "sync", "existing")
    /\ IF row[ticketOf(w)] = NoRow THEN goto(w, "create") ELSE yields(w, request[w].token, found(w))
    /\ UNCHANGED <<server, device, history, spent>>

syncCreate(w) ==
    LET t == ticketOf(w) IN
    /\ at(w, "sync", "create")
    /\ createRow(t, request[w].device)
    /\ IF row[t] = NoRow THEN goto(w, "mark") ELSE yields(w, request[w].token, "conflict")
    /\ UNCHANGED <<status, gen, device, history, spent>>

(* Fault: revalidates a ticket that was voided meanwhile. *)
syncMarkAny(w) ==
    /\ at(w, "sync", "mark")
    /\ status' = [status EXCEPT ![ticketOf(w)] = "CHECKED_IN"]
    /\ yields(w, request[w].token, "applied")
    /\ UNCHANGED <<gen, row, device, history, spent>>

(* The result of the update is not looked at. *)
syncMark(w) ==
    /\ at(w, "sync", "mark")
    /\ updateStatus(ticketOf(w), {"VALID"}, "CHECKED_IN")
    /\ yields(w, request[w].token, "applied")
    /\ UNCHANGED <<gen, row, device, history, spent>>

outcomes(w, S) == {k \in Tokens : \E o \in S : <<k, o>> \in request[w].results}

(* Fault: only what was applied leaves the queue. *)
syncAnswerApplied(w) ==
    LET d == request[w].device IN
    /\ at(w, "sync", "next")
    /\ request[w].left = {}
    /\ ends(w)
    /\ syncing' = [e \in Devices |-> IF syncing[e] = w THEN NoWorker ELSE syncing[e]]
    /\ queue' = [queue EXCEPT ![d] = @ \ (IF syncing[d] = w THEN outcomes(w, {"applied"}) ELSE {})]
    /\ UNCHANGED <<server, pack, used, scanning, history, spent>>

(* The device, if it still waits, drops what was answered from the queue,  *)
(* and the used mark of a conflict.                                        *)
syncAnswer(w) ==
    LET d == request[w].device IN
    /\ at(w, "sync", "next")
    /\ request[w].left = {}
    /\ ends(w)
    /\ IF syncing[d] = w
       THEN /\ queue' = [queue EXCEPT ![d] = @ \ {r[1] : r \in request[w].results}]
            /\ used' = [used EXCEPT ![d] = @ \ outcomes(w, {"conflict"})]
            /\ told' = [told EXCEPT ![d] = @ \cup request[w].results]
            /\ syncing' = [syncing EXCEPT ![d] = NoWorker]
       ELSE UNCHANGED <<queue, used, told, syncing>>
    /\ UNCHANGED <<server, pack, scanning, accepted, offline, undos, spent>>

-------------------------------------------------------------------------------
(* Undo, support and refund                                                *)

(* Fault: the row goes first. *)
undoDeletesFirst(w, t) ==
    /\ status[t] = "CHECKED_IN"
    /\ spends("undo")
    /\ begins(w, Request("undo", "delete", Desk, TokenOf(t), {}))
    /\ UNCHANGED <<server, device, history>>

undoCheckIn(w, t) ==
    /\ status[t] = "CHECKED_IN"
    /\ spends("undo")
    /\ begins(w, Request("undo", "revert", Desk, TokenOf(t), {}))
    /\ UNCHANGED <<server, device, history>>
undoRevert(w) ==
    LET t == ticketOf(w) IN
    /\ at(w, "undo", "revert")
    /\ updateStatus(t, {"CHECKED_IN"}, "VALID")
    /\ \/ status[t] = "CHECKED_IN" /\ goto(w, "delete") /\ undos' = [undos EXCEPT ![t] = @ + 1]
       \/ status[t] # "CHECKED_IN" /\ ends(w) /\ UNCHANGED undos
    /\ UNCHANGED <<gen, row, device, accepted, offline, told, spent>>
undoDelete(w) ==
    /\ at(w, "undo", "delete")
    /\ row' = [row EXCEPT ![ticketOf(w)] = NoRow]
    /\ ends(w)
    /\ UNCHANGED <<status, gen, device, history, spent>>

(* transferTicket, and rotateTokensForOrder for one ticket: the status is  *)
(* read, and the token replaced later.                                     *)
transferTicket(w, t) ==
    /\ status[t] = "VALID" /\ gen[t] < MaxGen
    /\ spends("staff")
    /\ begins(w, Request("transfer", "rotate", Desk, TokenOf(t), {}))
    /\ UNCHANGED <<server, device, history>>
updateTokenHash(w) ==
    /\ at(w, "transfer", "rotate")
    /\ gen[ticketOf(w)] < MaxGen
    /\ gen' = [gen EXCEPT ![ticketOf(w)] = @ + 1]
    /\ ends(w)
    /\ UNCHANGED <<status, row, device, history, spent>>

blockTicket(t) ==
    /\ status[t] = "VALID"
    /\ spends("staff")
    /\ updateStatus(t, {"VALID"}, "BLOCKED")
    /\ UNCHANGED <<gen, row, device, request, history>>
unblockTicket(t) ==
    /\ status[t] = "BLOCKED"
    /\ updateStatus(t, {"BLOCKED"}, "VALID")
    /\ UNCHANGED <<gen, row, device, request, history, spent>>
(* Fault: the ticket is cancelled instead. *)
refundCancels ==
    /\ spends("staff")
    /\ status' = [t \in Tickets |->
                     IF status[t] \in {"VALID", "BLOCKED"} THEN "CANCELLED" ELSE status[t]]
    /\ UNCHANGED <<gen, row, device, request, history>>
refundTicketsForOrder ==
    /\ spends("staff")
    /\ status' = [t \in Tickets |->
                     IF status[t] \in {"VALID", "BLOCKED"} THEN "REFUNDED" ELSE status[t]]
    /\ UNCHANGED <<gen, row, device, request, history>>

-------------------------------------------------------------------------------
(* A request stops between two statements; a device that waits for it sees *)
(* an error.                                                               *)
Dies(w) ==
    /\ request[w] # Free
    /\ spends("crash")
    /\ ends(w)
    /\ \/ \E d \in Devices : scanning[d] = w /\ fallBack(d)
       \/ /\ \A d \in Devices : scanning[d] # w
          /\ UNCHANGED <<pack, used, queue, offline, scanning>>
    /\ syncing' = [d \in Devices |-> IF syncing[d] = w THEN NoWorker ELSE syncing[d]]
    /\ UNCHANGED <<server, accepted, told, undos>>

Continue(w) ==
    \/ claim(w) \/ record(w)
    \/ (\E k \in Tokens : syncFind(w, k))
    \/ syncExisting(w) \/ syncCreate(w) \/ syncMark(w) \/ syncAnswer(w)
    \/ undoRevert(w) \/ undoDelete(w) \/ updateTokenHash(w)

Next ==
    \/ \E d \in Devices :
          \/ downloadPack(d) \/ loseScan(d) \/ loseSync(d)
          \/ \E k \in Tokens : scanOffline(d, k)
          \/ \E w \in Workers : syncQueue(w, d)
          \/ \E w \in Workers, k \in Tokens : validateAndCheckIn(w, d, k)
    \/ \E w \in Workers, t \in Tickets :
          manualCheckIn(w, t) \/ undoCheckIn(w, t) \/ transferTicket(w, t)
    \/ \E t \in Tickets : blockTicket(t) \/ unblockTicket(t)
    \/ refundTicketsForOrder
    \/ \E w \in Workers : Continue(w) \/ Dies(w)

Spec == Init /\ [][Next]_vars

(* A request that is alive goes on, and a device synchronizes when the     *)
(* connection returns; nobody is obliged to scan or to undo.               *)
Fairness ==
    /\ \A w \in Workers : WF_vars(Continue(w))
    /\ \A d \in Devices : WF_vars(\E w \in Workers : syncQueue(w, d))

FairSpec == Spec /\ Fairness

-------------------------------------------------------------------------------
(* Safety                                                                  *)

RequestState ==
    {Free} \cup
    [op : {"admit", "sync", "undo", "transfer"},
     step : {"claim", "record", "next", "existing", "create", "mark", "revert", "delete", "rotate"},
     device : Devices \cup {Desk}, token : Tokens, left : SUBSET Tokens,
     results : SUBSET (Tokens \X {"applied", "duplicate", "conflict", "rejected"})]

TypeOK ==
    /\ status \in [Tickets -> TicketStatus]
    /\ gen \in [Tickets -> 0..MaxGen]
    /\ row \in [Tickets -> Devices \cup {Desk, NoRow}]
    /\ \A store \in {pack, used, queue} : store \in [Devices -> SUBSET Tokens]
    /\ scanning \in [Devices -> Workers \cup {NoWorker}]
    /\ syncing \in [Devices -> Workers \cup {NoWorker}]
    /\ request \in [Workers -> RequestState]
    /\ accepted \in [Tickets -> Nat]
    /\ offline \in [Devices -> SUBSET Tickets]
    /\ told \in [Devices -> SUBSET (Tokens \X {"applied", "duplicate", "conflict", "rejected"})]
    /\ undos \in [Tickets -> Nat]
    /\ spent \in [Kinds -> Nat] /\ \A x \in Kinds : spent[x] <= Budget[x]

(* BR-CIN-002: however many devices and coordinators validate a ticket     *)
(* online at once, and whatever a synchronization does to it meanwhile, it *)
(* is accepted once, and once more for each time it was undone (admit).    *)
AcceptedOnceOnline == \A t \in Tickets : accepted[t] <= 1 + undos[t]

(* FR-CIN-005: an admitted ticket has its Checkin row, or the request that *)
(* is about to write it, unless a request died or an undo raced with it    *)
(* (admit, syncOfflineBatch).                                              *)
AdmissionRecorded ==
    \A t \in Tickets :
        status[t] = "CHECKED_IN" /\ undos[t] = 0 /\ spent["crash"] = 0 =>
            \/ row[t] # NoRow
            \/ \E w \in Workers : at(w, "admit", "record") /\ ticketOf(w) = t

(* BR-TKT-004: a ticket that was refunded before entry stays refunded, and *)
(* a blocked one is let in by nobody before it is unblocked, also by the   *)
(* requests that read it while it was valid (syncOfflineBatch, admit).     *)
VoidStaysVoid ==
    [][\A t \in Tickets :
          /\ status[t] = "REFUNDED" => status'[t] = "REFUNDED"
          /\ status[t] = "BLOCKED" => status'[t] # "CHECKED_IN"]_vars

AdmittedOffline(d, t) == t \in offline[d] /\ \A k \in queue[d] : k[1] # t
WasTold(d, t, S) == \E r \in told[d] : r[1][1] = t /\ r[2] \in S

(* FR-CIN-014, BR-CIN-003: two devices that let the same ticket in offline *)
(* learn of it: when both have synchronized, one of them was told of the   *)
(* conflict, or that the ticket is not valid, although answers are lost,   *)
(* requests die and batches are sent again (syncOfflineBatch).             *)
OfflineConflictsTold ==
    \A t \in Tickets : \A d, e \in Devices :
        d # e /\ AdmittedOffline(d, t) /\ AdmittedOffline(e, t) /\ undos[t] = 0 =>
            WasTold(d, t, {"conflict", "rejected"}) \/ WasTold(e, t, {"conflict", "rejected"})

-------------------------------------------------------------------------------
(* Liveness                                                                *)

(* FR-CIN-016: an admission made offline reaches the server: it leaves the *)
(* queue, and then the ticket has a Checkin row, unless that was undone or *)
(* the device was told that the ticket is refused (syncQueue).             *)
AdmissionsArrive ==
    \A d \in Devices, k \in Tokens :
        (k \in queue[d]) ~>
            /\ k \notin queue[d]
            /\ row[k[1]] # NoRow \/ undos[k[1]] > 0 \/ WasTold(d, k[1], {"rejected"})

===============================================================================
