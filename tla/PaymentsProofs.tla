---------------------------- MODULE PaymentsProofs ----------------------------
(***************************************************************************)
(* Payments, for any number of requests, charges, items, crashes and       *)
(* failed calls: types, the safety invariants, and that a payment never    *)
(* moves back.                                                             *)
(***************************************************************************)
EXTENDS Payments, FiniteSetTheorems, TLAPS

(* What a payment's status says of its charge at the provider. *)
Paid == {"approved"} \cup Refunded
Failed == {"rejected", "cancelled", "expired"}
Good == {"APPROVED", "REFUNDED", "CHARGED_BACK"}

PaymentsFollowProvider ==
    \A c \in Charges :
        /\ payment[c] # "NONE" => tx[c] # "none"
        /\ payment[c] \in {"REJECTED", "EXPIRED"} => tx[c] \in Failed
        /\ payment[c] = "APPROVED" => tx[c] \in Paid
        /\ payment[c] \in {"REFUNDED", "CHARGED_BACK"} => tx[c] \in Refunded
        /\ \A k \in Outcomes : notice[c][k] # "UNSENT" => tx[c] \in TxStatus

(* The stages of a request that handles an approval, and a refund. *)
Fulfilling == {"fulfill", "accrue", "accrueWrite", "post", "postWrite", "issue", "create"}
Settling == {"settle", "voidTickets", "books", "uncommission"}

(* What a request saw at the provider is still so, or was followed by a    *)
(* refund of what it saw approved.                                         *)
SawTruth(p) ==
    LET j == job[p] IN
    /\ j.saw = "approved" => tx[j.charge] \in Paid
    /\ j.saw \in Failed \cup Refunded => tx[j.charge] = j.saw
    /\ j.kind \in {"webhook", "reconcile"} => j.saw \in TxStatus
    /\ j.kind = "webhook" => j.notice \in Outcomes /\ notice[j.charge][j.notice] # "UNSENT"

(* What each stage of a request may rely on. *)
StageOK(p) ==
    LET j == job[p] IN
    /\ j.step \in {"count", "call", "store", "route"} => j.kind \in Methods
    /\ j.step \in {"count", "call"} => j.saw = "none"
    /\ j.step = "store" => j.saw # "none" /\ tx[j.charge] # "none"
    /\ j.step \in {"route", "apply"} => j.saw # "none" /\ payment[j.charge] # "NONE"
    /\ j.step = "apply" => j.kind \in {"CARD", "webhook", "reconcile"}
    /\ j.step \in Fulfilling \cup {"order"} => j.saw = "approved" /\ payment[j.charge] \in Good
    /\ j.step \in Fulfilling => order # "AWAITING_PAYMENT"
    /\ j.step = "create" => order \in Settled /\ \A i \in Items \ j.todo : ticket[i] # "NONE"
    /\ j.step \in Settling => j.saw \in Refunded
    /\ j.step = "done" /\ j.kind = "webhook" /\ j.saw = "approved" =>
          /\ payment[j.charge] \in Good
          /\ order # "AWAITING_PAYMENT"
          /\ order = "PAID" => AllIssued

RequestsOK == \A p \in Workers : job[p] # Idle => SawTruth(p) /\ StageOK(p)

(* One request applies the answer of a card charge, and it finds the       *)
(* payment as it was created or moved by a notification.                   *)
Answering(p) == job[p] # Idle /\ job[p].kind = "CARD" /\ job[p].step \in {"route", "apply"}
CardAnsweredOnce ==
    \A p \in Workers : Answering(p) =>
        /\ payment[job[p].charge] # "PROCESSING"
        /\ \A q \in Workers \ {p} : Answering(q) => job[q].charge # job[p].charge

(* The inductive invariant. *)
Inv == TypeOK /\ PaymentsFollowProvider /\ RequestsOK /\ CardAnsweredOnce

-------------------------------------------------------------------------------
(* Types                                                                   *)

Notices == {"UNSENT", "UNSEEN", "RECEIVED", "FAILED", "PROCESSED"}

(* The initial state is well typed. *)
LEMMA TypeInit == Init => TypeOK
<1> SUFFICES ASSUME Init PROVE TypeOK
    OBVIOUS
<1>1. made = <<>> /\ made \in Seq(Charges) /\ DOMAIN made = {}
    BY DEF Init
<1>2. {c \in Charges : payment[c] # "NONE"} = {}
    BY DEF Init
<1>3. {made[n] : n \in DOMAIN made} = {}
    BY <1>1
<1>4. job \in [Workers -> WorkerJob]
    BY DEF Init, WorkerJob
<1>5. payment \in [Charges -> PaymentStatus]
    BY DEF Init, PaymentStatus
<1>6. /\ tx \in [Charges -> TxStatus \cup {"none", "pending"}]
      /\ notice \in [Charges -> [Outcomes -> Notices]]
      /\ ticket \in [Items -> {"NONE", "VALID", "REFUNDED"}]
    BY DEF Init, Notices
<1>7. crashes \in 0..MaxCrashes /\ failures \in 0..MaxFailures
    BY PaymentsAssumption DEF Init
<1>8. QED
    BY <1>1, <1>2, <1>3, <1>4, <1>5, <1>6, <1>7 DEF Init, TypeOK, Notices

(* The requests that are running. *)
Requests ==
    [kind : Methods \cup {"webhook", "reconcile"}, step : Steps, charge : Charges,
     saw : TxStatus \cup {"none", "pending"}, notice : Outcomes \cup {"none"},
     priced : BOOLEAN, todo : SUBSET Items]

(* A worker is idle or runs a typed request. *)
LEMMA RequestType ==
    ASSUME TypeOK, NEW p \in Workers
    PROVE  /\ job \in [Workers -> {Idle} \cup Requests]
           /\ job[p] # Idle => job[p] \in Requests
BY DEF TypeOK, WorkerJob, Requests

(* A request stays typed when it goes to another step. *)
LEMMA RequestStep ==
    ASSUME NEW r \in Requests, NEW step \in Steps
    PROVE  [r EXCEPT !.step = step] \in Requests
BY DEF Requests

(* The requests stay typed when one of them becomes a typed one, or ends. *)
LEMMA TypeMoves ==
    ASSUME TypeOK, NEW p \in Workers, NEW r \in {Idle} \cup Requests,
           job' = [job EXCEPT ![p] = r]
    PROVE  job' \in [Workers -> WorkerJob]
BY DEF TypeOK, WorkerJob, Requests

(* The requests stay typed when one goes on, ... *)
LEMMA TypeGoto ==
    ASSUME TypeOK, NEW p \in Workers, NEW step \in Steps, job[p] # Idle, goto(p, step)
    PROVE  job' \in [Workers -> WorkerJob]
<1>1. job[p] \in Requests
    BY RequestType
<1>2. [job[p] EXCEPT !.step = step] \in Requests
    BY <1>1, RequestStep
<1>3. job' = [job EXCEPT ![p] = [job[p] EXCEPT !.step = step]]
    BY DEF goto
<1>4. QED
    BY <1>2, <1>3, TypeMoves

(* ... when one ends, ... *)
LEMMA TypeEnds ==
    ASSUME TypeOK, NEW p \in Workers, ends(p)
    PROVE  job' \in [Workers -> WorkerJob]
BY DEF TypeOK, ends, WorkerJob

(* A new request is typed. *)
LEMMA TypeJob ==
    ASSUME NEW kind \in Methods \cup {"webhook", "reconcile"}, NEW step \in Steps,
           NEW c \in Charges, NEW s \in TxStatus \cup {"none", "pending"},
           NEW k \in Outcomes \cup {"none"}
    PROVE  Job(kind, step, c, s, k) \in Requests
BY DEF Job, Requests

(* The claim of a notification and its outcome keep the type of notice. *)
LEMMA TypeNotice ==
    ASSUME TypeOK, NEW c \in Charges, NEW k, NEW n \in Notices,
           notice' = [notice EXCEPT ![c][k] = n]
    PROVE  notice' \in [Charges -> [Outcomes -> Notices]]
BY DEF TypeOK, Notices

(* ... and when one throws, which marks its notification. *)
LEMMA TypeThrows ==
    ASSUME TypeOK, NEW p \in Workers, job[p] # Idle, throws(p)
    PROVE  /\ job' \in [Workers -> WorkerJob]
           /\ notice' \in [Charges -> [Outcomes -> Notices]]
<1>1. job[p].charge \in Charges
    BY RequestType DEF Requests
<1>2. notice' \in [Charges -> [Outcomes -> Notices]]
    BY <1>1, TypeNotice DEF throws, TypeOK, Notices
<1>3. QED
    BY <1>2, TypeEnds DEF throws

(* A payment that is created enters the list of payments made. *)
LEMMA TypeMade ==
    ASSUME TypeOK, NEW c \in Charges, payment[c] = "NONE",
           payment' = [payment EXCEPT ![c] = "CREATED"], made' = Append(made, c)
    PROVE  /\ payment' \in [Charges -> PaymentStatus]
           /\ made' \in Seq(Charges)
           /\ {made'[n] : n \in DOMAIN made'} = {d \in Charges : payment'[d] # "NONE"}
           /\ \A m, n \in DOMAIN made' : made'[m] = made'[n] => m = n
<1>1. /\ made \in Seq(Charges)
      /\ {made[n] : n \in DOMAIN made} = {d \in Charges : payment[d] # "NONE"}
      /\ \A m, n \in DOMAIN made : made[m] = made[n] => m = n
      /\ payment \in [Charges -> PaymentStatus]
    BY DEF TypeOK
<1>2. /\ made' \in Seq(Charges)
      /\ Len(made') = Len(made) + 1
      /\ DOMAIN made' = DOMAIN made \cup {Len(made) + 1}
      /\ \A n \in DOMAIN made : made'[n] = made[n] /\ n # Len(made) + 1
      /\ made'[Len(made) + 1] = c
    BY <1>1
<1>3. \A n \in DOMAIN made : made[n] # c
    BY <1>1
<1>4. payment' \in [Charges -> PaymentStatus]
    BY <1>1 DEF PaymentStatus
<1>5. {made'[n] : n \in DOMAIN made'} = {made[n] : n \in DOMAIN made} \cup {c}
    BY <1>2
<1>6. {d \in Charges : payment'[d] # "NONE"} = {d \in Charges : payment[d] # "NONE"} \cup {c}
    BY <1>1
<1>7. \A m, n \in DOMAIN made' : made'[m] = made'[n] => m = n
    BY <1>1, <1>2, <1>3
<1>8. QED
    BY <1>1, <1>2, <1>4, <1>5, <1>6, <1>7

(* A charge's request, from its opening to the row it stores. *)
LEMMA TypeCharging ==
    ASSUME Inv, NEW p \in Workers,
           \/ \E m \in Methods : openCharge(p, m)
           \/ countByOrder(p) \/ createCharge(p) \/ storePayment(p) \/ reserveRef(p)
    PROVE  TypeOK'
<1> DEFINE j == job[p]
<1>0. TypeOK /\ (j # Idle => j \in Requests)
    BY RequestType DEF Inv
<1>1. ASSUME NEW m \in Methods, openCharge(p, m) PROVE TypeOK'
    <2>1. <<m, 0>> \in Charges /\ "count" \in Steps
        BY PaymentsAssumption DEF Charges, Steps
    <2>2. Job(m, "count", <<m, 0>>, "none", "none") \in Requests
        BY <2>1, TypeJob
    <2>3. job' \in [Workers -> WorkerJob]
        BY <1>0, <1>1, <2>2, TypeMoves DEF openCharge
    <2>4. QED
        BY <1>0, <1>1, <2>3 DEF openCharge, TypeOK, provider, payments, goods, faults
<1>2. CASE countByOrder(p)
    <2>1. j # Idle /\ j.step = "count" /\ j.kind \in Methods
        BY <1>2 DEF countByOrder, at, Inv, RequestsOK, StageOK
    <2>2. job' \in [Workers -> WorkerJob]
        <3>1. CASE Len(made) < MaxAttempts
            <4>1. <<j.kind, Len(made)>> \in Charges /\ "call" \in Steps
                BY <1>0, <2>1, <3>1, PaymentsAssumption DEF TypeOK, Charges, Steps
            <4>2. [j EXCEPT !.charge = <<j.kind, Len(made)>>, !.step = "call"] \in Requests
                BY <1>0, <2>1, <4>1 DEF Requests
            <4>3. job' = [job EXCEPT ![p] =
                             [j EXCEPT !.charge = <<j.kind, Len(made)>>, !.step = "call"]]
                BY <1>2, <3>1 DEF countByOrder
            <4>4. QED
                BY <1>0, <4>2, <4>3, TypeMoves
        <3>2. CASE ~(Len(made) < MaxAttempts)
            BY <1>0, <1>2, <3>2, TypeEnds DEF countByOrder
        <3>3. QED
            BY <3>1, <3>2
    <2>3. QED
        BY <1>0, <1>2, <2>2 DEF countByOrder, TypeOK, provider, payments, goods, faults
<1>3. CASE createCharge(p)
    <2> DEFINE c == j.charge
    <2>1. j # Idle /\ j \in Requests /\ c \in Charges
        BY <1>0, <1>3 DEF createCharge, at, Requests
    <2>2. PICK s \in TxStatus \cup {"pending"} :
              /\ tx' = [tx EXCEPT ![c] = s]
              /\ IF s \in {tx[c], "pending"} THEN UNCHANGED notice ELSE notify(c, s)
              /\ job' = [job EXCEPT ![p].saw = s, ![p].step = "store"]
        BY <1>0, <1>3, <2>1, PaymentsAssumption DEF createCharge, TypeOK
    <2>3. tx' \in [Charges -> TxStatus \cup {"none", "pending"}]
        BY <1>0, <2>1, <2>2 DEF TypeOK
    <2>4. notice' \in [Charges -> [Outcomes -> Notices]]
        BY <1>0, <2>1, <2>2, TypeNotice DEF notify, TypeOK, Notices
    <2>5. [j EXCEPT !.saw = s, !.step = "store"] \in Requests
        BY <2>1, <2>2 DEF Requests, Steps
    <2>6. job' = [job EXCEPT ![p] = [j EXCEPT !.saw = s, !.step = "store"]]
        BY <2>2
    <2>7. job' \in [Workers -> WorkerJob]
        BY <1>0, <2>5, <2>6, TypeMoves
    <2>8. UNCHANGED <<payments, order, due, goods, faults>>
        BY <1>3 DEF createCharge
    <2>9. QED
        BY <1>0, <2>3, <2>4, <2>7, <2>8 DEF TypeOK, Notices, payments, goods, faults
<1>4. CASE storePayment(p)
    <2> DEFINE c == j.charge
    <2>1. j # Idle /\ j \in Requests /\ c \in Charges
        BY <1>0, <1>4 DEF storePayment, at, Requests
    <2>2. CASE payment[c] = "NONE"
        <3>1. /\ payment' = [payment EXCEPT ![c] = "CREATED"]
              /\ made' = Append(made, c)
              /\ goto(p, "route")
            BY <1>4, <2>2 DEF storePayment
        <3>2. job' \in [Workers -> WorkerJob]
            BY <1>0, <2>1, <3>1, TypeGoto DEF Steps
        <3>3. /\ payment' \in [Charges -> PaymentStatus]
              /\ made' \in Seq(Charges)
              /\ {made'[n] : n \in DOMAIN made'} = {d \in Charges : payment'[d] # "NONE"}
              /\ \A m, n \in DOMAIN made' : made'[m] = made'[n] => m = n
            BY <1>0, <2>1, <2>2, <3>1, TypeMade
        <3>4. routed' \subseteq {d \in Charges : payment'[d] # "NONE"}
            BY <1>0, <1>4, <2>1, <3>1 DEF storePayment, TypeOK
        <3>5. QED
            BY <1>0, <1>4, <3>2, <3>3, <3>4 DEF storePayment, TypeOK, provider, goods, faults
    <2>3. CASE payment[c] # "NONE"
        <3>1. job' \in [Workers -> WorkerJob]
            BY <1>0, <1>4, <2>3, TypeEnds DEF storePayment
        <3>2. QED
            BY <1>0, <1>4, <2>3, <3>1 DEF storePayment, TypeOK, provider, goods, faults
    <2>4. QED
        BY <2>2, <2>3
<1>5. CASE reserveRef(p)
    <2>1. j # Idle /\ j \in Requests /\ j.step = "route" /\ j.charge \in Charges
        BY <1>0, <1>5 DEF reserveRef, at, Requests
    <2>2. job' \in [Workers -> WorkerJob]
        BY <1>0, <1>5, <2>1, TypeGoto DEF reserveRef, Steps
    <2>3. payment[j.charge] # "NONE"
        BY <2>1 DEF Inv, RequestsOK, StageOK
    <2>4. routed' \subseteq {d \in Charges : payment'[d] # "NONE"}
        BY <1>0, <1>5, <2>1, <2>3 DEF reserveRef, TypeOK
    <2>5. QED
        BY <1>0, <1>5, <2>2, <2>4 DEF reserveRef, TypeOK, provider, goods, faults
<1>6. QED
    BY <1>1, <1>2, <1>3, <1>4, <1>5

(* The request of a notification, or of a look-up that reconciles. *)
LEMMA TypeNotified ==
    ASSUME Inv, NEW p \in Workers,
           \/ \E c \in Charges, k \in Outcomes : deliver(p, c, k)
           \/ reconcileOrder(p) \/ applyEvent(p) \/ markOrderPaid(p) \/ markProcessed(p)
    PROVE  TypeOK'
<1> DEFINE j == job[p]
<1>0. TypeOK /\ (j # Idle => j \in Requests)
    BY RequestType DEF Inv
<1>1. ASSUME NEW c \in Charges, NEW k \in Outcomes, deliver(p, c, k) PROVE TypeOK'
    <2>1. Job("webhook", "apply", c, tx[c], k) \in Requests
        BY <1>0, TypeJob DEF TypeOK, Steps
    <2>2. job' \in [Workers -> WorkerJob]
        BY <1>0, <1>1, <2>1, TypeMoves DEF deliver
    <2>3. notice' \in [Charges -> [Outcomes -> Notices]]
        BY <1>0, <1>1 DEF deliver, TypeOK, Notices, Claimable
    <2>4. UNCHANGED <<tx, payments, order, due, goods, faults>>
        BY <1>1 DEF deliver
    <2>5. QED
        BY <1>0, <2>2, <2>3, <2>4 DEF TypeOK, Notices, payments, goods, faults
<1>2. CASE reconcileOrder(p)
    <2>1. PICK n \in DOMAIN made :
              job' = [job EXCEPT ![p] = Job("reconcile", "apply", made[n], tx[made[n]], "none")]
        BY <1>2 DEF reconcileOrder
    <2>2. made[n] \in Charges
        BY <1>0 DEF TypeOK
    <2>3. Job("reconcile", "apply", made[n], tx[made[n]], "none") \in Requests
        BY <1>0, <2>2, TypeJob DEF TypeOK, Steps
    <2>4. job' \in [Workers -> WorkerJob]
        BY <1>0, <2>1, <2>3, TypeMoves
    <2>5. QED
        BY <1>0, <1>2, <2>4 DEF reconcileOrder, TypeOK, provider, payments, goods, faults
<1>3. CASE applyEvent(p)
    <2> DEFINE c == j.charge
    <2>1. j # Idle /\ j \in Requests /\ c \in Charges /\ j.step = "apply"
        BY <1>0, <1>3 DEF applyEvent, at, Requests
    <2>2. job' \in [Workers -> WorkerJob]
        BY <1>0, <1>3, <2>1, TypeGoto DEF applyEvent, Steps
    <2>3. \A d \in Charges : payment'[d] # payment[d] =>
              d = c /\ payment'[d] = Target(j.kind, j.saw) /\ payment[d] \in From(j.kind, j.saw)
        BY <1>0, <1>3, <2>1 DEF applyEvent, TypeOK
    <2>4. SawTruth(p) /\ StageOK(p)
        BY <2>1 DEF Inv, RequestsOK
    <2>5. Target(j.kind, j.saw) \in PaymentStatus \ {"NONE"}
        BY <2>1, <2>4 DEF Target, PaymentStatus, SawTruth, StageOK, TxStatus
    <2>6. payment' \in [Charges -> PaymentStatus]
        BY <1>0, <1>3, <2>1, <2>5 DEF applyEvent, TypeOK
    <2>7. payment[c] # "NONE"
        BY <2>1, <2>4 DEF StageOK
    <2>8. {d \in Charges : payment'[d] # "NONE"} = {d \in Charges : payment[d] # "NONE"}
        BY <1>0, <1>3, <2>1, <2>5, <2>7 DEF applyEvent, TypeOK
    <2>9. UNCHANGED <<provider, made, routed, order, due, goods, faults>>
        BY <1>3 DEF applyEvent
    <2>10. QED
        BY <1>0, <2>2, <2>6, <2>8, <2>9 DEF TypeOK, provider, goods, faults
<1>4. CASE markOrderPaid(p)
    <2>1. job' \in [Workers -> WorkerJob]
        BY <1>0, <1>4, TypeGoto DEF markOrderPaid, at, Steps
    <2>2. QED
        BY <1>0, <1>4, <2>1 DEF markOrderPaid, TypeOK, provider, payments, goods, faults
<1>5. CASE markProcessed(p)
    <2>1. job' \in [Workers -> WorkerJob]
        BY <1>0, <1>5, TypeEnds DEF markProcessed
    <2>2. notice' \in [Charges -> [Outcomes -> Notices]]
        <3>1. j.charge \in Charges
            BY <1>0, <1>5 DEF markProcessed, at, Requests
        <3>2. QED
            BY <1>0, <1>5, <3>1, TypeNotice DEF markProcessed, TypeOK, Notices
    <2>3. UNCHANGED <<tx, payments, order, due, goods, faults>>
        BY <1>5 DEF markProcessed
    <2>4. QED
        BY <1>0, <2>1, <2>2, <2>3 DEF TypeOK, Notices, payments, goods, faults
<1>6. QED
    BY <1>1, <1>2, <1>3, <1>4, <1>5

(* A fulfilment. *)
LEMMA TypeFulfilling ==
    ASSUME Inv, NEW p \in Workers,
           \/ fulfill(p) \/ accrueForPaidOrder(p) \/ accrueWrites(p)
           \/ postForPaidOrder(p) \/ postWrites(p)
           \/ issueForOrder(p) \/ \E i \in Items : createForOrderItem(p, i)
    PROVE  TypeOK'
<1> DEFINE j == job[p]
<1>0. TypeOK /\ (j # Idle => j \in Requests)
    BY RequestType DEF Inv
<1>1. ASSUME NEW step, NEW yes \in Steps, NEW no \in Steps, readOrder(p, step, yes, no)
      PROVE  TypeOK'
    <2> DEFINE next == IF order = "PAID" THEN yes ELSE no
               b == step = "post" /\ "ACCRUAL" \in commission
               r == [j EXCEPT !.step = next, !.priced = b]
    <2>1. j # Idle /\ job' = [job EXCEPT ![p] = r]
        BY <1>1 DEF readOrder, at
    <2>2. next \in Steps /\ b \in BOOLEAN
        OBVIOUS
    <2> HIDE DEF next, b
    <2>3. r \in Requests
        BY <1>0, <2>1, <2>2 DEF Requests
    <2>4. job' \in [Workers -> WorkerJob]
        BY <1>0, <2>1, <2>3, TypeMoves
    <2>5. QED
        BY <1>0, <1>1, <2>4 DEF readOrder, TypeOK, provider, payments, goods, faults
<1>2. CASE fulfill(p)
    BY <1>1, <1>2 DEF fulfill, Steps
<1>3. CASE accrueForPaidOrder(p)
    BY <1>1, <1>3 DEF accrueForPaidOrder, Steps
<1>4. CASE postForPaidOrder(p)
    BY <1>1, <1>4 DEF postForPaidOrder, Steps
<1>5. CASE accrueWrites(p)
    <2>1. job' \in [Workers -> WorkerJob]
        BY <1>0, <1>5, TypeGoto DEF accrueWrites, at, Steps
    <2>2. QED
        BY <1>0, <1>5, <2>1 DEF accrueWrites, TypeOK, provider, payments, faults
<1>6. CASE postWrites(p)
    <2>1. job' \in [Workers -> WorkerJob]
        BY <1>0, <1>6, TypeGoto DEF postWrites, at, Steps
    <2>2. QED
        BY <1>0, <1>6, <2>1 DEF postWrites, TypeOK, provider, payments, faults
<1>7. CASE issueForOrder(p)
    <2>1. job' \in [Workers -> WorkerJob] /\ notice' \in [Charges -> [Outcomes -> Notices]]
        <3>1. CASE order # "PAID"
            BY <1>0, <1>7, <3>1, TypeThrows DEF issueForOrder, at
        <3>2. CASE order = "PAID"
            <4> DEFINE missing == {i \in Items : ticket[i] = "NONE"}
                       next == IF missing = {} THEN "done" ELSE "create"
                       r == [j EXCEPT !.todo = missing, !.step = next]
            <4>1. j # Idle /\ job' = [job EXCEPT ![p] = r] /\ UNCHANGED notice
                BY <1>7, <3>2 DEF issueForOrder, at
            <4>2. missing \in SUBSET Items /\ next \in Steps
                BY DEF Steps
            <4> HIDE DEF missing, next
            <4>3. r \in Requests
                BY <1>0, <4>1, <4>2 DEF Requests
            <4>4. QED
                BY <1>0, <4>1, <4>3, TypeMoves DEF TypeOK, Notices
        <3>3. QED
            BY <3>1, <3>2
    <2>2. UNCHANGED <<tx, payments, order, due, goods, faults>>
        BY <1>7 DEF issueForOrder
    <2>3. QED
        BY <1>0, <2>1, <2>2 DEF TypeOK, Notices, payments, goods, faults
<1>8. ASSUME NEW i \in Items, createForOrderItem(p, i) PROVE TypeOK'
    <2> DEFINE todo == j.todo \ {i}
               next == IF j.todo = {i} THEN "done" ELSE "create"
               r == [j EXCEPT !.todo = todo, !.step = next]
    <2>1. j # Idle /\ job' = [job EXCEPT ![p] = r]
        BY ZenonT(40), <1>8 DEF createForOrderItem, at
    <2>2. todo \in SUBSET Items /\ next \in Steps
        BY <1>0, <2>1 DEF Steps, Requests
    <2> HIDE DEF todo, next
    <2>3. r \in Requests
        BY <1>0, <2>1, <2>2 DEF Requests
    <2>4. job' \in [Workers -> WorkerJob]
        BY <1>0, <2>1, <2>3, TypeMoves
    <2>5. ticket' \in [Items -> {"NONE", "VALID", "REFUNDED"}]
        BY <1>0, <1>8 DEF createForOrderItem, TypeOK
    <2>6. UNCHANGED <<provider, payments, order, due, commission, ledger, faults>>
        BY <1>8 DEF createForOrderItem
    <2>7. QED
        BY <1>0, <2>4, <2>5, <2>6 DEF TypeOK, provider, payments, faults
<1>9. QED
    BY <1>2, <1>3, <1>4, <1>5, <1>6, <1>7, <1>8

(* The settlement of a refund. *)
LEMMA TypeSettling ==
    ASSUME Inv, NEW p \in Workers,
           \/ settleRefund(p) \/ refundTicketsForOrder(p)
           \/ reverseLedger(p) \/ reverseCommission(p)
    PROVE  TypeOK'
<1>0. TypeOK
    BY DEF Inv
<1>1. job' \in [Workers -> WorkerJob]
    BY <1>0, TypeGoto
    DEF settleRefund, refundTicketsForOrder, reverseLedger, reverseCommission, at, Steps
<1>2. CASE settleRefund(p)
    BY <1>0, <1>1, <1>2 DEF settleRefund, TypeOK, provider, payments, goods, faults
<1>3. CASE refundTicketsForOrder(p)
    BY <1>0, <1>1, <1>3 DEF refundTicketsForOrder, TypeOK, provider, payments, faults
<1>4. CASE reverseLedger(p)
    BY <1>0, <1>1, <1>4 DEF reverseLedger, TypeOK, provider, payments, faults
<1>5. CASE reverseCommission(p)
    BY <1>0, <1>1, <1>5 DEF reverseCommission, TypeOK, provider, payments, faults
<1>6. QED
    BY <1>2, <1>3, <1>4, <1>5

(* A call that fails, and a request that stops. *)
LEMMA TypeFaults ==
    ASSUME Inv, NEW p \in Workers, Fails(p) \/ Dies(p)
    PROVE  TypeOK'
<1>0. TypeOK
    BY DEF Inv
<1>1. CASE Fails(p)
    <2>1. job[p] # Idle /\ failures' = failures + 1 /\ failures < MaxFailures
        BY <1>1 DEF Fails
    <2>2. failures' \in 0..MaxFailures
        BY <1>0, <2>1, PaymentsAssumption DEF TypeOK
    <2>3. job' \in [Workers -> WorkerJob] /\ notice' \in [Charges -> [Outcomes -> Notices]]
        <3>1. CASE job[p].step \in DOMAIN Swallowed(p)
            <4>1. Swallowed(p)[job[p].step] \in Steps
                BY <3>1 DEF Swallowed, Steps
            <4>2. QED
                BY <1>0, <1>1, <2>1, <3>1, <4>1, TypeGoto DEF Fails, TypeOK, Notices
        <3>2. CASE job[p].step \notin DOMAIN Swallowed(p)
            BY <1>0, <1>1, <2>1, <3>2, TypeThrows DEF Fails
        <3>3. QED
            BY <3>1, <3>2
    <2>4. UNCHANGED <<tx, payments, order, due, goods, crashes>>
        BY <1>1 DEF Fails
    <2>5. QED
        BY <1>0, <2>2, <2>3, <2>4 DEF TypeOK, Notices, payments, goods
<1>2. CASE Dies(p)
    <2>1. job' \in [Workers -> WorkerJob]
        BY <1>0, <1>2, TypeEnds DEF Dies
    <2>2. crashes' \in 0..MaxCrashes
        BY <1>0, <1>2, PaymentsAssumption DEF Dies, TypeOK
    <2>3. QED
        BY <1>0, <1>2, <2>1, <2>2 DEF Dies, TypeOK, provider, payments, goods
<1>3. QED
    BY <1>1, <1>2

(* Every step keeps the types. *)
LEMMA TypeNext == Inv /\ [Next]_vars => TypeOK'
<1> SUFFICES ASSUME Inv, [Next]_vars PROVE TypeOK'
    OBVIOUS
<1>0. TypeOK
    BY DEF Inv
<1>1. CASE UNCHANGED vars
    BY <1>0, <1>1 DEF vars, TypeOK, provider, payments, goods, faults
<1>2. CASE HoldLapses
    BY <1>0, <1>2 DEF HoldLapses, TypeOK, provider, payments, goods, faults
<1>9. CASE expire
    BY <1>0, <1>9 DEF expire, TypeOK, provider, payments, goods, faults
<1>3. ASSUME NEW c \in Charges, NEW s \in Outcomes, TxMoves(c, s) PROVE TypeOK'
    <2>1. tx' \in [Charges -> TxStatus \cup {"none", "pending"}]
        BY <1>0, <1>3, PaymentsAssumption DEF TxMoves, TypeOK
    <2>2. notice' \in [Charges -> [Outcomes -> Notices]]
        BY <1>0, <1>3, TypeNotice DEF TxMoves, notify, TypeOK, Notices
    <2>3. UNCHANGED <<payments, order, due, goods, job, faults>>
        BY <1>3 DEF TxMoves
    <2>4. QED
        BY <1>0, <2>1, <2>2, <2>3 DEF TypeOK, Notices, payments, goods, faults
<1>4. ASSUME NEW p \in Workers,
             \/ \E m \in Methods : openCharge(p, m)
             \/ \E c \in Charges, k \in Outcomes : deliver(p, c, k)
             \/ reconcileOrder(p) \/ Continue(p) \/ Fails(p) \/ Dies(p)
      PROVE  TypeOK'
    BY <1>4, TypeCharging, TypeNotified, TypeFulfilling, TypeSettling, TypeFaults DEF Continue
<1>5. QED
    BY <1>1, <1>2, <1>9, <1>3, <1>4 DEF Next

-------------------------------------------------------------------------------
(* What no step undoes                                                     *)

(* A charge stays known, paid money is at most refunded, and what failed   *)
(* or was refunded is final; a payment stays, and stays good; an order     *)
(* that was paid stays so until it is refunded; a ticket stays issued.     *)
Forward ==
    /\ \A c \in Charges :
          /\ tx[c] # "none" => tx'[c] # "none"
          /\ tx[c] \in Paid => tx'[c] \in Paid
          /\ tx[c] \in Failed \cup Refunded => tx'[c] = tx[c]
          /\ tx[c] \in TxStatus => tx'[c] \in TxStatus
          /\ payment[c] # "NONE" => payment'[c] # "NONE"
          /\ payment[c] \in Good => payment'[c] \in Good
          /\ \A k \in Outcomes : notice[c][k] # "UNSENT" => notice'[c][k] # "UNSENT"
    /\ order # "AWAITING_PAYMENT" => order' # "AWAITING_PAYMENT"
    /\ order \in Settled => order' \in Settled
    /\ order' = "PAID" => order \in {"PAID", "AWAITING_PAYMENT"}
    /\ \A i \in Items : ticket[i] # "NONE" => ticket'[i] # "NONE"

(* The provider's part of it, for the steps that move a charge.            *)
LEMMA ForwardTx ==
    ASSUME TypeOK, NEW c \in Charges, NEW s \in TxStatus \cup {"pending"},
           tx' = [tx EXCEPT ![c] = s],
           \/ tx[c] = "none" \/ tx[c] = s
           \/ tx[c] = "pending" /\ s \in TxStatus
           \/ tx[c] = "approved" /\ s \in Refunded
    PROVE  \A d \in Charges :
              /\ tx[d] # "none" => tx'[d] # "none"
              /\ tx[d] \in Paid => tx'[d] \in Paid
              /\ tx[d] \in Failed \cup Refunded => tx'[d] = tx[d]
              /\ tx[d] \in TxStatus => tx'[d] \in TxStatus
BY DEF TypeOK, Paid, Failed, Refunded, TxStatus

(* A notification that was sent stays sent. *)
LEMMA ForwardNotice ==
    ASSUME TypeOK, NEW c \in Charges, NEW k, NEW n \in Notices \ {"UNSENT"},
           notice' = [notice EXCEPT ![c][k] = n]
    PROVE  \A d \in Charges, l \in Outcomes : notice[d][l] # "UNSENT" => notice'[d][l] # "UNSENT"
BY DEF TypeOK, Notices

(* What applyEvent does to the payment. *)
LEMMA Applied ==
    ASSUME Inv, NEW p \in Workers, applyEvent(p)
    PROVE  LET j == job[p] IN
           /\ j # Idle /\ j \in Requests /\ j.step = "apply" /\ SawTruth(p) /\ StageOK(p)
           /\ \A d \in Charges : d # j.charge => payment'[d] = payment[d]
           /\ payment'[j.charge] = IF payment[j.charge] \in From(j.kind, j.saw)
                                   THEN Target(j.kind, j.saw) ELSE payment[j.charge]
           /\ Target(j.kind, j.saw) \in PaymentStatus \ {"NONE", "CREATED"}
<1>1. TypeOK /\ job[p] # Idle /\ job[p] \in Requests /\ job[p].step = "apply"
    BY RequestType DEF Inv, applyEvent, at
<1>2. SawTruth(p) /\ StageOK(p)
    BY <1>1 DEF Inv, RequestsOK
<1>3. Target(job[p].kind, job[p].saw) \in PaymentStatus \ {"NONE", "CREATED"}
    BY <1>1, <1>2 DEF Target, PaymentStatus, SawTruth, StageOK, TxStatus, Requests
<1>4. QED
    BY <1>1, <1>2, <1>3 DEF applyEvent, TypeOK, Requests

(* Every step goes forward. *)
LEMMA ForwardNext == Inv /\ [Next]_vars => Forward
<1> SUFFICES ASSUME Inv, [Next]_vars PROVE Forward
    OBVIOUS
<1>0. TypeOK
    BY DEF Inv
<1>1. CASE UNCHANGED <<tx, notice, payment, order, ticket>>
    BY <1>1 DEF Forward
<1>2. CASE expire
    BY <1>2 DEF expire, Forward, provider, payments, goods, Settled
<1>3. ASSUME NEW c \in Charges, NEW s \in Outcomes, TxMoves(c, s) PROVE Forward
    <2>1. /\ tx' = [tx EXCEPT ![c] = s] /\ s \in TxStatus
          /\ \/ tx[c] = "pending" /\ s \in TxStatus
             \/ tx[c] = "approved" /\ s \in Refunded
        BY <1>3, PaymentsAssumption DEF TxMoves
    <2>2. UNCHANGED <<payments, order, ticket>>
        BY <1>3 DEF TxMoves, goods
    <2>3. notice' = [notice EXCEPT ![c][s] = "UNSEEN"]
        BY <1>3 DEF TxMoves, notify
    <2>4. QED
        BY <1>0, <2>1, <2>2, <2>3, ForwardTx, ForwardNotice DEF Forward, Notices, payments
<1>4. ASSUME NEW p \in Workers, createCharge(p) PROVE Forward
    <2> DEFINE c == job[p].charge
    <2>1. c \in Charges
        BY <1>0, <1>4, RequestType DEF createCharge, at, Requests
    <2>2. PICK s \in TxStatus \cup {"pending"} :
              /\ tx' = [tx EXCEPT ![c] = s]
              /\ tx[c] = "none" \/ tx[c] = s
              /\ IF s \in {tx[c], "pending"} THEN UNCHANGED notice ELSE notify(c, s)
        BY <1>0, <1>4, <2>1, PaymentsAssumption DEF createCharge, TypeOK
    <2>3. \A d \in Charges, l \in Outcomes : notice[d][l] # "UNSENT" => notice'[d][l] # "UNSENT"
        <3>1. CASE UNCHANGED notice
            BY <3>1
        <3>2. CASE notify(c, s)
            BY <1>0, <2>1, <3>2, ForwardNotice DEF notify, Notices
        <3>3. QED
            BY <2>2, <3>1, <3>2
    <2>4. UNCHANGED <<payment, order, ticket>>
        BY <1>4 DEF createCharge, payments, goods
    <2>5. QED
        BY <1>0, <2>1, <2>2, <2>3, <2>4, ForwardTx DEF Forward
<1>5. ASSUME NEW p \in Workers, storePayment(p) PROVE Forward
    <2>1. job[p].charge \in Charges
        BY <1>0, <1>5, RequestType DEF storePayment, at, Requests
    <2>2. \A d \in Charges : /\ payment[d] # "NONE" => payment'[d] = payment[d]
        BY <1>0, <1>5, <2>1 DEF storePayment, TypeOK
    <2>3. QED
        BY <1>5, <2>2 DEF storePayment, Forward, Good, provider, goods
<1>6. ASSUME NEW p \in Workers, NEW c \in Charges, NEW k \in Outcomes, deliver(p, c, k) PROVE Forward
    <2>1. \A d \in Charges, l \in Outcomes : notice[d][l] # "UNSENT" => notice'[d][l] # "UNSENT"
        BY <1>0, <1>6 DEF deliver, TypeOK
    <2>2. QED
        BY <1>6, <2>1 DEF deliver, Forward, payments, goods
<1>7. ASSUME NEW p \in Workers, applyEvent(p) PROVE Forward
    <2>1. UNCHANGED <<tx, notice, order, ticket>>
        BY <1>7 DEF applyEvent, provider, goods
    <2>2. \A d \in Charges : /\ payment[d] # "NONE" => payment'[d] # "NONE"
                             /\ payment[d] \in Good => payment'[d] \in Good
        <3> SUFFICES ASSUME NEW d \in Charges, payment'[d] # payment[d]
                     PROVE  /\ payment'[d] # "NONE"
                            /\ payment[d] \in Good => payment'[d] \in Good
            OBVIOUS
        <3>1. /\ payment[d] \in From(job[p].kind, job[p].saw)
              /\ payment'[d] = Target(job[p].kind, job[p].saw)
              /\ payment'[d] # "NONE"
            BY <1>7, Applied
        <3>2. payment[d] \in Good => job[p].saw \in Refunded /\ job[p].kind # "CARD"
            BY <3>1 DEF From, Good
        <3>3. QED
            BY <3>1, <3>2 DEF Target, Good, Refunded
    <2>3. QED
        BY <2>1, <2>2 DEF Forward
<1>8. ASSUME NEW p \in Workers, markOrderPaid(p) PROVE Forward
    BY <1>8 DEF markOrderPaid, Forward, provider, payments, goods, Settled
<1>9. ASSUME NEW p \in Workers, throws(p), UNCHANGED <<tx, payment, order, ticket>> PROVE Forward
    BY <1>0, <1>9, ForwardNotice, RequestType DEF throws, Forward, Notices, Requests, TypeOK
<1>10. ASSUME NEW p \in Workers, markProcessed(p) PROVE Forward
    BY <1>0, <1>10, ForwardNotice, RequestType
    DEF markProcessed, at, Forward, Notices, Requests, payments, goods
<1>11. ASSUME NEW p \in Workers, NEW i \in Items, createForOrderItem(p, i) PROVE Forward
    <2>1. \A k \in Items : ticket[k] # "NONE" => ticket'[k] # "NONE"
        BY <1>0, <1>11 DEF createForOrderItem, TypeOK
    <2>2. QED
        BY <1>11, <2>1 DEF createForOrderItem, Forward, provider, payments
<1>12. ASSUME NEW p \in Workers, settleRefund(p) PROVE Forward
    BY <1>12 DEF settleRefund, Forward, provider, payments, goods, Settled
<1>13. ASSUME NEW p \in Workers, refundTicketsForOrder(p) PROVE Forward
    BY <1>0, <1>13 DEF refundTicketsForOrder, Forward, provider, payments, TypeOK
<1>14. ASSUME NEW p \in Workers,
              \/ \E m \in Methods : openCharge(p, m)
              \/ countByOrder(p) \/ reserveRef(p) \/ reconcileOrder(p)
              \/ fulfill(p) \/ accrueForPaidOrder(p) \/ accrueWrites(p)
              \/ postForPaidOrder(p) \/ postWrites(p) \/ reverseLedger(p) \/ reverseCommission(p)
              \/ Dies(p)
       PROVE  Forward
    <2>1. UNCHANGED <<tx, notice, payment, order, ticket>>
        BY <1>14
        DEF openCharge, countByOrder, reserveRef, reconcileOrder, fulfill, accrueForPaidOrder,
            accrueWrites, postForPaidOrder, postWrites, reverseLedger, reverseCommission, Dies,
            readOrder, provider, payments, goods
    <2>2. QED
        BY <1>1, <2>1
<1>15. ASSUME NEW p \in Workers, issueForOrder(p) \/ Fails(p) PROVE Forward
    <2>1. UNCHANGED <<tx, payment, order, ticket>>
        BY <1>15 DEF issueForOrder, Fails, payments, goods
    <2>2. UNCHANGED notice \/ throws(p)
        BY <1>15 DEF issueForOrder, Fails
    <2>3. QED
        BY <1>1, <1>9, <2>1, <2>2
<1>16. CASE HoldLapses \/ UNCHANGED vars
    BY <1>1, <1>16 DEF HoldLapses, vars, provider, payments, goods
<1>17. QED
    BY <1>2, <1>3, <1>4, <1>5, <1>6, <1>7, <1>8, <1>10, <1>11, <1>12, <1>13, <1>14, <1>15, <1>16
    DEF Next, Continue

(* Only the creation of a payment and an answer change a payment. *)
LEMMA PaymentMoves ==
    ASSUME [Next]_vars
    PROVE  \/ UNCHANGED payment
           \/ \E p \in Workers : storePayment(p) \/ applyEvent(p)
<1>1. CASE \/ HoldLapses \/ expire \/ UNCHANGED vars
           \/ \E d \in Charges, s \in Outcomes : TxMoves(d, s)
    BY <1>1 DEF HoldLapses, expire, vars, TxMoves, payments
<1>2. ASSUME NEW p \in Workers,
             \/ \E m \in Methods : openCharge(p, m)
             \/ \E c \in Charges, k \in Outcomes : deliver(p, c, k)
             \/ reconcileOrder(p) \/ Fails(p) \/ Dies(p)
             \/ countByOrder(p) \/ createCharge(p) \/ reserveRef(p)
             \/ markOrderPaid(p) \/ markProcessed(p)
      PROVE  UNCHANGED payment
    BY <1>2
    DEF openCharge, deliver, reconcileOrder, Fails, Dies, countByOrder, createCharge, reserveRef,
        markOrderPaid, markProcessed, payments
<1>3. ASSUME NEW p \in Workers,
             \/ fulfill(p) \/ accrueForPaidOrder(p) \/ accrueWrites(p)
             \/ postForPaidOrder(p) \/ postWrites(p) \/ issueForOrder(p)
             \/ \E i \in Items : createForOrderItem(p, i)
             \/ settleRefund(p) \/ refundTicketsForOrder(p)
             \/ reverseLedger(p) \/ reverseCommission(p)
      PROVE  UNCHANGED payment
    BY <1>3
    DEF fulfill, accrueForPaidOrder, accrueWrites, postForPaidOrder, postWrites, issueForOrder,
        createForOrderItem, settleRefund, refundTicketsForOrder, reverseLedger, reverseCommission,
        readOrder, payments
<1>4. QED
    BY <1>1, <1>2, <1>3 DEF Next, Continue

(* Payments go on agreeing with the provider. *)
LEMMA ProviderNext == Inv /\ [Next]_vars => PaymentsFollowProvider'
<1> SUFFICES ASSUME Inv, [Next]_vars, NEW c \in Charges
             PROVE  /\ payment'[c] # "NONE" => tx'[c] # "none"
                    /\ payment'[c] \in {"REJECTED", "EXPIRED"} => tx'[c] \in Failed
                    /\ payment'[c] = "APPROVED" => tx'[c] \in Paid
                    /\ payment'[c] \in {"REFUNDED", "CHARGED_BACK"} => tx'[c] \in Refunded
                    /\ \A k \in Outcomes : notice'[c][k] # "UNSENT" => tx'[c] \in TxStatus
    BY DEF PaymentsFollowProvider
<1>0. TypeOK /\ PaymentsFollowProvider /\ Forward
    BY ForwardNext DEF Inv
<1>1. ASSUME payment'[c] = payment[c]
      PROVE  /\ payment'[c] # "NONE" => tx'[c] # "none"
             /\ payment'[c] \in {"REJECTED", "EXPIRED"} => tx'[c] \in Failed
             /\ payment'[c] = "APPROVED" => tx'[c] \in Paid
             /\ payment'[c] \in {"REFUNDED", "CHARGED_BACK"} => tx'[c] \in Refunded
    BY <1>0, <1>1 DEF PaymentsFollowProvider, Forward
<1>2. ASSUME \A k \in Outcomes : notice'[c][k] # "UNSENT" => notice[c][k] # "UNSENT"
      PROVE  \A k \in Outcomes : notice'[c][k] # "UNSENT" => tx'[c] \in TxStatus
    BY <1>0, <1>2 DEF PaymentsFollowProvider, Forward
<1>3. CASE UNCHANGED <<payment, notice>>
    BY <1>1, <1>2, <1>3
<1>4. ASSUME NEW d \in Charges, NEW s \in Outcomes, TxMoves(d, s)
      PROVE  \A k \in Outcomes : notice'[c][k] # "UNSENT" => tx'[c] \in TxStatus
    <2>1. d = c => tx'[c] \in TxStatus
        BY <1>0, <1>4, PaymentsAssumption DEF TxMoves, TypeOK
    <2>2. d # c => notice'[c] = notice[c]
        BY <1>0, <1>4 DEF TxMoves, notify, TypeOK
    <2>3. QED
        BY <1>2, <2>1, <2>2
<1>5. ASSUME NEW p \in Workers, createCharge(p)
      PROVE  \A k \in Outcomes : notice'[c][k] # "UNSENT" => tx'[c] \in TxStatus
    <2> DEFINE d == job[p].charge
    <2>1. d \in Charges
        BY <1>0, <1>5, RequestType DEF createCharge, at, Requests
    <2>2. PICK s \in TxStatus \cup {"pending"} :
              /\ tx' = [tx EXCEPT ![d] = s]
              /\ IF s \in {tx[d], "pending"} THEN UNCHANGED notice ELSE notify(d, s)
        BY <1>0, <1>5, <2>1, PaymentsAssumption DEF createCharge, TypeOK
    <2>3. CASE UNCHANGED notice
        BY <1>2, <2>3
    <2>4. CASE s # "pending" /\ notify(d, s)
        <3>1. d = c => tx'[c] \in TxStatus
            BY <1>0, <2>2, <2>4 DEF TypeOK
        <3>2. d # c => notice'[c] = notice[c]
            BY <1>0, <2>1, <2>4 DEF notify, TypeOK
        <3>3. QED
            BY <1>2, <3>1, <3>2
    <2>5. QED
        BY <2>2, <2>3, <2>4
<1>6. ASSUME NEW p \in Workers, storePayment(p)
      PROVE  /\ payment'[c] # "NONE" => tx'[c] # "none"
             /\ payment'[c] # payment[c] => payment'[c] = "CREATED"
    <2>1. job[p] # Idle /\ job[p] \in Requests /\ job[p].step = "store"
        BY <1>0, <1>6, RequestType DEF storePayment, at
    <2>2. tx[job[p].charge] # "none"
        BY <2>1 DEF Inv, RequestsOK, StageOK
    <2>3. payment'[c] # payment[c] => c = job[p].charge /\ payment'[c] = "CREATED"
        BY <1>0, <1>6, <2>1 DEF storePayment, TypeOK, Requests
    <2>4. QED
        BY <1>0, <2>2, <2>3 DEF Forward, PaymentsFollowProvider
<1>7. ASSUME NEW p \in Workers, applyEvent(p), payment'[c] # payment[c]
      PROVE  /\ payment'[c] # "NONE" => tx'[c] # "none"
             /\ payment'[c] \in {"REJECTED", "EXPIRED"} => tx'[c] \in Failed
             /\ payment'[c] = "APPROVED" => tx'[c] \in Paid
             /\ payment'[c] \in {"REFUNDED", "CHARGED_BACK"} => tx'[c] \in Refunded
    <2> DEFINE j == job[p]
    <2>1. /\ j.step = "apply" /\ j \in Requests /\ SawTruth(p) /\ StageOK(p) /\ c = j.charge
          /\ payment'[c] = Target(j.kind, j.saw)
        BY <1>7, Applied
    <2>2. UNCHANGED tx
        BY <1>7 DEF applyEvent, provider
    <2>3. tx[c] # "none"
        BY <1>0, <2>1 DEF StageOK, PaymentsFollowProvider
    <2>4. j.saw \in TxStatus \cup {"pending"}
        BY <2>1 DEF StageOK, Requests
    <2>5. CASE j.kind = "CARD"
        BY <2>1, <2>2, <2>3, <2>4, <2>5 DEF Target, SawTruth, Paid, Failed, Refunded, TxStatus
    <2>6. CASE j.kind # "CARD"
        <3>1. j.saw \in TxStatus
            BY <2>1, <2>6 DEF StageOK, SawTruth
        <3>2. QED
            BY <2>1, <2>2, <2>3, <2>6, <3>1 DEF Target, SawTruth, Paid, Failed, Refunded, TxStatus
    <2>7. QED
        BY <2>5, <2>6
<1>8. ASSUME NEW p \in Workers, NEW d \in Charges, NEW k \in Outcomes, deliver(p, d, k)
      PROVE  \A l \in Outcomes : notice'[c][l] # "UNSENT" => notice[c][l] # "UNSENT"
    BY <1>0, <1>8 DEF deliver, TypeOK, Claimable
<1>9. ASSUME NEW p \in Workers, throws(p) \/ markProcessed(p), job[p] # Idle
      PROVE  \A l \in Outcomes : notice'[c][l] # "UNSENT" => notice[c][l] # "UNSENT"
    <2> DEFINE j == job[p]
    <2>1. j \in Requests /\ SawTruth(p)
        BY <1>0, <1>9, RequestType DEF Inv, RequestsOK
    <2>2. CASE UNCHANGED notice
        BY <2>2
    <2>3. CASE /\ j.kind = "webhook"
               /\ \E n \in Notices : notice' = [notice EXCEPT ![j.charge][j.notice] = n]
        <3>1. notice[j.charge][j.notice] # "UNSENT" /\ j.charge \in Charges /\ j.notice \in Outcomes
            BY <2>1, <2>3 DEF SawTruth, Requests
        <3>2. PICK n \in Notices : notice' = [notice EXCEPT ![j.charge][j.notice] = n]
            BY <2>3
        <3>3. QED
            BY <1>0, <3>1, <3>2 DEF TypeOK
    <2>4. QED
        BY <1>9, <2>2, <2>3 DEF throws, markProcessed, Notices
<1>10. ASSUME NEW p \in Workers,
              \/ throws(p) /\ UNCHANGED payment /\ job[p] # Idle
              \/ markProcessed(p)
       PROVE  /\ UNCHANGED payment
              /\ \A k \in Outcomes : notice'[c][k] # "UNSENT" => tx'[c] \in TxStatus
    BY <1>2, <1>9, <1>10 DEF markProcessed, at, payments
<1>11. CASE \/ HoldLapses \/ expire \/ UNCHANGED vars
            \/ \E p \in Workers :
                 \/ \E m \in Methods : openCharge(p, m)
                 \/ countByOrder(p) \/ reserveRef(p) \/ reconcileOrder(p) \/ markOrderPaid(p)
                 \/ fulfill(p) \/ accrueForPaidOrder(p) \/ accrueWrites(p)
                 \/ postForPaidOrder(p) \/ postWrites(p)
                 \/ \E i \in Items : createForOrderItem(p, i)
                 \/ settleRefund(p) \/ refundTicketsForOrder(p)
                 \/ reverseLedger(p) \/ reverseCommission(p) \/ Dies(p)
    <2>1. UNCHANGED <<payment, notice>>
        BY <1>11
        DEF HoldLapses, expire, vars, openCharge, countByOrder, reserveRef, reconcileOrder,
            markOrderPaid, fulfill, accrueForPaidOrder, accrueWrites, postForPaidOrder, postWrites,
            createForOrderItem, settleRefund, refundTicketsForOrder, reverseLedger,
            reverseCommission, Dies, readOrder, provider, payments, goods
    <2>2. QED
        BY <1>3, <2>1
<1>12. ASSUME NEW p \in Workers, issueForOrder(p) \/ Fails(p)
       PROVE  \/ UNCHANGED <<payment, notice>>
              \/ throws(p) /\ UNCHANGED payment /\ job[p] # Idle
    BY <1>12 DEF issueForOrder, Fails, at, payments
<1>13. CASE \E d \in Charges, s \in Outcomes : TxMoves(d, s)
    <2>1. UNCHANGED payment
        BY <1>13 DEF TxMoves, payments
    <2>2. QED
        BY <1>1, <1>4, <1>13, <2>1
<1>14. CASE \E p \in Workers : createCharge(p)
    <2>1. UNCHANGED payment
        BY <1>14 DEF createCharge, payments
    <2>2. QED
        BY <1>1, <1>5, <1>14, <2>1
<1>15. CASE \E p \in Workers : storePayment(p)
    <2>1. UNCHANGED notice
        BY <1>15 DEF storePayment, provider
    <2>2. QED
        BY <1>1, <1>2, <1>6, <1>15, <2>1
<1>16. CASE \E p \in Workers : applyEvent(p)
    <2>1. UNCHANGED notice
        BY <1>16 DEF applyEvent, provider
    <2>2. QED
        BY <1>1, <1>2, <1>7, <1>16, <2>1
<1>17. CASE \E p \in Workers, d \in Charges, k \in Outcomes : deliver(p, d, k)
    <2>1. UNCHANGED payment
        BY <1>17 DEF deliver, payments
    <2>2. QED
        BY <1>1, <1>2, <1>8, <1>17, <2>1
<1>18. CASE \E p \in Workers : issueForOrder(p) \/ Fails(p) \/ markProcessed(p)
    BY <1>1, <1>3, <1>10, <1>12, <1>18
<1>19. QED
    BY <1>11, <1>13, <1>14, <1>15, <1>16, <1>17, <1>18 DEF Next, Continue

-------------------------------------------------------------------------------
(* What requests know                                                      *)

(* A request that does not run at this step still knows what it knew.      *)
LEMMA Others ==
    ASSUME Inv, Forward, NEW q \in Workers, job[q] # Idle, job'[q] = job[q]
    PROVE  SawTruth(q)' /\ StageOK(q)'
<1>1. job[q] \in Requests /\ SawTruth(q) /\ StageOK(q)
    BY RequestType DEF Inv, RequestsOK
<1>2. SawTruth(q)'
    BY <1>1 DEF SawTruth, Forward, Requests, TxStatus, Failed, Refunded
<1>3. order' = "PAID" /\ order # "AWAITING_PAYMENT" /\ (order = "PAID" => AllIssued) => AllIssued'
    BY DEF Forward, AllIssued
<1>4. StageOK(q)'
    BY <1>1, <1>3 DEF StageOK, Forward, Requests
<1>5. QED
    BY <1>2, <1>4

(* Whoever goes on with the same charge still knows what it saw of it.     *)
LEMMA StillSaw ==
    ASSUME Inv, Forward, NEW p \in Workers, job[p] # Idle,
           job'[p].kind = job[p].kind, job'[p].charge = job[p].charge,
           job'[p].saw = job[p].saw, job'[p].notice = job[p].notice
    PROVE  SawTruth(p)'
<1>1. job[p] \in Requests /\ SawTruth(p)
    BY RequestType DEF Inv, RequestsOK
<1>2. QED
    BY <1>1 DEF SawTruth, Forward, Requests, TxStatus, Failed, Refunded

(* Going to another step changes nothing else of a request. *)
LEMMA GotoFields ==
    ASSUME TypeOK, NEW p \in Workers, NEW step, job[p] # Idle, goto(p, step)
    PROVE  /\ job[p] \in Requests
           /\ job'[p].kind = job[p].kind /\ job'[p].charge = job[p].charge
           /\ job'[p].saw = job[p].saw /\ job'[p].notice = job[p].notice
           /\ job'[p].step = step /\ job'[p].todo = job[p].todo
<1>1. job[p] \in Requests /\ p \in DOMAIN job
    BY RequestType
<1>2. job'[p] = [job[p] EXCEPT !.step = step]
    BY <1>1 DEF goto
<1>3. QED
    BY <1>1, <1>2 DEF Requests

(* A request that starts, or that charges the card or the Pix. *)
LEMMA ChargingKnows ==
    ASSUME Inv, Forward, NEW p \in Workers,
           \/ \E m \in Methods : openCharge(p, m)
           \/ countByOrder(p) \/ createCharge(p) \/ storePayment(p) \/ reserveRef(p),
           job'[p] # Idle
    PROVE  SawTruth(p)' /\ StageOK(p)'
<1>0. /\ TypeOK /\ job \in [Workers -> {Idle} \cup Requests]
      /\ \A m \in Methods : m \notin {"webhook", "reconcile"}
    BY RequestType, PaymentsAssumption DEF Inv
<1>1. job[p] # Idle => job[p] \in Requests /\ SawTruth(p) /\ StageOK(p)
    BY RequestType DEF Inv, RequestsOK
<1>2. CASE \E m \in Methods : openCharge(p, m)
    <2>1. /\ job'[p].kind \in Methods /\ job'[p].step = "count" /\ job'[p].saw = "none"
        BY <1>0, <1>2 DEF openCharge, Job
    <2>2. QED
        BY <1>0, <2>1 DEF SawTruth, StageOK, TxStatus, Failed, Refunded, Fulfilling, Settling
<1>3. CASE countByOrder(p)
    <2>1. job[p] # Idle /\ job[p].step = "count"
        BY <1>3 DEF countByOrder, at
    <2>2. job'[p].kind = job[p].kind /\ job'[p].step = "call" /\ job'[p].saw = job[p].saw
        BY <1>0, <1>1, <1>3, <2>1 DEF countByOrder, ends, Requests
    <2>3. job'[p].kind \in Methods /\ job'[p].saw = "none"
        BY <1>1, <2>1, <2>2 DEF StageOK
    <2>4. QED
        BY <1>0, <2>2, <2>3 DEF SawTruth, StageOK, TxStatus, Failed, Refunded, Fulfilling, Settling
<1>4. CASE createCharge(p)
    <2> DEFINE c == job[p].charge
    <2>1. /\ job[p] # Idle /\ job[p].step = "call" /\ job[p] \in Requests
          /\ job[p].kind \in Methods /\ c \in Charges
        BY <1>1, <1>4 DEF createCharge, at, StageOK, Requests
    <2>2. PICK s \in TxStatus \cup {"pending"} :
              /\ tx' = [tx EXCEPT ![c] = s]
              /\ job' = [job EXCEPT ![p].saw = s, ![p].step = "store"]
        BY <1>0, <1>4, <2>1, PaymentsAssumption DEF createCharge, TypeOK
    <2>3. /\ job'[p].kind = job[p].kind /\ job'[p].charge = c
          /\ job'[p].saw = s /\ job'[p].step = "store"
        BY <1>0, <2>1, <2>2 DEF Requests
    <2>4. tx'[c] = s
        BY <1>0, <2>1, <2>2 DEF TypeOK
    <2>5. QED
        BY <1>0, <2>1, <2>3, <2>4 DEF SawTruth, StageOK, TxStatus, Paid, Fulfilling, Settling
<1>5. CASE storePayment(p)
    <2>1. job[p] # Idle /\ job[p].step = "store"
        BY <1>5 DEF storePayment, at
    <2>2. payment'[job[p].charge] = "CREATED" /\ goto(p, "route")
        BY <1>0, <1>1, <1>5, <2>1 DEF storePayment, ends, TypeOK, Requests
    <2>3. SawTruth(p)'
        BY <1>0, <2>1, <2>2, GotoFields, StillSaw
    <2>4. StageOK(p)'
        BY <1>0, <1>1, <2>1, <2>2, GotoFields DEF StageOK, Fulfilling, Settling
    <2>5. QED
        BY <2>3, <2>4
<1>6. CASE reserveRef(p)
    <2>1. job[p] # Idle /\ job[p].step = "route"
        BY <1>6 DEF reserveRef, at
    <2>2. PICK step \in {"apply", "done"} :
              goto(p, step) /\ (step = "apply" => job[p].kind = "CARD")
        BY <1>6 DEF reserveRef
    <2>3. SawTruth(p)'
        BY <1>0, <2>1, <2>2, GotoFields, StillSaw
    <2>4. job[p].kind \in Methods /\ job[p].charge \in Charges
          /\ job[p].saw # "none" /\ payment'[job[p].charge] # "NONE"
        BY <1>1, <2>1 DEF StageOK, Forward, Requests
    <2>5. StageOK(p)'
        BY <1>0, <2>1, <2>2, <2>4, GotoFields DEF StageOK, Fulfilling, Settling
    <2>6. QED
        BY <2>3, <2>5
<1>7. QED
    BY <1>2, <1>3, <1>4, <1>5, <1>6

(* A request that was told of a charge, or looked it up. *)
LEMMA NotifiedKnows ==
    ASSUME Inv, Forward, NEW p \in Workers,
           \/ \E c \in Charges, k \in Outcomes : deliver(p, c, k)
           \/ reconcileOrder(p),
           job'[p] # Idle
    PROVE  SawTruth(p)' /\ StageOK(p)'
<1>0. /\ TypeOK /\ job \in [Workers -> {Idle} \cup Requests] /\ PaymentsFollowProvider
    BY RequestType DEF Inv
<1>1. ASSUME NEW c \in Charges, NEW k, NEW kind \in {"webhook", "reconcile"},
             tx[c] \in TxStatus, payment'[c] # "NONE", UNCHANGED tx,
             job' = [job EXCEPT ![p] = Job(kind, "apply", c, tx[c], k)],
             kind = "webhook" => k \in Outcomes /\ notice'[c][k] # "UNSENT"
      PROVE  SawTruth(p)' /\ StageOK(p)'
    <2>1. /\ job'[p].kind = kind /\ job'[p].step = "apply" /\ job'[p].charge = c
          /\ job'[p].saw = tx[c] /\ job'[p].notice = k
        BY <1>0, <1>1 DEF Job
    <2>2. QED
        BY <1>1, <2>1 DEF SawTruth, StageOK, TxStatus, Paid, Failed, Refunded, Fulfilling, Settling
<1>2. ASSUME NEW c \in Charges, NEW k \in Outcomes, deliver(p, c, k)
      PROVE  SawTruth(p)' /\ StageOK(p)'
    <2>1. tx[c] \in TxStatus
        BY <1>0, <1>2 DEF deliver, Claimable, PaymentsFollowProvider
    <2>2. payment[c] # "NONE" /\ UNCHANGED <<payment, tx>>
        BY <1>0, <1>2 DEF deliver, payments, TypeOK
    <2>3. notice'[c][k] # "UNSENT"
        BY <1>0, <1>2 DEF deliver, Claimable, TypeOK
    <2>4. QED
        BY <1>1, <1>2, <2>1, <2>2, <2>3 DEF deliver
<1>3. ASSUME reconcileOrder(p)
      PROVE  SawTruth(p)' /\ StageOK(p)'
    <2>1. PICK n \in DOMAIN made :
              /\ payment[made[n]] \in {"CREATED", "PROCESSING"}
              /\ tx[made[n]] # "pending"
              /\ job' = [job EXCEPT ![p] = Job("reconcile", "apply", made[n], tx[made[n]], "none")]
        BY <1>3 DEF reconcileOrder
    <2>2. made[n] \in Charges
        BY <1>0, <2>1 DEF TypeOK
    <2>3. tx[made[n]] \in TxStatus
        BY <1>0, <2>1, <2>2 DEF PaymentsFollowProvider, TypeOK
    <2>4. UNCHANGED <<payment, tx>>
        BY <1>3 DEF reconcileOrder, payments, provider
    <2>5. QED
        BY <1>1, <2>1, <2>2, <2>3, <2>4
<1>4. QED
    BY <1>2, <1>3

(* The answer is applied, and the order is marked paid or settled. *)
LEMMA ApplyingKnows ==
    ASSUME Inv, Forward, NEW p \in Workers, applyEvent(p)
    PROVE  SawTruth(p)' /\ StageOK(p)'
<1> DEFINE j == job[p]
<1>1. /\ TypeOK /\ j # Idle /\ j \in Requests /\ j.step = "apply" /\ SawTruth(p) /\ StageOK(p)
      /\ payment'[j.charge] = IF payment[j.charge] \in From(j.kind, j.saw)
                              THEN Target(j.kind, j.saw) ELSE payment[j.charge]
    BY Applied DEF Inv
<1>2. PICK step \in {"order", "settle", "done"} :
          /\ goto(p, step)
          /\ step = "order" => j.saw = "approved"
          /\ step = "settle" => j.saw \in Refunded
          /\ step = "done" => j.saw # "approved"
    BY <1>1 DEF applyEvent, Refunded
<1>3. /\ job'[p].kind = j.kind /\ job'[p].charge = j.charge /\ job'[p].saw = j.saw
      /\ job'[p].notice = j.notice /\ job'[p].step = step
    BY <1>1, <1>2, GotoFields
<1>4. SawTruth(p)'
    BY <1>1, <1>3, StillSaw
<1>5. ASSUME j.saw = "approved" PROVE payment'[j.charge] \in Good
    <2>1. j.charge \in Charges /\ tx[j.charge] \in Paid /\ payment[j.charge] # "NONE"
        BY <1>1, <1>5 DEF SawTruth, StageOK, Requests
    <2>2. payment[j.charge] \in PaymentStatus \ {"NONE", "REJECTED", "EXPIRED"}
        BY <1>1, <2>1 DEF Inv, PaymentsFollowProvider, TypeOK, Paid, Failed, Refunded
    <2>3. j.kind = "CARD" => payment[j.charge] # "PROCESSING"
        BY <1>1 DEF Inv, CardAnsweredOnce, Answering
    <2>4. Target(j.kind, j.saw) = "APPROVED"
        BY <1>5 DEF Target
    <2>5. payment[j.charge] \notin From(j.kind, j.saw) => payment[j.charge] \in Good
        BY <1>5, <2>2, <2>3 DEF From, Good, PaymentStatus, Refunded
    <2>6. QED
        BY <1>1, <2>4, <2>5 DEF Good
<1>6. StageOK(p)'
    BY <1>1, <1>2, <1>3, <1>5 DEF StageOK, Fulfilling, Settling
<1>7. QED
    BY <1>4, <1>6

(* A request that pays and fulfils the order. *)
LEMMA FulfillingKnows ==
    ASSUME Inv, Forward, NEW p \in Workers,
           \/ markOrderPaid(p) \/ fulfill(p) \/ accrueForPaidOrder(p) \/ accrueWrites(p)
           \/ postForPaidOrder(p) \/ postWrites(p) \/ issueForOrder(p)
           \/ \E i \in Items : createForOrderItem(p, i),
           job'[p] # Idle
    PROVE  SawTruth(p)' /\ StageOK(p)'
<1> DEFINE j == job[p]
<1>0. /\ TypeOK /\ job \in [Workers -> {Idle} \cup Requests]
    BY RequestType DEF Inv
<1>1. /\ j # Idle /\ j.step \in Fulfilling \cup {"order"}
    BY DEF markOrderPaid, fulfill, accrueForPaidOrder, accrueWrites, postForPaidOrder, postWrites,
           issueForOrder, createForOrderItem, readOrder, at, Fulfilling
<1>2. /\ j \in Requests /\ SawTruth(p) /\ StageOK(p)
    BY <1>1, RequestType DEF Inv, RequestsOK
<1>3. j.saw = "approved" /\ payment'[j.charge] \in Good
    BY <1>1, <1>2 DEF StageOK, Forward, Requests
<1>4. ASSUME NEW step \in Fulfilling \cup {"done"},
             job'[p].kind = j.kind, job'[p].charge = j.charge, job'[p].saw = j.saw,
             job'[p].notice = j.notice, job'[p].step = step,
             order' # "AWAITING_PAYMENT",
             step = "create" => /\ order' \in Settled
                                /\ \A i \in Items \ job'[p].todo : ticket'[i] # "NONE",
             step = "done" /\ order' = "PAID" => AllIssued'
      PROVE  SawTruth(p)' /\ StageOK(p)'
    <2>1. SawTruth(p)'
        BY <1>1, <1>4, StillSaw
    <2>2. StageOK(p)'
        BY <1>3, <1>4 DEF StageOK, Fulfilling, Settling
    <2>3. QED
        BY <2>1, <2>2
<1>5. j.step \in Fulfilling => order' # "AWAITING_PAYMENT"
    BY <1>2 DEF StageOK, Forward
<1>6. CASE markOrderPaid(p)
    <2>1. goto(p, "fulfill") /\ order' # "AWAITING_PAYMENT"
        BY <1>6 DEF markOrderPaid
    <2>2. QED
        BY <1>0, <1>1, <1>4, <2>1, GotoFields DEF Fulfilling
<1>7. ASSUME NEW step \in Fulfilling, NEW yes \in Fulfilling \ {"create"},
             NEW no \in (Fulfilling \ {"create"}) \cup {"done"}, readOrder(p, step, yes, no)
      PROVE  SawTruth(p)' /\ StageOK(p)'
    <2>1. /\ job'[p].kind = j.kind /\ job'[p].charge = j.charge /\ job'[p].saw = j.saw
          /\ job'[p].notice = j.notice /\ job'[p].step = IF order = "PAID" THEN yes ELSE no
        BY <1>0, <1>2, <1>7 DEF readOrder, Requests
    <2>2. UNCHANGED order /\ j.step = step
        BY <1>7 DEF readOrder, at
    <2>3. CASE order = "PAID"
        BY <1>4, <1>5, <1>7, <2>1, <2>2, <2>3 DEF Fulfilling
    <2>4. CASE order # "PAID"
        BY <1>4, <1>5, <1>7, <2>1, <2>2, <2>4 DEF Fulfilling
    <2>5. QED
        BY <2>3, <2>4
<1>8. CASE fulfill(p) \/ accrueForPaidOrder(p) \/ postForPaidOrder(p)
    BY <1>7, <1>8 DEF fulfill, accrueForPaidOrder, postForPaidOrder, Fulfilling
<1>9. CASE accrueWrites(p) \/ postWrites(p)
    <2>1. \/ goto(p, "post") /\ j.step \in Fulfilling
          \/ goto(p, "issue") /\ j.step \in Fulfilling
        BY <1>9 DEF accrueWrites, postWrites, at, Fulfilling
    <2>2. QED
        BY <1>0, <1>1, <1>4, <1>5, <2>1, GotoFields DEF Fulfilling
<1>10. CASE issueForOrder(p)
    <2> DEFINE missing == {i \in Items : ticket[i] = "NONE"}
    <2>1. /\ order = "PAID" /\ j.step = "issue" /\ UNCHANGED <<order, ticket>>
          /\ job' = [job EXCEPT ![p].todo = missing,
                                ![p].step = IF missing = {} THEN "done" ELSE "create"]
        BY <1>0, <1>10 DEF issueForOrder, throws, ends, at, goods
    <2>2. /\ job'[p].kind = j.kind /\ job'[p].charge = j.charge /\ job'[p].saw = j.saw
          /\ job'[p].notice = j.notice /\ job'[p].todo = missing
          /\ job'[p].step = IF missing = {} THEN "done" ELSE "create"
        BY <1>0, <1>2, <2>1 DEF Requests
    <2>3. missing = {} => AllIssued'
        BY <2>1 DEF AllIssued
    <2>4. CASE missing = {}
        BY <1>4, <1>5, <2>1, <2>2, <2>3, <2>4 DEF Fulfilling
    <2>5. CASE missing # {}
        BY <1>4, <1>5, <2>1, <2>2, <2>5 DEF Fulfilling, Settled
    <2>6. QED
        BY <2>4, <2>5
<1>11. ASSUME NEW i \in Items, createForOrderItem(p, i)
       PROVE  SawTruth(p)' /\ StageOK(p)'
    <2>1. /\ j.step = "create" /\ UNCHANGED order
          /\ job' = [job EXCEPT ![p].todo = @ \ {i},
                                ![p].step = IF job[p].todo = {i} THEN "done" ELSE "create"]
        BY <1>11 DEF createForOrderItem, at
    <2>2. /\ job'[p].kind = j.kind /\ job'[p].charge = j.charge /\ job'[p].saw = j.saw
          /\ job'[p].notice = j.notice /\ job'[p].todo = j.todo \ {i}
          /\ job'[p].step = IF j.todo = {i} THEN "done" ELSE "create"
        BY <1>0, <1>2, <2>1 DEF Requests
    <2>3. order \in Settled /\ \A k \in Items \ j.todo : ticket[k] # "NONE"
        BY <1>2, <2>1 DEF StageOK
    <2>4. ticket'[i] # "NONE"
        BY <1>0, <1>11 DEF createForOrderItem, TypeOK
    <2>5. \A k \in Items \ job'[p].todo : ticket'[k] # "NONE"
        BY <2>2, <2>3, <2>4 DEF Forward
    <2>6. CASE j.todo = {i}
        <3>1. AllIssued'
            BY <2>2, <2>5, <2>6 DEF AllIssued
        <3>2. job'[p].step = "done" /\ order' # "AWAITING_PAYMENT"
            BY <1>5, <2>1, <2>2, <2>6 DEF Fulfilling
        <3>3. QED
            BY <1>4, <2>2, <3>1, <3>2
    <2>7. CASE j.todo # {i}
        BY <1>4, <1>5, <2>1, <2>2, <2>3, <2>5, <2>7 DEF Fulfilling
    <2>8. QED
        BY <2>6, <2>7
<1>12. QED
    BY <1>6, <1>8, <1>9, <1>10, <1>11

(* A request that settles a refund. *)
LEMMA SettlingKnows ==
    ASSUME Inv, Forward, NEW p \in Workers,
           \/ settleRefund(p) \/ refundTicketsForOrder(p) \/ reverseLedger(p) \/ reverseCommission(p)
    PROVE  SawTruth(p)' /\ StageOK(p)'
<1> DEFINE j == job[p]
<1>1. PICK step \in Settling \cup {"done"} : goto(p, step) /\ j # Idle /\ j.step \in Settling
    BY DEF settleRefund, refundTicketsForOrder, reverseLedger, reverseCommission, at, Settling
<1>2. TypeOK /\ j \in Requests /\ SawTruth(p) /\ StageOK(p)
    BY <1>1, RequestType DEF Inv, RequestsOK
<1>3. /\ job'[p].kind = j.kind /\ job'[p].charge = j.charge /\ job'[p].saw = j.saw
      /\ job'[p].notice = j.notice /\ job'[p].step = step
    BY <1>1, <1>2, GotoFields
<1>4. SawTruth(p)'
    BY <1>1, <1>3, StillSaw
<1>5. j.saw \in Refunded
    BY <1>1, <1>2 DEF StageOK
<1>6. StageOK(p)'
    BY <1>1, <1>3, <1>5 DEF StageOK, Fulfilling, Settling, Refunded
<1>7. QED
    BY <1>4, <1>6

(* A request whose call fails and is caught. *)
LEMMA FailingKnows ==
    ASSUME Inv, Forward, NEW p \in Workers, Fails(p), job'[p] # Idle
    PROVE  SawTruth(p)' /\ StageOK(p)'
<1> DEFINE j == job[p]
<1>1. /\ TypeOK /\ job \in [Workers -> {Idle} \cup Requests]
      /\ j # Idle /\ j \in Requests /\ SawTruth(p) /\ StageOK(p)
    BY RequestType DEF Fails, Inv, RequestsOK
<1>2. PICK step :
          /\ goto(p, step)
          /\ \/ /\ j.step = "route"
                /\ step = IF j.kind = "CARD" THEN "apply" ELSE "done"
             \/ j.step \in Fulfilling /\ step \in Fulfilling \ {"create"}
             \/ j.step \in Settling /\ step \in {"uncommission", "done"}
    <2>1. j.step \in DOMAIN Swallowed(p) /\ goto(p, Swallowed(p)[j.step])
        BY <1>1 DEF Fails, throws, ends
    <2>2. WITNESS Swallowed(p)[j.step]
    <2>3. QED
        BY <2>1 DEF Swallowed, Fulfilling, Settling
<1>3. /\ job'[p].kind = j.kind /\ job'[p].charge = j.charge /\ job'[p].saw = j.saw
      /\ job'[p].notice = j.notice /\ job'[p].step = step
    BY <1>1, <1>2, GotoFields
<1>4. SawTruth(p)'
    BY <1>1, <1>3, StillSaw
<1>5. UNCHANGED <<payment, order>>
    BY DEF Fails, payments
<1>6. CASE j.step = "route"
    BY <1>1, <1>2, <1>3, <1>4, <1>5, <1>6, PaymentsAssumption
    DEF StageOK, Fulfilling, Settling
<1>7. CASE j.step \in Fulfilling
    BY <1>1, <1>2, <1>3, <1>4, <1>5, <1>7 DEF StageOK, Fulfilling, Settling
<1>8. CASE j.step \in Settling
    BY <1>1, <1>2, <1>3, <1>4, <1>5, <1>8 DEF StageOK, Fulfilling, Settling, Refunded
<1>9. QED
    BY <1>2, <1>6, <1>7, <1>8

(* What a request does at one step. *)
Acts(p) ==
    \/ \E m \in Methods : openCharge(p, m)
    \/ \E c \in Charges, k \in Outcomes : deliver(p, c, k)
    \/ reconcileOrder(p) \/ Continue(p) \/ Fails(p) \/ Dies(p)

(* While one request acts, every other stays where it is; ... *)
LEMMA OneMoves ==
    ASSUME TypeOK, NEW p \in Workers, Acts(p), NEW q \in Workers \ {p}
    PROVE  job'[q] = job[q]
<1>0. job \in [Workers -> WorkerJob]
    BY DEF TypeOK
<1>1. ASSUME \E r : job' = [job EXCEPT ![p] = r] PROVE job'[q] = job[q]
    BY <1>0, <1>1
<1>2. ASSUME ends(p) \/ \E step : goto(p, step) PROVE job'[q] = job[q]
    BY <1>0, <1>2 DEF ends, goto
<1>3. CASE \/ \E m \in Methods : openCharge(p, m)
           \/ \E c \in Charges, k \in Outcomes : deliver(p, c, k)
           \/ reconcileOrder(p)
    BY <1>0, <1>3 DEF openCharge, deliver, reconcileOrder
<1>4. CASE countByOrder(p) \/ createCharge(p)
    BY <1>0, <1>2, <1>4 DEF countByOrder, createCharge
<1>5. CASE storePayment(p) \/ reserveRef(p) \/ applyEvent(p) \/ markOrderPaid(p) \/ markProcessed(p)
    BY <1>2, <1>5 DEF storePayment, reserveRef, applyEvent, markOrderPaid, markProcessed
<1>6. CASE fulfill(p) \/ accrueForPaidOrder(p) \/ postForPaidOrder(p)
    BY <1>0, <1>6 DEF fulfill, accrueForPaidOrder, postForPaidOrder, readOrder
<1>7. CASE accrueWrites(p) \/ postWrites(p)
    BY <1>2, <1>7 DEF accrueWrites, postWrites
<1>8. CASE issueForOrder(p) \/ \E i \in Items : createForOrderItem(p, i)
    BY <1>0, <1>2, <1>8 DEF issueForOrder, createForOrderItem, throws
<1>9. CASE settleRefund(p) \/ refundTicketsForOrder(p) \/ reverseLedger(p) \/ reverseCommission(p)
    BY <1>2, <1>9 DEF settleRefund, refundTicketsForOrder, reverseLedger, reverseCommission
<1>10. CASE Fails(p) \/ Dies(p)
    BY <1>2, <1>10 DEF Fails, Dies, throws
<1>11. QED
    BY <1>3, <1>4, <1>5, <1>6, <1>7, <1>8, <1>9, <1>10 DEF Acts, Continue

(* ... and the provider, the clock and the sweep move no request. *)
LEMMA OneActs ==
    ASSUME [Next]_vars
    PROVE  UNCHANGED job \/ \E p \in Workers : Acts(p)
BY DEF Next, vars, HoldLapses, expire, TxMoves, Acts

(* Every request goes on knowing what its stage relies on. *)
LEMMA RequestsNext == Inv /\ [Next]_vars => RequestsOK'
<1> SUFFICES ASSUME Inv, [Next]_vars, NEW q \in Workers, job'[q] # Idle
             PROVE  SawTruth(q)' /\ StageOK(q)'
    BY DEF RequestsOK
<1>1. Forward /\ TypeOK
    BY ForwardNext DEF Inv
<1>2. CASE job'[q] = job[q]
    BY <1>1, <1>2, Others
<1>3. CASE Acts(q)
    <2>1. CASE applyEvent(q)
        BY <1>1, <2>1, ApplyingKnows
    <2>2. CASE markProcessed(q) \/ Dies(q)
        <3>1. job'[q] = Idle
            BY <1>1, <2>2 DEF markProcessed, Dies, ends, TypeOK
        <3>2. QED
            BY <3>1
    <2>3. QED
        BY <1>1, <1>3, <2>1, <2>2, ChargingKnows, NotifiedKnows, FulfillingKnows, SettlingKnows,
           FailingKnows
        DEF Acts, Continue
<1>4. QED
    BY <1>1, <1>2, <1>3, OneActs, OneMoves

-------------------------------------------------------------------------------
(* The answer of a card charge                                             *)

(* A request comes to answer a charge only by creating its payment. *)
LEMMA Answers ==
    ASSUME Inv, [Next]_vars, NEW p \in Workers, Answering(p)'
    PROVE  \/ Answering(p) /\ job'[p].charge = job[p].charge
           \/ /\ storePayment(p) /\ job'[p].charge \in Charges
              /\ payment[job'[p].charge] = "NONE" /\ payment'[job'[p].charge] = "CREATED"
<1>0. TypeOK /\ job \in [Workers -> {Idle} \cup Requests]
    BY RequestType DEF Inv
<1>1. CASE job'[p] = job[p]
    BY <1>1 DEF Answering
<1>2. CASE Acts(p)
    <2> DEFINE j == job[p]
    <2>1. job'[p] # Idle /\ job'[p].kind = "CARD" /\ job'[p].step \in {"route", "apply"}
        BY DEF Answering
    <2>2. ASSUME NEW step, j # Idle, goto(p, step), j.step \in {"route", "apply"}
          PROVE  Answering(p) /\ job'[p].charge = j.charge
        BY <1>0, <2>1, <2>2, GotoFields DEF Answering
    <2>3. ASSUME NEW step, j # Idle, goto(p, step) PROVE step \in {"route", "apply"}
        BY <1>0, <2>1, <2>3, GotoFields
    <2>4. ~ends(p)
        BY <1>0, <2>1 DEF ends
    <2>5. CASE storePayment(p)
        <3>1. j # Idle /\ j \in Requests
            BY <1>0, <2>5 DEF storePayment, at
        <3>2. payment[j.charge] = "NONE" /\ payment'[j.charge] = "CREATED" /\ goto(p, "route")
            BY <1>0, <2>4, <2>5, <3>1 DEF storePayment, TypeOK, Requests
        <3>3. QED
            BY <1>0, <2>5, <3>1, <3>2, GotoFields DEF Requests
    <2>6. CASE reserveRef(p) \/ applyEvent(p)
        BY <2>2, <2>6 DEF reserveRef, applyEvent, at
    <2>7. CASE Fails(p)
        <3>1. j # Idle /\ j.step \in DOMAIN Swallowed(p) /\ goto(p, Swallowed(p)[j.step])
            BY <2>4, <2>7 DEF Fails, throws
        <3>2. j.step = "route"
            BY <2>3, <3>1 DEF Swallowed
        <3>3. QED
            BY <2>2, <3>1, <3>2
    <2>8. ASSUME \/ \E m \in Methods : openCharge(p, m)
                 \/ \E c \in Charges, k \in Outcomes : deliver(p, c, k)
                 \/ reconcileOrder(p) \/ countByOrder(p)
          PROVE  FALSE
        <3>1. job'[p].step = "count" \/ job'[p].kind \in {"webhook", "reconcile"} \/ countByOrder(p)
            BY <1>0, <2>8 DEF openCharge, deliver, reconcileOrder, Job
        <3>2. CASE countByOrder(p)
            <4>1. job'[p].step = "call"
                BY <1>0, <2>4, <3>2 DEF countByOrder, at, Requests
            <4>2. QED
                BY <2>1, <4>1
        <3>3. QED
            BY <2>1, <3>1, <3>2
    <2>9. ASSUME \/ createCharge(p)
                 \/ fulfill(p) \/ accrueForPaidOrder(p) \/ postForPaidOrder(p)
                 \/ issueForOrder(p) \/ \E i \in Items : createForOrderItem(p, i)
          PROVE  FALSE
        <3>1. j # Idle /\ j \in Requests
            BY <1>0, <2>9
            DEF createCharge, fulfill, accrueForPaidOrder, postForPaidOrder, readOrder,
                issueForOrder, createForOrderItem, at
        <3>2. CASE createCharge(p)
            BY <1>0, <2>1, <3>1, <3>2 DEF createCharge, Requests
        <3>3. CASE fulfill(p) \/ accrueForPaidOrder(p) \/ postForPaidOrder(p)
            BY <1>0, <2>1, <3>1, <3>3 DEF fulfill, accrueForPaidOrder, postForPaidOrder, readOrder, Requests
        <3>4. CASE issueForOrder(p) \/ \E i \in Items : createForOrderItem(p, i)
            <4>1. ASSUME issueForOrder(p) PROVE job'[p].step \in {"done", "create"}
                <5>1. job' = [job EXCEPT ![p].todo = {i \in Items : ticket[i] = "NONE"},
                                         ![p].step = IF {i \in Items : ticket[i] = "NONE"} = {}
                                                     THEN "done" ELSE "create"]
                    BY <2>4, <4>1 DEF issueForOrder, throws
                <5>2. QED
                    BY <1>0, <3>1, <5>1 DEF Requests
            <4>2. ASSUME NEW i \in Items, createForOrderItem(p, i)
                  PROVE  job'[p].step \in {"done", "create"}
                BY <1>0, <3>1, <4>2 DEF createForOrderItem, Requests
            <4>3. QED
                BY <2>1, <3>4, <4>1, <4>2
        <3>5. QED
            BY <2>9, <3>2, <3>3, <3>4
    <2>10. ASSUME \/ markOrderPaid(p) \/ accrueWrites(p) \/ postWrites(p)
                  \/ settleRefund(p) \/ refundTicketsForOrder(p)
                  \/ reverseLedger(p) \/ reverseCommission(p)
           PROVE  FALSE
        <3>1. \E step : j # Idle /\ goto(p, step) /\ step \notin {"route", "apply"}
            BY <2>10
            DEF markOrderPaid, accrueWrites, postWrites, settleRefund, refundTicketsForOrder,
                reverseLedger, reverseCommission, at
        <3>2. QED
            BY <2>3, <3>1
    <2>11. ~Dies(p) /\ ~markProcessed(p)
        BY <2>4 DEF Dies, markProcessed
    <2>12. QED
        BY <1>2, <2>5, <2>6, <2>7, <2>8, <2>9, <2>10, <2>11 DEF Acts, Continue
<1>3. QED
    BY <1>0, <1>1, <1>2, OneActs, OneMoves

(* A request that applied the answer of a charge is done answering. *)
LEMMA AnswerEnds ==
    ASSUME Inv, NEW p \in Workers, applyEvent(p)
    PROVE  ~Answering(p)'
<1>1. /\ TypeOK /\ job[p] # Idle
    BY DEF Inv, applyEvent, at
<1>2. PICK step \in {"order", "settle", "done"} : goto(p, step)
    BY DEF applyEvent
<1>3. QED
    BY <1>1, <1>2, GotoFields DEF Answering

(* A card charge goes on being answered by one request at most. *)
LEMMA CardOnceNext == Inv /\ [Next]_vars => CardAnsweredOnce'
<1> SUFFICES ASSUME Inv, [Next]_vars, NEW p \in Workers, Answering(p)'
             PROVE  /\ payment'[job'[p].charge] # "PROCESSING"
                    /\ \A q \in Workers \ {p} :
                          Answering(q)' => job'[q].charge # job'[p].charge
    BY DEF CardAnsweredOnce
<1>0. TypeOK /\ Forward
    BY ForwardNext DEF Inv
<1>1. \A q \in Workers : Answering(q) => job[q] \in Requests /\ payment[job[q].charge] # "NONE"
    BY <1>0, RequestType DEF Inv, RequestsOK, StageOK, Answering
<1>2. \A q, r \in Workers : q # r /\ Answering(q) /\ Answering(r) => job[q].charge # job[r].charge
    BY DEF Inv, CardAnsweredOnce
<1>3. ASSUME NEW q \in Workers \ {p}, Answering(q)'
      PROVE  job'[q].charge # job'[p].charge
    <2>1. CASE Answering(p) /\ job'[p].charge = job[p].charge
        BY <1>1, <1>2, <1>3, <2>1, Answers
    <2>2. CASE storePayment(p) /\ payment[job'[p].charge] = "NONE"
        <3>1. job'[q] = job[q]
            BY <1>0, <2>2, OneMoves DEF Acts, Continue
        <3>2. Answering(q)
            BY <1>3, <3>1 DEF Answering
        <3>3. QED
            BY <1>1, <2>2, <3>1, <3>2
    <2>3. QED
        BY <2>1, <2>2, Answers
<1>4. payment'[job'[p].charge] # "PROCESSING"
    <2>1. CASE payment'[job'[p].charge] = "CREATED"
        BY <2>1
    <2>2. CASE Answering(p) /\ job'[p].charge = job[p].charge
        <3> DEFINE c == job[p].charge
        <3>1. c \in Charges /\ payment[c] # "PROCESSING"
            BY <1>1, <2>2 DEF Inv, CardAnsweredOnce, Requests
        <3>2. CASE payment'[c] = payment[c]
            BY <2>2, <3>1, <3>2
        <3>3. ASSUME NEW q \in Workers, storePayment(q) PROVE payment'[c] \in {payment[c], "CREATED"}
            <4>1. job[q] \in Requests
                BY <1>0, <3>3, RequestType DEF storePayment, at
            <4>2. QED
                BY <1>0, <3>1, <3>3, <4>1 DEF storePayment, TypeOK, Requests
        <3>4. ASSUME NEW q \in Workers, applyEvent(q), payment'[c] = "PROCESSING" PROVE FALSE
            <4>1. /\ c = job[q].charge /\ payment'[c] = Target(job[q].kind, job[q].saw)
                  /\ job[q] # Idle /\ job[q].step = "apply" /\ SawTruth(q) /\ StageOK(q)
                BY <3>1, <3>4, Applied
            <4>2. job[q].kind = "CARD"
                BY <3>4, <4>1 DEF Target, SawTruth, StageOK, TxStatus, Refunded
            <4>3. Answering(q)
                BY <4>1, <4>2 DEF Answering
            <4>4. q = p
                BY <1>2, <2>2, <4>1, <4>3
            <4>5. QED
                BY <3>4, <4>4, AnswerEnds
        <3>5. \/ UNCHANGED payment
              \/ \E q \in Workers : storePayment(q) \/ applyEvent(q)
            BY PaymentMoves
        <3>6. QED
            BY <2>2, <3>1, <3>2, <3>3, <3>4, <3>5
    <2>3. QED
        BY <2>1, <2>2, Answers
<1>5. QED
    BY <1>3, <1>4

-------------------------------------------------------------------------------
(* The inductive invariant                                                 *)

(* It holds initially. *)
LEMMA InvInit == Init => Inv
<1> SUFFICES ASSUME Init PROVE Inv
    OBVIOUS
<1>1. TypeOK
    BY TypeInit
<1>2. PaymentsFollowProvider
    BY DEF Init, PaymentsFollowProvider
<1>3. \A p \in Workers : job[p] = Idle
    BY DEF Init
<1>4. QED
    BY <1>1, <1>2, <1>3 DEF Inv, RequestsOK, CardAnsweredOnce, Answering

(* Every step preserves it. *)
LEMMA InvNext == Inv /\ [Next]_vars => Inv'
BY TypeNext, ProviderNext, RequestsNext, CardOnceNext DEF Inv

(* It is an invariant of the specification. *)
THEOREM Invariance == Spec => []Inv
<1>1. Init => Inv
    BY InvInit
<1>2. Inv /\ [Next]_vars => Inv'
    BY InvNext
<1>3. QED
    BY <1>1, <1>2, PTL DEF Spec

(* Every row, reference, counter and request keeps its type; one row per   *)
(* idempotency key, and a status or a reference only for a charge that has *)
(* a row (payments/service.ts, createCardChargeForOrder, chargePix).       *)
THEOREM TypesHold == Spec => []TypeOK
<1>1. Inv => TypeOK
    BY DEF Inv
<1>2. QED
    BY <1>1, Invariance, PTL
-------------------------------------------------------------------------------
(* The safety properties                                                   *)

(* An order becomes paid only when its payment is marked on it. *)
LEMMA OrderPaid ==
    ASSUME [Next]_vars, order' \in Settled, order \notin Settled
    PROVE  \E p \in Workers : markOrderPaid(p)
<1>1. CASE UNCHANGED order
    BY <1>1
<1>2. CASE expire
    BY <1>2 DEF expire, Settled
<1>3. ASSUME NEW p \in Workers, settleRefund(p) PROVE FALSE
    BY <1>3 DEF settleRefund, Settled
<1>4. CASE \/ HoldLapses \/ UNCHANGED vars
           \/ \E d \in Charges, s \in Outcomes : TxMoves(d, s)
    BY <1>1, <1>4 DEF HoldLapses, vars, TxMoves
<1>5. ASSUME NEW p \in Workers, Acts(p), ~markOrderPaid(p), ~settleRefund(p)
      PROVE  UNCHANGED order
    <2>1. CASE \/ \E m \in Methods : openCharge(p, m)
               \/ \E c \in Charges, k \in Outcomes : deliver(p, c, k)
               \/ reconcileOrder(p) \/ Fails(p) \/ Dies(p)
               \/ countByOrder(p) \/ createCharge(p) \/ storePayment(p) \/ reserveRef(p)
               \/ applyEvent(p) \/ markProcessed(p)
        BY <2>1
        DEF openCharge, deliver, reconcileOrder, Fails, Dies, countByOrder, createCharge,
            storePayment, reserveRef, applyEvent, markProcessed
    <2>2. CASE \/ fulfill(p) \/ accrueForPaidOrder(p) \/ accrueWrites(p)
               \/ postForPaidOrder(p) \/ postWrites(p) \/ issueForOrder(p)
               \/ \E i \in Items : createForOrderItem(p, i)
               \/ refundTicketsForOrder(p) \/ reverseLedger(p) \/ reverseCommission(p)
        BY <2>2
        DEF fulfill, accrueForPaidOrder, accrueWrites, postForPaidOrder, postWrites, issueForOrder,
            createForOrderItem, refundTicketsForOrder, reverseLedger, reverseCommission, readOrder
    <2>3. QED
        BY <1>5, <2>1, <2>2 DEF Acts, Continue
<1>6. QED
    BY <1>1, <1>2, <1>3, <1>4, <1>5 DEF Next, Acts

(* A ticket is issued only at the step that creates it. *)
LEMMA TicketCreated ==
    ASSUME [Next]_vars, TypeOK, NEW i \in Items, ticket[i] = "NONE", ticket'[i] # "NONE"
    PROVE  \E p \in Workers, k \in Items : createForOrderItem(p, k)
<1>1. CASE UNCHANGED ticket
    BY <1>1
<1>2. ASSUME NEW p \in Workers, refundTicketsForOrder(p) PROVE FALSE
    BY <1>2 DEF refundTicketsForOrder
<1>3. CASE \/ HoldLapses \/ expire \/ UNCHANGED vars
           \/ \E d \in Charges, s \in Outcomes : TxMoves(d, s)
    BY <1>1, <1>3 DEF HoldLapses, expire, vars, TxMoves, goods
<1>4. ASSUME NEW p \in Workers, Acts(p), ~refundTicketsForOrder(p),
             \A k \in Items : ~createForOrderItem(p, k)
      PROVE  UNCHANGED ticket
    <2>1. CASE \/ \E m \in Methods : openCharge(p, m)
               \/ \E c \in Charges, k \in Outcomes : deliver(p, c, k)
               \/ reconcileOrder(p) \/ Fails(p) \/ Dies(p)
               \/ countByOrder(p) \/ createCharge(p) \/ storePayment(p) \/ reserveRef(p)
               \/ applyEvent(p) \/ markOrderPaid(p) \/ markProcessed(p)
        BY <2>1
        DEF openCharge, deliver, reconcileOrder, Fails, Dies, countByOrder, createCharge,
            storePayment, reserveRef, applyEvent, markOrderPaid, markProcessed, goods
    <2>2. CASE \/ fulfill(p) \/ accrueForPaidOrder(p) \/ accrueWrites(p)
               \/ postForPaidOrder(p) \/ postWrites(p) \/ issueForOrder(p)
               \/ settleRefund(p) \/ reverseLedger(p) \/ reverseCommission(p)
        BY <2>2
        DEF fulfill, accrueForPaidOrder, accrueWrites, postForPaidOrder, postWrites, issueForOrder,
            settleRefund, reverseLedger, reverseCommission, readOrder, goods
    <2>3. QED
        BY <1>4, <2>1, <2>2 DEF Acts, Continue
<1>5. QED
    BY <1>1, <1>2, <1>3, <1>4 DEF Next, Acts

(* A notification is answered only by the request that processed it. *)
LEMMA NoticeProcessed ==
    ASSUME [Next]_vars, TypeOK, NEW c \in Charges, NEW k \in Outcomes,
           notice[c][k] # "PROCESSED", notice'[c][k] = "PROCESSED"
    PROVE  \E p \in Workers :
              /\ markProcessed(p) /\ job[p] # Idle /\ job[p].kind = "webhook"
              /\ job[p].charge = c /\ job[p].notice = k
<1>1. CASE UNCHANGED notice
    BY <1>1
<1>2. ASSUME NEW d, NEW l, NEW n, notice' = [notice EXCEPT ![d][l] = n]
      PROVE  d = c /\ l = k /\ n = "PROCESSED"
    BY <1>2 DEF TypeOK
<1>3. ASSUME NEW p \in Workers, throws(p) PROVE FALSE
    BY <1>1, <1>2, <1>3 DEF throws
<1>4. CASE \E d \in Charges, s \in Outcomes : TxMoves(d, s)
    BY <1>2, <1>4 DEF TxMoves, notify
<1>5. CASE \E p \in Workers : createCharge(p)
    <2>1. UNCHANGED notice \/ \E d, s : notify(d, s)
        BY <1>5 DEF createCharge
    <2>2. QED
        BY SMTT(30), <1>1, <1>2, <2>1 DEF notify
<1>6. ASSUME NEW p \in Workers, NEW d \in Charges, NEW l \in Outcomes, deliver(p, d, l)
      PROVE  FALSE
    BY <1>6 DEF deliver, Claimable, TypeOK
<1>7. ASSUME NEW p \in Workers, markProcessed(p)
      PROVE  job[p] # Idle /\ job[p].kind = "webhook" /\ job[p].charge = c /\ job[p].notice = k
    <2>1. job[p] # Idle
        BY <1>7 DEF markProcessed, at
    <2>2. CASE job[p].kind = "webhook"
        <3>1. notice' = [notice EXCEPT ![job[p].charge][job[p].notice] = "PROCESSED"]
            BY <1>7, <2>2 DEF markProcessed
        <3>2. QED
            BY <1>2, <2>1, <2>2, <3>1
    <2>3. CASE job[p].kind # "webhook"
        BY <1>1, <1>7, <2>3 DEF markProcessed
    <2>4. QED
        BY <2>2, <2>3
<1>8. CASE \/ HoldLapses \/ expire \/ UNCHANGED vars
           \/ \E p \in Workers :
                \/ \E m \in Methods : openCharge(p, m)
                \/ countByOrder(p) \/ storePayment(p) \/ reserveRef(p) \/ reconcileOrder(p)
                \/ applyEvent(p) \/ markOrderPaid(p)
                \/ fulfill(p) \/ accrueForPaidOrder(p) \/ accrueWrites(p)
                \/ postForPaidOrder(p) \/ postWrites(p)
                \/ \E i \in Items : createForOrderItem(p, i)
                \/ settleRefund(p) \/ refundTicketsForOrder(p)
                \/ reverseLedger(p) \/ reverseCommission(p) \/ Dies(p)
    <2>1. UNCHANGED notice
        BY <1>8
        DEF HoldLapses, expire, vars, openCharge, countByOrder, storePayment, reserveRef,
            reconcileOrder, applyEvent, markOrderPaid, fulfill, accrueForPaidOrder, accrueWrites,
            postForPaidOrder, postWrites, createForOrderItem, settleRefund, refundTicketsForOrder,
            reverseLedger, reverseCommission, Dies, readOrder, provider
    <2>2. QED
        BY <1>1, <2>1
<1>9. CASE \E p \in Workers : issueForOrder(p) \/ Fails(p)
    BY <1>1, <1>3, <1>9 DEF issueForOrder, Fails
<1>10. QED
    BY <1>4, <1>5, <1>6, <1>7, <1>8, <1>9 DEF Next, Continue

(* BR-PAY-001: an order that was ever paid has a payment the provider      *)
(* approved, however many requests race to charge, tell and reconcile it.  *)
THEOREM OrdersPaidByApproval == Spec => []PaidMeansApproved
<1>1. Init => PaidMeansApproved
    BY DEF Init, PaidMeansApproved, Settled
<1>2. Inv /\ PaidMeansApproved /\ [Next]_vars => PaidMeansApproved'
    <2> SUFFICES ASSUME Inv, PaidMeansApproved, [Next]_vars, order' \in Settled
                 PROVE  \E c \in Charges : payment'[c] \in Good
        BY DEF PaidMeansApproved, Good
    <2>1. Forward
        BY ForwardNext
    <2>2. CASE order \in Settled
        BY <2>1, <2>2 DEF PaidMeansApproved, Forward, Good
    <2>3. ASSUME NEW p \in Workers, markOrderPaid(p)
          PROVE  \E c \in Charges : payment'[c] \in Good
        <3>1. job[p] # Idle /\ job[p].step = "order"
            BY <2>3 DEF markOrderPaid, at
        <3>2. job[p].charge \in Charges /\ payment[job[p].charge] \in Good
            BY <3>1, RequestType DEF Inv, RequestsOK, StageOK, Requests
        <3>3. QED
            BY <2>1, <3>2 DEF Forward
    <2>4. QED
        BY <2>2, <2>3, OrderPaid
<1>3. QED
    BY <1>1, <1>2, Invariance, PTL DEF Spec

(* BR-PAY-003: a ticket exists only for an order that was paid, although   *)
(* the sweep, the payment and the issue race each other.                   *)
THEOREM TicketsFollowPayment == Spec => []TicketsOnlyForPaid
<1>1. Init => TicketsOnlyForPaid
    BY DEF Init, TicketsOnlyForPaid
<1>2. Inv /\ TicketsOnlyForPaid /\ [Next]_vars => TicketsOnlyForPaid'
    <2> SUFFICES ASSUME Inv, TicketsOnlyForPaid, [Next]_vars, NEW i \in Items, ticket'[i] # "NONE"
                 PROVE  order' \in Settled
        BY DEF TicketsOnlyForPaid
    <2>1. Forward /\ TypeOK
        BY ForwardNext DEF Inv
    <2>2. CASE ticket[i] # "NONE"
        BY <2>1, <2>2 DEF TicketsOnlyForPaid, Forward
    <2>3. ASSUME NEW p \in Workers, NEW k \in Items, createForOrderItem(p, k)
          PROVE  order' \in Settled
        BY <2>1, <2>3 DEF createForOrderItem, at, Inv, RequestsOK, StageOK, Forward
    <2>4. QED
        BY <2>1, <2>2, <2>3, TicketCreated
<1>3. QED
    BY <1>1, <1>2, Invariance, PTL DEF Spec

(* A provider that was answered 200 for an approval that still stands has  *)
(* nothing left to tell: the payment is approved, the order is no longer   *)
(* waiting, and if it is paid all its tickets exist (processWebhook).      *)
THEOREM AcknowledgedApprovals == Spec => []AcknowledgedIsApplied
<1>1. Init => AcknowledgedIsApplied
    BY DEF Init, AcknowledgedIsApplied
<1>2. Inv /\ AcknowledgedIsApplied /\ [Next]_vars => AcknowledgedIsApplied'
    <2> SUFFICES ASSUME Inv, AcknowledgedIsApplied, [Next]_vars, NEW c \in Charges,
                        "approved" \in Outcomes, tx'[c] = "approved",
                        notice'[c]["approved"] = "PROCESSED"
                 PROVE  /\ payment'[c] = "APPROVED"
                        /\ order' # "AWAITING_PAYMENT"
                        /\ order' = "PAID" => AllIssued'
        BY DEF AcknowledgedIsApplied
    <2>1. Forward /\ TypeOK /\ PaymentsFollowProvider /\ PaymentsFollowProvider'
        BY ForwardNext, InvNext DEF Inv
    <2>2. ASSUME payment[c] \in Good PROVE payment'[c] = "APPROVED"
        BY <2>1, <2>2 DEF Forward, PaymentsFollowProvider, Good, Refunded
    <2>3. ASSUME order # "AWAITING_PAYMENT", order = "PAID" => AllIssued
          PROVE  order' # "AWAITING_PAYMENT" /\ (order' = "PAID" => AllIssued')
        BY <2>1, <2>3 DEF Forward, AllIssued
    <2>4. CASE notice[c]["approved"] = "PROCESSED"
        <3>1. tx[c] = "approved"
            BY <2>1, <2>4 DEF PaymentsFollowProvider, Forward, TxStatus, Failed, Refunded
        <3>2. QED
            BY <2>2, <2>3, <2>4, <3>1 DEF AcknowledgedIsApplied, Good
    <2>5. ASSUME NEW p \in Workers, markProcessed(p), job[p] # Idle, job[p].kind = "webhook",
                 job[p].charge = c
          PROVE  payment[c] \in Good /\ order # "AWAITING_PAYMENT" /\ (order = "PAID" => AllIssued)
        <3>1. SawTruth(p) /\ StageOK(p) /\ job[p].step = "done" /\ tx[c] = "approved"
            BY <2>5 DEF markProcessed, at, Inv, RequestsOK
        <3>2. job[p].saw = "approved"
            BY <2>5, <3>1 DEF SawTruth, TxStatus, Failed, Refunded
        <3>3. QED
            BY <2>5, <3>1, <3>2 DEF StageOK
    <2>6. QED
        BY <2>1, <2>2, <2>3, <2>4, <2>5, NoticeProcessed
<1>3. QED
    BY <1>1, <1>2, Invariance, PTL DEF Spec

(* An event out of order does not move a payment back, also when the       *)
(* request applies an answer it read before another request moved on.      *)
THEOREM PaymentsMoveForward == Spec => PaymentNeverRegresses
<1> DEFINE Onward(c) ==
        <<payment[c], payment'[c]>> \in
            {"NONE"} \X {"CREATED"}
            \cup {"CREATED"} \X {"PROCESSING", "APPROVED", "REJECTED", "EXPIRED"}
            \cup {"PROCESSING"} \X {"APPROVED", "REJECTED", "EXPIRED"}
            \cup {"APPROVED"} \X {"REFUNDED", "CHARGED_BACK"}
<1>1. Inv /\ [Next]_vars => \A c \in Charges : payment'[c] # payment[c] => Onward(c)
    <2> SUFFICES ASSUME Inv, [Next]_vars, NEW c \in Charges, payment'[c] # payment[c]
                 PROVE  Onward(c)
        OBVIOUS
    <2>0. TypeOK
        BY DEF Inv
    <2>1. ASSUME NEW p \in Workers, storePayment(p) PROVE Onward(c)
        <3>1. job[p] \in Requests
            BY <2>0, <2>1, RequestType DEF storePayment, at
        <3>2. payment[c] = "NONE" /\ payment'[c] = "CREATED"
            BY <2>0, <2>1, <3>1 DEF storePayment, TypeOK, Requests
        <3>3. QED
            BY <3>2
    <2>2. ASSUME NEW p \in Workers, applyEvent(p) PROVE Onward(c)
        <3> DEFINE j == job[p]
        <3>1. /\ payment[c] \in From(j.kind, j.saw) /\ payment'[c] = Target(j.kind, j.saw)
              /\ j.step = "apply" /\ j \in Requests /\ SawTruth(p) /\ StageOK(p)
            BY <2>2, Applied
        <3>2. payment[c] \in PaymentStatus
            BY <2>0 DEF TypeOK
        <3>3. j.saw \in TxStatus \cup {"pending"} /\ (j.kind # "CARD" => j.saw \in TxStatus)
            BY <3>1 DEF SawTruth, StageOK, Requests
        <3>4. CASE j.kind = "CARD"
            <4>1. /\ payment[c] = "CREATED"
                  /\ payment'[c] \in {"APPROVED", "REJECTED", "PROCESSING"}
                BY <3>1, <3>4 DEF From, Target
            <4>2. QED
                BY <4>1
        <3>5. CASE j.kind # "CARD" /\ j.saw \in Refunded
            <4>1. payment[c] = "APPROVED" /\ payment'[c] \in {"REFUNDED", "CHARGED_BACK"}
                BY <3>1, <3>2, <3>5 DEF From, Target, Refunded, PaymentStatus
            <4>2. QED
                BY <4>1
        <3>6. CASE j.kind # "CARD" /\ j.saw \notin Refunded
            <4>1. /\ payment[c] \in {"CREATED", "PROCESSING"}
                  /\ payment'[c] \in {"APPROVED", "REJECTED", "EXPIRED"}
                BY <3>1, <3>3, <3>6 DEF From, Target, Refunded, TxStatus
            <4>2. QED
                BY <2>2, <4>1
        <3>7. QED
            BY <3>4, <3>5, <3>6
    <2>3. QED
        BY <2>1, <2>2, PaymentMoves
<1>2. QED
    BY <1>1, Invariance, PTL DEF Spec, PaymentNeverRegresses

-------------------------------------------------------------------------------
(* Pending Pix charges                                                     *)

(* The charges that have a row, and the cards among them.                  *)
Stored == {c \in Charges : payment[c] # "NONE"}
Cards == {c \in Charges : c[1] = "CARD" /\ payment[c] # "NONE"}
NextKey == <<"PIX", Len(made)>>

(* The steps of a request for a charge until it has a row.                 *)
AskSteps == {"count", "call", "store"}
Refreshing == {p \in Workers : job[p] # Idle /\ job[p].kind = "PIX" /\ job[p].step \in AskSteps}

(* An attempt's number is the count of rows when it was taken, so that no  *)
(* row and no charge has a number beyond the count of today.               *)
KeysBehind ==
    /\ \A p \in Workers : job[p] # Idle /\ job[p].step \in AskSteps =>
          job[p].charge[1] = job[p].kind /\ job[p].charge[2] <= Len(made)
    /\ \A n \in DOMAIN made : made[n][2] < n
    /\ \A c \in PendingPix \ Stored : c[2] <= Len(made)

(* Stored charges that wait, together with the requests for one, are not   *)
(* more than the requests at a time: none is opened while a stored charge  *)
(* waits.  Nor are they with the unstored charge that the next request     *)
(* will be answered with.                                                  *)
RoomLeft ==
    /\ Cardinality(PendingPix \cap Stored) + Cardinality(Refreshing) <= Cardinality(Workers)
    /\ Cardinality(PendingPix \cap Stored) + Cardinality((PendingPix \ Stored) \cap {NextKey})
          <= Cardinality(Workers)

PixInv == KeysBehind /\ RoomLeft

(* A charge starts to wait only at the call that creates it. *)
LEMMA WaitStarts ==
    ASSUME [Next]_vars, TypeOK, NEW c \in Charges, tx'[c] = "pending", tx[c] # "pending"
    PROVE  \E p \in Workers :
              createCharge(p) /\ job[p] # Idle /\ job[p].step = "call" /\ job[p].charge = c
<1>1. CASE UNCHANGED tx
    BY <1>1
<1>2. ASSUME NEW d \in Charges, NEW s \in Outcomes, TxMoves(d, s) PROVE FALSE
    BY <1>2, PaymentsAssumption DEF TxMoves, TypeOK, TxStatus
<1>3. ASSUME NEW p \in Workers, createCharge(p)
      PROVE  job[p] # Idle /\ job[p].step = "call" /\ job[p].charge = c
    <2>1. job[p] # Idle /\ job[p].step = "call"
        BY <1>3 DEF createCharge, at
    <2>2. PICK s : tx' = [tx EXCEPT ![job[p].charge] = s]
        BY <1>3 DEF createCharge
    <2>3. QED
        BY <2>1, <2>2 DEF TypeOK
<1>4. CASE HoldLapses \/ expire \/ UNCHANGED vars
    BY <1>1, <1>4 DEF HoldLapses, expire, vars, provider
<1>5. ASSUME NEW p \in Workers, Acts(p), ~createCharge(p) PROVE UNCHANGED tx
    <2>1. CASE \/ \E m \in Methods : openCharge(p, m)
               \/ \E d \in Charges, k \in Outcomes : deliver(p, d, k)
               \/ reconcileOrder(p) \/ Fails(p) \/ Dies(p)
               \/ countByOrder(p) \/ storePayment(p) \/ reserveRef(p)
               \/ applyEvent(p) \/ markOrderPaid(p) \/ markProcessed(p)
        BY <2>1
        DEF openCharge, deliver, reconcileOrder, Fails, Dies, countByOrder, storePayment,
            reserveRef, applyEvent, markOrderPaid, markProcessed, provider
    <2>2. CASE \/ fulfill(p) \/ accrueForPaidOrder(p) \/ accrueWrites(p)
               \/ postForPaidOrder(p) \/ postWrites(p) \/ issueForOrder(p)
               \/ \E i \in Items : createForOrderItem(p, i)
               \/ settleRefund(p) \/ refundTicketsForOrder(p)
               \/ reverseLedger(p) \/ reverseCommission(p)
        BY <2>2
        DEF fulfill, accrueForPaidOrder, accrueWrites, postForPaidOrder, postWrites, issueForOrder,
            createForOrderItem, settleRefund, refundTicketsForOrder, reverseLedger,
            reverseCommission, readOrder, provider
    <2>3. QED
        BY <1>5, <2>1, <2>2 DEF Acts, Continue
<1>6. QED
    BY <1>1, <1>2, <1>3, <1>4, <1>5 DEF Next, Acts

(* A row is added only at the step that stores the charge. *)
LEMMA RowAdded ==
    ASSUME [Next]_vars, made' # made
    PROVE  \E p \in Workers : storePayment(p) /\ payment[job[p].charge] = "NONE"
<1>1. CASE \/ HoldLapses \/ expire \/ UNCHANGED vars
           \/ \E d \in Charges, s \in Outcomes : TxMoves(d, s)
    BY <1>1 DEF HoldLapses, expire, vars, TxMoves, payments
<1>2. ASSUME NEW p \in Workers, storePayment(p) PROVE payment[job[p].charge] = "NONE"
    BY <1>2 DEF storePayment
<1>3. ASSUME NEW p \in Workers, Acts(p), ~storePayment(p) PROVE UNCHANGED made
    <2>1. CASE \/ \E m \in Methods : openCharge(p, m)
               \/ \E d \in Charges, k \in Outcomes : deliver(p, d, k)
               \/ reconcileOrder(p) \/ Fails(p) \/ Dies(p)
               \/ countByOrder(p) \/ createCharge(p) \/ reserveRef(p)
               \/ applyEvent(p) \/ markOrderPaid(p) \/ markProcessed(p)
        BY <2>1
        DEF openCharge, deliver, reconcileOrder, Fails, Dies, countByOrder, createCharge,
            reserveRef, applyEvent, markOrderPaid, markProcessed, payments
    <2>2. CASE \/ fulfill(p) \/ accrueForPaidOrder(p) \/ accrueWrites(p)
               \/ postForPaidOrder(p) \/ postWrites(p) \/ issueForOrder(p)
               \/ \E i \in Items : createForOrderItem(p, i)
               \/ settleRefund(p) \/ refundTicketsForOrder(p)
               \/ reverseLedger(p) \/ reverseCommission(p)
        BY <2>2
        DEF fulfill, accrueForPaidOrder, accrueWrites, postForPaidOrder, postWrites, issueForOrder,
            createForOrderItem, settleRefund, refundTicketsForOrder, reverseLedger,
            reverseCommission, readOrder, payments
    <2>3. QED
        BY <1>3, <2>1, <2>2 DEF Acts, Continue
<1>4. QED
    BY <1>1, <1>2, <1>3 DEF Next, Acts

(* A request that asks for a charge after a step of its own took the step  *)
(* before, and changed no row.                                             *)
LEMMA Asks ==
    ASSUME Inv, NEW p \in Workers, Acts(p), job'[p] # Idle,
           job'[p].step \in {"count", "call", "store"}
    PROVE  /\ UNCHANGED payments
           /\ \/ /\ openCharge(p, job'[p].kind)
                 /\ job'[p].charge = <<job'[p].kind, 0>>
              \/ /\ job'[p].kind = job[p].kind /\ job'[p].charge = <<job[p].kind, Len(made)>>
                 /\ job[p] # Idle /\ job[p].step = "count"
              \/ /\ job'[p].kind = job[p].kind /\ job'[p].charge = job[p].charge
                 /\ job[p] # Idle /\ job[p].step = "call"
<1>0. TypeOK /\ (job[p] # Idle => job[p] \in Requests /\ StageOK(p)) /\ p \in DOMAIN job
    BY RequestType DEF Inv, RequestsOK
<1>1. ASSUME NEW m \in Methods, openCharge(p, m)
      PROVE  /\ UNCHANGED payments /\ openCharge(p, job'[p].kind)
             /\ job'[p].charge = <<job'[p].kind, 0>>
    <2>1. job'[p] = Job(m, "count", <<m, 0>>, "none", "none")
        BY <1>0, <1>1 DEF openCharge
    <2>2. job'[p].kind = m /\ job'[p].charge = <<m, 0>>
        BY <2>1 DEF Job
    <2>3. UNCHANGED payments
        BY <1>1 DEF openCharge
    <2>4. QED
        BY <1>1, <2>2, <2>3
<1>2. CASE countByOrder(p)
    <2>1. job[p] # Idle /\ job[p].step = "count" /\ job[p] \in Requests
        BY <1>0, <1>2 DEF countByOrder, at
    <2>2. UNCHANGED payments
        BY <1>2 DEF countByOrder
    <2>3. job'[p] = [job[p] EXCEPT !.charge = <<job[p].kind, Len(made)>>, !.step = "call"]
        BY <1>0, <1>2 DEF countByOrder, ends
    <2>4. job'[p].kind = job[p].kind /\ job'[p].charge = <<job[p].kind, Len(made)>>
        BY <2>1, <2>3 DEF Requests
    <2>5. QED
        BY <2>1, <2>2, <2>4
<1>3. CASE createCharge(p)
    <2>1. job[p] # Idle /\ job[p].step = "call" /\ job[p] \in Requests /\ UNCHANGED payments
        BY <1>0, <1>3 DEF createCharge, at
    <2>2. PICK s : job' = [job EXCEPT ![p].saw = s, ![p].step = "store"]
        BY <1>3 DEF createCharge
    <2>3. job'[p] = [job[p] EXCEPT !.saw = s, !.step = "store"]
        BY <1>0, <2>2
    <2>4. QED
        BY <2>1, <2>3 DEF Requests
<1>4. ASSUME NEW step \in Steps \ {"count", "call", "store"}, job[p] # Idle, goto(p, step)
      PROVE  FALSE
    BY <1>0, <1>4, GotoFields
<1>5. ASSUME ends(p) PROVE FALSE
    BY <1>0, <1>5 DEF ends
<1>6. CASE storePayment(p) \/ reserveRef(p) \/ applyEvent(p) \/ markOrderPaid(p) \/ markProcessed(p)
    BY <1>4, <1>5, <1>6
    DEF storePayment, reserveRef, applyEvent, markOrderPaid, markProcessed, at, Steps
<1>7. CASE \/ accrueWrites(p) \/ postWrites(p) \/ settleRefund(p)
           \/ refundTicketsForOrder(p) \/ reverseLedger(p) \/ reverseCommission(p)
    BY <1>4, <1>7
    DEF accrueWrites, postWrites, settleRefund, refundTicketsForOrder, reverseLedger,
        reverseCommission, at, Steps
<1>8. CASE \/ \E c \in Charges, k \in Outcomes : deliver(p, c, k)
           \/ reconcileOrder(p)
    BY <1>0, <1>8 DEF deliver, reconcileOrder, Job
<1>9. CASE fulfill(p) \/ accrueForPaidOrder(p) \/ postForPaidOrder(p)
    <2>1. job[p] \in Requests
        BY <1>0, <1>9 DEF fulfill, accrueForPaidOrder, postForPaidOrder, readOrder, at
    <2>2. QED
        BY <1>0, <1>9, <2>1
        DEF fulfill, accrueForPaidOrder, postForPaidOrder, readOrder, Requests
<1>10. CASE \E i \in Items : createForOrderItem(p, i)
    <2>1. job[p] \in Requests
        BY <1>0, <1>10 DEF createForOrderItem, at
    <2>2. QED
        <3>1. PICK i \in Items : createForOrderItem(p, i)
            BY <1>10
        <3>2. job'[p] = [job[p] EXCEPT !.todo = job[p].todo \ {i},
                                       !.step = IF job[p].todo = {i} THEN "done" ELSE "create"]
            BY <1>0, <3>1 DEF createForOrderItem
        <3>3. QED
            BY <2>1, <3>2 DEF Requests
<1>11. CASE issueForOrder(p)
    <2>1. job[p] \in Requests
        BY <1>0, <1>11 DEF issueForOrder, at
    <2>2. CASE throws(p)
        BY <1>5, <2>2 DEF throws
    <2>3. ASSUME NEW todo, NEW step \in {"done", "create"},
                 job' = [job EXCEPT ![p].todo = todo, ![p].step = step]
          PROVE  FALSE
        BY <1>0, <2>1, <2>3 DEF Requests
    <2>4. QED
        BY <1>11, <2>2, <2>3 DEF issueForOrder
<1>12. CASE Fails(p)
    <2>1. job[p] # Idle /\ job[p] \in Requests
        BY <1>0, <1>12 DEF Fails
    <2>2. CASE throws(p)
        BY <1>5, <2>2 DEF throws
    <2>3. ASSUME job[p].step \in DOMAIN Swallowed(p), goto(p, Swallowed(p)[job[p].step])
          PROVE  FALSE
        <3>1. Swallowed(p)[job[p].step] \in Steps \ {"count", "call", "store"}
            BY <2>3 DEF Swallowed, Steps
        <3>2. QED
            BY <1>4, <2>1, <2>3, <3>1
    <2>4. QED
        BY <1>12, <2>2, <2>3 DEF Fails
<1>13. CASE Dies(p)
    BY <1>5, <1>13 DEF Dies
<1>14. QED
    BY <1>1, <1>2, <1>3, <1>6, <1>7, <1>8, <1>9, <1>10, <1>11, <1>12, <1>13 DEF Acts, Continue

(* The row that is added is the one of a request for a charge. *)
LEMMA RowOfRequest ==
    ASSUME Inv, PixInv, NEW p \in Workers, storePayment(p), payment[job[p].charge] = "NONE"
    PROVE  LET c == job[p].charge IN
           /\ job[p] # Idle /\ job[p].step = "store" /\ c \in Charges
           /\ c[1] = job[p].kind /\ c[2] <= Len(made)
           /\ Len(made') = Len(made) + 1 /\ DOMAIN made' = DOMAIN made \cup {Len(made) + 1}
           /\ made'[Len(made) + 1] = c /\ \A n \in DOMAIN made : made'[n] = made[n]
           /\ Stored' = Stored \cup {c} /\ c \notin Stored /\ UNCHANGED tx
           /\ job'[p] # Idle => job'[p].step = "route"
<1> DEFINE c == job[p].charge
<1>1. TypeOK /\ job[p] # Idle /\ job[p] \in Requests /\ job[p].step = "store" /\ c \in Charges
    BY RequestType DEF Inv, storePayment, at, Requests
<1>2. c[1] = job[p].kind /\ c[2] <= Len(made)
    BY <1>1 DEF PixInv, KeysBehind, AskSteps
<1>3. /\ payment' = [payment EXCEPT ![c] = "CREATED"] /\ made' = Append(made, c)
      /\ goto(p, "route") /\ UNCHANGED tx
    BY DEF storePayment, provider
<1>4. Stored' = Stored \cup {c} /\ c \notin Stored
    BY <1>1, <1>3 DEF Stored, TypeOK
<1>5. /\ Len(made') = Len(made) + 1 /\ DOMAIN made' = DOMAIN made \cup {Len(made) + 1}
      /\ made'[Len(made) + 1] = c /\ \A n \in DOMAIN made : made'[n] = made[n]
    BY <1>1, <1>3 DEF TypeOK
<1>6. job'[p] # Idle => job'[p].step = "route"
    BY <1>1, <1>3, GotoFields
<1>7. QED
    BY <1>1, <1>2, <1>3, <1>4, <1>5, <1>6

(* What has a row changes only with the list of rows. *)
LEMMA StoredStays ==
    ASSUME Inv, [Next]_vars, made' = made
    PROVE  Stored' = Stored
BY InvNext DEF Inv, TypeOK, Stored

(* The rows only become more. *)
LEMMA MadeGrows ==
    ASSUME Inv, PixInv, [Next]_vars
    PROVE  Len(made) \in Nat /\ Len(made') \in Nat /\ Len(made') >= Len(made) /\ Stored \subseteq Stored'
<1>1. Len(made) \in Nat
    BY DEF Inv, TypeOK
<1>2. QED
    BY <1>1, RowAdded, RowOfRequest, StoredStays

(* Numbers stay behind the count. *)
LEMMA KeysNext ==
    ASSUME Inv, PixInv, [Next]_vars
    PROVE  KeysBehind'
<1>0. TypeOK /\ KeysBehind
    BY DEF Inv, PixInv
<1>1. Len(made) \in Nat /\ Len(made') \in Nat /\ Len(made') >= Len(made) /\ Stored \subseteq Stored'
    BY MadeGrows
<1>c. \A c \in Charges : c[2] \in Nat
    BY PaymentsAssumption DEF Charges
<1>2. ASSUME NEW p \in Workers, job'[p] # Idle, job'[p].step \in AskSteps
      PROVE  job'[p].charge[1] = job'[p].kind /\ job'[p].charge[2] <= Len(made')
    <2>1. CASE job'[p] = job[p]
        <3>1. job[p] # Idle /\ job[p].step \in AskSteps /\ job[p].charge \in Charges
            BY <1>0, <1>2, <2>1, RequestType DEF Requests
        <3>2. job[p].charge[1] = job[p].kind /\ job[p].charge[2] <= Len(made)
            BY <1>0, <3>1 DEF KeysBehind
        <3>3. QED
            BY <1>1, <1>c, <2>1, <3>1, <3>2
    <2>2. CASE Acts(p)
        <3>1. \/ job'[p].charge = <<job'[p].kind, 0>>
              \/ job'[p].kind = job[p].kind /\ job'[p].charge = <<job[p].kind, Len(made)>>
              \/ /\ job'[p].kind = job[p].kind /\ job'[p].charge = job[p].charge
                 /\ job[p] # Idle /\ job[p].step = "call"
            BY <1>2, <2>2, Asks DEF AskSteps
        <3>2. CASE /\ job'[p].kind = job[p].kind /\ job'[p].charge = job[p].charge
                   /\ job[p] # Idle /\ job[p].step = "call"
            <4>1. job[p].charge \in Charges
                BY <1>0, <3>2, RequestType DEF Requests
            <4>2. job[p].charge[1] = job[p].kind /\ job[p].charge[2] <= Len(made)
                BY <1>0, <3>2 DEF KeysBehind, AskSteps
            <4>3. QED
                BY <1>1, <1>c, <3>2, <4>1, <4>2
        <3>3. QED
            BY <1>1, <3>1, <3>2
    <2>3. QED
        BY <1>0, <2>1, <2>2, OneActs, OneMoves
<1>3. ASSUME NEW n \in DOMAIN made' PROVE made'[n][2] < n
    <2>1. CASE made' = made
        BY <1>0, <2>1 DEF KeysBehind
    <2>2. ASSUME NEW p \in Workers, storePayment(p), payment[job[p].charge] = "NONE"
          PROVE  made'[n][2] < n
        <3>1. CASE n \in DOMAIN made
            BY <1>0, <2>2, <3>1, RowOfRequest DEF KeysBehind
        <3>2. CASE n = Len(made) + 1
            BY <1>1, <1>c, <2>2, <3>2, RowOfRequest
        <3>3. QED
            BY <2>2, <3>1, <3>2, RowOfRequest
    <2>3. QED
        BY <2>1, <2>2, RowAdded
<1>4. ASSUME NEW c \in Charges, c \in (PendingPix \ Stored)' PROVE c[2] <= Len(made')
    <2>1. c \notin Stored /\ tx'[c] = "pending" /\ c[1] = "PIX"
        BY <1>1, <1>4 DEF PendingPix
    <2>2. c[2] <= Len(made)
        <3>1. CASE tx[c] = "pending"
            BY <1>0, <2>1, <3>1 DEF PendingPix, KeysBehind
        <3>2. CASE tx[c] # "pending"
            <4>1. PICK p \in Workers : job[p] # Idle /\ job[p].step = "call" /\ job[p].charge = c
                BY <1>0, <2>1, <3>2, WaitStarts
            <4>2. QED
                BY <1>0, <4>1 DEF KeysBehind, AskSteps
        <3>3. QED
            BY <3>1, <3>2
    <2>3. QED
        BY <1>1, <1>c, <2>2
<1>5. QED
    BY <1>2, <1>3, <1>4 DEF KeysBehind, PendingPix

(* A request comes to ask for a Pix charge only by opening it. *)
LEMMA RefreshingNext ==
    ASSUME Inv, [Next]_vars, NEW p \in Workers, p \in Refreshing'
    PROVE  openCharge(p, "PIX") \/ p \in Refreshing
<1>0. TypeOK
    BY DEF Inv
<1>1. job'[p] # Idle /\ job'[p].kind = "PIX" /\ job'[p].step \in AskSteps
    BY DEF Refreshing
<1>2. CASE job'[p] = job[p]
    BY <1>1, <1>2 DEF Refreshing
<1>3. CASE Acts(p)
    BY <1>1, <1>3, Asks DEF AskSteps, Refreshing
<1>4. QED
    BY <1>0, <1>2, <1>3, OneActs, OneMoves

(* Sets of charges and of workers are finite. *)
LEMMA FinitelyMany ==
    /\ IsFiniteSet(Charges)
    /\ \A S \in SUBSET Charges : IsFiniteSet(S) /\ Cardinality(S) \in Nat
    /\ \A S \in SUBSET Workers :
          IsFiniteSet(S) /\ Cardinality(S) \in Nat /\ Cardinality(S) <= Cardinality(Workers)
    /\ Cardinality(Workers) \in Nat
<1>1. IsFiniteSet(Methods)
    <2>1. IsFiniteSet({"PIX"} \cup {"CARD"})
        BY FS_Singleton, FS_Union
    <2>2. Methods \in SUBSET ({"PIX"} \cup {"CARD"})
        BY PaymentsAssumption
    <2>3. QED
        BY <2>1, <2>2, FS_Subset
<1>2. IsFiniteSet(0..MaxAttempts - 1)
    BY PaymentsAssumption, FS_Interval
<1>3. IsFiniteSet(Charges)
    BY <1>1, <1>2, FS_Product DEF Charges
<1>4. IsFiniteSet(Workers)
    BY PaymentsAssumption
<1>5. QED
    BY <1>3, <1>4, FS_Subset, FS_CardinalityType

(* A part of a finite set with an element more, and of one with one less. *)
LEMMA OneMore ==
    ASSUME NEW T, IsFiniteSet(T), NEW x, NEW U, U \subseteq T \cup {x}
    PROVE  Cardinality(U) <= Cardinality(T) + 1
<1>1. IsFiniteSet(T \cup {x}) /\ Cardinality(T \cup {x}) \in {Cardinality(T), Cardinality(T) + 1}
    BY FS_AddElement
<1>2. IsFiniteSet(U) /\ Cardinality(U) <= Cardinality(T \cup {x})
    BY <1>1, FS_Subset
<1>3. Cardinality(U) \in Nat /\ Cardinality(T) \in Nat
    BY <1>2, FS_CardinalityType
<1>4. QED
    BY <1>1, <1>2, <1>3

LEMMA OneLess ==
    ASSUME NEW T, IsFiniteSet(T), NEW x \in T, NEW U, U \subseteq T \ {x}
    PROVE  Cardinality(U) <= Cardinality(T) - 1
<1>1. IsFiniteSet(T \ {x}) /\ Cardinality(T \ {x}) = Cardinality(T) - 1
    BY FS_RemoveElement
<1>2. QED
    BY <1>1, FS_Subset

(* Nothing stored waits when a Pix charge is opened. *)
LEMMA NoneWaits ==
    ASSUME Inv, NEW p \in Workers, openCharge(p, "PIX")
    PROVE  PendingPix \cap Stored = {}
<1> SUFFICES ASSUME NEW c \in PendingPix \cap Stored PROVE FALSE
    OBVIOUS
<1>1. c \in Charges /\ c[1] = "PIX" /\ tx[c] = "pending" /\ payment[c] # "NONE"
    BY DEF PendingPix, Stored
<1>2. payment[c] \in {"CREATED", "PROCESSING"}
    BY <1>1 DEF Inv, PaymentsFollowProvider, TypeOK, PaymentStatus, Paid, Failed, Refunded
<1>3. QED
    BY <1>1, <1>2 DEF openCharge, reusablePix

(* A charge that begins to wait is that of a request, and has no row. *)
LEMMA NewlyWaits ==
    ASSUME Inv, PixInv, [Next]_vars, NEW c \in PendingPix', c \notin PendingPix
    PROVE  /\ c \notin Stored /\ made' = made
           /\ \E p \in Refreshing : job[p].charge = c /\ createCharge(p)
<1>1. TypeOK /\ c \in Charges /\ c[1] = "PIX" /\ tx'[c] = "pending" /\ tx[c] # "pending"
    BY DEF Inv, PendingPix
<1>2. PICK p \in Workers :
          createCharge(p) /\ job[p] # Idle /\ job[p].step = "call" /\ job[p].charge = c
    BY <1>1, WaitStarts
<1>3. p \in Refreshing
    BY <1>1, <1>2 DEF Refreshing, AskSteps, PixInv, KeysBehind
<1>4. tx[c] = "none"
    <2>1. CASE tx[c] # "none"
        <3>1. tx' = [tx EXCEPT ![c] = tx[c]]
            BY <1>2, <2>1 DEF createCharge
        <3>2. QED
            BY <1>1, <3>1 DEF TypeOK
    <2>2. QED
        BY <2>1
<1>5. c \notin Stored
    BY <1>1, <1>4 DEF Inv, PaymentsFollowProvider, Stored
<1>6. made' = made
    BY <1>2 DEF createCharge, payments
<1>7. QED
    BY <1>2, <1>3, <1>5, <1>6

(* The room is left at a step that adds a row, ... *)
LEMMA RoomAtRow ==
    ASSUME Inv, PixInv, [Next]_vars, NEW p \in Workers,
           storePayment(p), payment[job[p].charge] = "NONE"
    PROVE  RoomLeft'
<1> DEFINE c == job[p].charge
           S == PendingPix \cap Stored
           R == Refreshing
<1>1. /\ job[p] # Idle /\ job[p].step = "store" /\ c \in Charges
      /\ c[1] = job[p].kind /\ c[2] <= Len(made)
      /\ Len(made') = Len(made) + 1
      /\ Stored' = Stored \cup {c} /\ c \notin Stored /\ UNCHANGED tx
      /\ job'[p] # Idle => job'[p].step = "route"
    BY RowOfRequest
<1>2. PendingPix' = PendingPix
    BY <1>1 DEF PendingPix
<1>3. R' \subseteq R \ {p}
    <2>1. p \notin R'
        BY <1>1 DEF Refreshing, AskSteps
    <2>2. \A q \in Workers \ {p} : job'[q] = job[q]
        BY OneMoves DEF Inv, Acts, Continue
    <2>3. QED
        BY <2>1, <2>2 DEF Refreshing
<1>4. S \in SUBSET Charges /\ S' \in SUBSET Charges /\ R \in SUBSET Workers /\ R' \in SUBSET Workers
    BY DEF PendingPix, Refreshing
<1> HIDE DEF S, R
<1>5. Cardinality(S') + Cardinality(R') <= Cardinality(S) + Cardinality(R)
    <2>1. /\ Cardinality(S) \in Nat /\ Cardinality(S') \in Nat /\ IsFiniteSet(S)
          /\ Cardinality(R) \in Nat /\ Cardinality(R') \in Nat /\ IsFiniteSet(R)
        BY <1>4, FinitelyMany
    <2>2. CASE c[1] = "PIX"
        <3>1. S' \subseteq S \cup {c} /\ p \in R
            BY <1>1, <1>2, <2>2 DEF S, R, Refreshing, AskSteps
        <3>2. Cardinality(S') <= Cardinality(S) + 1
            BY <2>1, <3>1, OneMore
        <3>3. Cardinality(R') <= Cardinality(R) - 1
            BY <1>3, <2>1, <3>1, OneLess
        <3>4. QED
            BY <2>1, <3>2, <3>3
    <2>3. CASE c[1] # "PIX"
        <3>1. S' = S
            BY <1>1, <1>2, <2>3 DEF S, PendingPix
        <3>2. Cardinality(R') <= Cardinality(R)
            BY <1>3, <2>1, FS_Subset
        <3>3. QED
            BY <2>1, <3>1, <3>2
    <2>4. QED
        BY <2>2, <2>3
<1>6. ((PendingPix \ Stored) \cap {NextKey})' = {}
    <2>1. \A d \in PendingPix \ Stored : d[2] <= Len(made)
        BY DEF PixInv, KeysBehind
    <2>2. (PendingPix \ Stored)' \subseteq PendingPix \ Stored
        BY <1>1, <1>2
    <2>3. NextKey'[2] = Len(made) + 1 /\ Len(made) \in Nat
        BY <1>1 DEF NextKey, Inv, TypeOK
    <2>4. QED
        BY <2>1, <2>2, <2>3
<1>7. QED
    <2>1. Cardinality(S) + Cardinality(R) <= Cardinality(Workers)
        BY DEF PixInv, RoomLeft, S, R
    <2>2. /\ Cardinality(S) \in Nat /\ Cardinality(S') \in Nat /\ Cardinality(Workers) \in Nat
          /\ Cardinality(R) \in Nat /\ Cardinality(R') \in Nat
        BY <1>4, FinitelyMany
    <2>3. Cardinality(((PendingPix \ Stored) \cap {NextKey})') = 0
        BY <1>6, FS_EmptySet
    <2>4. /\ Cardinality(S') + Cardinality(R') <= Cardinality(Workers)
          /\ Cardinality(S') + 0 <= Cardinality(Workers)
        BY <1>5, <2>1, <2>2
    <2>5. QED
        BY <2>3, <2>4 DEF RoomLeft, S, R

(* ... and at every other one. *)
LEMMA RoomNext ==
    ASSUME Inv, PixInv, [Next]_vars
    PROVE  RoomLeft'
<1> DEFINE S == PendingPix \cap Stored
           R == Refreshing
           N == (PendingPix \ Stored) \cap {NextKey}
<1>0. /\ S \in SUBSET Charges /\ S' \in SUBSET Charges /\ N \in SUBSET Charges /\ N' \in SUBSET Charges
      /\ R \in SUBSET Workers /\ R' \in SUBSET Workers
    BY DEF PendingPix, Refreshing
<1>t. /\ IsFiniteSet(S) /\ Cardinality(S) \in Nat /\ Cardinality(S') \in Nat
      /\ IsFiniteSet(N) /\ Cardinality(N) \in Nat /\ Cardinality(N') \in Nat
      /\ IsFiniteSet(R) /\ Cardinality(R) \in Nat /\ Cardinality(R') \in Nat
      /\ Cardinality(R') <= Cardinality(Workers) /\ Cardinality(Workers) \in Nat
    <2> HIDE DEF S, R, N
    <2>1. QED
        BY <1>0, FinitelyMany
<1>1. /\ Cardinality(S) + Cardinality(R) <= Cardinality(Workers)
      /\ Cardinality(S) + Cardinality(N) <= Cardinality(Workers)
    BY DEF PixInv, RoomLeft
<1>2. CASE made' # made
    BY <1>2, RowAdded, RoomAtRow
<1>3. CASE made' = made
    <2>1. Stored' = Stored /\ NextKey' = NextKey
        BY <1>3, StoredStays DEF NextKey
    <2>2. S' \subseteq S
        BY <2>1, NewlyWaits
    <2>3. Cardinality(S') <= Cardinality(S)
        <3> HIDE DEF S
        <3>1. QED
            BY <1>t, <2>2, FS_Subset
    <2>4. Cardinality(S') + Cardinality(R') <= Cardinality(Workers)
        <3>1. ASSUME NEW p \in Workers, openCharge(p, "PIX")
              PROVE  Cardinality(S') = 0
            <4>1. S' = {}
                BY <2>2, <3>1, NoneWaits
            <4> HIDE DEF S
            <4>2. QED
                BY <4>1, FS_EmptySet
        <3>2. CASE \A p \in Workers : ~openCharge(p, "PIX")
            <4>1. R' \subseteq R
                BY <1>0, <3>2, RefreshingNext
            <4> HIDE DEF R, S
            <4>2. Cardinality(R') <= Cardinality(R)
                BY <1>t, <4>1, FS_Subset
            <4>3. QED
                BY <1>t, <1>1, <2>3, <4>2
        <3> HIDE DEF R, S
        <3>3. QED
            BY <1>t, <3>1, <3>2
    <2>5. Cardinality(S') + Cardinality(N') <= Cardinality(Workers)
        <3>1. CASE N' \subseteq N
            <4> HIDE DEF N, S
            <4>1. Cardinality(N') <= Cardinality(N)
                BY <1>t, <3>1, FS_Subset
            <4>2. QED
                BY <1>t, <1>1, <2>3, <4>1
        <3>2. CASE ~(N' \subseteq N)
            <4>1. PICK c \in PendingPix' : c \notin PendingPix
                BY <2>1, <3>2
            <4>2. R # {}
                BY <4>1, NewlyWaits
            <4>3. N' \subseteq {NextKey}
                BY <2>1
            <4> HIDE DEF N, S, R
            <4>4. Cardinality(R) >= 1
                BY <1>t, <4>2, FS_EmptySet
            <4>5. Cardinality(N') <= 1
                <5>1. IsFiniteSet({}) /\ Cardinality({}) = 0 /\ N' \subseteq {} \cup {NextKey}
                    BY <4>3, FS_EmptySet
                <5>2. Cardinality(N') <= 0 + 1
                    BY <5>1, OneMore
                <5>3. QED
                    BY <5>2
            <4>6. Cardinality(S') + 1 <= Cardinality(Workers)
                BY <1>t, <1>1, <2>3, <4>4
            <4>7. QED
                BY <1>t, <4>5, <4>6
        <3>3. QED
            BY <3>1, <3>2
    <2>6. QED
        BY <2>4, <2>5 DEF RoomLeft
<1>4. QED
    BY <1>2, <1>3

(* Every row takes a number, and a row of a card leaves one number unused  *)
(* by Pix: the Pix charges left without a row are not more than the cards. *)
LEMMA LeftBehind ==
    ASSUME Inv, KeysBehind
    PROVE  Cardinality({c \in PendingPix \ Stored : c[2] < Len(made)}) <= Cardinality(Cards)
<1> DEFINE L == Len(made)
           Low == {"PIX"} \X (0..L - 1)
           P == {c \in Stored : c[1] = "PIX"}
           B == {c \in PendingPix \ Stored : c[2] < L}
<1>0. TypeOK /\ L \in Nat /\ DOMAIN made = 1..L
    BY DEF Inv, TypeOK
<1>1. Stored = {made[n] : n \in 1..L} /\ \A m, n \in 1..L : made[m] = made[n] => m = n
    BY <1>0 DEF TypeOK, Stored
<1>2. \A c \in Charges : c[1] \in {"PIX", "CARD"} /\ c[2] \in Nat /\ c = <<c[1], c[2]>>
    <2> SUFFICES ASSUME NEW c \in Charges
                 PROVE  c[1] \in {"PIX", "CARD"} /\ c[2] \in Nat /\ c = <<c[1], c[2]>>
        OBVIOUS
    <2>1. MaxAttempts \in Nat /\ Methods \subseteq {"PIX", "CARD"}
        BY PaymentsAssumption
    <2>2. PICK m \in Methods, k \in 0..MaxAttempts - 1 : c = <<m, k>>
        BY DEF Charges
    <2>3. k \in Nat
        BY <2>1
    <2>4. QED
        BY <2>1, <2>2, <2>3
<1>3. Stored = P \cup Cards /\ P \cap Cards = {} /\ P \subseteq Stored /\ Cards \subseteq Stored
      /\ Stored \subseteq Charges
    BY <1>2 DEF Stored, Cards
<1>4. P \subseteq Low
    <2> SUFFICES ASSUME NEW c \in P PROVE c \in Low
        OBVIOUS
    <2>1. PICK n \in 1..L : c = made[n]
        BY <1>1
    <2>2. c[2] < n /\ c[2] \in Nat /\ c[1] = "PIX" /\ c = <<c[1], c[2]>>
        BY <1>0, <1>2, <1>3, <2>1 DEF KeysBehind
    <2>3. c[2] \in 0..L - 1
        BY <1>0, <2>2
    <2>4. QED
        BY <2>2, <2>3
<1>5. B \subseteq Low \ P
    <2> SUFFICES ASSUME NEW c \in B PROVE c \in Low /\ c \notin P
        OBVIOUS
    <2>1. c \in Charges /\ c[1] = "PIX" /\ c[2] < L /\ c \notin Stored
        BY DEF PendingPix
    <2>2. c = <<"PIX", c[2]>> /\ c[2] \in 0..L - 1
        BY <1>0, <1>2, <2>1
    <2>3. QED
        BY <2>1, <2>2
<1>6. Cardinality(Low) = L /\ IsFiniteSet(Low)
    <2>1. IsFiniteSet(0..L - 1) /\ Cardinality(0..L - 1) = L
        <3>1. L \in Nat
            BY <1>0
        <3> HIDE DEF L
        <3>2. 0 \in Int /\ L - 1 \in Int /\ (IF 0 > L - 1 THEN 0 ELSE (L - 1) - 0 + 1) = L
            BY <3>1
        <3>3. QED
            BY <3>2, FS_Interval
    <2>2. IsFiniteSet({"PIX"}) /\ Cardinality({"PIX"}) = 1
        BY FS_Singleton
    <2> HIDE DEF L
    <2>3. Cardinality({"PIX"} \X (0..L - 1)) = 1 * L /\ IsFiniteSet({"PIX"} \X (0..L - 1))
        BY <2>1, <2>2, FS_Product
    <2>4. QED
        BY <1>0, <2>3
<1>7. Cardinality(Stored) = L
    <2>1. IsFiniteSet(1..L) /\ Cardinality(1..L) = L
        <3>1. L \in Nat
            BY <1>0
        <3> HIDE DEF L
        <3>2. 1 \in Int /\ L \in Int /\ (IF 1 > L THEN 0 ELSE L - 1 + 1) = L
            BY <3>1
        <3>3. QED
            BY <3>2, FS_Interval
    <2> DEFINE f == [n \in 1..L |-> made[n]]
    <2>0. /\ f \in [1..L -> Stored] /\ \A n \in 1..L : f[n] = made[n]
          /\ \A c \in Stored : \E n \in 1..L : made[n] = c
        BY <1>1
    <2>2. f \in Surjection(1..L, Stored) /\ f \in Injection(1..L, Stored)
        <3> HIDE DEF f, L
        <3>1. QED
            BY <1>1, <2>0 DEF Surjection, Injection, IsInjective
    <2> HIDE DEF f, L
    <2> DEFINE I == 1..L
    <2>3. f \in Surjection(I, Stored) /\ f \in Injection(I, Stored) /\ IsFiniteSet(I) /\ Cardinality(I) = L
        BY <2>1, <2>2
    <2> HIDE DEF I
    <2>4. Cardinality(Stored) = Cardinality(I) <=> f \in Injection(I, Stored)
        BY <2>3, FS_Surjection
    <2>5. QED
        BY <2>3, <2>4
<1> HIDE DEF Low, P, B, L
<1>8. /\ IsFiniteSet(P) /\ Cardinality(P) \in Nat
      /\ IsFiniteSet(Cards) /\ Cardinality(Cards) \in Nat
    <2>1. P \in SUBSET Charges /\ Cards \in SUBSET Charges
        BY <1>3
    <2>2. QED
        BY <2>1, FinitelyMany
<1>9. L = Cardinality(P) + Cardinality(Cards)
    <2>1. Cardinality(P \cup Cards) = Cardinality(P) + Cardinality(Cards) - Cardinality(P \cap Cards)
        BY <1>8, FS_Union
    <2>2. Cardinality(P \cap Cards) = 0
        BY <1>3, FS_EmptySet
    <2>3. QED
        BY <1>3, <1>7, <1>8, <2>1, <2>2
<1>10. Cardinality(Low \ P) = L - Cardinality(P) /\ IsFiniteSet(Low \ P)
    <2>1. Low \cap P = P
        BY <1>4
    <2>2. QED
        BY <1>6, <2>1, FS_Difference
<1>11. Cardinality(B) <= Cardinality(Low \ P)
    BY <1>5, <1>10, FS_Subset
<1>12. Cardinality(B) <= Cardinality(Cards)
    BY <1>0, <1>8, <1>9, <1>10, <1>11
<1>13. QED
    BY <1>12 DEF B, L

(* What waits has a row, or is what the next request is answered with, or  *)
(* was left behind a card.                                                 *)
LEMMA RoomBounds ==
    ASSUME Inv, PixInv
    PROVE  PendingPixBounded
<1> DEFINE S == PendingPix \cap Stored
           N == (PendingPix \ Stored) \cap {NextKey}
           B == {c \in PendingPix \ Stored : c[2] < Len(made)}
<1>1. PendingPix \subseteq (S \cup N) \cup B
    <2> SUFFICES ASSUME NEW c \in PendingPix, c \notin Stored, ~(c[2] < Len(made))
                 PROVE  c = NextKey
        OBVIOUS
    <2>1. c \in Charges /\ c[1] = "PIX" /\ c[2] <= Len(made) /\ Len(made) \in Nat
        BY DEF PendingPix, PixInv, KeysBehind, Inv, TypeOK
    <2>2. c[2] \in Nat /\ c = <<c[1], c[2]>>
        BY <2>1, PaymentsAssumption DEF Charges
    <2>3. c[2] = Len(made)
        BY <2>1, <2>2
    <2>4. QED
        BY <2>1, <2>2, <2>3 DEF NextKey
<1>2. S \in SUBSET Charges /\ N \in SUBSET Charges /\ B \in SUBSET Charges /\ Cards \in SUBSET Charges
    BY DEF PendingPix, Cards
<1>3. Cardinality(S) + Cardinality(N) <= Cardinality(Workers)
    BY DEF PixInv, RoomLeft
<1>4. Cardinality(B) <= Cardinality(Cards)
    BY LeftBehind DEF PixInv
<1> HIDE DEF S, N, B
<1>5. /\ IsFiniteSet(S) /\ IsFiniteSet(N) /\ IsFiniteSet(B) /\ IsFiniteSet(Cards)
      /\ Cardinality(S) \in Nat /\ Cardinality(N) \in Nat /\ Cardinality(B) \in Nat
      /\ Cardinality(Cards) \in Nat /\ Cardinality(Workers) \in Nat
    BY <1>2, FinitelyMany
<1>6. IsFiniteSet(S \cup N) /\ Cardinality(S \cup N) <= Cardinality(S) + Cardinality(N)
      /\ Cardinality(S \cup N) \in Nat
    <2>1. IsFiniteSet(S \cap N)
        BY <1>5, FS_Intersection
    <2>2. Cardinality(S \cap N) \in Nat
        BY <2>1, FS_CardinalityType
    <2>3. IsFiniteSet(S \cup N) /\ Cardinality(S \cup N) = Cardinality(S) + Cardinality(N) - Cardinality(S \cap N)
        BY <1>5, FS_Union
    <2>4. Cardinality(S \cup N) \in Nat
        BY <2>3, FS_CardinalityType
    <2>5. QED
        BY <1>5, <2>2, <2>3, <2>4
<1>7. IsFiniteSet((S \cup N) \cup B)
      /\ Cardinality((S \cup N) \cup B) <= Cardinality(S \cup N) + Cardinality(B)
      /\ Cardinality((S \cup N) \cup B) \in Nat
    <2> DEFINE T == S \cup N
    <2>0. IsFiniteSet(T) /\ Cardinality(T) \in Nat
        BY <1>6
    <2> HIDE DEF T
    <2>1. IsFiniteSet(T \cap B)
        BY <2>0, FS_Intersection
    <2>2. Cardinality(T \cap B) \in Nat
        BY <2>1, FS_CardinalityType
    <2>3. IsFiniteSet(T \cup B) /\ Cardinality(T \cup B) = Cardinality(T) + Cardinality(B) - Cardinality(T \cap B)
        BY <1>5, <2>0, FS_Union
    <2>4. Cardinality(T \cup B) \in Nat
        BY <2>3, FS_CardinalityType
    <2>5. Cardinality(T \cup B) <= Cardinality(T) + Cardinality(B)
        BY <1>5, <2>0, <2>2, <2>3, <2>4
    <2>6. QED
        BY <2>3, <2>4, <2>5 DEF T
<1>8. Cardinality(PendingPix) <= Cardinality((S \cup N) \cup B) /\ Cardinality(PendingPix) \in Nat
    <2>1. IsFiniteSet(PendingPix)
        BY <1>1, <1>7, FS_Subset
    <2>2. QED
        BY <1>1, <1>7, <2>1, FS_Subset, FS_CardinalityType
<1>9. Cardinality(PendingPix) <= Cardinality(Workers) + Cardinality(Cards)
    BY <1>3, <1>4, <1>5, <1>6, <1>7, <1>8
<1>10. QED
    BY <1>9 DEF PendingPixBounded, Cards

(* FR-CHK-016, as far as it holds: however many refreshes and cards        *)
(* interleave, stop half-way and fail, the Pix charges that wait are not   *)
(* more than the requests at a time and the cards that were tried.         *)
THEOREM PendingPixStaysBounded == Spec => []PendingPixBounded
<1>1. Init => PixInv
    <2> SUFFICES ASSUME Init PROVE PixInv
        OBVIOUS
    <2>1. PendingPix = {} /\ Refreshing = {} /\ made = <<>>
        BY DEF Init, PendingPix, Refreshing
    <2>2. KeysBehind
        BY <2>1 DEF Init, KeysBehind
    <2>3. Cardinality(PendingPix \cap Stored) = 0 /\ Cardinality(Refreshing) = 0
          /\ Cardinality((PendingPix \ Stored) \cap {NextKey}) = 0
        <3>1. PendingPix \cap Stored = {} /\ (PendingPix \ Stored) \cap {NextKey} = {}
            BY <2>1
        <3>2. QED
            BY <2>1, <3>1, FS_EmptySet
    <2>4. Cardinality(Workers) \in Nat
        BY FinitelyMany
    <2>5. QED
        BY <2>2, <2>3, <2>4 DEF PixInv, RoomLeft
<1>2. Inv /\ PixInv /\ [Next]_vars => PixInv'
    BY KeysNext, RoomNext DEF PixInv
<1>3. Inv /\ PixInv => PendingPixBounded
    BY RoomBounds
<1>4. QED
    BY <1>1, <1>2, <1>3, Invariance, PTL DEF Spec

================================================================================
