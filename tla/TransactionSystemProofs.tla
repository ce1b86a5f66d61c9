---------------------- MODULE TransactionSystemProofs ----------------------
(***************************************************************************)
(* Proofs about TransactionSystem, for any vault, rows, handlers, requests, *)
(* answers and faults: what a row says is true of the chain; statuses      *)
(* agree with answers; and the API, when it handles its requests one after *)
(* the other, implements TransactionLifecycle.                             *)
(***************************************************************************)
EXTENDS TransactionSystem, SubmitQueueProofs, FiniteSetTheorems

(***************************************************************************)
(* What a row or an entity says is true of the chain: SUCCESS is written   *)
(* only for an included transaction (or by close, which drops the answers). *)
(***************************************************************************)
SaysTheTruth(row, hash) ==
    row.status = "SUCCESS" /\ row.witnesses # LostWitnesses => chain[hash] = "included"

\* A busy handler has a row, and what it will write back is true of the chain.
EntitiesSayTheTruth ==
    \A h \in Handlers :
        handler[h].op # "idle" =>
            /\ handler[h].row \in Rows
            /\ SaysTheTruth(handler[h].entity, RowHash[handler[h].row])

\* The inductive invariant.
SystemInv ==
    /\ rows \in [Rows -> Row]
    /\ handler \in [Handlers -> Handler]
    /\ QueueInv
    /\ SuccessOnlyOnChain
    /\ EntitiesSayTheTruth

-----------------------------------------------------------------------------
(***************************************************************************)
(* The helpers of the handlers.                                            *)
(***************************************************************************)
\* The witnesses of create and of close are witnesses, and so is the empty handler a handler.
LEMMA WitnessesType ==
    /\ PendingWitnesses \in Witnesses
    /\ LostWitnesses \in Witnesses
    /\ NoRow \in Row /\ NewRow \in Row
    /\ IdleHandler \in Handler
  BY DEF PendingWitnesses, LostWitnesses, Witnesses, Witness, WitnessStatuses, NoRow, NewRow,
         Row, Statuses, IdleHandler, Handler, Operations

\* validateStatus returns a status, and never turns another one into SUCCESS.
LEMMA ValidateStatusType ==
    ASSUME NEW status \in Statuses, NEW w
    PROVE  /\ ValidateStatus(status, w) \in Statuses
           /\ ValidateStatus(status, w) = "SUCCESS" => status = "SUCCESS"
  BY DEF ValidateStatus, Statuses

\* The witnesses after signByID are witnesses.
LEMMA AnswerType ==
    ASSUME NEW w \in Witnesses, NEW m \in Members,
           NEW answer \in [approve : BOOLEAN, signed : BOOLEAN]
    PROVE  Answer(w, m, answer) \in Witnesses
<1>1. (answer.signed /\ ValidateSignature(w, m)) \in BOOLEAN
    OBVIOUS
<1>2. [status |-> IF answer.approve /\ ValidateSignature(w, m) THEN "DONE" ELSE "REJECTED",
       signed |-> answer.signed /\ ValidateSignature(w, m)] \in Witness
    BY <1>1 DEF Witness, WitnessStatuses
<1> QED
    BY <1>2 DEF Answer, Witnesses

\* The witnesses after cancel are witnesses.
LEMMA WithdrawType ==
    ASSUME NEW w \in Witnesses, NEW m \in Members
    PROVE  Withdraw(w, m) \in Witnesses
  BY DEF Withdraw, Witnesses, Witness, WitnessStatuses

\* What a handler enqueues is a fat job.
LEMMA FatJobType ==
    ASSUME NEW r \in Rows, NEW entity \in Row
    PROVE  FatJob(r, entity) \in Payloads
  BY SystemAssumption DEF FatJob, Payload, Signers, Row

\* A fat job has a row, and the hash of that row.
LEMMA PayloadType ==
    /\ Payloads = Payload
    /\ \A d \in Payloads : d.row \in Rows /\ HashOf[d] = RowHash[d.row]
    /\ \A m \in Message : m.data.row \in Rows /\ HashOf[m.data] = RowHash[m.data.row]
  BY SystemAssumption DEF Payload, Message

-----------------------------------------------------------------------------
\* The empty system satisfies the inductive invariant.
LEMMA InitInv == Init => SystemInv
<1> SUFFICES ASSUME Init PROVE SystemInv
    OBVIOUS
<1>1. QueueInv
    BY QueueInitInv DEF Init
<1>2. rows \in [Rows -> Row] /\ handler \in [Handlers -> Handler]
    BY WitnessesType DEF Init
<1>3. SuccessOnlyOnChain /\ EntitiesSayTheTruth
    BY DEF Init, SuccessOnlyOnChain, EntitiesSayTheTruth, NoRow, IdleHandler
<1> QED
    BY <1>1, <1>2, <1>3 DEF SystemInv

(***************************************************************************)
(* A handler that starts on a row with an entity that tells the truth.     *)
(***************************************************************************)
LEMMA BeginInv ==
    ASSUME SystemInv, NEW h \in Handlers, NEW r \in Rows, NEW entity \in Row,
           NEW op \in Operations, Begin(h, op, r, entity),
           SaysTheTruth(entity, RowHash[r]),
           UNCHANGED <<rows, queueVars>>
    PROVE  SystemInv'
<1> USE DEF SystemInv
<1>1. QueueInv'
    BY ApiStepInv DEF queueVars
<1>2. handler' \in [Handlers -> Handler]
    BY DEF Begin, Handler
<1>3. SuccessOnlyOnChain'
    BY DEF SuccessOnlyOnChain, queueVars
<1>4. EntitiesSayTheTruth'
    BY DEF EntitiesSayTheTruth, SaysTheTruth, Begin, queueVars
<1> QED
    BY <1>1, <1>2, <1>3, <1>4

(***************************************************************************)
(* A handler that writes its entity back, or gives up, and is done or goes *)
(* on with the same entity; what the queue sees of it is an ApiStep.       *)
(***************************************************************************)
LEMMA WriteBackInv ==
    ASSUME SystemInv, NEW h \in Handlers, handler[h].op # "idle",
           WriteBack(h) \/ UNCHANGED rows,
           \/ Finish(h)
           \/ handler' = [handler EXCEPT ![h].op = "create"],
           QueueInv', UNCHANGED chain
    PROVE  SystemInv'
<1> USE DEF SystemInv
<1>1. /\ handler[h] \in Handler /\ handler[h].row \in Rows /\ handler[h].entity \in Row
      /\ SaysTheTruth(handler[h].entity, RowHash[handler[h].row])
    BY DEF EntitiesSayTheTruth, Handler
<1>2. rows' \in [Rows -> Row] /\ SuccessOnlyOnChain'
    BY <1>1 DEF WriteBack, SuccessOnlyOnChain, SaysTheTruth
<1>3. handler' \in [Handlers -> Handler] /\ EntitiesSayTheTruth'
    <2>1. CASE Finish(h)
        BY <2>1, WitnessesType DEF Finish, EntitiesSayTheTruth, SaysTheTruth, IdleHandler
    <2>2. CASE handler' = [handler EXCEPT ![h].op = "create"]
        <3>1. handler' = [handler EXCEPT ![h] = [handler[h] EXCEPT !.op = "create"]]
            BY <2>2
        <3>2. /\ [handler[h] EXCEPT !.op = "create"] \in Handler
              /\ [handler[h] EXCEPT !.op = "create"].row = handler[h].row
              /\ [handler[h] EXCEPT !.op = "create"].entity = handler[h].entity
            BY <1>1 DEF Handler, Operations
        <3> QED
            BY <1>1, <3>1, <3>2 DEF EntitiesSayTheTruth, SaysTheTruth
    <2> QED
        BY <2>1, <2>2
<1> QED
    BY <1>2, <1>3

-----------------------------------------------------------------------------
\* A handler that reads its row in keeps an entity that makes no SUCCESS up.
LEMMA ClientStepInv ==
    ASSUME SystemInv, NEW h \in Handlers, ClientStep(h)
    PROVE  SystemInv'
<1> USE SystemAssumption
<1>1. PICK r \in Rows :
          \/ CreateFind(h, r)
          \/ \E m \in Members, answer \in Answers : SignFind(h, r, m, answer)
          \/ \E m \in Members : CancelFind(h, r, m)
          \/ DeleteFind(h, r)
          \/ Send(h, r)
    BY DEF ClientStep
<1>2. rows[r] \in Row /\ SaysTheTruth(rows[r], RowHash[r])
    BY DEF SystemInv, SuccessOnlyOnChain, SaysTheTruth
<1>3. CASE CreateFind(h, r)
    <2>1. SaysTheTruth(NewRow, RowHash[r])
        BY DEF SaysTheTruth, NewRow, NoRow
    <2> QED
        BY <1>3, <2>1, BeginInv, WitnessesType DEF CreateFind, Operations
<1>4. CASE \E m \in Members, answer \in Answers : SignFind(h, r, m, answer)
    <2>1. PICK m \in Members, answer \in Answers : SignFind(h, r, m, answer)
        BY <1>4
    <2> DEFINE witnesses == Answer(rows[r].witnesses, m, answer)
               status == ValidateStatus(rows[r].status, witnesses)
               entity == SignedEntity(rows[r], m, answer)
    <2>2. witnesses \in Witnesses
        BY <1>2, AnswerType DEF Row
    <2>3. status \in Statuses /\ status # "SUCCESS"
        <3>1. rows[r].status \in Statuses /\ rows[r].status # "SUCCESS"
            BY <1>2, <2>1 DEF SignFind, Signable, Row
        <3> QED
            BY <3>1, ValidateStatusType
    <2>4. entity \in Row /\ entity.status = status
        <3>1. entity = [rows[r] EXCEPT !.witnesses = witnesses, !.status = status]
            BY DEF SignedEntity
        <3> HIDE DEF witnesses, status, entity
        <3> QED
            BY <1>2, <2>2, <2>3, <3>1 DEF Row
    <2>5. SaysTheTruth(entity, RowHash[r])
        BY <2>3, <2>4 DEF SaysTheTruth
    <2> QED
        BY <2>1, <2>4, <2>5, BeginInv DEF SignFind, Operations
<1>5. CASE \E m \in Members : CancelFind(h, r, m)
    <2>1. PICK m \in Members : CancelFind(h, r, m)
        BY <1>5
    <2> DEFINE witnesses == Withdraw(rows[r].witnesses, m)
               entity == [rows[r] EXCEPT !.status = "CANCELED", !.witnesses = witnesses]
    <2>2. witnesses \in Witnesses
        BY <1>2, WithdrawType DEF Row
    <2>3. entity \in Row /\ entity.status = "CANCELED"
        <3> HIDE DEF witnesses
        <3> QED
            BY <1>2, <2>2 DEF Row, Statuses
    <2>4. SaysTheTruth(entity, RowHash[r])
        BY <2>3 DEF SaysTheTruth
    <2> QED
        BY <2>1, <2>3, <2>4, BeginInv DEF CancelFind, Operations
<1>6. CASE DeleteFind(h, r)
    <2> DEFINE entity == [rows[r] EXCEPT !.deleted = TRUE]
    <2>1. /\ entity \in Row
          /\ entity.status = rows[r].status /\ entity.witnesses = rows[r].witnesses
        BY <1>2 DEF Row
    <2>2. SaysTheTruth(entity, RowHash[r])
        BY <1>2, <2>1 DEF SaysTheTruth
    <2> QED
        BY <1>6, <2>1, <2>2, BeginInv DEF DeleteFind, Operations
<1>7. CASE Send(h, r)
    <2>1. QueueInv'
        BY <1>2, <1>7, ApiStepInv, FatJobType DEF Send, SystemInv
    <2> QED
        BY <1>7, <2>1 DEF Send, SystemInv, SuccessOnlyOnChain, EntitiesSayTheTruth, SaysTheTruth
<1> QED
    BY <1>1, <1>3, <1>4, <1>5, <1>6, <1>7

\* The saves of the handlers keep the invariant.
LEMMA HandlerStepInv ==
    ASSUME SystemInv, NEW h \in Handlers, HandlerStep(h) \/ HandlerAborts(h)
    PROVE  SystemInv'
<1> USE SystemAssumption
<1>1. handler[h].op # "idle" /\ UNCHANGED chain
    BY DEF HandlerStep, HandlerAborts, CreateInsert, SignSave, Save, NotifySave, queueVars
<1>2. handler[h].row \in Rows /\ handler[h].entity \in Row
    BY <1>1 DEF SystemInv, EntitiesSayTheTruth, Handler
<1>3. CASE CreateInsert(h) \/ Save(h)
    <2>1. QueueInv'
        BY <1>3, ApiStepInv DEF CreateInsert, Save, queueVars, SystemInv
    <2> QED
        BY <1>1, <1>3, <2>1, WriteBackInv DEF CreateInsert, Save
<1>4. CASE SignSave(h)
    <2>1. QueueInv'
        <3>1. FatJob(handler[h].row, handler[h].entity) \in Payloads
            BY <1>2, FatJobType
        <3> QED
            BY <1>4, <3>1, ApiStepInv DEF SignSave, SystemInv
    <2> QED
        BY <1>1, <1>4, <2>1, WriteBackInv DEF SignSave
<1>5. CASE NotifySave(h) \/ HandlerAborts(h)
    <2>1. QueueInv'
        BY <1>5, ApiStepInv DEF NotifySave, HandlerAborts, SystemInv
    <2> QED
        BY <1>1, <1>5, <2>1, WriteBackInv DEF NotifySave, HandlerAborts
<1> QED
    BY <1>3, <1>4, <1>5 DEF HandlerStep

\* A close says SUCCESS, and drops the answers.
LEMMA CloseInv ==
    ASSUME SystemInv, NEW r \in Rows, Close(r)
    PROVE  SystemInv'
<1> USE DEF SystemInv
<1>1. QueueInv'
    BY ApiStepInv DEF Close, queueVars
<1>2. rows' = [rows EXCEPT ![r] = [rows[r] EXCEPT !.status = "SUCCESS",
                                                 !.witnesses = LostWitnesses]]
    BY DEF Close
<1>3. /\ [rows[r] EXCEPT !.status = "SUCCESS", !.witnesses = LostWitnesses] \in Row
      /\ [rows[r] EXCEPT !.status = "SUCCESS", !.witnesses = LostWitnesses].witnesses
            = LostWitnesses
    BY WitnessesType DEF Row, Statuses
<1>4. rows' \in [Rows -> Row] /\ SuccessOnlyOnChain'
    BY <1>2, <1>3 DEF SuccessOnlyOnChain, Close, queueVars
<1>5. EntitiesSayTheTruth'
    BY DEF EntitiesSayTheTruth, SaysTheTruth, Close, queueVars
<1> QED
    BY <1>1, <1>4, <1>5 DEF Close

\* The report of the worker is true, so is the row that notifyResult will save.
LEMMA NotifyStepInv ==
    ASSUME SystemInv, NotifyStep
    PROVE  SystemInv'
<1> USE SystemAssumption
<1>1. PICK h \in Handlers, m \in posted : NotifyFind(h, m) \/ NotifyNothing(h, m)
    BY DEF NotifyStep
<1>2. /\ m \in Message /\ m.data.row \in Rows /\ rows[m.data.row] \in Row
      /\ m.outcome = "success" => chain[RowHash[m.data.row]] = "included"
    BY PayloadType DEF SystemInv, QueueInv, QueueTypeOK, SuccessIsIncluded
<1>3. CASE NotifyFind(h, m)
    <2> DEFINE entity == ResultEntity(rows[m.data.row], m.outcome)
    <2>1. /\ entity \in Row
          /\ entity.status = IF m.outcome = "success" THEN "SUCCESS" ELSE "FAILED"
        BY <1>2 DEF ResultEntity, Row, Statuses
    <2>2. SaysTheTruth(entity, RowHash[m.data.row])
        BY <1>2, <2>1 DEF SaysTheTruth
    <2>3. QueueInv'
        BY <1>3, ApiStepInv DEF NotifyFind, queueVars, SystemInv
    <2> HIDE DEF entity
    <2>4. /\ handler' = [handler EXCEPT ![h] = [op |-> "notify", row |-> m.data.row,
                                                entity |-> entity, message |-> m]]
          /\ UNCHANGED <<rows, chain>>
        BY <1>3 DEF NotifyFind, entity, queueVars
    <2>5. handler' \in [Handlers -> Handler]
        BY <1>2, <2>1, <2>4 DEF SystemInv, Handler, Operations
    <2>6. EntitiesSayTheTruth'
        BY <1>2, <2>2, <2>4 DEF SystemInv, EntitiesSayTheTruth, SaysTheTruth
    <2> QED
        BY <2>3, <2>4, <2>5, <2>6 DEF SystemInv, SuccessOnlyOnChain
<1>4. CASE NotifyNothing(h, m)
    <2>1. QueueInv'
        BY <1>4, ApiStepInv DEF NotifyNothing, SystemInv
    <2> QED
        BY <1>4, <2>1 DEF NotifyNothing, SystemInv, SuccessOnlyOnChain, EntitiesSayTheTruth,
                          SaysTheTruth
<1> QED
    BY <1>1, <1>3, <1>4

(***************************************************************************)
(* The queue, the worker and the chain do not take an inclusion back.      *)
(***************************************************************************)
LEMMA IncludedIsStable ==
    ASSUME QueueInv, QueueStep, NEW g \in Hashes, chain[g] = "included"
    PROVE  chain'[g] = "included"
<1> USE DEF QueueInv, QueueTypeOK
<1>1. CASE Attempt
    <2>1. \/ UNCHANGED chain
          \/ /\ chain[worker.hash] = "unknown"
             /\ chain' = [chain EXCEPT ![worker.hash] = "pooled"]
        BY <1>1 DEF Attempt, SetupDone, SetupThrows, SendAccepted, SendRefused,
           SendUnanswered, WaitThrows, WaitDone, PostResult, PostFails, Complete, Acceptable
    <2> QED
        BY <2>1
<1>2. CASE \E p \in Producers : Enqueue(p) \/ EnqueueFails(p)
    BY <1>2 DEF Enqueue, EnqueueFails, GetJob, GetState, Remove, RemoveRefused, Add
<1>3. CASE \E h \in Hashes : Take(h) \/ Promote(h) \/ Stalled(h)
    BY <1>3 DEF Take, Promote, Stalled
<1>4. CASE \E h \in Hashes : Settle(h) \/ SqueezeOut(h)
    BY <1>4 DEF Settle, SqueezeOut
<1>5. CASE WorkerCrashes
    BY <1>5 DEF WorkerCrashes
<1> QED
    BY <1>1, <1>2, <1>3, <1>4, <1>5 DEF QueueStep

\* The steps of the queue, the worker and the chain keep the invariant of the system.
LEMMA QueuePartInv ==
    ASSUME SystemInv, QueueStep, UNCHANGED apiVars
    PROVE  SystemInv'
<1> USE SystemAssumption
<1>1. QueueInv'
    BY QueueStepInv DEF SystemInv
<1>2. \A g \in Hashes : chain[g] = "included" => chain'[g] = "included"
    BY IncludedIsStable DEF SystemInv
<1>3. SuccessOnlyOnChain'
    BY <1>2 DEF SystemInv, SuccessOnlyOnChain, apiVars
<1>4. EntitiesSayTheTruth'
    BY <1>2 DEF SystemInv, EntitiesSayTheTruth, SaysTheTruth, apiVars
<1> QED
    BY <1>1, <1>3, <1>4 DEF SystemInv, apiVars

\* Every step of the system keeps the invariant.
LEMMA NextInv == SystemInv /\ [Next]_vars => SystemInv'
<1> SUFFICES ASSUME SystemInv, [Next]_vars PROVE SystemInv'
    OBVIOUS
<1>1. CASE \E h \in Handlers : ClientStep(h) \/ HandlerStep(h) \/ HandlerAborts(h)
    BY <1>1, ClientStepInv, HandlerStepInv
<1>2. CASE \E r \in Rows : Close(r)
    BY <1>2, CloseInv
<1>3. CASE NotifyStep
    BY <1>3, NotifyStepInv
<1>4. CASE QueueStep /\ UNCHANGED apiVars
    BY <1>4, QueuePartInv
<1>5. CASE UNCHANGED vars
    <2>1. QueueInv'
        BY <1>5, ApiStepInv DEF vars, SystemInv
    <2> QED
        BY <1>5, <2>1 DEF vars, SystemInv, SuccessOnlyOnChain, EntitiesSayTheTruth, SaysTheTruth
<1> QED
    BY <1>1, <1>2, <1>3, <1>4, <1>5 DEF Next

-----------------------------------------------------------------------------
\* Every reachable state of the system satisfies the inductive invariant.
THEOREM SystemInvariant == Spec => []SystemInv
<1> QED
    BY InitInv, NextInv, PTL DEF Spec

(***************************************************************************)
(* Rows, handlers, queue, worker and chain keep to their types.            *)
(***************************************************************************)
THEOREM TypeCorrect == Spec => []TypeOK
<1>1. SystemInv => TypeOK
    BY DEF SystemInv, QueueInv, TypeOK
<1> QED
    BY <1>1, SystemInvariant, PTL

(***************************************************************************)
(* For any vault, any number of rows, requests and retries, and under      *)
(* every fault, a row that says SUCCESS is on the chain, unless a client   *)
(* closed it: no stale save of a handler writes a SUCCESS that is not.     *)
(***************************************************************************)
THEOREM SuccessIsAlwaysOnChain == Spec => []SuccessOnlyOnChain
<1>1. SystemInv => SuccessOnlyOnChain
    BY DEF SystemInv
<1> QED
    BY <1>1, SystemInvariant, PTL

-----------------------------------------------------------------------------
(***************************************************************************)
(* The answers of the signers: statuses agree with them, and what signByID *)
(* enqueues carries a quorum.                                              *)
(***************************************************************************)

\* The clients send the signature along with the approval.
ApprovalsAreSigned == \A answer \in Answers : answer.approve => answer.signed

StatusMatches(row) ==
    LET approvals == Cardinality(Answered(row.witnesses, "DONE"))
        pending == Cardinality(Answered(row.witnesses, "PENDING"))
    IN  /\ row.status = "PENDING_SENDER" => approvals >= Required
        /\ row.status = "DECLINED" => approvals + pending < Required
        /\ row.status = "AWAIT_REQUIREMENTS" => approvals < Required

DoneIsSigned(row) ==
    ApprovalsAreSigned =>
        \A m \in Members : row.witnesses[m].status = "DONE" => row.witnesses[m].signed

Consistent(row) == StatusMatches(row) /\ DoneIsSigned(row)

(***************************************************************************)
(* The inductive invariant: the rows are consistent, and so is every       *)
(* entity a handler is going to save; a handler is not in its own steps    *)
(* and in enqueueTransactionSubmit at once.                                *)
(***************************************************************************)
AnswersInv ==
    /\ SystemInv
    /\ \A r \in Rows : Consistent(rows[r])
    /\ \A h \in Handlers : handler[h].op # "idle" => /\ Consistent(handler[h].entity)
                                                     /\ producer[h].at = "idle"

-----------------------------------------------------------------------------
\* The members who gave an answer of one kind are finitely many.
LEMMA CountType ==
    ASSUME NEW w, NEW s
    PROVE  /\ IsFiniteSet(Answered(w, s))
           /\ Cardinality(Answered(w, s)) \in Nat
<1>1. Answered(w, s) \subseteq Members
    BY DEF Answered
<1> QED
    BY <1>1, SignersAssumption, FS_Subset, FS_CardinalityType

\* A row that does not exist yet, and a new one, agree with their answers.
LEMMA NewRowConsistent == Consistent(NoRow) /\ Consistent(NewRow)
<1>1. Answered(PendingWitnesses, "DONE") = {}
    BY DEF Answered, PendingWitnesses
<1>2. Cardinality(Answered(PendingWitnesses, "DONE")) < Required
    BY <1>1, SignersAssumption, FS_EmptySet
<1> QED
    BY <1>2 DEF Consistent, StatusMatches, DoneIsSigned, NoRow, NewRow, PendingWitnesses

(***************************************************************************)
(* validateStatus, for answers of any kind: after an answer to a row that  *)
(* is not in a final status, the status is the one the answers call for.   *)
(***************************************************************************)
THEOREM ValidateStatusMatches ==
    ASSUME NEW row \in Row, NEW old \in Statuses \ {"SUCCESS", "FAILED", "DECLINED"},
           row.status = ValidateStatus(old, row.witnesses)
    PROVE  StatusMatches(row)
<1> DEFINE w == row.witnesses
           done == Cardinality(Answered(w, "DONE"))
           rejected == Cardinality(Answered(w, "REJECTED"))
           pending == Cardinality(Answered(w, "PENDING"))
<1>1. done \in Nat /\ rejected \in Nat /\ pending \in Nat
    BY CountType
<1>2. TotalSigners(w) - rejected = done + pending
    BY <1>1 DEF TotalSigners
<1>3. row.status = IF old \in {"SUCCESS", "FAILED", "PROCESS_ON_CHAIN"} THEN old
                   ELSE IF done >= Required THEN "PENDING_SENDER"
                   ELSE IF TotalSigners(w) - rejected < Required THEN "DECLINED"
                   ELSE "AWAIT_REQUIREMENTS"
    BY DEF ValidateStatus
<1>4. StatusMatches(row) <=>
          /\ row.status = "PENDING_SENDER" => done >= Required
          /\ row.status = "DECLINED" => done + pending < Required
          /\ row.status = "AWAIT_REQUIREMENTS" => done < Required
    BY DEF StatusMatches
<1> HIDE DEF w, done, rejected, pending
<1> QED
    BY <1>1, <1>2, <1>3, <1>4, SignersAssumption

\* What signByID computes from a row that agrees with its answers agrees with its own.
LEMMA SignedEntityConsistent ==
    ASSUME NEW row \in Row, Consistent(row), NEW m \in Members, NEW answer \in Answers,
           row.status \notin Settled \cup {"SUCCESS"}
    PROVE  Consistent(SignedEntity(row, m, answer))
<1> USE SystemAssumption
<1> DEFINE w == Answer(row.witnesses, m, answer)
           status == ValidateStatus(row.status, w)
           entity == SignedEntity(row, m, answer)
<1>1. w \in Witnesses /\ status \in Statuses
    BY AnswerType, ValidateStatusType DEF Row
<1>2. entity = [row EXCEPT !.witnesses = w, !.status = status]
    BY DEF SignedEntity
<1>3. w = [row.witnesses EXCEPT ![m] =
             [status |-> IF answer.approve /\ ValidateSignature(row.witnesses, m)
                         THEN "DONE" ELSE "REJECTED",
              signed |-> answer.signed /\ ValidateSignature(row.witnesses, m)]]
    BY DEF Answer
<1>4. status = ValidateStatus(row.status, w)
    OBVIOUS
<1>5. row.witnesses \in Witnesses /\ row.status \in Statuses
    BY DEF Row
<1> HIDE DEF w, status, entity
<1>6. entity \in Row /\ entity.witnesses = w /\ entity.status = status
    BY <1>1, <1>2 DEF Row
<1>7. StatusMatches(entity)
    BY <1>4, <1>5, <1>6, ValidateStatusMatches DEF Settled
<1>8. DoneIsSigned(entity)
    <2> SUFFICES ASSUME ApprovalsAreSigned, NEW n \in Members, w[n].status = "DONE"
                 PROVE  w[n].signed
        BY <1>6 DEF DoneIsSigned
    <2>1. CASE n = m
        BY <1>3, <1>5, <2>1 DEF Witnesses, ApprovalsAreSigned
    <2>2. CASE n # m
        BY <1>3, <1>5, <2>2 DEF Witnesses, Consistent, DoneIsSigned
    <2> QED
        BY <2>1, <2>2
<1> QED
    BY <1>7, <1>8 DEF Consistent, entity

\* A row or an entity with the answers of another, or in a status without a claim.
LEMMA SameAnswersConsistent ==
    ASSUME NEW row, Consistent(row), NEW other, other.witnesses = row.witnesses,
           \/ other.status = row.status
           \/ other.status \in {"SUCCESS", "FAILED", "CANCELED"}
    PROVE  Consistent(other)
  BY DEF Consistent, StatusMatches, DoneIsSigned

-----------------------------------------------------------------------------
\* The empty table satisfies the inductive invariant.
LEMMA AnswersInitInv == Init => AnswersInv
<1> SUFFICES ASSUME Init PROVE AnswersInv
    OBVIOUS
<1>1. \A r \in Rows : Consistent(rows[r])
    BY NewRowConsistent DEF Init
<1>2. \A h \in Handlers : handler[h].op = "idle"
    BY DEF Init, IdleHandler
<1> QED
    BY <1>1, <1>2, InitInv DEF AnswersInv

\* A free handler that starts with a consistent entity.
LEMMA AnswersBeginInv ==
    ASSUME AnswersInv, SystemInv', NEW h \in Handlers, Free(h),
           NEW op, NEW r, NEW entity, NEW message,
           Consistent(entity), UNCHANGED <<rows, producer>>,
           handler' = [handler EXCEPT ![h] =
                         [op |-> op, row |-> r, entity |-> entity, message |-> message]]
    PROVE  AnswersInv'
<1>1. handler \in [Handlers -> Handler]
    BY DEF AnswersInv, SystemInv
<1>2. \A g \in Handlers : handler'[g].op # "idle" => /\ Consistent(handler'[g].entity)
                                                    /\ producer[g].at = "idle"
    BY <1>1 DEF AnswersInv, Free
<1> QED
    BY <1>2 DEF AnswersInv

\* A request that is read in leaves a consistent entity, and a signed one on approval.
LEMMA AnswersClientInv ==
    ASSUME AnswersInv, SystemInv', NEW h \in Handlers, ClientStep(h)
    PROVE  AnswersInv'
<1>1. PICK r \in Rows :
          \/ CreateFind(h, r)
          \/ \E m \in Members, answer \in Answers : SignFind(h, r, m, answer)
          \/ \E m \in Members : CancelFind(h, r, m)
          \/ DeleteFind(h, r)
          \/ Send(h, r)
    BY DEF ClientStep
<1>2. rows[r] \in Row /\ Consistent(rows[r])
    BY DEF AnswersInv, SystemInv
<1>3. CASE CreateFind(h, r)
    BY <1>3, NewRowConsistent, AnswersBeginInv DEF CreateFind, Begin, queueVars
<1>4. CASE \E m \in Members, answer \in Answers : SignFind(h, r, m, answer)
    <2>1. PICK m \in Members, answer \in Answers : SignFind(h, r, m, answer)
        BY <1>4
    <2>2. Consistent(SignedEntity(rows[r], m, answer))
        BY <1>2, <2>1, SignedEntityConsistent DEF SignFind, Signable
    <2> QED
        BY <2>1, <2>2, AnswersBeginInv DEF SignFind, Begin, queueVars
<1>5. CASE \E m \in Members : CancelFind(h, r, m)
    <2>1. PICK m \in Members : CancelFind(h, r, m)
        BY <1>5
    <2> DEFINE w == Withdraw(rows[r].witnesses, m)
               entity == [rows[r] EXCEPT !.status = "CANCELED", !.witnesses = w]
    <2>2. \A n \in Members : /\ w[n].status = "DONE" => rows[r].witnesses[n].status = "DONE"
                             /\ w[n].signed = rows[r].witnesses[n].signed
        BY <1>2 DEF Withdraw, Row, Witnesses, Witness
    <2>3. entity.status = "CANCELED" /\ entity.witnesses = w
        <3> HIDE DEF w
        <3> QED
            BY <1>2 DEF Row
    <2>4. Consistent(entity)
        <3> HIDE DEF w, entity
        <3> QED
            BY <1>2, <2>2, <2>3 DEF Consistent, StatusMatches, DoneIsSigned
    <2> QED
        BY <2>1, <2>4, AnswersBeginInv DEF CancelFind, Begin, queueVars
<1>6. CASE DeleteFind(h, r)
    <2> DEFINE entity == [rows[r] EXCEPT !.deleted = TRUE]
    <2>1. entity.status = rows[r].status /\ entity.witnesses = rows[r].witnesses
        BY <1>2 DEF Row
    <2>2. Consistent(entity)
        BY <1>2, <2>1, SameAnswersConsistent
    <2> QED
        BY <1>6, <2>2, AnswersBeginInv DEF DeleteFind, Begin, queueVars
<1>7. CASE Send(h, r)
    <2>1. /\ UNCHANGED <<rows, handler>>
          /\ handler[h].op = "idle"
          /\ \A g \in Handlers \ {h} : producer'[g] = producer[g]
        BY <1>7, SystemAssumption DEF Send, Free, StartEnqueue, AnswersInv, SystemInv,
           QueueInv, QueueTypeOK
    <2> QED
        BY <2>1 DEF AnswersInv
<1> QED
    BY <1>1, <1>3, <1>4, <1>5, <1>6, <1>7

\* The saves of the handlers write consistent entities, and enqueue what is signed.
LEMMA AnswersHandlerInv ==
    ASSUME AnswersInv, SystemInv', NEW h \in Handlers, HandlerStep(h) \/ HandlerAborts(h)
    PROVE  AnswersInv'
<1>1. /\ handler[h].op # "idle"
      /\ WriteBack(h) \/ UNCHANGED rows
      /\ \/ Finish(h)
         \/ handler' = [handler EXCEPT ![h].op = "create"] /\ UNCHANGED producer
      /\ UNCHANGED producer \/ \E d : StartEnqueue(h, d)
    BY DEF HandlerStep, HandlerAborts, CreateInsert, SignSave, Save, NotifySave, queueVars
<1>2. /\ handler \in [Handlers -> Handler] /\ rows \in [Rows -> Row]
      /\ producer \in [Handlers -> Producer]
      /\ handler[h].row \in Rows
      /\ Consistent(handler[h].entity) /\ producer[h].at = "idle"
    BY <1>1, SystemAssumption DEF AnswersInv, SystemInv, EntitiesSayTheTruth, QueueInv,
       QueueTypeOK
<1>3. \A r \in Rows : Consistent(rows'[r])
    BY <1>1, <1>2 DEF WriteBack, AnswersInv
<1>4. \A g \in Handlers \ {h} : handler'[g] = handler[g] /\ producer'[g] = producer[g]
    BY <1>1, <1>2 DEF Finish, StartEnqueue
<1>5. handler'[h].op # "idle" => /\ Consistent(handler'[h].entity)
                                 /\ producer'[h].at = "idle"
    <2>1. CASE Finish(h)
        BY <1>2, <2>1 DEF Finish, IdleHandler
    <2>2. CASE handler' = [handler EXCEPT ![h].op = "create"] /\ UNCHANGED producer
        <3>1. [handler[h] EXCEPT !.op = "create"].entity = handler[h].entity
            BY <1>2 DEF Handler
        <3> QED
            BY <1>2, <2>2, <3>1
    <2> QED
        BY <1>1, <2>1, <2>2
<1> QED
    BY <1>3, <1>4, <1>5 DEF AnswersInv

\* close drops the answers together with the status they called for.
LEMMA AnswersCloseInv ==
    ASSUME AnswersInv, SystemInv', NEW r \in Rows, Close(r)
    PROVE  AnswersInv'
<1>1. /\ rows' = [rows EXCEPT ![r] = [rows[r] EXCEPT !.status = "SUCCESS",
                                                    !.witnesses = LostWitnesses]]
      /\ rows \in [Rows -> Row]
      /\ UNCHANGED <<handler, producer>>
    BY DEF Close, AnswersInv, SystemInv, queueVars
<1> DEFINE closed == [rows[r] EXCEPT !.status = "SUCCESS", !.witnesses = LostWitnesses]
<1>2. closed.status = "SUCCESS" /\ closed.witnesses = LostWitnesses
    BY <1>1 DEF Row
<1>3. Consistent(closed)
    <2> HIDE DEF closed
    <2> QED
        BY <1>2 DEF Consistent, StatusMatches, DoneIsSigned, LostWitnesses
<1>4. \A q \in Rows : Consistent(rows'[q])
    BY <1>1, <1>3 DEF AnswersInv
<1> QED
    BY <1>1, <1>4 DEF AnswersInv

\* notifyResult writes a final status, which makes no claim about the answers.
LEMMA AnswersNotifyInv ==
    ASSUME AnswersInv, SystemInv', NotifyStep
    PROVE  AnswersInv'
<1>1. PICK h \in Handlers, m \in posted : NotifyFind(h, m) \/ NotifyNothing(h, m)
    BY DEF NotifyStep
<1>2. CASE NotifyFind(h, m)
    <2> DEFINE r == m.data.row
               entity == ResultEntity(rows[r], m.outcome)
    <2>1. r \in Rows /\ rows[r] \in Row /\ Consistent(rows[r])
        BY PayloadType DEF AnswersInv, SystemInv, QueueInv, QueueTypeOK
    <2>2. entity.witnesses = rows[r].witnesses /\ entity.status \in {"SUCCESS", "FAILED"}
        BY <2>1 DEF ResultEntity, Row
    <2>3. Consistent(entity)
        BY <2>1, <2>2, SameAnswersConsistent
    <2> QED
        BY <1>2, <2>3, AnswersBeginInv DEF NotifyFind, queueVars
<1>3. CASE NotifyNothing(h, m)
    BY <1>3 DEF NotifyNothing, AnswersInv
<1> QED
    BY <1>1, <1>2, <1>3

\* The queue starts no producer.
LEMMA IdleProducerStays ==
    ASSUME QueueInv, QueueStep, NEW p \in Producers, producer[p].at = "idle"
    PROVE  producer'[p] = producer[p]
<1>1. CASE \E q \in Producers : Enqueue(q) \/ EnqueueFails(q)
    <2>1. PICK q \in Producers : Enqueue(q) \/ EnqueueFails(q)
        BY <1>1
    <2>2. producer[q].at # "idle"
        BY <2>1 DEF Enqueue, EnqueueFails, GetJob, GetState, Remove, RemoveRefused, Add
    <2>3. (\E step : Goto(q, step)) \/ Leave(q)
        BY <2>1 DEF Enqueue, EnqueueFails, GetJob, GetState, Remove, RemoveRefused, Add
    <2> QED
        BY <2>2, <2>3 DEF Goto, Leave, QueueInv, QueueTypeOK
<1>2. CASE \E h \in Hashes : Take(h) \/ Promote(h) \/ Stalled(h) \/ Settle(h) \/ SqueezeOut(h)
    BY <1>2 DEF Take, Promote, Stalled, Settle, SqueezeOut
<1>3. CASE Attempt \/ WorkerCrashes
    BY <1>3 DEF Attempt, SetupDone, SetupThrows, SendAccepted, SendRefused, SendUnanswered,
       WaitThrows, WaitDone, PostResult, PostFails, Complete, WorkerCrashes
<1> QED
    BY <1>1, <1>2, <1>3 DEF QueueStep

\* The queue touches neither a row nor a handler.
LEMMA AnswersQueueInv ==
    ASSUME AnswersInv, SystemInv', QueueStep, UNCHANGED apiVars
    PROVE  AnswersInv'
<1>1. \A h \in Handlers : producer[h].at = "idle" => producer'[h] = producer[h]
    BY IdleProducerStays, SystemAssumption DEF AnswersInv, SystemInv
<1> QED
    BY <1>1 DEF AnswersInv, apiVars

\* Every step of the system keeps the invariant.
LEMMA AnswersNextInv == AnswersInv /\ [Next]_vars => AnswersInv'
<1> SUFFICES ASSUME AnswersInv, [Next]_vars PROVE AnswersInv'
    OBVIOUS
<1>0. SystemInv'
    BY NextInv DEF AnswersInv
<1>1. CASE \E h \in Handlers : ClientStep(h) \/ HandlerStep(h) \/ HandlerAborts(h)
    BY <1>0, <1>1, AnswersClientInv, AnswersHandlerInv
<1>2. CASE \E r \in Rows : Close(r)
    BY <1>0, <1>2, AnswersCloseInv
<1>3. CASE NotifyStep
    BY <1>0, <1>3, AnswersNotifyInv
<1>4. CASE QueueStep /\ UNCHANGED apiVars
    BY <1>0, <1>4, AnswersQueueInv
<1>5. CASE UNCHANGED vars
    BY <1>0, <1>5 DEF vars, AnswersInv
<1> QED
    BY <1>1, <1>2, <1>3, <1>4, <1>5 DEF Next

-----------------------------------------------------------------------------
\* Every reachable state satisfies the inductive invariant.
THEOREM AnswersInvariant == Spec => []AnswersInv
<1> QED
    BY AnswersInitInv, AnswersNextInv, PTL DEF Spec

(***************************************************************************)
(* For any vault, handlers and answers, whatever requests overwrite each   *)
(* other, the status of a row is the one its answers call for.             *)
(***************************************************************************)
THEOREM StatusAlwaysMatchesAnswers == Spec => []StatusMatchesAnswers
<1>1. AnswersInv => StatusMatchesAnswers
    BY DEF AnswersInv, Consistent, StatusMatches, StatusMatchesAnswers
<1> QED
    BY <1>1, AnswersInvariant, PTL

(***************************************************************************)
(* If clients sign what they approve, then signByID enqueues a transaction *)
(* only with enough signatures, for any vault and any interleaving.        *)
(***************************************************************************)
THEOREM SignAlwaysEnqueuesQuorum == ApprovalsAreSigned /\ Spec => SignEnqueuesQuorum
<1>1. ASSUME ApprovalsAreSigned, AnswersInv, [Next]_vars, NEW h \in Handlers,
             handler[h].op = "sign", producer'[h].at = "getJob"
      PROVE  producer'[h].data \in Sufficient
    <2> USE SystemAssumption
    <2>1. /\ producer[h].at = "idle" /\ Consistent(handler[h].entity)
          /\ handler[h].entity \in Row /\ handler[h].row \in Rows
          /\ producer \in [Handlers -> Producer]
        BY <1>1 DEF AnswersInv, SystemInv, EntitiesSayTheTruth, Handler, QueueInv, QueueTypeOK
    <2>2. producer'[h] # producer[h]
        BY <1>1, <2>1
    <2>3. SignSave(h) /\ handler[h].entity.status = "PENDING_SENDER"
        <3>1. CASE \E g \in Handlers : ClientStep(g)
            <4>1. PICK g \in Handlers : ClientStep(g)
                BY <3>1
            <4>2. handler[g].op = "idle"
                BY <4>1 DEF ClientStep, CreateFind, SignFind, CancelFind, DeleteFind, Send, Free
            <4>3. UNCHANGED producer \/ \E d : StartEnqueue(g, d)
                BY <4>1 DEF ClientStep, CreateFind, SignFind, CancelFind, DeleteFind, Send,
                   queueVars
            <4> QED
                BY <1>1, <2>1, <2>2, <4>2, <4>3 DEF StartEnqueue
        <3>2. CASE \E g \in Handlers : HandlerStep(g) \/ HandlerAborts(g)
            <4>1. PICK g \in Handlers : HandlerStep(g) \/ HandlerAborts(g)
                BY <3>2
            <4>2. \/ UNCHANGED producer
                  \/ /\ SignSave(g) /\ handler[g].entity.status = "PENDING_SENDER"
                     /\ \E d : StartEnqueue(g, d)
                BY <4>1 DEF HandlerStep, HandlerAborts, CreateInsert, SignSave, Save,
                   NotifySave, queueVars
            <4> QED
                BY <2>1, <2>2, <4>2 DEF StartEnqueue
        <3>3. CASE (\E r \in Rows : Close(r)) \/ NotifyStep \/ UNCHANGED vars
            BY <2>2, <3>3 DEF Close, NotifyStep, NotifyFind, NotifyNothing, vars, queueVars
        <3>4. CASE QueueStep
            BY <1>1, <2>1, <2>2, <3>4, IdleProducerStays DEF AnswersInv, SystemInv
        <3> QED
            BY <1>1, <3>1, <3>2, <3>3, <3>4 DEF Next
    <2> DEFINE w == handler[h].entity.witnesses
    <2>4. producer'[h].data = FatJob(handler[h].row, handler[h].entity)
        BY <2>1, <2>3 DEF SignSave, StartEnqueue
    <2>5. Cardinality(Answered(w, "DONE")) >= Required
        BY <2>1, <2>3 DEF Consistent, StatusMatches
    <2>6. Answered(w, "DONE") \subseteq Signers(w) /\ Signers(w) \subseteq Members
        BY <1>1, <2>1 DEF Answered, Signers, Consistent, DoneIsSigned
    <2>7. Cardinality(Signers(w)) >= Required
        <3>1. IsFiniteSet(Signers(w))
            BY <2>6, SignersAssumption, FS_Subset
        <3>2. Cardinality(Answered(w, "DONE")) <= Cardinality(Signers(w))
            BY <2>6, <3>1, FS_Subset
        <3>3. Cardinality(Answered(w, "DONE")) \in Nat /\ Cardinality(Signers(w)) \in Nat
            BY <3>1, CountType, FS_CardinalityType
        <3> HIDE DEF w
        <3> QED
            BY <2>5, <3>2, <3>3, SignersAssumption
    <2> QED
        BY <2>1, <2>4, <2>7, FatJobType DEF FatJob
<1>2. ApprovalsAreSigned /\ AnswersInv /\ [Next]_vars =>
          [\A h \in Handlers : handler[h].op = "sign" /\ producer'[h].at = "getJob"
              => producer'[h].data \in Sufficient]_vars
    BY <1>1
<1>3. CASE ApprovalsAreSigned
    BY <1>2, <1>3, AnswersInvariant, PTL DEF Spec, SignEnqueuesQuorum
<1>4. CASE ~ApprovalsAreSigned
    BY <1>4, PTL
<1> QED
    BY <1>3, <1>4

-----------------------------------------------------------------------------
(***************************************************************************)
(* The API, when it handles its requests one after the other, implements   *)
(* TransactionLifecycle: although transactions are squeezed out, attempts  *)
(* throw and Redis fails.                                                  *)
(***************************************************************************)

\* One request at a time, members who answer once, and failures that lose no report.
Serial ==
    /\ \E h : Handlers = {h}
    /\ Requests \subseteq {"create", "sign", "cancel", "delete"}
    /\ ~Retries
    /\ Faults \subseteq {"setup", "squeeze", "redis"}

\* What TransactionLifecycle sees of a row, or of what will be saved over it.
Stage(row) == IF row.deleted THEN "DELETED" ELSE row.status

Stages == {"NONE", "AWAIT_REQUIREMENTS", "PENDING_SENDER", "SUCCESS", "FAILED", "DECLINED",
           "CANCELED", "DELETED"}
LiveStages == {"AWAIT_REQUIREMENTS", "PENDING_SENDER", "SUCCESS"}

Submitted(r) == Stage(rows[r]) = "PENDING_SENDER"

RowsInv ==
    /\ \A r \in Rows : /\ Stage(rows[r]) \in Stages
                       /\ rows[r].deleted => rows[r].status # "NONE"
    /\ \A h \in Handlers : handler[h].entity.deleted => handler[h].entity.status # "NONE"

\* A hash has one live row.
OneLive ==
    \A q, r \in Rows :
        RowHash[q] = RowHash[r] /\ Stage(rows[q]) \in LiveStages
            /\ Stage(rows[r]) \in LiveStages => q = r

\* What each request will do to the row it has read.
Ready(h) ==
    LET r == handler[h].row
        op == handler[h].op
        from == Stage(rows[r])
        to == Stage(handler[h].entity)
    IN  /\ op = "insert" =>
              /\ from = "NONE" /\ to = "AWAIT_REQUIREMENTS"
              /\ \A q \in Rows : RowHash[q] = RowHash[r] => Stage(rows[q]) \notin LiveStages
        /\ op = "create" => to = from
        /\ op = "sign" =>
              \/ /\ from = "AWAIT_REQUIREMENTS"
                 /\ to \in {"AWAIT_REQUIREMENTS", "PENDING_SENDER", "DECLINED"}
              \/ from = "PENDING_SENDER" /\ to = "PENDING_SENDER"
        /\ op = "cancel" => from = "AWAIT_REQUIREMENTS" /\ to = "CANCELED"
        /\ op = "delete" => from = "AWAIT_REQUIREMENTS" /\ to = "DELETED"
        /\ op = "notify" =>
              /\ handler[h].message \in posted /\ r = handler[h].message.data.row
              /\ from = "PENDING_SENDER"
              /\ to = IF handler[h].message.outcome = "success" THEN "SUCCESS" ELSE "FAILED"

\* The report in flight is the worker's, who waits for the answer.
PostedInv ==
    \A m \in posted : /\ worker.at = "response"
                      /\ m = [data |-> jobs[worker.hash].data, outcome |-> worker.outcome]

\* Producers and jobs submit a row that waits for it, until its outcome is reported.
SubmittedInv ==
    /\ \A p \in Handlers : producer[p].at # "idle" => Submitted(producer[p].data.row)
    /\ \A x \in Hashes :
         jobs[x].state # "none" =>
             IF worker.at = "response" /\ worker.hash = x /\ posted = {}
               THEN worker.outcome = "success" => Stage(rows[jobs[x].data.row]) = "SUCCESS"
               ELSE Submitted(jobs[x].data.row)

\* The worker waits for what is pooled; an inclusion is reported or has been.
Reporting(x) ==
    /\ worker.hash = x
    /\ \/ worker.at = "wait"
       \/ worker.at \in {"report", "response"} /\ worker.outcome = "success"

ChainIsWatched ==
    \A x \in Hashes :
        /\ chain[x] = "pooled" => worker.at = "wait" /\ worker.hash = x
        /\ chain[x] = "included" =>
              \/ Reporting(x)
              \/ \E r \in Rows : RowHash[r] = x /\ Stage(rows[r]) = "SUCCESS"

SerialInv ==
    /\ AnswersInv
    /\ RowsInv
    /\ OneLive
    /\ \A h \in Handlers : handler[h].op # "idle" => Ready(h)
    /\ PostedInv
    /\ SubmittedInv
    /\ ChainIsWatched

-----------------------------------------------------------------------------
\* What the inductive invariants of the parts say of the types.
LEMMA SerialTypes ==
    ASSUME SerialInv
    PROVE  /\ QueueInv
           /\ rows \in [Rows -> Row]
           /\ handler \in [Handlers -> Handler]
           /\ producer \in [Handlers -> Producer]
           /\ jobs \in [Hashes -> Job]
           /\ chain \in [Hashes -> ChainStates]
           /\ worker \in Worker
           /\ \A h \in Handlers : handler[h].op # "idle" =>
                 handler[h].row \in Rows /\ handler[h].entity \in Row /\ producer[h].at = "idle"
           /\ \A p \in Handlers : producer[p].at # "idle" =>
                 /\ producer[p].data \in Payloads /\ producer[p].data.row \in Rows
                 /\ JobId(p) = RowHash[producer[p].data.row] /\ JobId(p) \in Hashes
           /\ \A x \in Hashes : jobs[x].state # "none" =>
                 /\ jobs[x].data \in Payloads /\ jobs[x].data.row \in Rows
                 /\ HashOf[jobs[x].data] = x /\ RowHash[jobs[x].data.row] = x
           /\ worker.at # "idle" => worker.hash \in Hashes /\ jobs[worker.hash].state = "active"
<1> USE SystemAssumption, SubmitQueueAssumption
<1>1. QueueInv /\ rows \in [Rows -> Row] /\ handler \in [Handlers -> Handler]
    BY DEF SerialInv, AnswersInv, SystemInv
<1>2. QueueTypeOK
    BY <1>1 DEF QueueInv
<1>3. \A h \in Handlers : handler[h].op # "idle" =>
          handler[h].row \in Rows /\ handler[h].entity \in Row /\ producer[h].at = "idle"
    BY <1>1 DEF SerialInv, AnswersInv, SystemInv, EntitiesSayTheTruth, Handler
<1>4. \A p \in Handlers : producer[p].at # "idle" =>
          /\ producer[p].data \in Payloads /\ producer[p].data.row \in Rows
          /\ JobId(p) = RowHash[producer[p].data.row] /\ JobId(p) \in Hashes
    BY <1>1, PayloadType DEF QueueInv, ProducersCarryAPayload, JobId
<1>5. \A x \in Hashes : jobs[x].state # "none" =>
          /\ jobs[x].data \in Payloads /\ jobs[x].data.row \in Rows
          /\ HashOf[jobs[x].data] = x /\ RowHash[jobs[x].data.row] = x
    BY <1>1, PayloadType DEF QueueInv, JobsAreTheirOwn
<1>6. worker.at # "idle" => worker.hash \in Hashes /\ jobs[worker.hash].state = "active"
    BY <1>1 DEF QueueInv, WorkerHoldsItsJob
<1> QED
    BY <1>1, <1>2, <1>3, <1>4, <1>5, <1>6 DEF QueueTypeOK

\* The empty table satisfies the inductive invariant.
LEMMA SerialInit == Init => SerialInv
<1> SUFFICES ASSUME Init PROVE SerialInv
    OBVIOUS
<1>1. AnswersInv
    BY AnswersInitInv
<1>2. \A r \in Rows : Stage(rows[r]) = "NONE" /\ ~rows[r].deleted
    BY DEF Init, NoRow, Stage
<1>3. \A h \in Handlers : handler[h].op = "idle" /\ ~handler[h].entity.deleted
    BY DEF Init, IdleHandler, NoRow
<1>4. RowsInv /\ OneLive
    BY <1>2, <1>3 DEF RowsInv, OneLive, Stages, LiveStages
<1>5. PostedInv /\ SubmittedInv /\ ChainIsWatched
    BY SystemAssumption DEF Init, QueueInit, PostedInv, SubmittedInv, ChainIsWatched,
       IdleProducer, NoJob
<1> QED
    BY <1>1, <1>3, <1>4, <1>5 DEF SerialInv

-----------------------------------------------------------------------------
(***************************************************************************)
(* A report in flight is about a submitted row: notifyResult finds it.     *)
(***************************************************************************)
LEMMA PostedIsSubmitted ==
    ASSUME SerialInv, NEW m \in posted
    PROVE  /\ m \in Message /\ m.data.row \in Rows /\ Submitted(m.data.row) /\ Visible(m.data.row)
           /\ worker.at = "response" /\ worker.hash \in Hashes
           /\ jobs[worker.hash].state = "active" /\ jobs[worker.hash].data = m.data
           /\ worker.outcome = m.outcome /\ worker.hash = RowHash[m.data.row]
           /\ posted \ {m} = {}
<1>1. worker.at = "response" /\ m = [data |-> jobs[worker.hash].data, outcome |-> worker.outcome]
    BY DEF SerialInv, PostedInv
<1>2. /\ worker.hash \in Hashes /\ jobs[worker.hash].state = "active"
      /\ jobs[worker.hash].data.row \in Rows
      /\ RowHash[jobs[worker.hash].data.row] = worker.hash
    BY <1>1, SerialTypes
<1>3. m.data = jobs[worker.hash].data /\ m.outcome = worker.outcome
    BY <1>1
<1>4. Submitted(m.data.row)
    BY <1>1, <1>2, <1>3 DEF SerialInv, SubmittedInv
<1>5. Visible(m.data.row)
    BY <1>4 DEF Submitted, Stage, Visible
<1>6. \A n \in posted : n = m
    BY <1>1 DEF SerialInv, PostedInv
<1>7. m \in Message
    BY SerialTypes DEF QueueInv, QueueTypeOK
<1> QED
    BY <1>1, <1>2, <1>3, <1>4, <1>5, <1>6, <1>7

(***************************************************************************)
(* A request that has read its row: the rows and the queue stay.           *)
(***************************************************************************)
LEMMA SerialBegin ==
    ASSUME Serial, SerialInv, AnswersInv', NEW h \in Handlers,
           NEW op, NEW r, NEW entity, NEW message,
           handler' = [handler EXCEPT ![h] =
                         [op |-> op, row |-> r, entity |-> entity, message |-> message]],
           entity.deleted => entity.status # "NONE",
           Ready(h)', UNCHANGED <<rows, queueVars>>
    PROVE  SerialInv'
<1>1. handler \in [Handlers -> Handler]
    BY SerialTypes
<1>2. \A g \in Handlers : g = h
    BY DEF Serial
<1>3. RowsInv'
    BY <1>1, <1>2 DEF SerialInv, RowsInv
<1>4. OneLive' /\ PostedInv' /\ SubmittedInv' /\ ChainIsWatched'
    BY DEF SerialInv, OneLive, PostedInv, SubmittedInv, Submitted, ChainIsWatched, Reporting,
       queueVars
<1>5. \A g \in Handlers : handler'[g].op # "idle" => Ready(g)'
    <2> SUFFICES ASSUME NEW g \in Handlers PROVE Ready(g)'
        OBVIOUS
    <2>1. g = h
        BY <1>2
    <2> QED
        BY <2>1
<1> QED
    BY <1>3, <1>4, <1>5 DEF SerialInv

\* What validateStatus makes of the answer of a member who has not answered yet.
LEMMA SignedStage ==
    ASSUME NEW row \in Row, Consistent(row), NEW m \in Members, NEW answer \in Answers,
           ~row.deleted, row.witnesses[m].status = "PENDING"
    PROVE  LET entity == SignedEntity(row, m, answer)
           IN  /\ ~entity.deleted
               /\ row.status = "AWAIT_REQUIREMENTS" =>
                     entity.status \in {"AWAIT_REQUIREMENTS", "PENDING_SENDER", "DECLINED"}
               /\ row.status = "PENDING_SENDER" => entity.status = "PENDING_SENDER"
<1> DEFINE w == Answer(row.witnesses, m, answer)
           status == ValidateStatus(row.status, w)
           entity == SignedEntity(row, m, answer)
<1>1. entity = [row EXCEPT !.witnesses = w, !.status = status]
    BY DEF SignedEntity
<1>2. row.status = "AWAIT_REQUIREMENTS" =>
          status \in {"AWAIT_REQUIREMENTS", "PENDING_SENDER", "DECLINED"}
    BY DEF ValidateStatus
<1>3. ASSUME row.status = "PENDING_SENDER" PROVE status = "PENDING_SENDER"
    <2>1. \A n \in Members : row.witnesses[n].status = "DONE" => w[n].status = "DONE"
        BY DEF Answer, Row, Witnesses
    <2>2. Answered(row.witnesses, "DONE") \subseteq Answered(w, "DONE")
        BY <2>1 DEF Answered
    <2>3. Cardinality(Answered(row.witnesses, "DONE")) <= Cardinality(Answered(w, "DONE"))
        BY <2>2, CountType, FS_Subset
    <2>4. Cardinality(Answered(row.witnesses, "DONE")) >= Required
        BY <1>3 DEF Consistent, StatusMatches
    <2>5. /\ Cardinality(Answered(row.witnesses, "DONE")) \in Nat
          /\ Cardinality(Answered(w, "DONE")) \in Nat
        BY CountType
    <2> HIDE DEF w
    <2>6. Cardinality(Answered(w, "DONE")) >= Required
        BY <2>3, <2>4, <2>5, SignersAssumption
    <2> QED
        BY <1>3, <2>6 DEF ValidateStatus
<1> HIDE DEF w, status
<1>4. entity.status = status /\ entity.deleted = row.deleted
    BY <1>1 DEF Row
<1> QED
    BY <1>2, <1>3, <1>4

(***************************************************************************)
(* The requests of the clients read their row in.                          *)
(***************************************************************************)
LEMMA SerialClient ==
    ASSUME Serial, SerialInv, AnswersInv', NEW h \in Handlers, ClientStep(h)
    PROVE  SerialInv' /\ UNCHANGED <<rows, queueVars>>
<1>0. rows \in [Rows -> Row] /\ handler \in [Handlers -> Handler]
    BY SerialTypes
<1>1. PICK r \in Rows :
          \/ CreateFind(h, r)
          \/ \E m \in Members, answer \in Answers : SignFind(h, r, m, answer)
          \/ \E m \in Members : CancelFind(h, r, m)
          \/ DeleteFind(h, r)
    BY DEF ClientStep, Serial, Send
<1>2. /\ rows[r] \in Row /\ Stage(rows[r]) \in Stages /\ Consistent(rows[r])
      /\ rows[r].deleted => rows[r].status # "NONE"
    BY <1>0 DEF SerialInv, RowsInv, AnswersInv
<1>3. CASE CreateFind(h, r)
    <2> DEFINE request == [op |-> "insert", row |-> r, entity |-> NewRow, message |-> Nil]
    <2>1. handler' = [handler EXCEPT ![h] = request] /\ UNCHANGED <<rows, queueVars>>
        BY <1>3 DEF CreateFind, Begin
    <2>2. Stage(NewRow) = "AWAIT_REQUIREMENTS" /\ ~NewRow.deleted
        BY DEF Stage, NewRow, NoRow
    <2>3. Stage(rows[r]) = "NONE"
        BY <1>2, <1>3 DEF CreateFind, Stage
    <2>4. \A q \in Rows : RowHash[q] = RowHash[r] => Stage(rows[q]) \notin LiveStages
        BY <1>3 DEF CreateFind, Visible, Stage, LiveStages, Settled
    <2>5. handler'[h] = request
        BY <1>0, <2>1
    <2>6. Ready(h)'
        BY <2>1, <2>2, <2>3, <2>4, <2>5 DEF Ready
    <2> QED
        BY <2>1, <2>2, <2>6, SerialBegin
<1>4. CASE \E m \in Members, answer \in Answers : SignFind(h, r, m, answer)
    <2>1. PICK m \in Members, answer \in Answers : SignFind(h, r, m, answer)
        BY <1>4
    <2> DEFINE entity == SignedEntity(rows[r], m, answer)
               request == [op |-> "sign", row |-> r, entity |-> entity, message |-> Nil]
    <2>2. rows[r].witnesses[m].status = "PENDING" /\ Visible(r)
        BY <2>1 DEF SignFind, MayAnswer, Serial, Signable
    <2>3. rows[r].status \in {"AWAIT_REQUIREMENTS", "PENDING_SENDER"} /\ ~rows[r].deleted
        <3>1. ~rows[r].deleted /\ rows[r].status # "NONE"
            BY <2>2 DEF Visible
        <3>2. rows[r].status \in Stages \ {"DELETED"}
            BY <1>2, <3>1 DEF Stage, Row, Statuses
        <3>3. rows[r].status \notin Settled \cup {"SUCCESS"}
            BY <2>1 DEF SignFind, Signable
        <3> QED
            BY <3>1, <3>2, <3>3 DEF Stages, Settled
    <2>4. /\ ~entity.deleted
          /\ rows[r].status = "AWAIT_REQUIREMENTS" =>
                entity.status \in {"AWAIT_REQUIREMENTS", "PENDING_SENDER", "DECLINED"}
          /\ rows[r].status = "PENDING_SENDER" => entity.status = "PENDING_SENDER"
        BY <1>2, <2>2, <2>3, SignedStage
    <2> HIDE DEF entity
    <2>5. handler' = [handler EXCEPT ![h] = request] /\ UNCHANGED <<rows, queueVars>>
        BY <2>1 DEF SignFind, Begin, entity
    <2>6. handler'[h] = request
        BY <1>0, <2>5
    <2>7. Ready(h)'
        BY <2>3, <2>4, <2>5, <2>6 DEF Ready, Stage
    <2> QED
        BY <2>4, <2>5, <2>7, SerialBegin
<1>5. CASE \E m \in Members : CancelFind(h, r, m)
    <2>1. PICK m \in Members : CancelFind(h, r, m)
        BY <1>5
    <2> DEFINE w == Withdraw(rows[r].witnesses, m)
               entity == [rows[r] EXCEPT !.status = "CANCELED", !.witnesses = w]
               request == [op |-> "cancel", row |-> r, entity |-> entity, message |-> Nil]
    <2>2. handler' = [handler EXCEPT ![h] = request] /\ UNCHANGED <<rows, queueVars>>
        BY <2>1 DEF CancelFind, Begin
    <2>3. ~rows[r].deleted /\ rows[r].status = "AWAIT_REQUIREMENTS"
        BY <2>1 DEF CancelFind, Visible
    <2> HIDE DEF w
    <2>4. ~entity.deleted /\ entity.status = "CANCELED"
        BY <1>2, <2>3 DEF Row
    <2> HIDE DEF entity
    <2>5. handler'[h] = request
        BY <1>0, <2>2
    <2>6. Ready(h)'
        BY <2>2, <2>3, <2>4, <2>5 DEF Ready, Stage
    <2> QED
        BY <2>2, <2>4, <2>6, SerialBegin
<1>6. CASE DeleteFind(h, r)
    <2> DEFINE entity == [rows[r] EXCEPT !.deleted = TRUE]
               request == [op |-> "delete", row |-> r, entity |-> entity, message |-> Nil]
    <2>1. handler' = [handler EXCEPT ![h] = request] /\ UNCHANGED <<rows, queueVars>>
        BY <1>6 DEF DeleteFind, Begin
    <2>2. ~rows[r].deleted /\ rows[r].status = "AWAIT_REQUIREMENTS"
        BY <1>6 DEF DeleteFind, Visible
    <2>3. entity.deleted /\ entity.status = "AWAIT_REQUIREMENTS"
        BY <1>2, <2>2 DEF Row
    <2> HIDE DEF entity
    <2>4. handler'[h] = request
        BY <1>0, <2>1
    <2>5. Ready(h)'
        BY <2>1, <2>2, <2>3, <2>4 DEF Ready, Stage
    <2> QED
        BY <2>1, <2>3, <2>5, SerialBegin
<1>7. UNCHANGED <<rows, queueVars>>
    <2>1. (\E m \in Members, answer \in Answers : SignFind(h, r, m, answer))
              => UNCHANGED <<rows, queueVars>>
        BY DEF SignFind
    <2>2. (\E m \in Members : CancelFind(h, r, m)) => UNCHANGED <<rows, queueVars>>
        BY DEF CancelFind
    <2>3. CreateFind(h, r) \/ DeleteFind(h, r) => UNCHANGED <<rows, queueVars>>
        BY DEF CreateFind, DeleteFind
    <2> HIDE DEF queueVars
    <2> QED
        BY <1>1, <2>1, <2>2, <2>3
<1> QED
    BY <1>1, <1>3, <1>4, <1>5, <1>6, <1>7

\* notifyResult reads the row of the report in, which waits for it.
LEMMA SerialNotify ==
    ASSUME Serial, SerialInv, AnswersInv', NotifyStep
    PROVE  SerialInv' /\ UNCHANGED <<rows, queueVars>>
<1>1. PICK h \in Handlers, m \in posted : NotifyFind(h, m) \/ NotifyNothing(h, m)
    BY DEF NotifyStep
<1>2. /\ m.data.row \in Rows /\ Submitted(m.data.row) /\ Visible(m.data.row)
      /\ m \in Message
    BY PostedIsSubmitted
<1>3. NotifyFind(h, m)
    BY <1>1, <1>2 DEF NotifyNothing
<1> DEFINE r == m.data.row
           entity == ResultEntity(rows[r], m.outcome)
           request == [op |-> "notify", row |-> r, entity |-> entity, message |-> m]
<1>4. rows[r] \in Row
    BY <1>2, SerialTypes
<1>5. ~entity.deleted /\ entity.status = IF m.outcome = "success" THEN "SUCCESS" ELSE "FAILED"
    BY <1>2, <1>4 DEF ResultEntity, Row, Visible
<1>6. handler' = [handler EXCEPT ![h] = request] /\ UNCHANGED <<rows, queueVars>>
    BY <1>3 DEF NotifyFind
<1> HIDE DEF entity
<1>7. handler'[h] = request
    BY <1>6, SerialTypes
<1>8. Ready(h)'
    BY <1>2, <1>5, <1>6, <1>7 DEF Ready, Stage, Submitted, queueVars
<1> QED
    BY <1>5, <1>6, <1>8, SerialBegin

-----------------------------------------------------------------------------
(***************************************************************************)
(* What a save does to the one row it writes, as TransactionLifecycle sees *)
(* it: an inclusion or a failure is only written by notifyResult.          *)
(***************************************************************************)
LEMMA HandlerEdge ==
    ASSUME SerialInv, NEW h \in Handlers, HandlerStep(h)
    PROVE  LET r == handler[h].row
               from == Stage(rows[r])
               to == Stage(handler[h].entity)
           IN  /\ r \in Rows /\ Ready(h) /\ producer[h].at = "idle"
               /\ rows' = [rows EXCEPT ![r] = handler[h].entity]
               /\ UNCHANGED <<jobs, worker, chain>>
               /\ \/ NotifySave(h)
                  \/ handler[h].op # "notify" /\ UNCHANGED posted
               /\ \/ from = to
                  \/ handler[h].op = "insert" /\ from = "NONE" /\ to = "AWAIT_REQUIREMENTS"
                  \/ /\ from = "AWAIT_REQUIREMENTS"
                     /\ to \in {"PENDING_SENDER", "DECLINED", "CANCELED", "DELETED"}
                  \/ NotifySave(h) /\ from = "PENDING_SENDER" /\ to \in {"SUCCESS", "FAILED"}
<1> DEFINE r == handler[h].row
           from == Stage(rows[r])
           to == Stage(handler[h].entity)
<1>1. /\ handler[h].op # "idle" /\ WriteBack(h) /\ UNCHANGED <<jobs, worker, chain>>
      /\ \/ NotifySave(h)
         \/ handler[h].op # "notify" /\ UNCHANGED posted
    BY DEF HandlerStep, CreateInsert, SignSave, Save, NotifySave, queueVars
<1>2. r \in Rows /\ producer[h].at = "idle" /\ Ready(h)
    BY <1>1, SerialTypes DEF SerialInv
<1>3. \/ from = to
      \/ handler[h].op = "insert" /\ from = "NONE" /\ to = "AWAIT_REQUIREMENTS"
      \/ /\ from = "AWAIT_REQUIREMENTS"
         /\ to \in {"PENDING_SENDER", "DECLINED", "CANCELED", "DELETED"}
      \/ NotifySave(h) /\ from = "PENDING_SENDER" /\ to \in {"SUCCESS", "FAILED"}
    <2>1. CASE CreateInsert(h)
        BY <1>2, <2>1 DEF CreateInsert, Ready
    <2>2. CASE SignSave(h)
        BY <1>2, <2>2 DEF SignSave, Ready
    <2>3. CASE Save(h)
        BY <1>2, <2>3 DEF Save, Ready
    <2>4. CASE NotifySave(h)
        BY <1>2, <2>4 DEF NotifySave, Ready
    <2> QED
        BY <2>1, <2>2, <2>3, <2>4 DEF HandlerStep
<1> QED
    BY <1>1, <1>2, <1>3 DEF WriteBack

(***************************************************************************)
(* The saves of the handlers keep the invariant.                           *)
(***************************************************************************)
LEMMA SerialHandler ==
    ASSUME Serial, SerialInv, AnswersInv', NEW h \in Handlers, HandlerStep(h)
    PROVE  SerialInv'
<1> DEFINE r == handler[h].row
           entity == handler[h].entity
           from == Stage(rows[r])
           to == Stage(entity)
<1>0. /\ rows \in [Rows -> Row] /\ handler \in [Handlers -> Handler]
      /\ producer \in [Handlers -> Producer]
    BY SerialTypes
<1>1. /\ r \in Rows /\ Ready(h) /\ producer[h].at = "idle"
      /\ rows' = [rows EXCEPT ![r] = entity]
      /\ UNCHANGED <<jobs, worker, chain>>
      /\ \/ NotifySave(h)
         \/ handler[h].op # "notify" /\ UNCHANGED posted
    BY HandlerEdge
<1>2. \/ from = to
      \/ handler[h].op = "insert" /\ from = "NONE" /\ to = "AWAIT_REQUIREMENTS"
      \/ /\ from = "AWAIT_REQUIREMENTS"
         /\ to \in {"PENDING_SENDER", "DECLINED", "CANCELED", "DELETED"}
      \/ NotifySave(h) /\ from = "PENDING_SENDER" /\ to \in {"SUCCESS", "FAILED"}
    BY HandlerEdge
<1>3. /\ rows'[r] = entity
      /\ \A q \in Rows \ {r} : rows'[q] = rows[q]
    BY <1>0, <1>1
<1>4. \A g \in Handlers : g = h
    BY DEF Serial
<1>5. \/ /\ handler'[h] = IdleHandler
         /\ \/ producer' = producer
            \/ /\ to = "PENDING_SENDER"
               /\ producer'[h].data.row = r
      \/ /\ handler'[h].op = "create" /\ handler'[h].row = r /\ handler'[h].entity = entity
         /\ producer' = producer
    <2>1. CASE CreateInsert(h)
        <3>1. /\ handler' = [handler EXCEPT ![h] = [handler[h] EXCEPT !.op = "create"]]
              /\ producer' = producer
            BY <2>1 DEF CreateInsert, queueVars
        <3> QED
            BY <1>0, <3>1 DEF Handler
    <2>2. CASE SignSave(h)
        <3>1. handler'[h] = IdleHandler
            BY <1>0, <2>2 DEF SignSave, Finish
        <3>2. CASE entity.status = "PENDING_SENDER"
            <4>1. producer' = [producer EXCEPT ![h] =
                                 [at |-> "getJob", data |-> FatJob(r, entity)]]
                BY <2>2, <3>2 DEF SignSave, StartEnqueue
            <4>2. producer'[h].data.row = r
                BY <1>0, <4>1 DEF FatJob
            <4>3. to = "PENDING_SENDER"
                BY <1>1, <2>2, <3>2 DEF SignSave, Ready, Stage
            <4> QED
                BY <3>1, <4>2, <4>3
        <3>3. CASE entity.status # "PENDING_SENDER"
            BY <2>2, <3>1, <3>3 DEF SignSave
        <3> QED
            BY <3>2, <3>3
    <2>3. CASE Save(h) \/ NotifySave(h)
        BY <1>0, <2>3 DEF Save, NotifySave, Finish, queueVars
    <2> QED
        BY <2>1, <2>2, <2>3 DEF HandlerStep
<1>6. to \in Stages /\ (entity.deleted => entity.status # "NONE")
    BY <1>1, <1>2 DEF SerialInv, RowsInv, Stages
<1>7. RowsInv'
    <2>1. \A q \in Rows : /\ Stage(rows'[q]) \in Stages
                          /\ rows'[q].deleted => rows'[q].status # "NONE"
        BY <1>3, <1>6 DEF SerialInv, RowsInv
    <2>2. handler'[h].entity.deleted => handler'[h].entity.status # "NONE"
        BY <1>5, <1>6 DEF IdleHandler, NoRow
    <2> QED
        BY <1>4, <2>1, <2>2 DEF RowsInv
<1>8. OneLive'
    <2>1. CASE from = to \/ to \notin LiveStages
        BY <1>3, <2>1 DEF SerialInv, OneLive
    <2>2. CASE handler[h].op = "insert"
        BY <1>1, <1>3, <2>2 DEF SerialInv, OneLive, Ready
    <2>3. CASE from \in LiveStages
        BY <1>1, <1>3, <2>3 DEF SerialInv, OneLive
    <2> QED
        BY <1>2, <2>1, <2>2, <2>3 DEF LiveStages
<1>9. \A g \in Handlers : handler'[g].op # "idle" => Ready(g)'
    <2>1. handler'[h].op # "idle" => Ready(h)'
        BY <1>3, <1>5 DEF Ready, IdleHandler
    <2> QED
        <3> SUFFICES ASSUME NEW g \in Handlers, handler'[g].op # "idle" PROVE Ready(g)'
            OBVIOUS
        <3>1. g = h
            BY <1>4
        <3> QED
            BY <2>1, <3>1
<1>10. PostedInv'
    <2>1. posted' \subseteq posted
        BY <1>1 DEF NotifySave
    <2> QED
        BY <1>1, <2>1 DEF SerialInv, PostedInv
<1>11. /\ \A q \in Rows : Stage(rows[q]) = "SUCCESS" => Stage(rows'[q]) = "SUCCESS"
       /\ \A q \in Rows : Stage(rows[q]) = "PENDING_SENDER" =>
             Stage(rows'[q]) = "PENDING_SENDER" \/ (NotifySave(h) /\ q = r)
    BY <1>2, <1>3
<1>12. SubmittedInv'
    <2>1. \A p \in Handlers : producer'[p].at # "idle" =>
              Stage(rows'[producer'[p].data.row]) = "PENDING_SENDER"
        <3>1. producer'[h].at # "idle" => Stage(rows'[producer'[h].data.row]) = "PENDING_SENDER"
            BY <1>1, <1>3, <1>5
        <3> QED
            BY <1>4, <3>1 DEF Submitted
    <2>2. ASSUME NEW x \in Hashes, jobs[x].state # "none"
          PROVE  IF worker.at = "response" /\ worker.hash = x /\ posted' = {}
                   THEN worker.outcome = "success"
                          => Stage(rows'[jobs[x].data.row]) = "SUCCESS"
                   ELSE Stage(rows'[jobs[x].data.row]) = "PENDING_SENDER"
        <3>1. PICK q \in Rows : q = jobs[x].data.row /\ RowHash[q] = x
            BY <2>2, SerialTypes
        <3>2. IF worker.at = "response" /\ worker.hash = x /\ posted = {}
                THEN worker.outcome = "success" => Stage(rows[q]) = "SUCCESS"
                ELSE Stage(rows[q]) = "PENDING_SENDER"
            BY <2>2, <3>1 DEF SerialInv, SubmittedInv, Submitted
        <3>3. CASE ~NotifySave(h)
            BY <1>1, <1>11, <3>1, <3>2, <3>3
        <3>4. CASE NotifySave(h)
            <4> DEFINE m == handler[h].message
            <4>1. /\ m \in posted /\ r = m.data.row
                  /\ to = IF m.outcome = "success" THEN "SUCCESS" ELSE "FAILED"
                  /\ posted' = posted \ {m}
                BY <1>1, <3>4 DEF NotifySave, Ready
            <4>2. /\ worker.at = "response" /\ jobs[worker.hash].data = m.data
                  /\ worker.outcome = m.outcome /\ worker.hash = RowHash[r]
                  /\ posted' = {}
                BY <4>1, PostedIsSubmitted
            <4>3. CASE x = worker.hash
                <5>1. q = r
                    <6>1. jobs[x].data = m.data /\ r = m.data.row
                        BY <4>1, <4>2, <4>3
                    <6> HIDE DEF m
                    <6> QED
                        BY <3>1, <6>1, Zenon
                <5>2. m.outcome = "success" => to = "SUCCESS"
                    BY <4>1
                <5> HIDE DEF m
                <5> QED
                    BY <1>3, <3>1, <4>2, <4>3, <5>1, <5>2
            <4>4. CASE x # worker.hash
                BY <1>3, <3>1, <3>2, <4>2, <4>4
            <4> QED
                BY <4>3, <4>4
        <3> QED
            BY <3>3, <3>4
    <2> QED
        BY <1>1, <2>1, <2>2 DEF SubmittedInv, Submitted
<1>13. ChainIsWatched'
    BY <1>1, <1>11 DEF SerialInv, ChainIsWatched, Reporting
<1> QED
    BY <1>7, <1>8, <1>9, <1>10, <1>12, <1>13 DEF SerialInv

-----------------------------------------------------------------------------
(***************************************************************************)
(* The queue leaves rows and handlers alone, and takes no report back.     *)
(***************************************************************************)
LEMMA SerialFrame ==
    ASSUME SerialInv, AnswersInv', UNCHANGED apiVars, posted \subseteq posted',
           PostedInv', SubmittedInv', ChainIsWatched'
    PROVE  SerialInv'
<1>1. RowsInv' /\ OneLive'
    BY DEF SerialInv, RowsInv, OneLive, apiVars
<1>2. \A h \in Handlers : handler'[h].op # "idle" => Ready(h)'
    <2> SUFFICES ASSUME NEW h \in Handlers, handler'[h].op # "idle" PROVE Ready(h)'
        OBVIOUS
    <2>1. Ready(h)
        BY DEF SerialInv, apiVars
    <2> QED
        BY <2>1 DEF Ready, apiVars
<1> QED
    BY <1>1, <1>2 DEF SerialInv

\* Every Redis call of enqueueTransactionSubmit, and its failure.
LEMMA SerialEnqueue ==
    ASSUME SerialInv, AnswersInv', UNCHANGED apiVars,
           NEW p \in Handlers, Enqueue(p) \/ EnqueueFails(p)
    PROVE  SerialInv'
<1> DEFINE d == producer[p].data
           x == JobId(p)
<1>1. UNCHANGED <<worker, chain, posted>>
    BY DEF Enqueue, GetJob, GetState, Remove, RemoveRefused, Add, EnqueueFails
<1>2. /\ producer[p].at # "idle" /\ d.row \in Rows /\ x \in Hashes /\ Submitted(d.row)
      /\ jobs \in [Hashes -> Job] /\ producer \in [Handlers -> Producer]
    <2>1. producer[p].at # "idle"
        BY DEF Enqueue, GetJob, GetState, Remove, RemoveRefused, Add, EnqueueFails
    <2> QED
        BY <2>1, SerialTypes DEF SerialInv, SubmittedInv
<1>3. \A q \in Handlers : producer'[q].at # "idle" =>
          producer[q].at # "idle" /\ producer'[q].data = producer[q].data
    <2>1. Leave(p) \/ \E step : Goto(p, step)
        BY DEF Enqueue, GetJob, GetState, Remove, RemoveRefused, Add, EnqueueFails
    <2> QED
        BY <1>2, <2>1 DEF Leave, Goto, IdleProducer, Producer
<1>4. \/ UNCHANGED jobs
      \/ ~Locked(x) /\ jobs' = [jobs EXCEPT ![x] = NoJob]
      \/ jobs[x].state = "none" /\ jobs' = [jobs EXCEPT ![x] = NewJob(d)]
    <2>1. CASE Remove(p)
        BY <2>1 DEF Remove
    <2>2. CASE Add(p)
        BY <1>2, <2>2 DEF Add
    <2>3. CASE GetJob(p) \/ GetState(p) \/ RemoveRefused(p) \/ EnqueueFails(p)
        BY <2>3 DEF GetJob, GetState, RemoveRefused, EnqueueFails
    <2> QED
        BY <2>1, <2>2, <2>3 DEF Enqueue
<1>5. worker.at # "idle" => worker.hash \in Hashes /\ jobs'[worker.hash] = jobs[worker.hash]
    <2>1. worker.at # "idle" => worker.hash \in Hashes /\ jobs[worker.hash].state = "active"
        BY SerialTypes
    <2> QED
        BY <1>2, <1>4, <2>1 DEF Locked
<1>6. PostedInv'
    BY <1>1, <1>5 DEF SerialInv, PostedInv
<1>7. SubmittedInv'
    <2>1. \A q \in Handlers : producer'[q].at # "idle" =>
              Stage(rows'[producer'[q].data.row]) = "PENDING_SENDER"
        BY <1>3 DEF SerialInv, SubmittedInv, Submitted, apiVars
    <2>2. ASSUME NEW y \in Hashes, jobs'[y].state # "none"
          PROVE  IF worker.at = "response" /\ worker.hash = y /\ posted = {}
                   THEN worker.outcome = "success"
                          => Stage(rows[jobs'[y].data.row]) = "SUCCESS"
                   ELSE Stage(rows[jobs'[y].data.row]) = "PENDING_SENDER"
        <3>1. CASE jobs'[y] = jobs[y]
            BY <2>2, <3>1 DEF SerialInv, SubmittedInv, Submitted
        <3>2. CASE jobs'[y] # jobs[y]
            <4>1. y = x /\ jobs'[y] = NewJob(d)
                BY <1>2, <1>4, <2>2, <3>2 DEF NoJob
            <4>2. ~(worker.at = "response" /\ worker.hash = y)
                BY <1>5, <3>2
            <4>3. jobs'[y].data = d
                BY <4>1 DEF NewJob
            <4> HIDE DEF d, x
            <4> QED
                BY <1>2, <4>2, <4>3 DEF Submitted
        <3> QED
            BY <3>1, <3>2
    <2> QED
        BY <1>1, <2>1, <2>2 DEF SubmittedInv, Submitted, apiVars
<1>8. ChainIsWatched'
    BY <1>1 DEF SerialInv, ChainIsWatched, Reporting, apiVars
<1> QED
    BY <1>1, <1>6, <1>7, <1>8, SerialFrame

(***************************************************************************)
(* The jobs keep what they carry while the worker is not at "response",    *)
(* and no report is in flight.                                             *)
(***************************************************************************)
JobsKeepTheirData ==
    \A x \in Hashes :
        jobs'[x].data = jobs[x].data /\ (jobs[x].state = "none" => jobs'[x].state = "none")

\* What only a submission changes keeps the serial invariant.
LEMMA SerialSubmitting ==
    ASSUME SerialInv, AnswersInv', UNCHANGED <<rows, handler, producer, posted>>,
           JobsKeepTheirData, worker.at # "response", worker'.at # "response",
           ChainIsWatched'
    PROVE  SerialInv'
<1>1. posted = {}
    BY DEF SerialInv, PostedInv
<1>2. PostedInv'
    BY <1>1 DEF PostedInv
<1>3. SubmittedInv'
    <2>1. \A p \in Handlers : producer'[p].at # "idle" =>
              Stage(rows'[producer'[p].data.row]) = "PENDING_SENDER"
        BY DEF SerialInv, SubmittedInv, Submitted
    <2>2. \A x \in Hashes : jobs'[x].state # "none" =>
              Stage(rows'[jobs'[x].data.row]) = "PENDING_SENDER"
        BY DEF SerialInv, SubmittedInv, Submitted, JobsKeepTheirData
    <2> QED
        BY <2>1, <2>2 DEF SubmittedInv, Submitted
<1> QED
    BY <1>2, <1>3, SerialFrame DEF apiVars

\* A job that throws goes back or fails, with what it carries.
LEMMA ThrowKeepsData ==
    ASSUME SerialInv, worker.at # "idle", Throw(worker.hash)
    PROVE  JobsKeepTheirData /\ worker' = IdleWorker
<1>1. worker.hash \in Hashes /\ jobs[worker.hash].state = "active" /\ jobs \in [Hashes -> Job]
    BY SerialTypes
<1>2. \A x \in Hashes \ {worker.hash} : jobs'[x] = jobs[x]
    BY <1>1 DEF Throw
<1>3. jobs'[worker.hash].data = jobs[worker.hash].data
    BY <1>1 DEF Throw, Job
<1> QED
    BY <1>1, <1>2, <1>3 DEF JobsKeepTheirData, Throw

\* Bull takes, promotes and puts back jobs.
LEMMA SerialBull ==
    ASSUME SerialInv, AnswersInv', UNCHANGED apiVars,
           NEW x \in Hashes, Take(x) \/ Promote(x) \/ Stalled(x)
    PROVE  SerialInv'
<1>1. UNCHANGED <<producer, chain, posted>> /\ jobs \in [Hashes -> Job]
    BY SerialTypes DEF Take, Promote, Stalled
<1>2. /\ JobsKeepTheirData
      /\ \A y \in Hashes : jobs[y].state # "none" => jobs'[y].state # "none"
    BY <1>1 DEF Take, Promote, Stalled, JobsKeepTheirData, Job
<1>3. CASE Take(x)
    <2>1. worker.at = "idle" /\ worker'.at = "setup"
        BY <1>3 DEF Take
    <2>2. ChainIsWatched'
        BY <1>1, <2>1 DEF SerialInv, ChainIsWatched, Reporting, apiVars
    <2> QED
        BY <1>1, <1>2, <2>1, <2>2, SerialSubmitting DEF apiVars
<1>4. CASE Promote(x) \/ Stalled(x)
    <2>1. UNCHANGED worker
        BY <1>4 DEF Promote, Stalled
    <2>2. PostedInv'
        <3>1. worker.at # "idle" => worker.hash \in Hashes
            BY SerialTypes
        <3> QED
            BY <1>1, <1>2, <2>1, <3>1 DEF SerialInv, PostedInv, JobsKeepTheirData
    <2>3. SubmittedInv'
        BY <1>1, <1>2, <2>1 DEF SerialInv, SubmittedInv, Submitted, JobsKeepTheirData, apiVars
    <2>4. ChainIsWatched'
        BY <1>1, <2>1 DEF SerialInv, ChainIsWatched, Reporting, apiVars
    <2> QED
        BY <1>1, <2>2, <2>3, <2>4, SerialFrame
<1> QED
    BY <1>3, <1>4

\* The chain settles what the worker waits for.
LEMMA SerialChain ==
    ASSUME SerialInv, AnswersInv', UNCHANGED apiVars,
           NEW x \in Hashes, Settle(x) \/ SqueezeOut(x)
    PROVE  SerialInv'
<1>1. UNCHANGED <<jobs, producer, worker, posted>> /\ chain[x] = "pooled"
    BY DEF Settle, SqueezeOut
<1>2. \E result \in {"included", "reverted", "unknown"} : chain' = [chain EXCEPT ![x] = result]
    BY DEF Settle, SqueezeOut
<1>3. PostedInv' /\ SubmittedInv'
    BY <1>1 DEF SerialInv, PostedInv, SubmittedInv, Submitted, apiVars
<1>4. ChainIsWatched'
    <2>1. Reporting(x)
        BY <1>1 DEF SerialInv, ChainIsWatched, Reporting
    <2>2. \A y \in Hashes \ {x} : chain'[y] = chain[y]
        BY <1>2, SerialTypes
    <2>3. chain'[x] # "pooled"
        BY <1>2, SerialTypes
    <2> QED
        BY <1>1, <2>1, <2>2, <2>3 DEF SerialInv, ChainIsWatched, Reporting, apiVars
<1> QED
    BY <1>1, <1>3, <1>4, SerialFrame

(***************************************************************************)
(* An attempt gives up, or goes on to report a failure: the chain has not  *)
(* included what the worker was submitting.                                *)
(***************************************************************************)
LEMMA SerialCatch ==
    ASSUME SerialInv, AnswersInv', UNCHANGED <<rows, handler, producer, chain, posted>>,
           worker.at \in {"setup", "send", "wait"},
           worker.at = "wait" => chain[worker.hash] \in {"reverted", "unknown"},
           \/ Throw(worker.hash)
           \/ ReportOutcome("failed") /\ UNCHANGED jobs
    PROVE  SerialInv'
<1>1. JobsKeepTheirData /\ worker'.at # "response"
    <2>1. CASE Throw(worker.hash)
        BY <2>1, ThrowKeepsData DEF IdleWorker
    <2>2. CASE ReportOutcome("failed") /\ UNCHANGED jobs
        BY <2>2, SerialTypes DEF ReportOutcome, JobsKeepTheirData, Worker
    <2> QED
        BY <2>1, <2>2
<1>2. \A x \in Hashes : chain[x] # "pooled" /\ ~(chain[x] = "included" /\ Reporting(x))
    BY DEF SerialInv, ChainIsWatched, Reporting
<1>3. ChainIsWatched'
    BY <1>2 DEF SerialInv, ChainIsWatched
<1> QED
    BY <1>1, <1>3, SerialSubmitting

\* The worker submits, waits and reports; without faults that lose an answer.
LEMMA SerialAttempt ==
    ASSUME Serial, SerialInv, AnswersInv', UNCHANGED apiVars, Attempt
    PROVE  SerialInv'
<1> DEFINE x == worker.hash
<1>0. /\ worker \in Worker /\ jobs \in [Hashes -> Job] /\ chain \in [Hashes -> ChainStates]
      /\ worker.at # "idle" => x \in Hashes /\ jobs[x].state = "active"
    BY SerialTypes
<1>1. CASE SetupDone
    <2>1. JobsKeepTheirData /\ worker.at = "setup" /\ worker'.at = "send"
        BY <1>0, <1>1 DEF SetupDone, JobsKeepTheirData, Worker
    <2>2. ChainIsWatched'
        BY <1>1, <2>1 DEF SetupDone, SerialInv, ChainIsWatched, Reporting, apiVars
    <2> QED
        BY <1>1, <2>1, <2>2, SerialSubmitting DEF SetupDone, apiVars
<1>2. CASE SetupThrows
    BY <1>2, SerialCatch DEF SetupThrows, apiVars
<1>3. CASE SendAccepted
    <2>1. /\ JobsKeepTheirData /\ worker.at = "send" /\ worker'.at = "wait" /\ worker'.hash = x
          /\ chain'[x] = "pooled" /\ \A y \in Hashes \ {x} : chain'[y] = chain[y]
        BY <1>0, <1>3 DEF SendAccepted, JobsKeepTheirData, Worker
    <2>2. ChainIsWatched'
        BY <1>0, <2>1 DEF SerialInv, ChainIsWatched, Reporting, apiVars
    <2> QED
        BY <1>3, <2>1, <2>2, SerialSubmitting DEF SendAccepted, apiVars
<1>4. CASE \E retriable \in BOOLEAN : SendRefused(retriable)
    <2>1. PICK retriable \in BOOLEAN : SendRefused(retriable)
        BY <1>4
    <2> QED
        BY <2>1, SerialCatch DEF SendRefused, Catch, apiVars
<1>5. CASE \E retriable \in BOOLEAN : WaitThrows(retriable)
    <2>1. PICK retriable \in BOOLEAN : WaitThrows(retriable)
        BY <1>5
    <2>2. chain[x] \in {"reverted", "unknown"}
        BY <2>1 DEF WaitThrows, Serial
    <2> QED
        BY <2>1, <2>2, SerialCatch DEF WaitThrows, Catch, apiVars
<1>6. CASE WaitDone
    <2>1. /\ JobsKeepTheirData /\ worker.at = "wait" /\ chain[x] = "included"
          /\ worker'.at = "report" /\ worker'.hash = x /\ worker'.outcome = "success"
        BY <1>0, <1>6 DEF WaitDone, ReportOutcome, JobsKeepTheirData, Worker
    <2>2. ChainIsWatched'
        BY <1>6, <2>1 DEF WaitDone, SerialInv, ChainIsWatched, Reporting, apiVars
    <2> QED
        BY <1>6, <2>1, <2>2, SerialSubmitting DEF WaitDone, apiVars
<1>7. CASE PostResult
    <2> DEFINE m == [data |-> jobs[x].data, outcome |-> worker.outcome]
    <2>1. /\ worker.at = "report" /\ worker'.at = "response" /\ worker'.hash = x
          /\ worker'.outcome = worker.outcome /\ UNCHANGED <<jobs, producer, chain>>
          /\ posted' = posted \cup {m}
        BY <1>0, <1>7 DEF PostResult, Worker
    <2>2. posted = {}
        BY <2>1 DEF SerialInv, PostedInv
    <2>3. PostedInv'
        BY <2>1, <2>2 DEF PostedInv
    <2>4. SubmittedInv'
        BY <2>1 DEF SerialInv, SubmittedInv, Submitted, apiVars
    <2>5. ChainIsWatched'
        BY <2>1 DEF SerialInv, ChainIsWatched, Reporting, apiVars
    <2> QED
        BY <2>1, <2>3, <2>4, <2>5, SerialFrame
<1>8. CASE Complete
    <2> DEFINE m == [data |-> jobs[x].data, outcome |-> worker.outcome]
    <2>1. /\ worker.at = "response" /\ m \notin posted
          /\ jobs' = [jobs EXCEPT ![x] = NoJob]
          /\ worker'.at = "idle" /\ UNCHANGED <<producer, chain, posted>>
        BY <1>8 DEF Complete, Serial, IdleWorker
    <2>2. posted = {}
        BY <2>1 DEF SerialInv, PostedInv
    <2>3. /\ x \in Hashes /\ jobs[x].data.row \in Rows /\ RowHash[jobs[x].data.row] = x
          /\ worker.outcome = "success" => Stage(rows[jobs[x].data.row]) = "SUCCESS"
        BY <1>0, <2>1, <2>2, SerialTypes DEF SerialInv, SubmittedInv
    <2>4. jobs'[x].state = "none" /\ \A y \in Hashes \ {x} : jobs'[y] = jobs[y]
        BY <1>0, <2>1, <2>3 DEF NoJob
    <2>5. PostedInv'
        BY <2>1, <2>2 DEF PostedInv
    <2>6. SubmittedInv'
        BY <2>1, <2>4 DEF SerialInv, SubmittedInv, Submitted, apiVars
    <2>7. ChainIsWatched'
        <3>1. \A y \in Hashes : chain[y] = "included" =>
                  \E r \in Rows : RowHash[r] = y /\ Stage(rows[r]) = "SUCCESS"
            BY <2>1, <2>3 DEF SerialInv, ChainIsWatched, Reporting
        <3> QED
            BY <2>1, <3>1 DEF SerialInv, ChainIsWatched, apiVars
    <2> QED
        BY <2>1, <2>5, <2>6, <2>7, SerialFrame
<1>9. ~PostFails /\ \A retriable \in BOOLEAN : ~SendUnanswered(retriable)
    BY DEF PostFails, SendUnanswered, Serial
<1> QED
    BY <1>1, <1>2, <1>3, <1>4, <1>5, <1>6, <1>7, <1>8, <1>9 DEF Attempt

\* Every step of the serial system keeps the invariant.
LEMMA SerialNext ==
    ASSUME Serial, SerialInv, [Next]_vars
    PROVE  SerialInv'
<1>0. AnswersInv'
    BY AnswersNextInv DEF SerialInv
<1>1. CASE \E h \in Handlers : ClientStep(h) \/ HandlerStep(h) \/ HandlerAborts(h)
    BY <1>0, <1>1, SerialClient, SerialHandler DEF HandlerAborts, Serial
<1>2. CASE \E r \in Rows : Close(r)
    BY <1>2 DEF Close, Serial
<1>3. CASE NotifyStep
    BY <1>0, <1>3, SerialNotify
<1>4. CASE QueueStep /\ UNCHANGED apiVars
    <2>1. CASE \E p \in Producers : Enqueue(p) \/ EnqueueFails(p)
        BY <1>0, <1>4, <2>1, SystemAssumption, SerialEnqueue
    <2>2. CASE \E x \in Hashes : Take(x) \/ Promote(x) \/ Stalled(x)
        BY <1>0, <1>4, <2>2, SerialBull
    <2>3. CASE \E x \in Hashes : Settle(x) \/ SqueezeOut(x)
        BY <1>0, <1>4, <2>3, SerialChain
    <2>4. CASE Attempt
        BY <1>0, <1>4, <2>4, SerialAttempt
    <2>5. CASE WorkerCrashes
        BY <2>5 DEF WorkerCrashes, Serial
    <2> QED
        BY <1>4, <2>1, <2>2, <2>3, <2>4, <2>5 DEF QueueStep
<1>5. CASE UNCHANGED vars
    BY <1>0, <1>5 DEF vars, SerialInv, RowsInv, OneLive, Ready, PostedInv, SubmittedInv,
       Submitted, ChainIsWatched, Reporting
<1> QED
    BY <1>1, <1>2, <1>3, <1>4, <1>5 DEF Next

-----------------------------------------------------------------------------
(***************************************************************************)
(* What TransactionLifecycle sees of the chain, and of the whole state.    *)
(***************************************************************************)
Settling(x) == IF chain[x] \in {"included", "reverted"} THEN chain[x] ELSE "no"

lifecycleView == <<[r \in Rows |-> Stage(rows[r])], [x \in Hashes |-> Settling(x)]>>

\* The empty table is where TransactionLifecycle starts.
LEMMA InitIsLifecycleInit == Init => Lifecycle!LifecycleInit
  BY DEF Init, QueueInit, NoRow, Lifecycle!LifecycleInit

\* One row moves, and the chain stays: a move of TransactionLifecycle.
LEMMA MoveIsLifecycleMove ==
    ASSUME NEW r \in Rows, NEW from, NEW to, UNCHANGED chain,
           Stage(rows[r]) = from, Stage(rows'[r]) = to,
           \A q \in Rows \ {r} : Stage(rows'[q]) = Stage(rows[q])
    PROVE  Lifecycle!Move(r, from, to)
<1>1. [q \in Rows |-> Stage(rows'[q])] = [[q \in Rows |-> Stage(rows[q])] EXCEPT ![r] = to]
    OBVIOUS
<1> QED
    BY <1>1 DEF Lifecycle!Move, Stage

\* What saves do to a row are the moves TransactionLifecycle allows.
LEMMA HandlerIsLifecycleStep ==
    ASSUME SerialInv, NEW h \in Handlers, HandlerStep(h)
    PROVE  Lifecycle!LifecycleNext \/ UNCHANGED lifecycleView
<1>0. PICK r, from, to :
          r = handler[h].row /\ from = Stage(rows[r]) /\ to = Stage(handler[h].entity)
    OBVIOUS
<1>1. /\ r \in Rows /\ Ready(h) /\ UNCHANGED chain
      /\ rows' = [rows EXCEPT ![r] = handler[h].entity]
      /\ \/ from = to
         \/ handler[h].op = "insert" /\ from = "NONE" /\ to = "AWAIT_REQUIREMENTS"
         \/ /\ from = "AWAIT_REQUIREMENTS"
            /\ to \in {"PENDING_SENDER", "DECLINED", "CANCELED", "DELETED"}
         \/ NotifySave(h) /\ from = "PENDING_SENDER" /\ to \in {"SUCCESS", "FAILED"}
    BY <1>0, HandlerEdge
<1>2. Stage(rows'[r]) = to /\ \A q \in Rows \ {r} : Stage(rows'[q]) = Stage(rows[q])
    BY <1>0, <1>1, SerialTypes
<1>3. CASE from = to
    <2>1. \A q \in Rows : Stage(rows'[q]) = Stage(rows[q])
        BY <1>0, <1>2, <1>3
    <2> QED
        BY <1>1, <2>1 DEF lifecycleView, Settling
<1>4. CASE handler[h].op = "insert" /\ from = "NONE" /\ to = "AWAIT_REQUIREMENTS"
    <2>1. \A q \in Rows : RowHash[q] = RowHash[r] => Stage(rows[q]) \notin LiveStages
        BY <1>0, <1>1, <1>4 DEF Ready
    <2>2. Lifecycle!Move(r, "NONE", "AWAIT_REQUIREMENTS")
        BY <1>0, <1>1, <1>2, <1>4, MoveIsLifecycleMove
    <2>3. Lifecycle!Create(r)
        BY <2>1, <2>2 DEF Lifecycle!Create, Lifecycle!Live, LiveStages, Stage
    <2> QED
        BY <1>1, <2>3 DEF Lifecycle!LifecycleNext
<1>5. CASE /\ from = "AWAIT_REQUIREMENTS"
           /\ to \in {"PENDING_SENDER", "DECLINED", "CANCELED", "DELETED"}
    <2>1. CASE to = "PENDING_SENDER"
        <3>1. Lifecycle!Move(r, "AWAIT_REQUIREMENTS", "PENDING_SENDER")
            BY <1>0, <1>1, <1>2, <1>5, <2>1, MoveIsLifecycleMove
        <3> QED
            BY <1>1, <3>1 DEF Lifecycle!Approve, Lifecycle!LifecycleNext
    <2>2. CASE to = "DECLINED"
        <3>1. Lifecycle!Move(r, "AWAIT_REQUIREMENTS", "DECLINED")
            BY <1>0, <1>1, <1>2, <1>5, <2>2, MoveIsLifecycleMove
        <3> QED
            BY <1>1, <3>1 DEF Lifecycle!Decline, Lifecycle!LifecycleNext
    <2>3. CASE to = "CANCELED"
        <3>1. Lifecycle!Move(r, "AWAIT_REQUIREMENTS", "CANCELED")
            BY <1>0, <1>1, <1>2, <1>5, <2>3, MoveIsLifecycleMove
        <3> QED
            BY <1>1, <3>1 DEF Lifecycle!Cancel, Lifecycle!LifecycleNext
    <2>4. CASE to = "DELETED"
        <3>1. Lifecycle!Move(r, "AWAIT_REQUIREMENTS", "DELETED")
            BY <1>0, <1>1, <1>2, <1>5, <2>4, MoveIsLifecycleMove
        <3> QED
            BY <1>1, <3>1 DEF Lifecycle!Delete, Lifecycle!LifecycleNext
    <2> QED
        BY <1>5, <2>1, <2>2, <2>3, <2>4
<1>6. CASE NotifySave(h) /\ from = "PENDING_SENDER" /\ to \in {"SUCCESS", "FAILED"}
    <2> DEFINE m == handler[h].message
    <2>1. /\ m \in posted /\ r = m.data.row
          /\ to = IF m.outcome = "success" THEN "SUCCESS" ELSE "FAILED"
        BY <1>0, <1>1, <1>6 DEF NotifySave, Ready
    <2>2. /\ m \in Message /\ worker.at = "response" /\ worker.outcome = m.outcome
          /\ worker.hash = RowHash[r] /\ RowHash[r] \in Hashes
        BY <2>1, PostedIsSubmitted
    <2>3. m.outcome = "success" => chain[RowHash[r]] = "included"
        BY <2>2, SerialTypes DEF QueueInv, WorkerTellsTheTruth
    <2>4. ASSUME m.outcome # "success" PROVE chain[RowHash[r]] # "included"
        <3>1. ~Reporting(RowHash[r])
            BY <2>2, <2>4 DEF Reporting
        <3>2. \A q \in Rows : RowHash[q] = RowHash[r] => Stage(rows[q]) # "SUCCESS"
            BY <1>0, <1>1, <1>6 DEF SerialInv, OneLive, LiveStages
        <3> QED
            BY <2>2, <3>1, <3>2 DEF SerialInv, ChainIsWatched
    <2> HIDE DEF m
    <2>5. CASE m.outcome = "success"
        <3>1. Lifecycle!Move(r, "PENDING_SENDER", "SUCCESS")
            BY <1>0, <1>1, <1>2, <1>6, <2>1, <2>5, MoveIsLifecycleMove
        <3>2. Lifecycle!Confirm(r)
            BY <2>2, <2>3, <2>5, <3>1 DEF Lifecycle!Confirm
        <3> QED
            BY <1>1, <3>2 DEF Lifecycle!LifecycleNext
    <2>6. CASE m.outcome # "success"
        <3>1. Lifecycle!Move(r, "PENDING_SENDER", "FAILED")
            BY <1>0, <1>1, <1>2, <1>6, <2>1, <2>6, MoveIsLifecycleMove
        <3>2. Lifecycle!Fail(r)
            BY <2>2, <2>4, <2>6, <3>1 DEF Lifecycle!Fail
        <3> QED
            BY <1>1, <3>2 DEF Lifecycle!LifecycleNext
    <2> QED
        BY <2>5, <2>6
<1> QED
    BY <1>1, <1>3, <1>4, <1>5, <1>6

\* Of what the queue, the worker and the chain do, only settling is seen.
LEMMA QueueIsLifecycleStep ==
    ASSUME Serial, SerialInv, QueueStep, UNCHANGED apiVars
    PROVE  Lifecycle!LifecycleNext \/ UNCHANGED lifecycleView
<1>1. CASE \E x \in Hashes : Settle(x)
    <2>1. PICK x \in Hashes : Settle(x)
        BY <1>1
    <2>2. worker.at = "wait" /\ worker.hash = x
        BY <2>1 DEF Settle, SerialInv, ChainIsWatched
    <2>3. /\ jobs[x].data.row \in Rows /\ RowHash[jobs[x].data.row] = x
          /\ Submitted(jobs[x].data.row)
        BY <2>2, SerialTypes DEF SerialInv, SubmittedInv
    <2>4. PICK result \in {"included", "reverted"} : chain' = [chain EXCEPT ![x] = result]
        BY <2>1 DEF Settle
    <2>5. /\ Settling(x) = "no"
          /\ [y \in Hashes |-> Settling(y)]' = [[y \in Hashes |-> Settling(y)] EXCEPT ![x] = result]
        BY <2>1, <2>4, SerialTypes DEF Settle, Settling
    <2>6. Lifecycle!Settle(x)
        BY <2>3, <2>5 DEF Lifecycle!Settle, Submitted, Stage, Settling, apiVars
    <2> QED
        BY <2>6 DEF Lifecycle!LifecycleNext
<1>2. ASSUME \A x \in Hashes : ~Settle(x) PROVE UNCHANGED lifecycleView
    <2>1. \/ UNCHANGED chain
          \/ \E x \in Hashes : /\ chain[x] \in {"unknown", "pooled"}
                               /\ \E state \in {"unknown", "pooled"} :
                                    chain' = [chain EXCEPT ![x] = state]
        <3>1. CASE \E p \in Producers : Enqueue(p) \/ EnqueueFails(p)
            BY <3>1 DEF Enqueue, GetJob, GetState, Remove, RemoveRefused, Add, EnqueueFails
        <3>2. CASE \E x \in Hashes : Take(x) \/ Promote(x) \/ Stalled(x) \/ SqueezeOut(x)
            BY <3>2 DEF Take, Promote, Stalled, SqueezeOut
        <3>3. CASE Attempt
            <4>1. ~PostFails /\ \A retriable \in BOOLEAN : ~SendUnanswered(retriable)
                BY DEF PostFails, SendUnanswered, Serial
            <4>2. worker.at # "idle" => worker.hash \in Hashes
                BY SerialTypes
            <4> QED
                BY <3>3, <4>1, <4>2 DEF Attempt, SetupDone, SetupThrows, SendAccepted, Acceptable,
                   SendRefused, WaitThrows, WaitDone, PostResult, Complete
        <3>4. CASE WorkerCrashes
            BY <3>4 DEF WorkerCrashes
        <3> QED
            BY <1>2, <3>1, <3>2, <3>3, <3>4 DEF QueueStep
    <2>2. \A y \in Hashes : Settling(y)' = Settling(y)
        <3> SUFFICES ASSUME NEW y \in Hashes PROVE Settling(y)' = Settling(y)
            OBVIOUS
        <3> QED
            BY <2>1, SerialTypes DEF Settling
    <2> QED
        BY <2>2 DEF lifecycleView, apiVars
<1> QED
    BY <1>1, <1>2

\* Every step of the serial system is a step of TransactionLifecycle, or is not seen.
LEMMA StepIsLifecycleStep ==
    ASSUME Serial, SerialInv, [Next]_vars
    PROVE  Lifecycle!LifecycleNext \/ UNCHANGED lifecycleView
<1>0. UNCHANGED <<rows, chain>> => UNCHANGED lifecycleView
    BY DEF lifecycleView, Settling
<1>1. AnswersInv'
    BY AnswersNextInv DEF SerialInv
<1>2. CASE \E h \in Handlers : ClientStep(h) \/ HandlerStep(h) \/ HandlerAborts(h)
    BY <1>0, <1>1, <1>2, SerialClient, HandlerIsLifecycleStep DEF HandlerAborts, Serial, queueVars
<1>3. CASE \E r \in Rows : Close(r)
    BY <1>3 DEF Close, Serial
<1>4. CASE NotifyStep
    BY <1>0, <1>1, <1>4, SerialNotify DEF queueVars
<1>5. CASE QueueStep /\ UNCHANGED apiVars
    BY <1>5, QueueIsLifecycleStep
<1>6. CASE UNCHANGED vars
    BY <1>0, <1>6 DEF vars
<1> QED
    BY <1>2, <1>3, <1>4, <1>5, <1>6 DEF Next

-----------------------------------------------------------------------------
(***************************************************************************)
(* An API that handles its requests one after the other keeps what it      *)
(* promises of a transaction: one live row for a hash, no submission       *)
(* without a quorum, an outcome that is the chain's, and no way back from  *)
(* it; for any vault, rows, hashes, answers and number of attempts.        *)
(***************************************************************************)
THEOREM SerialImplementsLifecycle == Serial /\ Spec => ImplementsLifecycle
<1>1. CASE Serial
    <2>1. SerialInv /\ [Next]_vars => SerialInv'
        BY <1>1, SerialNext
    <2>2. SerialInv /\ [Next]_vars => [Lifecycle!LifecycleNext]_(Lifecycle!lifecycleVars)
        <3>1. SerialInv /\ [Next]_vars => Lifecycle!LifecycleNext \/ UNCHANGED lifecycleView
            BY <1>1, StepIsLifecycleStep
        <3>2. UNCHANGED lifecycleView => UNCHANGED Lifecycle!lifecycleVars
            BY DEF lifecycleView, Settling, Stage, Lifecycle!lifecycleVars
        <3> QED
            BY <3>1, <3>2
    <2> QED
        BY <2>1, <2>2, SerialInit, InitIsLifecycleInit, PTL
           DEF Spec, ImplementsLifecycle, Lifecycle!LifecycleSpec
<1>2. CASE ~Serial
    BY <1>2, PTL
<1> QED
    BY <1>1, <1>2
=============================================================================
