------------------------- MODULE TransactionSystem -------------------------
(***************************************************************************)
(* The transactions of the API and their submission: the rows of the       *)
(* transactions table, the request handlers of TransactionController       *)
(* (packages/api/src/modules/transaction/controller.ts) that read a row,   *)
(* await, and save the entity they read, and the queue they enqueue into   *)
(* (SubmitQueue).                                                          *)
(*                                                                         *)
(* A handler is split where it awaits the database: its findOne and all it *)
(* computes from the result is one step, its save another.  save() writes  *)
(* every column of the entity that differs from the row, so it writes the  *)
(* entity over whatever the row has become.  Notifications and socket      *)
(* events leave this state alone and are left out.                         *)
(***************************************************************************)
EXTENDS TransactionStatus, SubmitQueue

CONSTANTS Rows,         \* the rows that may be created, each with a uuid
          RowHash,      \* RowHash[r]: the hash of row r
          Handlers,     \* the requests the API may be handling at a time
          Requests,     \* the kinds of request the clients send
          Answers,      \* the bodies of the sign requests
          Retries       \* may a member answer who has already answered?

RequestKinds == {"create", "sign", "cancel", "delete", "send", "close"}

(***************************************************************************)
(* The fat job: the row it reports to, and the members whose signature is  *)
(* in its copy of the resume.                                              *)
(***************************************************************************)
Payload == [row : Rows, signers : SUBSET Members]

ASSUME SystemAssumption ==
    /\ RowHash \in [Rows -> Hashes]
    /\ Requests \subseteq RequestKinds
    /\ Answers \subseteq [approve : BOOLEAN, signed : BOOLEAN]
    /\ Retries \in BOOLEAN
    /\ Nil \notin Rows
    /\ Producers = Handlers
    /\ Payloads = Payload
    /\ HashOf = [d \in Payload |-> RowHash[d.row]]
    /\ Sufficient = {d \in Payload : Cardinality(d.signers) >= Required}

VARIABLES rows,      \* rows[r]: the row r of the transactions table
          handler    \* handler[h]: the request a handler is in the middle of

apiVars == <<rows, handler>>
vars == <<rows, handler, jobs, producer, worker, chain, posted>>

Row == [status : Statuses, witnesses : Witnesses, deleted : BOOLEAN]
NoRow == [status |-> "NONE", witnesses |-> PendingWitnesses, deleted |-> FALSE]
NewRow == [NoRow EXCEPT !.status = "AWAIT_REQUIREMENTS"]

Operations == {"idle", "insert", "create", "sign", "cancel", "delete", "notify"}
Handler == [op : Operations, row : Rows \cup {Nil}, entity : Row,
            message : Message \cup {Nil}]
IdleHandler == [op |-> "idle", row |-> Nil, entity |-> NoRow, message |-> Nil]

TypeOK ==
    /\ rows \in [Rows -> Row]
    /\ handler \in [Handlers -> Handler]
    /\ QueueTypeOK

Init ==
    /\ rows = [r \in Rows |-> NoRow]
    /\ handler = [h \in Handlers |-> IdleHandler]
    /\ QueueInit

-----------------------------------------------------------------------------
\* A handler is busy with its own steps or inside enqueueTransactionSubmit.
Free(h) == handler[h].op = "idle" /\ producer[h].at = "idle"

Begin(h, op, r, entity) ==
    handler' = [handler EXCEPT ![h] =
                  [op |-> op, row |-> r, entity |-> entity, message |-> Nil]]

Finish(h) == handler' = [handler EXCEPT ![h] = IdleHandler]

\* What findOne can return: soft-deleted rows are filtered out.
Visible(r) == rows[r].status # "NONE" /\ ~rows[r].deleted

WriteBack(h) == rows' = [rows EXCEPT ![handler[h].row] = handler[h].entity]

\* The resume a fat job carries, taken from the entity in memory.
FatJob(r, entity) == [row |-> r, signers |-> Signers(entity.witnesses)]

-----------------------------------------------------------------------------
(***************************************************************************)
(* create: refused by returning the live row of the same hash; otherwise   *)
(* the row is inserted, and saved once more with its id in the resume.     *)
(***************************************************************************)
Settled == {"DECLINED", "FAILED", "CANCELED"}

CreateFind(h, r) ==
    /\ "create" \in Requests /\ Free(h)
    /\ rows[r].status = "NONE" /\ \A g \in Handlers : handler[g].row # r
    /\ \A q \in Rows : Visible(q) /\ RowHash[q] = RowHash[r] => rows[q].status \in Settled
    /\ Begin(h, "insert", r, NewRow)
    /\ UNCHANGED <<rows, queueVars>>

CreateInsert(h) ==
    /\ handler[h].op = "insert"
    /\ WriteBack(h)
    /\ handler' = [handler EXCEPT ![h].op = "create"]
    /\ UNCHANGED queueVars

(***************************************************************************)
(* signByID: any row of the hash that is not in a final status; the new    *)
(* witnesses and status are computed from the entity that was read.        *)
(***************************************************************************)
Signable(r) == Visible(r) /\ rows[r].status \notin Settled \cup {"SUCCESS"}

\* Without retries a member answers once: nothing recorded, nothing in flight.
MayAnswer(r, m) ==
    \/ Retries
    \/ /\ rows[r].witnesses[m].status = "PENDING"
       /\ \A g \in Handlers : handler[g].op = "sign" /\ handler[g].row = r
                                => handler[g].entity.witnesses[m].status = "PENDING"

SignedEntity(row, m, answer) ==
    LET witnesses == Answer(row.witnesses, m, answer)
    IN  [row EXCEPT !.witnesses = witnesses,
                    !.status = ValidateStatus(row.status, witnesses)]

SignFind(h, r, m, answer) ==
    /\ "sign" \in Requests /\ Free(h)
    /\ Signable(r) /\ MayAnswer(r, m)
    /\ Begin(h, "sign", r, SignedEntity(rows[r], m, answer))
    /\ UNCHANGED <<rows, queueVars>>

SignSave(h) ==
    /\ handler[h].op = "sign"
    /\ WriteBack(h) /\ Finish(h)
    /\ IF handler[h].entity.status = "PENDING_SENDER"
         THEN StartEnqueue(h, FatJob(handler[h].row, handler[h].entity))
         ELSE UNCHANGED producer
    /\ UNCHANGED <<jobs, worker, chain, posted>>

-----------------------------------------------------------------------------
\* Mutant: a transaction that is being sent can still be canceled.
CancelFindSending(h, r, m) ==
    /\ "cancel" \in Requests /\ Free(h)
    /\ Visible(r) /\ rows[r].status \in {"AWAIT_REQUIREMENTS", "PENDING_SENDER"}
    /\ Begin(h, "cancel", r, [rows[r] EXCEPT !.status = "CANCELED",
                                             !.witnesses = Withdraw(rows[r].witnesses, m)])
    /\ UNCHANGED <<rows, queueVars>>

\* cancel and deleteByHash: only a row that awaits its requirements.
CancelFind(h, r, m) ==
    /\ "cancel" \in Requests /\ Free(h)
    /\ Visible(r) /\ rows[r].status = "AWAIT_REQUIREMENTS"
    /\ Begin(h, "cancel", r, [rows[r] EXCEPT !.status = "CANCELED",
                                             !.witnesses = Withdraw(rows[r].witnesses, m)])
    /\ UNCHANGED <<rows, queueVars>>

DeleteFind(h, r) ==
    /\ "delete" \in Requests /\ Free(h)
    /\ Visible(r) /\ rows[r].status = "AWAIT_REQUIREMENTS"
    /\ Begin(h, "delete", r, [rows[r] EXCEPT !.deleted = TRUE])
    /\ UNCHANGED <<rows, queueVars>>

\* The save of create (the second one), cancel and deleteByHash.
Save(h) ==
    /\ handler[h].op \in {"create", "cancel", "delete"}
    /\ WriteBack(h) /\ Finish(h)
    /\ UNCHANGED queueVars

\* send: whatever the status of the row.
Send(h, r) ==
    /\ "send" \in Requests /\ Free(h)
    /\ Visible(r)
    /\ StartEnqueue(h, FatJob(r, rows[r]))
    /\ UNCHANGED <<rows, handler, jobs, worker, chain, posted>>

\* close: an UPDATE by id, whatever the status; its resume has no witnesses.
Close(r) ==
    /\ "close" \in Requests
    /\ rows[r].status # "NONE"
    /\ rows' = [rows EXCEPT ![r].status = "SUCCESS", ![r].witnesses = LostWitnesses]
    /\ UNCHANGED <<handler, queueVars>>

-----------------------------------------------------------------------------
(***************************************************************************)
(* notifyResult: the worker's report is written whatever the status of the *)
(* row.  The request has its answer when the handler has returned.         *)
(***************************************************************************)
ResultEntity(row, outcome) ==
    [row EXCEPT !.status = IF outcome = "success" THEN "SUCCESS" ELSE "FAILED"]

NotifyFind(h, m) ==
    /\ Free(h)
    /\ \A g \in Handlers : handler[g].message # m
    /\ Visible(m.data.row)
    /\ handler' = [handler EXCEPT ![h] =
                     [op |-> "notify", row |-> m.data.row,
                      entity |-> ResultEntity(rows[m.data.row], m.outcome),
                      message |-> m]]
    /\ UNCHANGED <<rows, queueVars>>

NotifyNothing(h, m) ==
    /\ Free(h)
    /\ \A g \in Handlers : handler[g].message # m
    /\ ~Visible(m.data.row)
    /\ posted' = posted \ {m}
    /\ UNCHANGED <<rows, handler, jobs, producer, worker, chain>>

NotifySave(h) ==
    /\ handler[h].op = "notify"
    /\ WriteBack(h) /\ Finish(h)
    /\ posted' = posted \ {handler[h].message}
    /\ UNCHANGED <<jobs, producer, worker, chain>>

\* The database throws, or the API stops, at an await of the handler.
HandlerAborts(h) ==
    /\ "abort" \in Faults
    /\ handler[h].op # "idle"
    /\ Finish(h)
    /\ posted' = posted \ {handler[h].message}
    /\ UNCHANGED <<rows, jobs, producer, worker, chain>>

-----------------------------------------------------------------------------
ClientStep(h) ==
    \E r \in Rows :
        \/ CreateFind(h, r)
        \/ \E m \in Members, answer \in Answers : SignFind(h, r, m, answer)
        \/ \E m \in Members : CancelFind(h, r, m)
        \/ DeleteFind(h, r)
        \/ Send(h, r)

HandlerStep(h) == CreateInsert(h) \/ SignSave(h) \/ Save(h) \/ NotifySave(h)

NotifyStep == \E h \in Handlers, m \in posted : NotifyFind(h, m) \/ NotifyNothing(h, m)

Next ==
    \/ \E h \in Handlers : ClientStep(h) \/ HandlerStep(h) \/ HandlerAborts(h)
    \/ \E r \in Rows : Close(r)
    \/ NotifyStep
    \/ QueueStep /\ UNCHANGED apiVars

(***************************************************************************)
(* A handler that has started runs on, a request that has arrived is       *)
(* handled, and the queue, the worker and the chain make progress.  Clients *)
(* send requests or not.                                                   *)
(***************************************************************************)
Fairness ==
    /\ QueueFairness
    /\ \A h \in Handlers : WF_vars(HandlerStep(h))
    /\ WF_vars(NotifyStep)

Spec == Init /\ [][Next]_vars
FairSpec == Spec /\ Fairness

-----------------------------------------------------------------------------
(***************************************************************************)
(* Properties.                                                             *)
(***************************************************************************)
(***************************************************************************)
(* A row says SUCCESS only if its transaction is on the chain, whatever    *)
(* requests, retries, stale saves and failures do.  The rows a client has  *)
(* closed itself, whose resume has lost its witnesses, are excepted.       *)
(***************************************************************************)
SuccessOnlyOnChain ==
    \A r \in Rows : rows[r].status = "SUCCESS" /\ rows[r].witnesses # LostWitnesses
                      => chain[RowHash[r]] = "included"

(***************************************************************************)
(* A row whose submission was retried says FAILED only if its transaction  *)
(* is not on the chain.  The design document answers a waitForResult that  *)
(* times out with "check on-chain before retrying"; the worker retries     *)
(* vault.send unchecked.                                                   *)
(***************************************************************************)
FailedNotOnChain ==
    \A r \in Rows : rows[r].status = "FAILED" /\ jobs[RowHash[r]].attempts > 0
                      => chain[RowHash[r]] # "included"

(***************************************************************************)
(* The status of a row is the one its own answers call for, although       *)
(* requests save over each other what they read before: a quorum is        *)
(* complete, no longer reachable, or not complete yet.                     *)
(***************************************************************************)
StatusMatchesAnswers ==
    \A r \in Rows :
        LET approvals == Cardinality(Answered(rows[r].witnesses, "DONE"))
            pending == Cardinality(Answered(rows[r].witnesses, "PENDING"))
        IN  /\ rows[r].status = "PENDING_SENDER" => approvals >= Required
            /\ rows[r].status = "DECLINED" => approvals + pending < Required
            /\ rows[r].status = "AWAIT_REQUIREMENTS" => approvals < Required

(***************************************************************************)
(* No answer of a member is taken back or changed by a request of signByID: *)
(* "verify whether the user has already signed / already rejected".        *)
(***************************************************************************)
AnswerIsFinal ==
    [][\A h \in Handlers, m \in Members :
         handler[h].op = "sign" /\ rows' # rows /\ handler'[h].op = "idle"
             => LET before == rows[handler[h].row].witnesses[m].status
                IN  before \in {"DONE", "REJECTED"}
                      => rows'[handler[h].row].witnesses[m].status = before]_vars

(***************************************************************************)
(* What signByID enqueues carries a quorum of accepted signatures, as long *)
(* as members sign what they approve: answers that overwrite each other in *)
(* the table, repeated answers and cancellations may lose a signature, but *)
(* never leave a DONE answer without one.                                  *)
(***************************************************************************)
SignEnqueuesQuorum ==
    [][\A h \in Handlers :
         handler[h].op = "sign" /\ producer'[h].at = "getJob"
             => producer'[h].data \in Sufficient]_vars

(***************************************************************************)
(* A complete quorum comes to an end: the row becomes SUCCESS or FAILED.   *)
(* The design document bounds it: about 30 minutes until terminal FAILED.  *)
(***************************************************************************)
PendingSenderSettles ==
    \A r \in Rows : rows[r].status = "PENDING_SENDER" ~> rows[r].status \in {"SUCCESS", "FAILED"}

(***************************************************************************)
(* A row whose own job is in the queue comes to an end, through retries,   *)
(* the worker's report and the handler of notifyResult.                    *)
(***************************************************************************)
SubmittedRowSettles ==
    \A r \in Rows :
        (\E h \in Hashes : jobs[h].state = "waiting" /\ jobs[h].data.row = r)
            ~> rows[r].status \in {"SUCCESS", "FAILED"}

Lifecycle == INSTANCE TransactionLifecycle WITH
    status <- [r \in Rows |-> IF rows[r].deleted THEN "DELETED" ELSE rows[r].status],
    settled <- [x \in Hashes |-> IF chain[x] \in {"included", "reverted"} THEN chain[x]
                                                                        ELSE "no"]

(***************************************************************************)
(* Requests handled one after the other implement TransactionLifecycle:    *)
(* one live row per hash, no submission without a quorum, statuses that    *)
(* agree with the chain, and no way back from a final status.              *)
(***************************************************************************)
ImplementsLifecycle == Lifecycle!LifecycleSpec
=============================================================================
