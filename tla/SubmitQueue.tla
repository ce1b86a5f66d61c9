---------------------------- MODULE SubmitQueue ----------------------------
(***************************************************************************)
(* The submission of transactions: the Bull producer of the API            *)
(* (packages/api/src/utils/submitTransactionQueue.ts), the job of the      *)
(* queue, the single worker that processes it                              *)
(* (packages/worker/src/queues/submitTransaction/queue.ts), the chain it   *)
(* submits to, and the notify-result requests it posts back.               *)
(*                                                                         *)
(* Bull and the chain are external: a job is in one state, is unique for   *)
(* its id, and is locked while the worker processes it.  Time (backoff,    *)
(* lock expiry, polling) is left out: a delay may end at any moment.       *)
(***************************************************************************)
EXTENDS Naturals, FiniteSets

CONSTANTS Hashes,       \* the transaction hashes; the job id is tx_submit_<hash>
          Payloads,     \* the fat jobs the API may build
          HashOf,       \* HashOf[d]: the transaction hash a fat job carries
          Sufficient,   \* those whose signatures satisfy the vault's predicate
          Producers,    \* the API requests that may be enqueueing at a time
          MaxAttempts,  \* attempts of a job (120 in the code)
          Faults,       \* the failures the environment produces, see FaultKinds
          Nil           \* no hash, no payload, no outcome

(***************************************************************************)
(* "setup":   getChain or the building of the vault throws;                *)
(* "network": vault.send or waitForResult loses its answer;                *)
(* "late":    waitForResult does, as for "network", but vault.send does    *)
(*            not;                                                         *)
(* "squeeze": the node drops a transaction from its pool;                  *)
(* "notify":  the request to notify-result, or its response, is lost;      *)
(* "crash":   the worker process stops in the middle of a job;             *)
(* "redis":   a Redis call of the producer throws;                         *)
(* "abort":   a handler of the API stops at an await (TransactionSystem).  *)
(***************************************************************************)
FaultKinds == {"setup", "network", "late", "squeeze", "notify", "crash", "redis", "abort"}

ASSUME SubmitQueueAssumption ==
    /\ Sufficient \subseteq Payloads
    /\ HashOf \in [Payloads -> Hashes]
    /\ MaxAttempts \in Nat \ {0}
    /\ Faults \subseteq FaultKinds
    /\ Nil \notin Hashes /\ Nil \notin Payloads /\ Nil \notin {"success", "failed"}

VARIABLES jobs,      \* jobs[h]: the job with id tx_submit_h in Redis
          producer,  \* producer[p]: where request p is in enqueueTransactionSubmit
          worker,    \* where the worker is in processSubmitTransaction
          chain,     \* chain[h]: what the chain knows of the transaction h
          posted     \* notify-result requests that have no answer yet

queueVars == <<jobs, producer, worker, chain, posted>>

MaxStalledCount == 1   \* Bull's default

JobStates == {"none", "waiting", "active", "delayed", "failed"}
Job == [state : JobStates, attempts : 0..MaxAttempts, stalls : 0..MaxStalledCount,
        data : Payloads \cup {Nil}]
NoJob == [state |-> "none", attempts |-> 0, stalls |-> 0, data |-> Nil]
NewJob(d) == [state |-> "waiting", attempts |-> 0, stalls |-> 0, data |-> d]

ProducerSteps == {"idle", "getJob", "getState", "remove", "add"}
Producer == [at : ProducerSteps, data : Payloads \cup {Nil}]
IdleProducer == [at |-> "idle", data |-> Nil]

WorkerSteps == {"idle", "setup", "send", "wait", "report", "response"}
Worker == [at : WorkerSteps, hash : Hashes \cup {Nil},
           outcome : {"success", "failed", Nil}]
IdleWorker == [at |-> "idle", hash |-> Nil, outcome |-> Nil]

ChainStates == {"unknown", "pooled", "included", "reverted"}
Message == [data : Payloads, outcome : {"success", "failed"}]

QueueTypeOK ==
    /\ jobs \in [Hashes -> Job]
    /\ producer \in [Producers -> Producer]
    /\ worker \in Worker
    /\ chain \in [Hashes -> ChainStates]
    /\ posted \subseteq Message

QueueInit ==
    /\ jobs = [h \in Hashes |-> NoJob]
    /\ producer = [p \in Producers |-> IdleProducer]
    /\ worker = IdleWorker
    /\ chain = [h \in Hashes |-> "unknown"]
    /\ posted = {}

-----------------------------------------------------------------------------
(***************************************************************************)
(* enqueueTransactionSubmit: one action per Redis call.                    *)
(***************************************************************************)
StartEnqueue(p, d) ==
    producer' = [producer EXCEPT ![p] = [at |-> "getJob", data |-> d]]

\* jobIdForHash of the payload being enqueued.
JobId(p) == HashOf[producer[p].data]

\* The worker's lock on the job it is processing.
Locked(h) == worker.at # "idle" /\ worker.hash = h

Goto(p, step) == producer' = [producer EXCEPT ![p].at = step]
Leave(p) == producer' = [producer EXCEPT ![p] = IdleProducer]

GetJob(p) ==
    /\ producer[p].at = "getJob"
    /\ Goto(p, IF jobs[JobId(p)].state = "none" THEN "add" ELSE "getState")
    /\ UNCHANGED <<jobs, worker, chain, posted>>

GetState(p) ==
    /\ producer[p].at = "getState"
    /\ LET state == jobs[JobId(p)].state
       IN  \/ state = "failed" /\ Goto(p, "remove")
           \/ state \in {"active", "waiting", "delayed"} /\ Leave(p)
           \/ state = "none" /\ Goto(p, "add")
    /\ UNCHANGED <<jobs, worker, chain, posted>>

\* Mutant: a job is removed under the worker that processes it.
RemoveIgnoringLock(p) ==
    /\ producer[p].at = "remove"
    /\ jobs' = [jobs EXCEPT ![JobId(p)] = NoJob]
    /\ Goto(p, "add")
    /\ UNCHANGED <<worker, chain, posted>>

\* job.remove() takes whatever job has the id by now, unless it is locked.
Remove(p) ==
    /\ producer[p].at = "remove"
    /\ ~Locked(JobId(p))
    /\ jobs' = [jobs EXCEPT ![JobId(p)] = NoJob]
    /\ Goto(p, "add")
    /\ UNCHANGED <<worker, chain, posted>>

\* It throws on a locked job; the lock of a dead worker lasts for a while.
RemoveRefused(p) ==
    /\ producer[p].at = "remove"
    /\ jobs[JobId(p)].state = "active"
    /\ Leave(p)
    /\ UNCHANGED <<jobs, worker, chain, posted>>

\* Queue.add with an id that exists leaves that job alone.
Add(p) ==
    /\ producer[p].at = "add"
    /\ jobs' = [jobs EXCEPT ![JobId(p)] =
                   IF @.state = "none" THEN NewJob(producer[p].data) ELSE @]
    /\ Leave(p)
    /\ UNCHANGED <<worker, chain, posted>>

\* The catch of enqueueTransactionSubmit logs and swallows every error.
EnqueueFails(p) ==
    /\ "redis" \in Faults
    /\ producer[p].at # "idle"
    /\ Leave(p)
    /\ UNCHANGED <<jobs, worker, chain, posted>>

Enqueue(p) == GetJob(p) \/ GetState(p) \/ Remove(p) \/ RemoveRefused(p) \/ Add(p)

-----------------------------------------------------------------------------
(***************************************************************************)
(* processSubmitTransaction, one action per await.                         *)
(***************************************************************************)
Take(h) ==
    /\ worker.at = "idle"
    /\ jobs[h].state = "waiting"
    /\ jobs' = [jobs EXCEPT ![h].state = "active"]
    /\ worker' = [at |-> "setup", hash |-> h, outcome |-> Nil]
    /\ UNCHANGED <<producer, chain, posted>>

\* The backoff of a delayed job is over.
Promote(h) ==
    /\ jobs[h].state = "delayed"
    /\ jobs' = [jobs EXCEPT ![h].state = "waiting"]
    /\ UNCHANGED <<producer, worker, chain, posted>>

\* Mutants: an attempt that throws is not counted; one attempt too many.
ThrowUncounted(h) ==
    /\ jobs' = [jobs EXCEPT ![h].state = "delayed"]
    /\ worker' = IdleWorker

ThrowOnceMore(h) ==
    /\ jobs' = [jobs EXCEPT
                  ![h].attempts = jobs[h].attempts + 1,
                  ![h].state = IF jobs[h].attempts + 1 <= MaxAttempts THEN "delayed"
                                                                     ELSE "failed"]
    /\ worker' = IdleWorker

\* The processor throws: Bull counts the attempt and delays or fails the job.
Throw(h) ==
    /\ jobs' = [jobs EXCEPT
                  ![h].attempts = jobs[h].attempts + 1,
                  ![h].state = IF jobs[h].attempts + 1 < MaxAttempts THEN "delayed"
                                                                    ELSE "failed"]
    /\ worker' = IdleWorker

SetupDone ==
    /\ worker.at = "setup"
    /\ worker' = [worker EXCEPT !.at = "send"]
    /\ UNCHANGED <<jobs, producer, chain, posted>>

\* getChain, JSON.parse and new Vault are outside the try block.
SetupThrows ==
    /\ "setup" \in Faults
    /\ worker.at = "setup"
    /\ Throw(worker.hash)
    /\ UNCHANGED <<producer, chain, posted>>

ReportOutcome(outcome) == worker' = [worker EXCEPT !.at = "report", !.outcome = outcome]

\* Mutant: the last attempt is tested one too late.
CatchTooLate(retriable) ==
    IF retriable /\ jobs[worker.hash].attempts < MaxAttempts
      THEN Throw(worker.hash)
      ELSE ReportOutcome("failed") /\ UNCHANGED jobs

(***************************************************************************)
(* The catch block.  isTransientError looks for "502", "timeout", ... in   *)
(* the text of the message, so any error may fall on either side of it.    *)
(***************************************************************************)
Catch(retriable) ==
    LET isLastAttempt == jobs[worker.hash].attempts + 1 >= MaxAttempts
    IN  IF retriable /\ ~isLastAttempt
          THEN Throw(worker.hash)
          ELSE ReportOutcome("failed") /\ UNCHANGED jobs

Acceptable(h) == jobs[h].data \in Sufficient /\ chain[h] = "unknown"

\* Mutant: success is reported as soon as the node has accepted the transaction.
SendWithoutWaiting ==
    /\ worker.at = "send"
    /\ Acceptable(worker.hash)
    /\ chain' = [chain EXCEPT ![worker.hash] = "pooled"]
    /\ ReportOutcome("success")
    /\ UNCHANGED <<jobs, producer, posted>>

SendAccepted ==
    /\ worker.at = "send"
    /\ Acceptable(worker.hash)
    /\ chain' = [chain EXCEPT ![worker.hash] = "pooled"]
    /\ worker' = [worker EXCEPT !.at = "wait"]
    /\ UNCHANGED <<jobs, producer, posted>>

\* Too few valid signatures, or a transaction the chain already knows.
SendRefused(retriable) ==
    /\ worker.at = "send"
    /\ ~Acceptable(worker.hash)
    /\ Catch(retriable)
    /\ UNCHANGED <<producer, chain, posted>>

\* The node is not reached, or its answer is lost after it accepted.
SendUnanswered(retriable) ==
    /\ "network" \in Faults
    /\ worker.at = "send"
    /\ chain' \in {chain} \cup IF Acceptable(worker.hash)
                               THEN {[chain EXCEPT ![worker.hash] = "pooled"]} ELSE {}
    /\ Catch(retriable)
    /\ UNCHANGED <<producer, posted>>

WaitDone ==
    /\ worker.at = "wait"
    /\ chain[worker.hash] = "included"
    /\ ReportOutcome("success")
    /\ UNCHANGED <<jobs, producer, chain, posted>>

\* waitForResult throws: reverted, squeezed out, or no answer in time.
WaitThrows(retriable) ==
    /\ worker.at = "wait"
    /\ chain[worker.hash] \in {"reverted", "unknown"} \/ {"network", "late"} \cap Faults # {}
    /\ Catch(retriable)
    /\ UNCHANGED <<producer, chain, posted>>

\* notifyTransactionResult sends its request ...
PostResult ==
    /\ worker.at = "report"
    /\ posted' = posted \cup {[data |-> jobs[worker.hash].data, outcome |-> worker.outcome]}
    /\ worker' = [worker EXCEPT !.at = "response"]
    /\ UNCHANGED <<jobs, producer, chain>>

\* ... which may fail to reach the API; the error is swallowed.
PostFails ==
    /\ "notify" \in Faults
    /\ worker.at = "report"
    /\ worker' = [worker EXCEPT !.at = "response"]
    /\ UNCHANGED <<jobs, producer, chain, posted>>

\* The processor returns: removeOnComplete deletes the job.
Complete ==
    /\ worker.at = "response"
    /\ \/ [data |-> jobs[worker.hash].data, outcome |-> worker.outcome] \notin posted
       \/ "notify" \in Faults
    /\ jobs' = [jobs EXCEPT ![worker.hash] = NoJob]
    /\ worker' = IdleWorker
    /\ UNCHANGED <<producer, chain, posted>>

WorkerCrashes ==
    /\ "crash" \in Faults
    /\ worker.at # "idle"
    /\ worker' = IdleWorker
    /\ UNCHANGED <<jobs, producer, chain, posted>>

\* Bull finds an active job without a lock: back to waiting once, then failed.
Stalled(h) ==
    /\ jobs[h].state = "active" /\ ~Locked(h)
    /\ jobs' = IF jobs[h].stalls < MaxStalledCount
                 THEN [jobs EXCEPT ![h].state = "waiting", ![h].stalls = jobs[h].stalls + 1]
                 ELSE [jobs EXCEPT ![h].state = "failed"]
    /\ UNCHANGED <<producer, worker, chain, posted>>

-----------------------------------------------------------------------------
(***************************************************************************)
(* The chain: a pooled transaction is included or reverted, or squeezed    *)
(* out of the pool.                                                        *)
(***************************************************************************)
Settle(h) ==
    /\ chain[h] = "pooled"
    /\ \E result \in {"included", "reverted"} : chain' = [chain EXCEPT ![h] = result]
    /\ UNCHANGED <<jobs, producer, worker, posted>>

SqueezeOut(h) ==
    /\ "squeeze" \in Faults
    /\ chain[h] = "pooled"
    /\ chain' = [chain EXCEPT ![h] = "unknown"]
    /\ UNCHANGED <<jobs, producer, worker, posted>>

-----------------------------------------------------------------------------
Attempt ==
    \/ SetupDone \/ SetupThrows
    \/ SendAccepted
    \/ \E retriable \in BOOLEAN : \/ SendRefused(retriable)
                                  \/ SendUnanswered(retriable)
                                  \/ WaitThrows(retriable)
    \/ WaitDone
    \/ PostResult \/ PostFails
    \/ Complete

QueueStep ==
    \/ \E p \in Producers : Enqueue(p) \/ EnqueueFails(p)
    \/ \E h \in Hashes : \/ Take(h) \/ Promote(h) \/ Stalled(h)
                         \/ Settle(h) \/ SqueezeOut(h)
    \/ Attempt
    \/ WorkerCrashes

\* Environment of the queue on its own: a request enqueues, the API answers.
RequestSubmit(p, d) ==
    /\ producer[p].at = "idle"
    /\ StartEnqueue(p, d)
    /\ UNCHANGED <<jobs, worker, chain, posted>>

AnswerResult(m) ==
    /\ posted' = posted \ {m}
    /\ UNCHANGED <<jobs, producer, worker, chain>>

QueueNext ==
    \/ QueueStep
    \/ \E p \in Producers, d \in Payloads : RequestSubmit(p, d)
    \/ \E m \in posted : AnswerResult(m)

(***************************************************************************)
(* Bull keeps polling (Take, Promote, Stalled), a running processor keeps  *)
(* running, the chain decides, and the API answers what it received.       *)
(* Requests and faults happen or not.                                      *)
(***************************************************************************)
QueueFairness ==
    /\ \A h \in Hashes : WF_queueVars(Take(h)) /\ WF_queueVars(Promote(h))
                         /\ WF_queueVars(Stalled(h)) /\ WF_queueVars(Settle(h))
    /\ WF_queueVars(Attempt)
    /\ \A p \in Producers : WF_queueVars(Enqueue(p))

QueueSpec == QueueInit /\ [][QueueNext]_queueVars
FairQueueSpec == QueueSpec /\ QueueFairness /\ WF_queueVars(\E m \in posted : AnswerResult(m))

-----------------------------------------------------------------------------
(***************************************************************************)
(* Properties.                                                             *)
(***************************************************************************)
(***************************************************************************)
(* While the worker is inside processSubmitTransaction, the job it works   *)
(* on is there and is the active one, whatever producers and the stalled   *)
(* check do meanwhile: the second look-up of jobs in Catch and Complete is *)
(* of the job that was taken.                                              *)
(***************************************************************************)
WorkerHoldsItsJob ==
    worker.at # "idle" =>
        /\ worker.hash \in Hashes
        /\ jobs[worker.hash].state = "active"
        /\ jobs[worker.hash].data \in Payloads
        /\ jobs[worker.hash].attempts < MaxAttempts

(***************************************************************************)
(* Whatever fails, is retried or is restarted, a notify-result request     *)
(* saying "success" is only ever about a transaction the chain included.   *)
(***************************************************************************)
SuccessIsIncluded ==
    \A m \in posted : m.outcome = "success" => chain[HashOf[m.data]] = "included"

(***************************************************************************)
(* A job ends as "failed" in Bull, where nobody is notified, only when the *)
(* error was thrown outside the try block or the worker died twice: the    *)
(* isLastAttempt test of the worker and the attempts count of Bull agree.  *)
(***************************************************************************)
CaughtErrorsAreReported ==
    [][\A h \in Hashes : jobs[h].state # "failed" /\ jobs'[h].state = "failed"
                            => worker.at \in {"setup", "idle"} \/ worker.hash # h]_queueVars

(***************************************************************************)
(* No job stays in the queue for ever: under every fault, a waiting job is *)
(* completed (and removed) or ends as failed, although retries, crashes    *)
(* and stalls put it back.                                                 *)
(***************************************************************************)
EveryJobEnds ==
    \A h \in Hashes : jobs[h].state = "waiting" ~> jobs[h].state \in {"none", "failed"}
=============================================================================
