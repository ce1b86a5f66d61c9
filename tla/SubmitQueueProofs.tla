------------------------- MODULE SubmitQueueProofs -------------------------
(***************************************************************************)
(* Proofs about SubmitQueue, for any hashes, payloads, producers, number   *)
(* of attempts and faults.                                                 *)
(***************************************************************************)
EXTENDS SubmitQueue, TLAPS

(***************************************************************************)
(* A job carries the hash of its id, and has an attempt left unless it has *)
(* failed.                                                                 *)
(***************************************************************************)
JobsAreTheirOwn ==
    \A h \in Hashes :
        jobs[h].state # "none" =>
            /\ jobs[h].data \in Payloads
            /\ HashOf[jobs[h].data] = h
            /\ jobs[h].state # "failed" => jobs[h].attempts < MaxAttempts

\* A producer inside enqueueTransactionSubmit has a payload.
ProducersCarryAPayload ==
    \A p \in Producers : producer[p].at # "idle" => producer[p].data \in Payloads

\* What the worker is about to report, or has reported, is true of the chain.
WorkerTellsTheTruth ==
    /\ worker.at \in {"report", "response"} => worker.outcome \in {"success", "failed"}
    /\ worker.outcome = "success" => /\ worker.at # "idle"
                                     /\ chain[worker.hash] = "included"

\* The inductive invariant.
QueueInv ==
    /\ QueueTypeOK
    /\ JobsAreTheirOwn
    /\ ProducersCarryAPayload
    /\ WorkerHoldsItsJob
    /\ WorkerTellsTheTruth
    /\ SuccessIsIncluded

-----------------------------------------------------------------------------
\* The empty queue satisfies the inductive invariant.
LEMMA QueueInitInv == QueueInit => QueueInv
<1> SUFFICES ASSUME QueueInit PROVE QueueInv
    OBVIOUS
<1> USE SubmitQueueAssumption DEF QueueInit
<1>1. QueueTypeOK
    BY DEF QueueTypeOK, Job, NoJob, JobStates, Producer, IdleProducer, ProducerSteps,
           Worker, IdleWorker, WorkerSteps, ChainStates, MaxStalledCount
<1>2. JobsAreTheirOwn
    BY DEF JobsAreTheirOwn, NoJob
<1>3. ProducersCarryAPayload
    BY DEF ProducersCarryAPayload, IdleProducer
<1>4. WorkerHoldsItsJob /\ WorkerTellsTheTruth
    BY DEF WorkerHoldsItsJob, WorkerTellsTheTruth, IdleWorker
<1>5. SuccessIsIncluded
    BY DEF SuccessIsIncluded
<1> QED
    BY <1>1, <1>2, <1>3, <1>4, <1>5 DEF QueueInv

(***************************************************************************)
(* What the API does to the queue outside enqueueTransactionSubmit: it     *)
(* starts to enqueue payloads, and takes notify-result requests away.      *)
(***************************************************************************)
LEMMA ApiStepInv ==
    ASSUME QueueInv,
           UNCHANGED <<jobs, worker, chain>>,
           posted' \subseteq posted,
           \/ UNCHANGED producer
           \/ \E p \in Producers, d \in Payloads : StartEnqueue(p, d)
    PROVE  QueueInv'
<1> USE DEF QueueInv
<1>1. /\ producer' \in [Producers -> Producer]
      /\ ProducersCarryAPayload'
    <2>1. CASE UNCHANGED producer
        BY <2>1 DEF QueueTypeOK, ProducersCarryAPayload
    <2>2. CASE \E p \in Producers, d \in Payloads : StartEnqueue(p, d)
        BY <2>2 DEF QueueTypeOK, ProducersCarryAPayload, StartEnqueue, Producer, ProducerSteps
    <2> QED
        BY <2>1, <2>2
<1>2. QueueTypeOK'
    BY <1>1 DEF QueueTypeOK
<1>3. JobsAreTheirOwn' /\ WorkerHoldsItsJob' /\ WorkerTellsTheTruth'
    BY DEF JobsAreTheirOwn, WorkerHoldsItsJob, WorkerTellsTheTruth
<1>4. SuccessIsIncluded'
    BY DEF SuccessIsIncluded
<1> QED
    BY <1>1, <1>2, <1>3, <1>4

-----------------------------------------------------------------------------
\* Every Redis call of enqueueTransactionSubmit, and its failure, keeps it.
LEMMA EnqueueInv ==
    ASSUME QueueInv, NEW p \in Producers, Enqueue(p) \/ EnqueueFails(p)
    PROVE  QueueInv'
<1> USE SubmitQueueAssumption DEF QueueInv
<1>1. UNCHANGED <<worker, chain, posted>>
    BY DEF Enqueue, GetJob, GetState, Remove, RemoveRefused, Add, EnqueueFails
<1>2. producer[p].data \in Payloads /\ JobId(p) \in Hashes
    <2>1. producer[p].at # "idle"
        BY DEF Enqueue, GetJob, GetState, Remove, RemoveRefused, Add, EnqueueFails
    <2> QED
        BY <2>1 DEF ProducersCarryAPayload, JobId
<1>3. /\ producer' \in [Producers -> Producer]
      /\ ProducersCarryAPayload'
    <2>1. \/ \E step \in {"getState", "remove", "add"} : Goto(p, step)
          \/ Leave(p)
        BY DEF Enqueue, GetJob, GetState, Remove, RemoveRefused, Add, EnqueueFails
    <2>2. CASE Leave(p)
        BY <2>2 DEF Leave, QueueTypeOK, ProducersCarryAPayload, Producer, IdleProducer,
                    ProducerSteps
    <2>3. CASE \E step \in {"getState", "remove", "add"} : Goto(p, step)
        BY <1>2, <2>3 DEF Goto, QueueTypeOK, ProducersCarryAPayload, Producer, ProducerSteps
    <2> QED
        BY <2>1, <2>2, <2>3
<1>4. \/ UNCHANGED jobs
      \/ ~Locked(JobId(p)) /\ jobs' = [jobs EXCEPT ![JobId(p)] = NoJob]
      \/ /\ jobs[JobId(p)].state = "none"
         /\ jobs' = [jobs EXCEPT ![JobId(p)] = NewJob(producer[p].data)]
    <2>1. CASE Remove(p)
        BY <2>1 DEF Remove
    <2>2. CASE Add(p)
        BY <1>2, <2>2 DEF Add, QueueTypeOK
    <2>3. CASE GetJob(p) \/ GetState(p) \/ RemoveRefused(p) \/ EnqueueFails(p)
        BY <2>3 DEF GetJob, GetState, RemoveRefused, EnqueueFails
    <2> QED
        BY <2>1, <2>2, <2>3 DEF Enqueue
<1>5. jobs' \in [Hashes -> Job]
    BY <1>2, <1>4 DEF QueueTypeOK, Job, NoJob, NewJob, JobStates, MaxStalledCount
<1>6. QueueTypeOK'
    BY <1>1, <1>3, <1>5 DEF QueueTypeOK
<1>7. JobsAreTheirOwn'
    BY <1>2, <1>4 DEF JobsAreTheirOwn, NoJob, NewJob, JobId, QueueTypeOK
<1>8. WorkerHoldsItsJob'
    BY <1>1, <1>2, <1>4 DEF WorkerHoldsItsJob, Locked, QueueTypeOK
<1>9. WorkerTellsTheTruth' /\ SuccessIsIncluded'
    BY <1>1 DEF WorkerTellsTheTruth, SuccessIsIncluded
<1> QED
    BY <1>3, <1>6, <1>7, <1>8, <1>9

(***************************************************************************)
(* The end of an attempt: the processor throws, or goes on to report.      *)
(***************************************************************************)
LEMMA ThrowInv ==
    ASSUME QueueInv, worker.at # "idle", Throw(worker.hash),
           UNCHANGED <<producer, posted>>,
           chain' \in [Hashes -> ChainStates],
           \A h \in Hashes : chain[h] = "included" => chain'[h] = "included"
    PROVE  QueueInv'
<1> USE SubmitQueueAssumption DEF QueueInv
<1> DEFINE h == worker.hash
<1>1. h \in Hashes /\ jobs[h].attempts < MaxAttempts /\ jobs[h] \in Job
    BY DEF WorkerHoldsItsJob, QueueTypeOK
<1>2. PICK n \in 0..MaxAttempts, state \in {"delayed", "failed"} :
          /\ jobs' = [jobs EXCEPT ![h] = [jobs[h] EXCEPT !.attempts = n, !.state = state]]
          /\ state # "failed" => n < MaxAttempts
    <2>1. jobs[h].attempts + 1 \in 0..MaxAttempts
        BY <1>1 DEF Job
    <2> QED
        BY <1>1, <2>1 DEF Throw, QueueTypeOK
<1> HIDE DEF h
<1>3. /\ jobs' \in [Hashes -> Job]
      /\ \A g \in Hashes \ {h} : jobs'[g] = jobs[g]
      /\ jobs'[h].data = jobs[h].data
      /\ jobs'[h].state # "failed" => jobs'[h].attempts < MaxAttempts
    <2>1. /\ [jobs[h] EXCEPT !.attempts = n, !.state = state] \in Job
          /\ [jobs[h] EXCEPT !.attempts = n, !.state = state].state = state
          /\ [jobs[h] EXCEPT !.attempts = n, !.state = state].attempts = n
          /\ [jobs[h] EXCEPT !.attempts = n, !.state = state].data = jobs[h].data
        BY <1>1 DEF Job, JobStates
    <2> QED
        BY <1>1, <1>2, <2>1 DEF QueueTypeOK
<1>4. QueueTypeOK'
    BY <1>3 DEF Throw, QueueTypeOK, IdleWorker, Worker, WorkerSteps
<1>5. JobsAreTheirOwn'
    <2>1. jobs[h].state # "none"
        BY DEF WorkerHoldsItsJob, h
    <2> QED
        BY <1>1, <1>3, <2>1 DEF JobsAreTheirOwn
<1>6. WorkerHoldsItsJob' /\ WorkerTellsTheTruth'
    BY DEF Throw, WorkerHoldsItsJob, WorkerTellsTheTruth, IdleWorker
<1>7. ProducersCarryAPayload' /\ SuccessIsIncluded'
    BY DEF ProducersCarryAPayload, SuccessIsIncluded, QueueTypeOK, Message
<1> QED
    BY <1>4, <1>5, <1>6, <1>7

\* A processor that has an outcome, a true one if it is success, goes on to report.
LEMMA ReportInv ==
    ASSUME QueueInv, worker.at # "idle", UNCHANGED <<jobs, producer, posted>>,
           \/ ReportOutcome("failed")
           \/ ReportOutcome("success") /\ chain[worker.hash] = "included",
           chain' \in [Hashes -> ChainStates],
           \A h \in Hashes : chain[h] = "included" => chain'[h] = "included"
    PROVE  QueueInv'
<1> USE SubmitQueueAssumption DEF QueueInv
<1>1. /\ worker' \in Worker /\ worker'.at = "report" /\ worker'.hash = worker.hash
      /\ worker'.outcome \in {"success", "failed"}
      /\ worker'.outcome = "success" => chain[worker.hash] = "included"
    <2>1. PICK outcome \in {"success", "failed"} :
              /\ ReportOutcome(outcome)
              /\ outcome = "success" => chain[worker.hash] = "included"
        OBVIOUS
    <2>2. worker' = [at |-> "report", hash |-> worker.hash, outcome |-> outcome]
        BY <2>1 DEF ReportOutcome, QueueTypeOK, Worker
    <2> QED
        BY <2>1, <2>2 DEF QueueTypeOK, Worker, WorkerSteps
<1>2. QueueTypeOK'
    BY <1>1 DEF QueueTypeOK
<1>3. WorkerHoldsItsJob' /\ WorkerTellsTheTruth'
    BY <1>1 DEF WorkerHoldsItsJob, WorkerTellsTheTruth
<1>4. JobsAreTheirOwn' /\ ProducersCarryAPayload' /\ SuccessIsIncluded'
    BY DEF JobsAreTheirOwn, ProducersCarryAPayload, SuccessIsIncluded, QueueTypeOK, Message
<1> QED
    BY <1>2, <1>3, <1>4

\* The catch block of processSubmitTransaction, on either side of isTransientError.
LEMMA CatchInv ==
    ASSUME QueueInv, worker.at # "idle", NEW retriable \in BOOLEAN, Catch(retriable),
           UNCHANGED <<producer, posted>>,
           chain' \in [Hashes -> ChainStates],
           \A h \in Hashes : chain[h] = "included" => chain'[h] = "included"
    PROVE  QueueInv'
<1>1. CASE Throw(worker.hash)
    BY <1>1, ThrowInv
<1>2. CASE ReportOutcome("failed") /\ UNCHANGED jobs
    BY <1>2, ReportInv
<1> QED
    BY <1>1, <1>2 DEF Catch

(***************************************************************************)
(* The steps of an attempt.                                                *)
(***************************************************************************)
LEMMA AttemptInv == QueueInv /\ Attempt => QueueInv'
<1> SUFFICES ASSUME QueueInv, Attempt PROVE QueueInv'
    OBVIOUS
<1> USE SubmitQueueAssumption
<1>0. /\ worker.at # "idle"
      /\ worker.hash \in Hashes
      /\ worker \in Worker
      /\ chain \in [Hashes -> ChainStates]
      /\ jobs[worker.hash].data \in Payloads
      /\ HashOf[jobs[worker.hash].data] = worker.hash
    <2>1. worker.at # "idle"
        BY DEF Attempt, SetupDone, SetupThrows, SendAccepted, SendRefused, SendUnanswered,
               WaitThrows, WaitDone, PostResult, PostFails, Complete
    <2> QED
        BY <2>1 DEF QueueInv, WorkerHoldsItsJob, QueueTypeOK, JobsAreTheirOwn
<1>1. CASE SetupDone
    BY <1>0, <1>1 DEF SetupDone, QueueInv, QueueTypeOK, JobsAreTheirOwn,
       ProducersCarryAPayload, WorkerHoldsItsJob, WorkerTellsTheTruth, SuccessIsIncluded,
       Worker, WorkerSteps
<1>2. CASE SetupThrows
    BY <1>0, <1>2, ThrowInv DEF SetupThrows
<1>3. CASE SendAccepted
    <2>1. /\ worker' = [worker EXCEPT !.at = "wait"] /\ worker.at = "send"
          /\ chain[worker.hash] = "unknown"
          /\ chain' = [chain EXCEPT ![worker.hash] = "pooled"]
          /\ UNCHANGED <<jobs, producer, posted>>
        BY <1>3 DEF SendAccepted, Acceptable
    <2>2. /\ chain' \in [Hashes -> ChainStates]
          /\ \A h \in Hashes : chain[h] = "included" => chain'[h] = "included"
        BY <1>0, <2>1 DEF ChainStates
    <2>3. QueueTypeOK' /\ WorkerHoldsItsJob' /\ WorkerTellsTheTruth'
        BY <1>0, <2>1, <2>2 DEF QueueInv, QueueTypeOK, WorkerHoldsItsJob,
           WorkerTellsTheTruth, Worker, WorkerSteps
    <2>4. JobsAreTheirOwn' /\ ProducersCarryAPayload' /\ SuccessIsIncluded'
        BY <2>1, <2>2 DEF QueueInv, JobsAreTheirOwn, ProducersCarryAPayload,
           SuccessIsIncluded, QueueTypeOK, Message
    <2> QED
        BY <2>3, <2>4 DEF QueueInv
<1>4. CASE \E retriable \in BOOLEAN :
              SendRefused(retriable) \/ SendUnanswered(retriable) \/ WaitThrows(retriable)
    <2>1. PICK retriable \in BOOLEAN :
              SendRefused(retriable) \/ SendUnanswered(retriable) \/ WaitThrows(retriable)
        BY <1>4
    <2>2. Catch(retriable) /\ UNCHANGED <<producer, posted>>
        BY <2>1 DEF SendRefused, SendUnanswered, WaitThrows
    <2>3. \/ chain' = chain
          \/ /\ chain[worker.hash] = "unknown"
             /\ chain' = [chain EXCEPT ![worker.hash] = "pooled"]
        BY <2>1 DEF SendRefused, SendUnanswered, WaitThrows, Acceptable
    <2>4. /\ chain' \in [Hashes -> ChainStates]
          /\ \A h \in Hashes : chain[h] = "included" => chain'[h] = "included"
        BY <1>0, <2>3 DEF ChainStates
    <2> QED
        BY <1>0, <2>2, <2>4, CatchInv
<1>5. CASE WaitDone
    BY <1>0, <1>5, ReportInv DEF WaitDone
<1>6. CASE PostResult \/ PostFails
    <2>1. /\ worker' = [worker EXCEPT !.at = "response"]
          /\ worker.outcome \in {"success", "failed"}
          /\ UNCHANGED <<jobs, producer, chain>>
        BY <1>6 DEF PostResult, PostFails, QueueInv, WorkerTellsTheTruth
    <2>2. posted' \subseteq
              posted \cup {[data |-> jobs[worker.hash].data, outcome |-> worker.outcome]}
        BY <1>6 DEF PostResult, PostFails
    <2>3. QueueTypeOK' /\ SuccessIsIncluded'
        BY <1>0, <2>1, <2>2 DEF QueueInv, QueueTypeOK, SuccessIsIncluded,
           WorkerTellsTheTruth, Message, Worker, WorkerSteps
    <2>4. JobsAreTheirOwn' /\ ProducersCarryAPayload' /\ WorkerHoldsItsJob'
          /\ WorkerTellsTheTruth'
        BY <1>0, <2>1 DEF QueueInv, JobsAreTheirOwn, ProducersCarryAPayload,
           WorkerHoldsItsJob, WorkerTellsTheTruth, Worker
    <2> QED
        BY <2>3, <2>4 DEF QueueInv
<1>7. CASE Complete
    <2>1. /\ jobs' = [jobs EXCEPT ![worker.hash] = NoJob] /\ worker' = IdleWorker
          /\ UNCHANGED <<producer, chain, posted>>
        BY <1>7 DEF Complete
    <2>2. QueueTypeOK'
        BY <1>0, <2>1 DEF QueueInv, QueueTypeOK, Job, NoJob, JobStates, MaxStalledCount,
           IdleWorker, Worker, WorkerSteps
    <2>3. JobsAreTheirOwn'
        BY <1>0, <2>1 DEF QueueInv, QueueTypeOK, JobsAreTheirOwn, NoJob
    <2>4. ProducersCarryAPayload' /\ SuccessIsIncluded' /\ WorkerHoldsItsJob'
          /\ WorkerTellsTheTruth'
        BY <2>1 DEF QueueInv, ProducersCarryAPayload, SuccessIsIncluded,
           WorkerHoldsItsJob, WorkerTellsTheTruth, IdleWorker
    <2> QED
        BY <2>2, <2>3, <2>4 DEF QueueInv
<1> QED
    BY <1>1, <1>2, <1>3, <1>4, <1>5, <1>6, <1>7 DEF Attempt

-----------------------------------------------------------------------------
(***************************************************************************)
(* Bull and the chain.                                                     *)
(***************************************************************************)
LEMMA BullInv ==
    ASSUME QueueInv, NEW h \in Hashes,
           Take(h) \/ Promote(h) \/ Stalled(h) \/ WorkerCrashes
    PROVE  QueueInv'
<1> USE SubmitQueueAssumption DEF QueueInv
<1>1. UNCHANGED <<producer, chain, posted>>
    BY DEF Take, Promote, Stalled, WorkerCrashes
<1>2. \/ worker' = worker
      \/ worker' = IdleWorker
      \/ /\ worker' = [at |-> "setup", hash |-> h, outcome |-> Nil]
         /\ Take(h)
    BY DEF Take, Promote, Stalled, WorkerCrashes
<1>3. /\ jobs' \in [Hashes -> Job]
      /\ \A g \in Hashes \ {h} : jobs'[g] = jobs[g]
      /\ jobs'[h].data = jobs[h].data /\ jobs'[h].attempts = jobs[h].attempts
      /\ jobs'[h].state = "none" <=> jobs[h].state = "none"
      /\ jobs[h].state = "failed" => jobs'[h].state = "failed"
    BY DEF Take, Promote, Stalled, WorkerCrashes, QueueTypeOK, Job, JobStates, MaxStalledCount
<1>4. QueueTypeOK'
    BY <1>1, <1>2, <1>3 DEF QueueTypeOK, Worker, IdleWorker, WorkerSteps
<1>5. JobsAreTheirOwn'
    BY <1>3 DEF JobsAreTheirOwn
<1>6. WorkerHoldsItsJob'
    <2>1. CASE Take(h)
        BY <2>1 DEF Take, WorkerHoldsItsJob, JobsAreTheirOwn, QueueTypeOK
    <2>2. CASE Promote(h) \/ Stalled(h)
        BY <1>3, <2>2 DEF Promote, Stalled, Locked, WorkerHoldsItsJob, QueueTypeOK
    <2>3. CASE WorkerCrashes
        BY <2>3 DEF WorkerCrashes, WorkerHoldsItsJob, IdleWorker
    <2> QED
        BY <2>1, <2>2, <2>3
<1>7. WorkerTellsTheTruth'
    BY <1>1, <1>2 DEF WorkerTellsTheTruth, IdleWorker
<1>8. ProducersCarryAPayload' /\ SuccessIsIncluded'
    BY <1>1 DEF ProducersCarryAPayload, SuccessIsIncluded
<1> QED
    BY <1>4, <1>5, <1>6, <1>7, <1>8

\* The chain settles or drops a pooled transaction, and no included one.
LEMMA ChainInv ==
    ASSUME QueueInv, NEW h \in Hashes, Settle(h) \/ SqueezeOut(h)
    PROVE  QueueInv'
<1> USE SubmitQueueAssumption DEF QueueInv
<1>1. UNCHANGED <<jobs, producer, worker, posted>>
    BY DEF Settle, SqueezeOut
<1>2. /\ chain' \in [Hashes -> ChainStates]
      /\ \A g \in Hashes : chain[g] = "included" => chain'[g] = "included"
    BY DEF Settle, SqueezeOut, QueueTypeOK, ChainStates
<1>3. QueueTypeOK' /\ SuccessIsIncluded'
    BY <1>1, <1>2 DEF QueueTypeOK, SuccessIsIncluded, Message
<1>4. JobsAreTheirOwn' /\ ProducersCarryAPayload' /\ WorkerHoldsItsJob'
    BY <1>1 DEF JobsAreTheirOwn, ProducersCarryAPayload, WorkerHoldsItsJob
<1>5. WorkerTellsTheTruth'
    BY <1>1, <1>2 DEF WorkerTellsTheTruth, WorkerHoldsItsJob
<1> QED
    BY <1>3, <1>4, <1>5

\* Every step of the queue, the worker and the chain keeps the invariant.
LEMMA QueueStepInv == QueueInv /\ QueueStep => QueueInv'
<1> SUFFICES ASSUME QueueInv, QueueStep PROVE QueueInv'
    OBVIOUS
<1>1. CASE \E p \in Producers : Enqueue(p) \/ EnqueueFails(p)
    BY <1>1, EnqueueInv
<1>2. CASE \E h \in Hashes : Take(h) \/ Promote(h) \/ Stalled(h)
    BY <1>2, BullInv
<1>3. CASE \E h \in Hashes : Settle(h) \/ SqueezeOut(h)
    BY <1>3, ChainInv
<1>4. CASE Attempt
    BY <1>4, AttemptInv
<1>5. CASE WorkerCrashes
    <2>1. worker.hash \in Hashes
        BY <1>5 DEF WorkerCrashes, QueueInv, WorkerHoldsItsJob
    <2> QED
        BY <1>5, <2>1, BullInv
<1> QED
    BY <1>1, <1>2, <1>3, <1>4, <1>5 DEF QueueStep

\* So does every step of the queue with its environment, and stuttering.
LEMMA QueueNextInv == QueueInv /\ [QueueNext]_queueVars => QueueInv'
<1> SUFFICES ASSUME QueueInv, [QueueNext]_queueVars PROVE QueueInv'
    OBVIOUS
<1>1. CASE QueueStep
    BY <1>1, QueueStepInv
<1>2. CASE \E p \in Producers, d \in Payloads : RequestSubmit(p, d)
    BY <1>2, ApiStepInv DEF RequestSubmit
<1>3. CASE \E m \in posted : AnswerResult(m)
    BY <1>3, ApiStepInv DEF AnswerResult
<1>4. CASE UNCHANGED queueVars
    BY <1>4, ApiStepInv DEF queueVars
<1> QED
    BY <1>1, <1>2, <1>3, <1>4 DEF QueueNext

-----------------------------------------------------------------------------
\* Every reachable state of the queue satisfies the inductive invariant.
THEOREM QueueInvariant == QueueSpec => []QueueInv
<1> QED
    BY QueueInitInv, QueueNextInv, PTL DEF QueueSpec

(***************************************************************************)
(* The queue, the producers, the worker and the chain keep to their types: *)
(* in particular no job is attempted more than MaxAttempts times.          *)
(***************************************************************************)
THEOREM QueueTypeCorrect == QueueSpec => []QueueTypeOK
<1>1. QueueInv => QueueTypeOK
    BY DEF QueueInv
<1> QED
    BY <1>1, QueueInvariant, PTL

(***************************************************************************)
(* No producer and no stalled check takes its job away from the worker     *)
(* inside processSubmitTransaction.                                        *)
(***************************************************************************)
THEOREM WorkerAlwaysHoldsItsJob == QueueSpec => []WorkerHoldsItsJob
<1>1. QueueInv => WorkerHoldsItsJob
    BY DEF QueueInv
<1> QED
    BY <1>1, QueueInvariant, PTL

(***************************************************************************)
(* Under every fault, notify-result says "success" only of a transaction   *)
(* that the chain has included.                                            *)
(***************************************************************************)
THEOREM ReportedSuccessIsIncluded == QueueSpec => []SuccessIsIncluded
<1>1. QueueInv => SuccessIsIncluded
    BY DEF QueueInv
<1> QED
    BY <1>1, QueueInvariant, PTL

(***************************************************************************)
(* A job ends as failed without a report only for an error outside the try *)
(* block or a dead worker.                                                 *)
(***************************************************************************)
THEOREM CaughtErrorsAreAlwaysReported == QueueSpec => CaughtErrorsAreReported
<1>1. ASSUME QueueInv, [QueueNext]_queueVars, NEW h \in Hashes,
             jobs[h].state # "failed", jobs'[h].state = "failed",
             worker.at \notin {"setup", "idle"}, worker.hash = h
      PROVE  FALSE
    <2> USE SubmitQueueAssumption
    <2>1. jobs[h].state = "active" /\ jobs[h] \in Job
        BY <1>1 DEF QueueInv, WorkerHoldsItsJob, QueueTypeOK
    <2>2. \A retriable \in BOOLEAN : ~Catch(retriable)
        BY <1>1, <2>1 DEF Catch, Throw, QueueInv, QueueTypeOK, Job
    <2>3. CASE Attempt
        BY <1>1, <2>1, <2>2, <2>3 DEF Attempt, SetupDone, SetupThrows, SendAccepted,
           SendRefused, SendUnanswered, WaitThrows, WaitDone, PostResult, PostFails,
           Complete, NoJob, QueueInv, QueueTypeOK
    <2>4. CASE \E p \in Producers : Enqueue(p) \/ EnqueueFails(p)
        BY <1>1, <2>1, <2>4 DEF Enqueue, EnqueueFails, GetJob, GetState, Remove,
           RemoveRefused, Add, NoJob, NewJob, QueueInv, QueueTypeOK
    <2>5. CASE \E g \in Hashes : Take(g) \/ Promote(g) \/ Stalled(g) \/ Settle(g)
                                \/ SqueezeOut(g)
        BY <1>1, <2>1, <2>5 DEF Take, Promote, Stalled, Settle, SqueezeOut, Locked,
           QueueInv, QueueTypeOK, Job
    <2>6. jobs' # jobs
        BY <1>1
    <2> QED
        BY <1>1, <2>3, <2>4, <2>5, <2>6 DEF QueueNext, QueueStep, RequestSubmit,
           AnswerResult, WorkerCrashes, queueVars
<1>2. QueueInv /\ [QueueNext]_queueVars =>
          [\A h \in Hashes : jobs[h].state # "failed" /\ jobs'[h].state = "failed"
              => worker.at \in {"setup", "idle"} \/ worker.hash # h]_queueVars
    BY <1>1
<1> QED
    BY <1>2, QueueInvariant, PTL DEF QueueSpec, CaughtErrorsAreReported
=============================================================================
