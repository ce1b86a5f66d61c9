----------------------------- MODULE BlockSync -----------------------------
(***************************************************************************)
(* How the worker reads the chain: the balance queue                       *)
(* (packages/worker/src/queues/predicateBalance), which reads every vault  *)
(* from the block that was recorded for it, and the user block sync        *)
(* (packages/worker/src/queues/userBlockSync), which reads the vaults of a *)
(* logged-in user from the user's own cursor and stores into the same      *)
(* collections.  A logout saves the cursor and cleans it up.               *)
(*                                                                         *)
(* Every queue runs one job at a time; the jobs of the three queues        *)
(* interleave at their awaits.  All the jobs of a queue for one vault (one *)
(* user) carry the same data and run one after the other, so one record    *)
(* stands for them.  A block holds at most one transaction of a vault.     *)
(* A job that throws is retried up to MaxAttempts times, one whose worker  *)
(* dies once.                                                              *)
(***************************************************************************)
EXTENDS Integers, FiniteSets, Sequences

CONSTANTS Predicates,      \* the vaults of the database that are followed
          OtherPredicates, \* how many more the database has
          UserPredicates,  \* the vaults of the user, in their order
          BlockRange,      \* BLOCK_RANGE_SIZE
          MaxBlocks,       \* MAX_BLOCKS_PER_USER
          MaxAttempts,     \* attempts of a job
          MaxHeight,       \* bound: the height of the chain
          MaxLogins,       \* bound: how often the user logs in
          MaxFailures      \* bound: how many calls fail and workers die

ASSUME BlockSyncAssumption ==
    /\ UserPredicates \in Seq(Predicates) /\ OtherPredicates \in Nat
    /\ BlockRange \in Nat \ {0} /\ MaxBlocks \in Nat /\ MaxAttempts \in Nat \ {0}
    /\ MaxHeight \in Nat /\ MaxLogins \in Nat /\ MaxFailures \in Nat

VARIABLES height,     \* the height of the chain
          touches,    \* touches[p]: the blocks with a transaction of p
          block,      \* predicate_blocks: the block recorded for p, 0 if none
          counts,     \* predicate_balance: how often the transaction of p in a block was stored
          userBlock,  \* the user's cursor in Redis, 0 if there is none
          loggedIn,   \* whether the user is in logged_users
          persisted,  \* user_block_control: the block saved at a logout
          balance,    \* balance[p]: the job of the balance queue for p
          sync,       \* the job of the user block sync
          logout,     \* the job of the logout queue
          logins,     \* logins so far
          failures,   \* failures so far
          excused     \* history: excused[p]: the blocks CountedOnce says nothing of

chainVars == <<height, touches>>
userVars == <<userBlock, loggedIn, persisted, logins>>
storeVars == <<block, counts, excused>>
syncVars == <<chainVars, userVars, storeVars, balance, sync, logout, failures>>

Heights == 0..MaxHeight

\* More than once is more than once.
Once(n) == IF n = 0 THEN 1 ELSE 2

Active == {"fetch", "record", "store", "tip", "persist", "save", "clean"}

NoRun == [at |-> "none", attempts |-> 0, stalled |-> FALSE, from |-> 0, next |-> 0, todo |-> {}]

NoSync == [at |-> "none", attempts |-> 0, stalled |-> FALSE, last |-> 0, tip |-> 0,
           from |-> 0, next |-> 0, todo |-> {}, processed |-> 0, reached |-> FALSE]

NoLogout == [at |-> "none", attempts |-> 0, stalled |-> FALSE, last |-> 0]

Run == [at : {"none", "waiting", "fetch", "record", "store"}, attempts : 0..(MaxAttempts - 1),
        stalled : BOOLEAN, from : Nat, next : Nat, todo : SUBSET Heights]

Sync == [at : {"none", "waiting", "tip", "fetch", "record", "store", "persist", "save"},
         attempts : 0..(MaxAttempts - 1), stalled : BOOLEAN, last : Nat, tip : Nat,
         from : Nat, next : Nat, todo : SUBSET Heights, processed : Nat, reached : BOOLEAN]

Logout == [at : {"none", "waiting", "clean"}, attempts : 0..(MaxAttempts - 1),
           stalled : BOOLEAN, last : Nat]

\* The chain begins with a block that touches every vault.
SyncInit ==
    /\ height = 0
    /\ touches = [p \in Predicates |-> {0}]
    /\ block = [p \in Predicates |-> 0]
    /\ counts = [p \in Predicates |-> [b \in Heights |-> 0]]
    /\ userBlock = 0
    /\ loggedIn = FALSE
    /\ persisted = 0
    /\ balance = [p \in Predicates |-> NoRun]
    /\ sync = NoSync
    /\ logout = NoLogout
    /\ logins = 0
    /\ failures = 0
    /\ excused = [p \in Predicates |-> {}]

Fails == failures < MaxFailures /\ failures' = failures + 1
Works == UNCHANGED failures

\* Mutant: one attempt too many.
ThrowOnceMore(job, none, again) ==
    IF job.attempts < MaxAttempts THEN [again EXCEPT !.attempts = job.attempts + 1] ELSE none

(***************************************************************************)
(* What Bull does with a job that throws, and with one whose worker died;  *)
(* again is the job as it waits for its next attempt.                      *)
(***************************************************************************)
Throw(job, none, again) ==
    IF job.attempts + 1 < MaxAttempts THEN [again EXCEPT !.attempts = job.attempts + 1] ELSE none

Stall(job, none, again) ==
    IF job.at \notin Active THEN job
    ELSE IF job.stalled THEN none ELSE [again EXCEPT !.stalled = TRUE]

AgainRun(r) == [NoRun EXCEPT !.at = "waiting", !.attempts = r.attempts, !.stalled = r.stalled]
AgainSync(s) == [NoSync EXCEPT !.at = "waiting", !.attempts = s.attempts, !.stalled = s.stalled]
AgainLogout(l) == [l EXCEPT !.at = "waiting"]

ThrowRun(p) == balance' = [balance EXCEPT ![p] = Throw(balance[p], NoRun, AgainRun(balance[p]))]
ThrowSync == sync' = Throw(sync, NoSync, AgainSync(sync))
ThrowLogout == logout' = Throw(logout, NoLogout, AgainLogout(logout))

SetRun(p, run) == balance' = [balance EXCEPT ![p] = run]
SetCount(p, b) == counts' = [counts EXCEPT ![p][b] = Once(counts[p][b])]

-----------------------------------------------------------------------------
(***************************************************************************)
(* The chain and its indexer: a query answers with the transactions from a *)
(* block up to another one, at most the tip.                               *)
(***************************************************************************)
ChainGrows(T) ==
    /\ height < MaxHeight
    /\ height' = height + 1
    /\ touches' = [p \in Predicates |-> IF p \in T THEN touches[p] \cup {height + 1}
                                                   ELSE touches[p]]
    /\ UNCHANGED <<storeVars, userVars, balance, sync, logout, failures>>

NextBlocks(from) == IF from > height THEN {from} ELSE (from + 1)..(height + 1)

Found(p, from, next) == {b \in touches[p] : from <= b /\ b < next}

-----------------------------------------------------------------------------
(***************************************************************************)
(* The balance queue.  The scheduler iterates over what the query returns, *)
(* and PsqlClient returns a single row as an object: one vault alone is    *)
(* never scheduled.                                                        *)
(***************************************************************************)
ScheduleBalance(p) ==
    /\ Cardinality(Predicates) + OtherPredicates # 1
    /\ balance[p].at = "none"
    /\ SetRun(p, AgainRun(NoRun))
    /\ UNCHANGED <<chainVars, userVars, storeVars, sync, logout, failures>>

TakeBalance(p) ==
    /\ balance[p].at = "waiting"
    /\ \A q \in Predicates : balance[q].at \notin Active
    /\ SetRun(p, [balance[p] EXCEPT !.at = "fetch", !.from = block[p]])
    /\ UNCHANGED <<chainVars, userVars, storeVars, sync, logout, failures>>

(***************************************************************************)
(* predicateTransactions does not look at the status of the answer: one    *)
(* that carries an error has no next_block, which is recorded as null, and *)
(* read as block 0.                                                        *)
(***************************************************************************)
FetchBalance(p) ==
    LET run == balance[p]
    IN  /\ run.at = "fetch"
        /\ \/ \E next \in NextBlocks(run.from) :
                /\ Works
                /\ SetRun(p, [run EXCEPT !.at = "record", !.from = 0, !.next = next,
                                         !.todo = Found(p, run.from, next)])
           \/ Fails /\ SetRun(p, [run EXCEPT !.at = "record", !.from = 0, !.next = 0])
           \/ Fails /\ ThrowRun(p)
        /\ UNCHANGED <<chainVars, userVars, storeVars, sync, logout>>

\* Mutants: the last block that was read is recorded; nothing is recorded for an empty answer.
RecordedLast(p, next) == IF next = 0 THEN 0 ELSE next - 1
RecordedIfFound(p, next) == IF balance[p].todo = {} THEN block[p] ELSE next

RecordedBlock(p, next) == next

Excuse(p, S) == excused' = [excused EXCEPT ![p] = excused[p] \cup S]

\* syncPredicateBlock: a write that fails may have been applied.
RecordBalance(p) ==
    LET run == balance[p]
        recorded == [block EXCEPT ![p] = RecordedBlock(p, run.next)]
        again == IF recorded[p] < block[p] THEN Heights ELSE {}
    IN  /\ run.at = "record"
        /\ \/ Works /\ SetRun(p, [run EXCEPT !.at = "store", !.next = 0])
              /\ block' = recorded /\ Excuse(p, again)
           \/ Fails /\ ThrowRun(p)
              /\ block' = recorded /\ Excuse(p, again \cup run.todo)
           \/ Fails /\ ThrowRun(p) /\ UNCHANGED <<block, excused>>
        /\ UNCHANGED <<chainVars, userVars, counts, sync, logout>>

\* makeDeposits and syncAssets, then syncBalance: one insert after the other.
StoreBalance(p) ==
    LET run == balance[p]
    IN  /\ run.at = "store"
        /\ \/ \E b \in run.todo :
                /\ Works
                /\ \A other \in run.todo : b <= other
                /\ SetCount(p, b)
                /\ SetRun(p, [run EXCEPT !.todo = run.todo \ {b}])
                /\ UNCHANGED excused
           \/ run.todo = {} /\ Works /\ SetRun(p, NoRun) /\ UNCHANGED <<counts, excused>>
           \/ Fails /\ ThrowRun(p) /\ Excuse(p, run.todo) /\ UNCHANGED counts
        /\ UNCHANGED <<chainVars, userVars, block, sync, logout>>

-----------------------------------------------------------------------------
(***************************************************************************)
(* The user block sync.                                                    *)
(***************************************************************************)
GotoSync(s) == sync' = s

ScheduleSync ==
    /\ loggedIn /\ UserPredicates # <<>>
    /\ sync.at = "none"
    /\ GotoSync(AgainSync(NoSync))
    /\ UNCHANGED <<chainVars, userVars, storeVars, balance, logout, failures>>

TakeSync ==
    /\ sync.at = "waiting"
    /\ \/ /\ Works
          /\ GotoSync([sync EXCEPT !.at = "tip", !.last = userBlock, !.from = userBlock])
       \/ Fails /\ ThrowSync
    /\ UNCHANGED <<chainVars, userVars, storeVars, balance, logout>>

(***************************************************************************)
(* The loops over the vaults of the user and over the blocks: the blocks   *)
(* processed and the tip reached are shared by the vaults, and only they   *)
(* end the loop of a vault, so that the vaults after the first are never   *)
(* read.                                                                   *)
(***************************************************************************)
Vault == UserPredicates[1]

Loop(s) ==
    IF s.processed >= MaxBlocks \/ s.reached \/ s.from >= s.tip
      THEN [NoSync EXCEPT !.at = "save", !.attempts = s.attempts, !.stalled = s.stalled,
                          !.last = s.last, !.processed = s.processed]
      ELSE [s EXCEPT !.at = "fetch"]

\* getCurrentBlockHeight, and what the job goes on with if it fails.
ReadTip ==
    /\ sync.at = "tip"
    /\ \/ Works /\ GotoSync(Loop([sync EXCEPT !.tip = height]))
       \/ Fails /\ GotoSync(Loop([sync EXCEPT !.tip = sync.last + MaxBlocks]))
    /\ UNCHANGED <<chainVars, userVars, storeVars, balance, logout>>

\* A batch is done; one without data is taken for the end of the chain.
Advance(s, next, empty) ==
    Loop([s EXCEPT !.from = next, !.next = 0, !.processed = s.processed + BlockRange,
                   !.reached = next >= s.tip \/ empty])

\* Data may have no transaction in it, which is not taken for the end.
Answered(next, todo) ==
    \/ todo = {} /\ \E empty \in BOOLEAN : GotoSync(Advance(sync, next, empty))
    \/ /\ todo # {}
       /\ GotoSync([sync EXCEPT !.at = "record", !.from = 0, !.next = next, !.todo = todo])

FetchSync ==
    /\ sync.at = "fetch"
    /\ \/ \E next \in NextBlocks(sync.from) :
            Works /\ Answered(next, Found(Vault, sync.from, next))
       \/ Fails /\ GotoSync(Advance(sync, sync.from + BlockRange, TRUE))
       \/ Fails /\ ThrowSync
    /\ UNCHANGED <<chainVars, userVars, storeVars, balance, logout>>

RecordSync ==
    /\ sync.at = "record"
    /\ \/ /\ Works
          /\ block' = [block EXCEPT ![Vault] = sync.next]
          /\ Excuse(Vault, Heights)
          /\ GotoSync([sync EXCEPT !.at = "store"])
       \/ /\ Fails
          /\ block' \in {block, [block EXCEPT ![Vault] = sync.next]}
          /\ Excuse(Vault, IF block' = block THEN {} ELSE Heights)
          /\ ThrowSync
    /\ UNCHANGED <<chainVars, userVars, counts, balance, logout>>

StoreSync ==
    /\ sync.at = "store"
    /\ \/ \E b \in sync.todo :
            /\ Works
            /\ \A other \in sync.todo : b <= other
            /\ SetCount(Vault, b)
            /\ GotoSync([sync EXCEPT !.todo = sync.todo \ {b}])
       \/ sync.todo = {} /\ Works /\ GotoSync([sync EXCEPT !.at = "persist"]) /\ UNCHANGED counts
       \/ Fails /\ ThrowSync /\ UNCHANGED counts
    /\ UNCHANGED <<chainVars, userVars, block, excused, balance, logout>>

(***************************************************************************)
(* persistDepositsToDatabase: depositExists takes the empty array for a    *)
(* row, so it never creates one; what is left is that its queries may      *)
(* throw, after the balances have been stored.                             *)
(***************************************************************************)
PersistDeposits ==
    /\ sync.at = "persist"
    /\ \/ Works /\ GotoSync(Advance(sync, sync.next, FALSE))
       \/ Fails /\ ThrowSync
    /\ UNCHANGED <<chainVars, userVars, storeVars, balance, logout>>

\* Mutant: the cursor is set to what the run has processed.
SaveCursorOfRun ==
    /\ sync.at = "save"
    /\ \/ Works /\ userBlock' = sync.processed /\ GotoSync(NoSync)
       \/ Fails /\ ThrowSync /\ UNCHANGED userBlock
    /\ UNCHANGED <<chainVars, loggedIn, persisted, logins, storeVars, balance, logout>>

SaveCursor ==
    /\ sync.at = "save"
    /\ \/ Works /\ userBlock' = sync.last + sync.processed /\ GotoSync(NoSync)
       \/ Fails /\ ThrowSync /\ UNCHANGED userBlock
    /\ UNCHANGED <<chainVars, loggedIn, persisted, logins, storeVars, balance, logout>>

-----------------------------------------------------------------------------
(***************************************************************************)
(* Login (registerLoggedUser) and logout (triggerLogoutSync, which the API *)
(* is to call, and the logout queue).                                      *)
(***************************************************************************)
Login ==
    /\ logins < MaxLogins
    /\ logins' = logins + 1
    /\ loggedIn' = TRUE
    /\ UNCHANGED <<chainVars, userBlock, persisted, storeVars, balance, sync, logout, failures>>

TriggerLogout ==
    /\ loggedIn
    /\ logout.at = "none"
    /\ logout' = [NoLogout EXCEPT !.at = "waiting", !.last = userBlock]
    /\ UNCHANGED <<chainVars, userVars, storeVars, balance, sync, failures>>

BlockToSave(last, now) == IF last > now THEN last ELSE now

(***************************************************************************)
(* The job reads the cursor and saves it; nothing else writes the saved    *)
(* block, so that the two are one step.  What was saved before is written  *)
(* over even when it is larger: a clean-up has deleted the cursor, and the *)
(* saved block is not read back at a login.                                *)
(***************************************************************************)
PersistBlock ==
    /\ logout.at = "waiting"
    /\ \/ /\ Works
          /\ persisted' = BlockToSave(logout.last, userBlock)
          /\ logout' = [logout EXCEPT !.at = "clean"]
       \/ Fails /\ ThrowLogout /\ UNCHANGED persisted
    /\ UNCHANGED <<chainVars, userBlock, loggedIn, logins, storeVars, balance, sync>>

\* cleanupUserBlockSyncData: the deletes are sent together; if one fails the others are done.
CleanUp ==
    /\ logout.at = "clean"
    /\ \/ Works /\ loggedIn' = FALSE /\ userBlock' = 0 /\ logout' = NoLogout
       \/ /\ Fails /\ ThrowLogout
          /\ loggedIn' \in {FALSE, loggedIn}
          /\ userBlock' \in {0, userBlock}
    /\ UNCHANGED <<chainVars, persisted, logins, storeVars, balance, sync>>

-----------------------------------------------------------------------------
\* The worker process dies.
Crash ==
    /\ Fails
    /\ balance' = [p \in Predicates |-> Stall(balance[p], NoRun, AgainRun(balance[p]))]
    /\ sync' = Stall(sync, NoSync, AgainSync(sync))
    /\ logout' = Stall(logout, NoLogout, AgainLogout(logout))
    /\ excused' = [p \in Predicates |-> IF balance[p].at = "store"
                                          THEN excused[p] \cup balance[p].todo ELSE excused[p]]
    /\ UNCHANGED <<chainVars, userVars, block, counts>>

BalanceStep(p) == FetchBalance(p) \/ RecordBalance(p) \/ StoreBalance(p)

SyncStep ==
    \/ ReadTip \/ FetchSync \/ RecordSync \/ StoreSync \/ PersistDeposits \/ SaveCursor

LogoutStep == PersistBlock \/ CleanUp

SyncNext ==
    \/ \E T \in SUBSET Predicates : ChainGrows(T)
    \/ \E p \in Predicates : ScheduleBalance(p) \/ TakeBalance(p) \/ BalanceStep(p)
    \/ ScheduleSync \/ TakeSync \/ SyncStep
    \/ Login \/ TriggerLogout \/ LogoutStep
    \/ Crash

SyncSpec == SyncInit /\ [][SyncNext]_syncVars

(***************************************************************************)
(* The schedulers run again and again, Bull gives every waiting job its    *)
(* turn, and a job that runs goes on.                                      *)
(***************************************************************************)
FairSyncSpec ==
    /\ SyncSpec
    /\ \A p \in Predicates :
         /\ WF_syncVars(ScheduleBalance(p))
         /\ SF_syncVars(TakeBalance(p))
         /\ WF_syncVars(BalanceStep(p))
    /\ WF_syncVars(TakeSync \/ SyncStep)

-----------------------------------------------------------------------------
(***************************************************************************)
(* Properties.                                                             *)
(***************************************************************************)
SyncTypeOK ==
    /\ height \in Heights
    /\ touches \in [Predicates -> SUBSET (0..height)]
    /\ block \in [Predicates -> Nat]
    /\ counts \in [Predicates -> [Heights -> 0..2]]
    /\ userBlock \in Nat /\ persisted \in Nat
    /\ loggedIn \in BOOLEAN
    /\ balance \in [Predicates -> Run]
    /\ sync \in Sync
    /\ logout \in Logout
    /\ logins \in 0..MaxLogins /\ failures \in 0..MaxFailures
    /\ excused \in [Predicates -> SUBSET Heights]

(***************************************************************************)
(* Whatever throws, dies or is retried, the balance queue stores every     *)
(* transaction below the recorded block exactly once, and none above it.   *)
(* Excused are those that a run had recorded when it failed, and any of a  *)
(* vault whose recorded block a user sync or an error answer has moved.    *)
(***************************************************************************)
CountedOnce ==
    \A p \in Predicates : \A b \in touches[p] \ excused[p] :
        counts[p][b] =
          IF b >= block[p] \/ (balance[p].at = "store" /\ b \in balance[p].todo) THEN 0 ELSE 1

(***************************************************************************)
(* The cursor of a user only moves forward ("Update last synced block"),   *)
(* whatever runs fail or are retried and however runs and logouts overlap, *)
(* until a logout cleans it up.                                            *)
(***************************************************************************)
CursorMovesForward ==
    [][userBlock' < userBlock => logout.at = "clean" /\ userBlock' = 0]_syncVars

(***************************************************************************)
(* Every vault is read up to the tip, whatever throws or dies, and however *)
(* the user sync moves the recorded block about, once the chain stops.     *)
(***************************************************************************)
EventuallyRead == \A p \in Predicates : <>[](block[p] > height)
=============================================================================
