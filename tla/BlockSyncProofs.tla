--------------------------- MODULE BlockSyncProofs ---------------------------
(***************************************************************************)
(* Proofs about BlockSync, for any vaults, block range, budget of blocks   *)
(* and attempts, any chain and any number of logins and failures.          *)
(***************************************************************************)
EXTENDS BlockSync, SequenceTheorems, TLAPS

\* A sync that has begun has a vault.
VaultIsKnown == sync.at # "none" => UserPredicates # <<>>

\* The inductive invariant behind type correctness.
SyncTypeInv == SyncTypeOK /\ VaultIsKnown

-----------------------------------------------------------------------------
(***************************************************************************)
(* Types of the jobs.                                                      *)
(***************************************************************************)
\* The first vault of a user who has vaults is a vault.
LEMMA VaultType ==
    ASSUME UserPredicates # <<>>
    PROVE  Vault \in Predicates
BY BlockSyncAssumption DEF Vault

\* The numbers among the constants.
LEMMA BoundsType ==
    /\ BlockRange \in Nat \ {0} /\ MaxBlocks \in Nat /\ MaxAttempts \in Nat \ {0}
    /\ MaxHeight \in Nat /\ MaxLogins \in Nat /\ MaxFailures \in Nat
BY BlockSyncAssumption

\* No job is one that has not been attempted and not stalled.
LEMMA NoJobType ==
    /\ NoRun \in Run /\ NoRun.at = "none" /\ NoRun.todo = {}
    /\ NoSync \in Sync /\ NoSync.at = "none" /\ NoSync.todo = {}
    /\ NoLogout \in Logout /\ NoLogout.at = "none"
<1>1. 0 \in 0..(MaxAttempts - 1)
    BY BoundsType
<1>2. {} \in SUBSET Heights
    OBVIOUS
<1> QED
    BY <1>1, <1>2 DEF NoRun, NoSync, NoLogout, Run, Sync, Logout

\* A job that waits for its next attempt.
LEMMA AgainType ==
    /\ \A job \in Run : LET new == AgainRun(job)
                        IN  /\ new \in Run /\ new.at = "waiting" /\ new.todo = {}
                            /\ new.attempts = job.attempts /\ new.stalled = job.stalled
    /\ \A job \in Sync : LET new == AgainSync(job)
                         IN  /\ new \in Sync /\ new.at = "waiting" /\ new.todo = {}
                             /\ new.attempts = job.attempts /\ new.stalled = job.stalled
    /\ \A job \in Logout : LET new == AgainLogout(job)
                           IN  new \in Logout /\ new.at = "waiting" /\ new.last = job.last
<1>1. {} \in SUBSET Heights
    OBVIOUS
<1>2. ASSUME NEW job \in Run
      PROVE  LET new == AgainRun(job)
             IN  /\ new \in Run /\ new.at = "waiting" /\ new.todo = {}
                 /\ new.attempts = job.attempts /\ new.stalled = job.stalled
    BY <1>1 DEF AgainRun, NoRun, Run
<1>3. ASSUME NEW job \in Sync
      PROVE  LET new == AgainSync(job)
             IN  /\ new \in Sync /\ new.at = "waiting" /\ new.todo = {}
                 /\ new.attempts = job.attempts /\ new.stalled = job.stalled
    BY <1>1 DEF AgainSync, NoSync, Sync
<1>4. ASSUME NEW job \in Logout
      PROVE  LET new == AgainLogout(job)
             IN  new \in Logout /\ new.at = "waiting" /\ new.last = job.last
    BY DEF AgainLogout, Logout
<1> QED
    BY <1>2, <1>3, <1>4

\* A failed run of the balance queue is over or waits, and holds nothing.
LEMMA ThrowRunType ==
    ASSUME NEW job \in Run
    PROVE  LET new == Throw(job, NoRun, AgainRun(job))
           IN  new \in Run /\ new.at \in {"none", "waiting"} /\ new.todo = {}
<1> DEFINE again == AgainRun(job)
<1>1. again \in Run /\ again.at = "waiting" /\ again.todo = {}
    BY AgainType
<1>2. job.attempts + 1 < MaxAttempts => job.attempts + 1 \in 0..(MaxAttempts - 1)
    BY BoundsType DEF Run
<1> HIDE DEF again
<1>3. LET new == Throw(job, NoRun, again)
      IN  new \in Run /\ new.at \in {"none", "waiting"} /\ new.todo = {}
    BY <1>1, <1>2, NoJobType DEF Throw, Run
<1> QED
    BY <1>3 DEF again

\* So is one whose worker died, and one that was not running is what it was.
LEMMA StallRunType ==
    ASSUME NEW job \in Run
    PROVE  LET new == Stall(job, NoRun, AgainRun(job))
           IN  /\ new \in Run
               /\ new = job \/ (new.at \in {"none", "waiting"} /\ new.todo = {})
               /\ job.at \in {"fetch", "record", "store"} => new.at \in {"none", "waiting"}
<1> DEFINE again == AgainRun(job)
<1>1. again \in Run /\ again.at = "waiting" /\ again.todo = {}
    BY AgainType
<1> HIDE DEF again
<1>2. LET new == Stall(job, NoRun, again)
      IN  /\ new \in Run
          /\ new = job \/ (new.at \in {"none", "waiting"} /\ new.todo = {})
          /\ job.at \in {"fetch", "record", "store"} => new.at \in {"none", "waiting"}
    BY <1>1, NoJobType DEF Stall, Run, Active
<1> QED
    BY <1>2 DEF again

\* The same for the user sync.
LEMMA ThrowSyncType ==
    ASSUME NEW job \in Sync
    PROVE  LET new == Throw(job, NoSync, AgainSync(job))
           IN  new \in Sync /\ new.at \in {"none", "waiting"} /\ new.todo = {}
<1> DEFINE again == AgainSync(job)
<1>1. again \in Sync /\ again.at = "waiting" /\ again.todo = {}
    BY AgainType
<1>2. job.attempts + 1 < MaxAttempts => job.attempts + 1 \in 0..(MaxAttempts - 1)
    BY BoundsType DEF Sync
<1> HIDE DEF again
<1>3. LET new == Throw(job, NoSync, again)
      IN  new \in Sync /\ new.at \in {"none", "waiting"} /\ new.todo = {}
    BY <1>1, <1>2, NoJobType DEF Throw, Sync
<1> QED
    BY <1>3 DEF again

\* The same for the user sync whose worker died.
LEMMA StallSyncType ==
    ASSUME NEW job \in Sync
    PROVE  LET new == Stall(job, NoSync, AgainSync(job))
           IN  /\ new \in Sync
               /\ new = job \/ (new.at \in {"none", "waiting"} /\ new.todo = {})
               /\ new.at # "none" => job.at # "none"
               /\ new.at # "store"
<1> DEFINE again == AgainSync(job)
<1>1. again \in Sync /\ again.at = "waiting" /\ again.todo = {}
    BY AgainType
<1> HIDE DEF again
<1>2. LET new == Stall(job, NoSync, again)
      IN  /\ new \in Sync
          /\ new = job \/ (new.at \in {"none", "waiting"} /\ new.todo = {})
          /\ new.at # "none" => job.at # "none"
          /\ new.at # "store"
    BY <1>1, NoJobType DEF Stall, Sync, Active
<1> QED
    BY <1>2 DEF again

\* A failed logout is over, or waits with the block of its job.
LEMMA ThrowLogoutType ==
    ASSUME NEW job \in Logout
    PROVE  LET new == Throw(job, NoLogout, AgainLogout(job))
           IN  new \in Logout /\ new.at \in {"none", "waiting"}
<1> DEFINE again == AgainLogout(job)
<1>1. again \in Logout /\ again.at = "waiting"
    BY AgainType
<1>2. job.attempts + 1 < MaxAttempts => job.attempts + 1 \in 0..(MaxAttempts - 1)
    BY BoundsType DEF Logout
<1> HIDE DEF again
<1>3. LET new == Throw(job, NoLogout, again)
      IN  new \in Logout /\ new.at \in {"none", "waiting"}
    BY <1>1, <1>2, NoJobType DEF Throw, Logout
<1> QED
    BY <1>3 DEF again

\* So is one whose worker died.
LEMMA StallLogoutType ==
    ASSUME NEW job \in Logout
    PROVE  LET new == Stall(job, NoLogout, AgainLogout(job))
           IN  new \in Logout /\ (new = job \/ new.at \in {"none", "waiting"})
<1> DEFINE again == AgainLogout(job)
<1>1. again \in Logout /\ again.at = "waiting"
    BY AgainType
<1> HIDE DEF again
<1>2. LET new == Stall(job, NoLogout, again)
      IN  new \in Logout /\ (new = job \/ new.at \in {"none", "waiting"})
    BY <1>1, NoJobType DEF Stall, Logout, Active
<1> QED
    BY <1>2 DEF again

\* The loop of the sync asks the indexer again, or saves the cursor.
LEMMA LoopType ==
    ASSUME NEW s \in Sync
    PROVE  LET new == Loop(s)
           IN  /\ new \in Sync /\ new.last = s.last
               /\ new.at \in {"fetch", "save"}
               /\ new = [s EXCEPT !.at = "fetch"] \/ (new.at = "save" /\ new.todo = {})
BY BoundsType DEF Loop, NoSync, Sync

\* A batch is done.
LEMMA AdvanceType ==
    ASSUME NEW s \in Sync, NEW next \in Nat, NEW empty \in BOOLEAN
    PROVE  LET new == Advance(s, next, empty)
           IN  new \in Sync /\ new.last = s.last /\ new.at \in {"fetch", "save"}
<1> DEFINE t == [s EXCEPT !.from = next, !.next = 0, !.processed = s.processed + BlockRange,
                          !.reached = next >= s.tip \/ empty]
<1>1. /\ s.processed + BlockRange \in Nat
      /\ (next >= s.tip \/ empty) \in BOOLEAN
    BY BoundsType DEF Sync
<1>2. t \in Sync /\ t.last = s.last
    BY <1>1 DEF Sync
<1> QED
    BY <1>2, LoopType DEF Advance

\* Counting a failure.
LEMMA FailuresType ==
    ASSUME SyncTypeInv, Works \/ Fails
    PROVE  failures' \in 0..MaxFailures
<1>1. failures \in 0..MaxFailures /\ MaxFailures \in Nat
    BY BoundsType DEF SyncTypeInv, SyncTypeOK
<1> QED
    BY <1>1 DEF Works, Fails

\* The indexer answers up to a block, which is a number, and finds blocks of the chain.
LEMMA IndexerType ==
    ASSUME SyncTypeInv, NEW p \in Predicates, NEW from \in Nat, NEW next \in NextBlocks(from)
    PROVE  /\ next \in Nat /\ next >= from
           /\ next > from => next <= height + 1
           /\ Found(p, from, next) \subseteq touches[p]
           /\ Found(p, from, next) \subseteq Heights
<1>1. height \in Nat /\ MaxHeight \in Nat /\ height <= MaxHeight
    BY BoundsType DEF SyncTypeInv, SyncTypeOK, Heights
<1>2. touches[p] \subseteq 0..height
    BY DEF SyncTypeInv, SyncTypeOK
<1>3. next \in Nat /\ next >= from /\ (next > from => next <= height + 1)
    BY <1>1 DEF NextBlocks
<1>4. 0..height \subseteq Heights
    BY <1>1 DEF Heights
<1> QED
    BY <1>2, <1>3, <1>4 DEF Found

-----------------------------------------------------------------------------
(***************************************************************************)
(* Steps of the chain and of the balance queue keep the types.             *)
(***************************************************************************)
\* The chain grows.
LEMMA ChainGrowsType ==
    ASSUME SyncTypeInv, NEW T \in SUBSET Predicates, ChainGrows(T)
    PROVE  SyncTypeInv'
<1>1. height \in Nat /\ MaxHeight \in Nat /\ height' = height + 1 /\ height' \in Heights
    BY BoundsType DEF SyncTypeInv, SyncTypeOK, Heights, ChainGrows
<1>2. \A p \in Predicates : touches[p] \subseteq 0..height
    BY DEF SyncTypeInv, SyncTypeOK
<1>3. 0..height \subseteq 0..height' /\ height + 1 \in 0..height'
    BY <1>1
<1>4. touches' \in [Predicates -> SUBSET (0..height')]
    BY <1>2, <1>3 DEF ChainGrows
<1> QED
    BY <1>1, <1>4 DEF SyncTypeInv, SyncTypeOK, VaultIsKnown, ChainGrows, storeVars, userVars

\* A step that only changes a run, the stores of its vault and the failures.
LEMMA RunStepType ==
    ASSUME SyncTypeInv, NEW p \in Predicates, NEW run \in Run, SetRun(p, run),
           UNCHANGED <<chainVars, userVars, sync, logout>>,
           failures' \in 0..MaxFailures,
           block' \in [Predicates -> Nat], counts' \in [Predicates -> [Heights -> 0..2]],
           excused' \in [Predicates -> SUBSET Heights]
    PROVE  SyncTypeInv'
BY DEF SyncTypeInv, SyncTypeOK, VaultIsKnown, SetRun, chainVars, userVars

\* Storing the transaction of a block once more.
LEMMA SetCountType ==
    ASSUME SyncTypeInv, NEW p \in Predicates, NEW b \in Heights, SetCount(p, b)
    PROVE  /\ counts' \in [Predicates -> [Heights -> 0..2]]
           /\ counts'[p][b] = Once(counts[p][b])
           /\ \A q \in Predicates, c \in Heights :
                 q # p \/ c # b => counts'[q][c] = counts[q][c]
<1> DEFINE row == [counts[p] EXCEPT ![b] = Once(counts[p][b])]
<1>1. counts \in [Predicates -> [Heights -> 0..2]]
    BY DEF SyncTypeInv, SyncTypeOK
<1>2. Once(counts[p][b]) \in 0..2
    BY DEF Once
<1>3. /\ row \in [Heights -> 0..2]
      /\ row[b] = Once(counts[p][b])
      /\ \A c \in Heights : c # b => row[c] = counts[p][c]
    BY <1>1, <1>2
<1>4. counts' = [counts EXCEPT ![p] = row]
    BY DEF SetCount
<1> HIDE DEF row
<1> QED
    BY <1>1, <1>3, <1>4

\* Excusing blocks of the chain.
LEMMA ExcuseType ==
    ASSUME SyncTypeInv, NEW p \in Predicates, NEW S \in SUBSET Heights, Excuse(p, S)
    PROVE  /\ excused' \in [Predicates -> SUBSET Heights]
           /\ excused'[p] = excused[p] \cup S
           /\ \A q \in Predicates : q # p => excused'[q] = excused[q]
BY DEF SyncTypeInv, SyncTypeOK, Excuse

\* A job of the balance queue is scheduled or taken.
LEMMA TakeBalanceType ==
    ASSUME SyncTypeInv, NEW p \in Predicates, ScheduleBalance(p) \/ TakeBalance(p)
    PROVE  SyncTypeInv'
<1>1. balance[p] \in Run /\ block[p] \in Nat
    BY DEF SyncTypeInv, SyncTypeOK
<1>2. UNCHANGED <<chainVars, userVars, storeVars, sync, logout, failures>>
    BY DEF ScheduleBalance, TakeBalance
<1>3. /\ failures' \in 0..MaxFailures
      /\ block' \in [Predicates -> Nat] /\ counts' \in [Predicates -> [Heights -> 0..2]]
      /\ excused' \in [Predicates -> SUBSET Heights]
    BY <1>2 DEF SyncTypeInv, SyncTypeOK, storeVars
<1>4. CASE ScheduleBalance(p)
  <2>1. AgainRun(NoRun) \in Run
      BY NoJobType, AgainType
  <2> QED
      BY <1>2, <1>3, <1>4, <2>1, RunStepType DEF ScheduleBalance
<1>5. CASE TakeBalance(p)
  <2>1. [balance[p] EXCEPT !.at = "fetch", !.from = block[p]] \in Run
      BY <1>1 DEF Run
  <2> QED
      BY <1>2, <1>3, <1>5, <2>1, RunStepType DEF TakeBalance
<1> QED
    BY <1>4, <1>5

\* A run throws.
LEMMA ThrowRunStepType ==
    ASSUME SyncTypeInv, NEW p \in Predicates, ThrowRun(p)
    PROVE  \E run \in Run : /\ SetRun(p, run)
                            /\ run.at \in {"none", "waiting"} /\ run.todo = {}
<1> DEFINE new == Throw(balance[p], NoRun, AgainRun(balance[p]))
<1>1. new \in Run /\ new.at \in {"none", "waiting"} /\ new.todo = {}
    BY ThrowRunType DEF SyncTypeInv, SyncTypeOK
<1>2. SetRun(p, new)
    BY DEF ThrowRun, SetRun
<1> HIDE DEF new
<1> QED
    BY <1>1, <1>2

\* A run asks the indexer.
LEMMA FetchBalanceType ==
    ASSUME SyncTypeInv, NEW p \in Predicates, FetchBalance(p)
    PROVE  SyncTypeInv'
<1>1. balance[p] \in Run /\ balance[p].from \in Nat
    BY DEF SyncTypeInv, SyncTypeOK, Run
<1>2. UNCHANGED <<chainVars, userVars, storeVars, sync, logout>> /\ (Works \/ Fails)
    BY Zenon DEF FetchBalance
<1>3. /\ block' \in [Predicates -> Nat] /\ counts' \in [Predicates -> [Heights -> 0..2]]
      /\ excused' \in [Predicates -> SUBSET Heights]
    BY <1>2 DEF SyncTypeInv, SyncTypeOK, storeVars
<1>4. failures' \in 0..MaxFailures
    BY <1>2, FailuresType
<1>5. ASSUME NEW next \in NextBlocks(balance[p].from),
             SetRun(p, [balance[p] EXCEPT !.at = "record", !.from = 0, !.next = next,
                                          !.todo = Found(p, balance[p].from, next)])
      PROVE  SyncTypeInv'
  <2>1. next \in Nat /\ Found(p, balance[p].from, next) \in SUBSET Heights
      BY <1>1, IndexerType
  <2>2. [balance[p] EXCEPT !.at = "record", !.from = 0, !.next = next,
                           !.todo = Found(p, balance[p].from, next)] \in Run
      BY <1>1, <2>1 DEF Run
  <2> QED
      BY <1>2, <1>3, <1>4, <1>5, <2>2, RunStepType
<1>6. ASSUME SetRun(p, [balance[p] EXCEPT !.at = "record", !.from = 0, !.next = 0])
      PROVE  SyncTypeInv'
  <2>1. [balance[p] EXCEPT !.at = "record", !.from = 0, !.next = 0] \in Run
      BY <1>1 DEF Run
  <2> QED
      BY <1>2, <1>3, <1>4, <1>6, <2>1, RunStepType
<1>7. ASSUME ThrowRun(p)
      PROVE  SyncTypeInv'
    BY <1>2, <1>3, <1>4, <1>7, ThrowRunStepType, RunStepType
<1>8. \/ \E next \in NextBlocks(balance[p].from) :
           SetRun(p, [balance[p] EXCEPT !.at = "record", !.from = 0, !.next = next,
                                        !.todo = Found(p, balance[p].from, next)])
      \/ SetRun(p, [balance[p] EXCEPT !.at = "record", !.from = 0, !.next = 0])
      \/ ThrowRun(p)
    BY Zenon DEF FetchBalance
<1> QED
    BY <1>5, <1>6, <1>7, <1>8, Zenon

\* A run records its block.
LEMMA RecordBalanceType ==
    ASSUME SyncTypeInv, NEW p \in Predicates, RecordBalance(p)
    PROVE  SyncTypeInv'
<1> DEFINE recorded == [block EXCEPT ![p] = RecordedBlock(p, balance[p].next)]
           again == IF recorded[p] < block[p] THEN Heights ELSE {}
<1>1. /\ balance[p] \in Run /\ balance[p].todo \in SUBSET Heights
      /\ counts \in [Predicates -> [Heights -> 0..2]]
      /\ block \in [Predicates -> Nat] /\ excused \in [Predicates -> SUBSET Heights]
    BY DEF SyncTypeInv, SyncTypeOK, Run
<1>2. /\ UNCHANGED <<chainVars, userVars, sync, logout>> /\ (Works \/ Fails)
      /\ counts' = counts
    BY DEF RecordBalance
<1>3. failures' \in 0..MaxFailures
    BY <1>2, FailuresType
<1>4. recorded \in [Predicates -> Nat] /\ again \in SUBSET Heights
    BY <1>1 DEF RecordedBlock, Run
<1>5. CASE SetRun(p, [balance[p] EXCEPT !.at = "store", !.next = 0])
           /\ block' = recorded /\ Excuse(p, again)
  <2>1. [balance[p] EXCEPT !.at = "store", !.next = 0] \in Run
      BY <1>1 DEF Run
  <2>2. excused' \in [Predicates -> SUBSET Heights]
      BY <1>4, <1>5, ExcuseType
  <2> HIDE DEF recorded
  <2> QED
      BY <1>1, <1>2, <1>3, <1>4, <1>5, <2>1, <2>2, RunStepType
<1>6. CASE ThrowRun(p) /\ block' = recorded /\ Excuse(p, again \cup balance[p].todo)
  <2>1. again \cup balance[p].todo \in SUBSET Heights
      BY <1>1, <1>4
  <2>2. excused' \in [Predicates -> SUBSET Heights]
      BY <1>6, <2>1, ExcuseType
  <2> HIDE DEF recorded
  <2> QED
      BY <1>1, <1>2, <1>3, <1>4, <1>6, <2>2, ThrowRunStepType, RunStepType
<1>7. CASE ThrowRun(p) /\ UNCHANGED <<block, excused>>
    BY <1>1, <1>2, <1>3, <1>7, ThrowRunStepType, RunStepType
<1> QED
    BY <1>5, <1>6, <1>7 DEF RecordBalance

\* A run stores what it has found.
LEMMA StoreBalanceType ==
    ASSUME SyncTypeInv, NEW p \in Predicates, StoreBalance(p)
    PROVE  SyncTypeInv'
<1>1. /\ balance[p] \in Run /\ balance[p].todo \in SUBSET Heights
      /\ counts \in [Predicates -> [Heights -> 0..2]]
      /\ block \in [Predicates -> Nat] /\ excused \in [Predicates -> SUBSET Heights]
    BY DEF SyncTypeInv, SyncTypeOK, Run
<1>2. /\ UNCHANGED <<chainVars, userVars, sync, logout>> /\ (Works \/ Fails)
      /\ block' = block
    BY DEF StoreBalance
<1>3. failures' \in 0..MaxFailures
    BY <1>2, FailuresType
<1>4. ASSUME NEW b \in balance[p].todo, SetCount(p, b),
             SetRun(p, [balance[p] EXCEPT !.todo = balance[p].todo \ {b}]), excused' = excused
      PROVE  SyncTypeInv'
  <2>1. [balance[p] EXCEPT !.todo = balance[p].todo \ {b}] \in Run
      BY <1>1 DEF Run
  <2>2. counts' \in [Predicates -> [Heights -> 0..2]]
      BY <1>1, <1>4, SetCountType
  <2> QED
      BY <1>1, <1>2, <1>3, <1>4, <2>1, <2>2, RunStepType
<1>5. CASE SetRun(p, NoRun) /\ UNCHANGED <<counts, excused>>
    BY <1>1, <1>2, <1>3, <1>5, NoJobType, RunStepType
<1>6. CASE ThrowRun(p) /\ Excuse(p, balance[p].todo) /\ UNCHANGED counts
  <2>1. excused' \in [Predicates -> SUBSET Heights]
      BY <1>1, <1>6, ExcuseType
  <2> QED
      BY <1>1, <1>2, <1>3, <1>6, <2>1, ThrowRunStepType, RunStepType
<1> QED
    BY <1>4, <1>5, <1>6 DEF StoreBalance

-----------------------------------------------------------------------------
(***************************************************************************)
(* Steps of the user sync, of login and logout keep the types.             *)
(***************************************************************************)
\* A step that only changes the sync, the stores, the cursor and the failures.
LEMMA SyncStepType ==
    ASSUME SyncTypeInv, NEW s \in Sync, GotoSync(s),
           s.at # "none" => UserPredicates # <<>>,
           UNCHANGED <<chainVars, loggedIn, persisted, logins, balance, logout>>,
           userBlock' \in Nat, failures' \in 0..MaxFailures,
           block' \in [Predicates -> Nat], counts' \in [Predicates -> [Heights -> 0..2]],
           excused' \in [Predicates -> SUBSET Heights]
    PROVE  SyncTypeInv'
BY DEF SyncTypeInv, SyncTypeOK, VaultIsKnown, GotoSync, chainVars

\* One that does not change the stores and the cursor either.
LEMMA QuietSyncStepType ==
    ASSUME SyncTypeInv, NEW s \in Sync, GotoSync(s),
           s.at # "none" => UserPredicates # <<>>,
           UNCHANGED <<chainVars, userVars, storeVars, balance, logout>>,
           failures' \in 0..MaxFailures
    PROVE  SyncTypeInv'
<1>1. /\ userBlock' \in Nat
      /\ block' \in [Predicates -> Nat] /\ counts' \in [Predicates -> [Heights -> 0..2]]
      /\ excused' \in [Predicates -> SUBSET Heights]
    BY DEF SyncTypeInv, SyncTypeOK, storeVars, userVars
<1> QED
    BY <1>1, SyncStepType DEF userVars

\* The sync throws.
LEMMA ThrowSyncStepType ==
    ASSUME SyncTypeInv, ThrowSync
    PROVE  \E s \in Sync : GotoSync(s) /\ s.at \in {"none", "waiting"} /\ s.todo = {}
<1> DEFINE new == Throw(sync, NoSync, AgainSync(sync))
<1>1. new \in Sync /\ new.at \in {"none", "waiting"} /\ new.todo = {}
    BY ThrowSyncType DEF SyncTypeInv, SyncTypeOK
<1>2. GotoSync(new)
    BY DEF ThrowSync, GotoSync
<1> HIDE DEF new
<1> QED
    BY <1>1, <1>2

\* A sync is scheduled or taken.
LEMMA TakeSyncType ==
    ASSUME SyncTypeInv, ScheduleSync \/ TakeSync
    PROVE  SyncTypeInv'
<1>1. sync \in Sync /\ userBlock \in Nat /\ failures \in 0..MaxFailures /\ VaultIsKnown
    BY DEF SyncTypeInv, SyncTypeOK
<1>2. /\ UNCHANGED <<chainVars, userVars, storeVars, balance, logout>>
      /\ failures' \in 0..MaxFailures
  <2>1. /\ UNCHANGED <<chainVars, userVars, storeVars, balance, logout>>
        /\ Works \/ Fails
      BY Zenon DEF ScheduleSync, TakeSync, Works
  <2> QED
      BY <1>1, <2>1, FailuresType
<1>3. CASE ScheduleSync
  <2>1. AgainSync(NoSync) \in Sync /\ UserPredicates # <<>>
      BY <1>3, NoJobType, AgainType DEF ScheduleSync
  <2> QED
      BY <1>2, <1>3, <2>1, QuietSyncStepType DEF ScheduleSync
<1>4. CASE TakeSync
  <2>1. [sync EXCEPT !.at = "tip", !.last = userBlock, !.from = userBlock] \in Sync
      BY <1>1 DEF Sync
  <2>2. UserPredicates # <<>>
      BY <1>1, <1>4 DEF TakeSync, VaultIsKnown
  <2>3. CASE GotoSync([sync EXCEPT !.at = "tip", !.last = userBlock, !.from = userBlock])
      BY <1>2, <2>1, <2>2, <2>3, QuietSyncStepType
  <2>4. CASE ThrowSync
      BY <1>1, <1>2, <2>2, <2>4, ThrowSyncStepType, QuietSyncStepType
  <2> QED
      BY <1>4, <2>3, <2>4 DEF TakeSync
<1> QED
    BY <1>3, <1>4

\* A running sync has a vault.
LEMMA RunningSync ==
    ASSUME SyncTypeInv, sync.at # "none"
    PROVE  /\ sync \in Sync /\ UserPredicates # <<>> /\ Vault \in Predicates
           /\ userBlock \in Nat /\ height \in Nat
           /\ block \in [Predicates -> Nat] /\ counts \in [Predicates -> [Heights -> 0..2]]
           /\ excused \in [Predicates -> SUBSET Heights]
BY VaultType, BoundsType DEF SyncTypeInv, SyncTypeOK, VaultIsKnown, Heights

\* The sync reads the height of the chain.
LEMMA ReadTipType ==
    ASSUME SyncTypeInv, ReadTip
    PROVE  SyncTypeInv'
<1>1. sync.at # "none"
    BY DEF ReadTip
<1>2. /\ sync \in Sync /\ UserPredicates # <<>> /\ height \in Nat
      /\ sync.last + MaxBlocks \in Nat
    BY <1>1, RunningSync, BoundsType DEF Sync
<1>3. UNCHANGED <<chainVars, userVars, storeVars, balance, logout>> /\ (Works \/ Fails)
    BY DEF ReadTip
<1>4. failures' \in 0..MaxFailures
    BY <1>3, FailuresType
<1>5. ASSUME NEW tip \in Nat, GotoSync(Loop([sync EXCEPT !.tip = tip]))
      PROVE  SyncTypeInv'
  <2>1. [sync EXCEPT !.tip = tip] \in Sync
      BY <1>2 DEF Sync
  <2>2. Loop([sync EXCEPT !.tip = tip]) \in Sync
      BY <2>1, LoopType
  <2> QED
      BY <1>2, <1>3, <1>4, <1>5, <2>2, QuietSyncStepType
<1> QED
    BY <1>2, <1>5 DEF ReadTip

\* The sync asks the indexer.
LEMMA FetchSyncType ==
    ASSUME SyncTypeInv, FetchSync
    PROVE  SyncTypeInv'
<1>1. sync.at # "none"
    BY DEF FetchSync
<1>2. /\ sync \in Sync /\ UserPredicates # <<>> /\ Vault \in Predicates /\ sync.from \in Nat
      /\ sync.from + BlockRange \in Nat
    BY <1>1, RunningSync, BoundsType DEF Sync
<1>3. UNCHANGED <<chainVars, userVars, storeVars, balance, logout>> /\ (Works \/ Fails)
    BY DEF FetchSync
<1>4. failures' \in 0..MaxFailures
    BY <1>3, FailuresType
<1>5. ASSUME NEW next \in Nat, NEW todo \in SUBSET Heights, Answered(next, todo)
      PROVE  SyncTypeInv'
  <2> DEFINE record == [sync EXCEPT !.at = "record", !.from = 0, !.next = next, !.todo = todo]
  <2>1. record \in Sync
      BY <1>2 DEF Sync
  <2>2. \A empty \in BOOLEAN : Advance(sync, next, empty) \in Sync
      BY <1>2, AdvanceType
  <2>3. (\E empty \in BOOLEAN : GotoSync(Advance(sync, next, empty))) \/ GotoSync(record)
      BY <1>5 DEF Answered
  <2> HIDE DEF record
  <2> QED
      BY <1>2, <1>3, <1>4, <2>1, <2>2, <2>3, QuietSyncStepType
<1>6. ASSUME NEW next \in NextBlocks(sync.from),
             Answered(next, Found(Vault, sync.from, next))
      PROVE  SyncTypeInv'
  <2>1. next \in Nat /\ Found(Vault, sync.from, next) \in SUBSET Heights
      BY <1>2, IndexerType
  <2> QED
      BY <1>5, <1>6, <2>1
<1>7. ASSUME ThrowSync
      PROVE  SyncTypeInv'
    BY <1>2, <1>3, <1>4, <1>7, ThrowSyncStepType, QuietSyncStepType
<1>8. ASSUME GotoSync(Advance(sync, sync.from + BlockRange, TRUE))
      PROVE  SyncTypeInv'
  <2>1. Advance(sync, sync.from + BlockRange, TRUE) \in Sync
      BY <1>2, AdvanceType
  <2> QED
      BY <1>2, <1>3, <1>4, <1>8, <2>1, QuietSyncStepType
<1> QED
    BY <1>6, <1>7, <1>8 DEF FetchSync

\* The sync records its block.
LEMMA RecordSyncType ==
    ASSUME SyncTypeInv, RecordSync
    PROVE  SyncTypeInv'
<1>1. sync.at # "none"
    BY DEF RecordSync
<1>2. /\ sync \in Sync /\ UserPredicates # <<>> /\ Vault \in Predicates /\ sync.next \in Nat
      /\ userBlock \in Nat /\ block \in [Predicates -> Nat]
      /\ counts \in [Predicates -> [Heights -> 0..2]]
    BY <1>1, RunningSync DEF Sync
<1>3. /\ UNCHANGED <<chainVars, userVars, counts, balance, logout>> /\ (Works \/ Fails)
      /\ block' \in {block, [block EXCEPT ![Vault] = sync.next]}
      /\ \E S \in SUBSET Heights : Excuse(Vault, S)
      /\ GotoSync([sync EXCEPT !.at = "store"]) \/ ThrowSync
    BY DEF RecordSync
<1>4. /\ failures' \in 0..MaxFailures
      /\ excused' \in [Predicates -> SUBSET Heights]
      /\ block' \in [Predicates -> Nat]
    BY <1>2, <1>3, FailuresType, ExcuseType
<1>5. [sync EXCEPT !.at = "store"] \in Sync
    BY <1>2 DEF Sync
<1>6. \E s \in Sync : GotoSync(s)
    BY <1>3, <1>5, ThrowSyncStepType
<1> QED
    BY <1>2, <1>3, <1>4, <1>6, SyncStepType DEF userVars

\* The sync stores what it has found.
LEMMA StoreSyncType ==
    ASSUME SyncTypeInv, StoreSync
    PROVE  SyncTypeInv'
<1>1. sync.at # "none"
    BY DEF StoreSync
<1>2. /\ sync \in Sync /\ UserPredicates # <<>> /\ Vault \in Predicates
      /\ sync.todo \in SUBSET Heights
      /\ userBlock \in Nat /\ block \in [Predicates -> Nat]
      /\ counts \in [Predicates -> [Heights -> 0..2]]
      /\ excused \in [Predicates -> SUBSET Heights]
    BY <1>1, RunningSync DEF Sync
<1>3. /\ UNCHANGED <<chainVars, userVars, block, excused, balance, logout>> /\ (Works \/ Fails)
      /\ (\E b \in sync.todo : SetCount(Vault, b)) \/ counts' = counts
      /\ \/ \E b \in sync.todo : GotoSync([sync EXCEPT !.todo = sync.todo \ {b}])
         \/ GotoSync([sync EXCEPT !.at = "persist"])
         \/ ThrowSync
    BY Zenon DEF StoreSync
<1>4. failures' \in 0..MaxFailures
    BY <1>3, FailuresType
<1>5. counts' \in [Predicates -> [Heights -> 0..2]]
    BY <1>2, <1>3, SetCountType
<1>6. /\ \A b \in sync.todo : [sync EXCEPT !.todo = sync.todo \ {b}] \in Sync
      /\ [sync EXCEPT !.at = "persist"] \in Sync
    BY <1>2 DEF Sync
<1>7. \E s \in Sync : GotoSync(s)
    BY <1>3, <1>6, ThrowSyncStepType
<1> QED
    BY <1>2, <1>3, <1>4, <1>5, <1>7, SyncStepType DEF userVars

\* The sync ends a batch, or saves the cursor.
LEMMA SaveCursorType ==
    ASSUME SyncTypeInv, PersistDeposits \/ SaveCursor
    PROVE  SyncTypeInv'
<1>1. sync.at # "none"
    BY DEF PersistDeposits, SaveCursor
<1>2. /\ sync \in Sync /\ UserPredicates # <<>> /\ Vault \in Predicates
      /\ sync.last + sync.processed \in Nat /\ sync.next \in Nat
      /\ userBlock \in Nat /\ block \in [Predicates -> Nat]
      /\ counts \in [Predicates -> [Heights -> 0..2]]
      /\ excused \in [Predicates -> SUBSET Heights]
    BY <1>1, RunningSync DEF Sync
<1>3. /\ UNCHANGED <<chainVars, loggedIn, persisted, logins, storeVars, balance, logout>>
      /\ Works \/ Fails
      /\ userBlock' \in {userBlock, sync.last + sync.processed}
      /\ GotoSync(Advance(sync, sync.next, FALSE)) \/ GotoSync(NoSync) \/ ThrowSync
    BY DEF PersistDeposits, SaveCursor, userVars
<1>4. failures' \in 0..MaxFailures
    BY <1>3, FailuresType
<1>5. Advance(sync, sync.next, FALSE) \in Sync
    BY <1>2, AdvanceType
<1>6. \E s \in Sync : GotoSync(s)
    BY <1>3, <1>5, NoJobType, ThrowSyncStepType
<1> QED
    BY <1>2, <1>3, <1>4, <1>6, SyncStepType DEF storeVars

\* Logins and logouts.
LEMMA LogoutType ==
    ASSUME SyncTypeInv, Login \/ TriggerLogout \/ LogoutStep
    PROVE  SyncTypeInv'
<1>1. /\ logout \in Logout /\ userBlock \in Nat /\ persisted \in Nat /\ loggedIn \in BOOLEAN
      /\ logins \in 0..MaxLogins /\ failures \in 0..MaxFailures
    BY DEF SyncTypeInv, SyncTypeOK
<1>2. UNCHANGED <<chainVars, storeVars, balance, sync>>
    BY DEF Login, TriggerLogout, LogoutStep, PersistBlock, CleanUp
<1>3. logins' \in 0..MaxLogins
  <2>1. logins' = logins \/ (logins < MaxLogins /\ logins' = logins + 1)
      BY Zenon DEF Login, TriggerLogout, LogoutStep, PersistBlock, CleanUp, userVars
  <2> QED
      BY <1>1, <2>1, BoundsType
<1>4. failures' \in 0..MaxFailures
    BY <1>1, FailuresType DEF Login, TriggerLogout, LogoutStep, PersistBlock, CleanUp
<1>5. userBlock' \in Nat /\ persisted' \in Nat /\ loggedIn' \in BOOLEAN
  <2>1. BlockToSave(logout.last, userBlock) \in Nat
      BY <1>1 DEF BlockToSave, Logout
  <2>2. CASE Login \/ TriggerLogout
      BY <1>1, <2>2 DEF Login, TriggerLogout, userVars
  <2>3. CASE PersistBlock
      BY <1>1, <2>1, <2>3 DEF PersistBlock
  <2>4. CASE CleanUp
    <3>1. /\ userBlock' = 0 \/ userBlock' = userBlock
          /\ loggedIn' = FALSE \/ loggedIn' = loggedIn
          /\ persisted' = persisted
        BY <2>4, Zenon DEF CleanUp
    <3>2. userBlock' \in Nat /\ persisted' \in Nat
        BY <1>1, <3>1
    <3>3. loggedIn' \in BOOLEAN
        BY <1>1, <3>1, Zenon
    <3> QED
        BY <3>2, <3>3
  <2> QED
      BY <2>2, <2>3, <2>4 DEF LogoutStep
<1>6. logout' \in Logout
  <2>1. ThrowLogout => logout' \in Logout
      BY <1>1, ThrowLogoutType DEF ThrowLogout
  <2>2. /\ [NoLogout EXCEPT !.at = "waiting", !.last = userBlock] \in Logout
        /\ [logout EXCEPT !.at = "clean"] \in Logout
      BY <1>1, NoJobType DEF Logout
  <2> QED
      BY <1>1, <2>1, <2>2, NoJobType
         DEF Login, TriggerLogout, LogoutStep, PersistBlock, CleanUp
<1> QED
    BY <1>2, <1>3, <1>4, <1>5, <1>6
       DEF SyncTypeInv, SyncTypeOK, VaultIsKnown, chainVars, storeVars

\* The worker dies.
LEMMA CrashType ==
    ASSUME SyncTypeInv, Crash
    PROVE  SyncTypeInv'
<1>1. /\ balance \in [Predicates -> Run] /\ sync \in Sync /\ logout \in Logout
      /\ excused \in [Predicates -> SUBSET Heights]
    BY DEF SyncTypeInv, SyncTypeOK
<1>2. balance' \in [Predicates -> Run]
    BY <1>1, StallRunType DEF Crash
<1>3. sync' \in Sync /\ (sync'.at # "none" => sync.at # "none")
    BY <1>1, StallSyncType DEF Crash
<1>4. logout' \in Logout
    BY <1>1, StallLogoutType DEF Crash
<1>5. excused' \in [Predicates -> SUBSET Heights]
    BY <1>1 DEF Crash, Run
<1>6. failures' \in 0..MaxFailures
    BY FailuresType DEF Crash
<1> QED
    BY <1>2, <1>3, <1>4, <1>5, <1>6
       DEF SyncTypeInv, SyncTypeOK, VaultIsKnown, Crash, chainVars, userVars

(***************************************************************************)
(* Type correctness.                                                       *)
(***************************************************************************)
\* The types hold at first.
LEMMA InitSyncType == SyncInit => SyncTypeInv
<1> SUFFICES ASSUME SyncInit PROVE SyncTypeInv
    OBVIOUS
<1>1. /\ 0 \in Heights /\ 0 \in 0..MaxLogins /\ 0 \in 0..MaxFailures /\ 0 \in 0..0
      /\ 0 \in 0..2 /\ 0 \in Nat
    BY BoundsType DEF Heights
<1>2. /\ touches \in [Predicates -> SUBSET (0..height)]
      /\ block \in [Predicates -> Nat]
      /\ counts \in [Predicates -> [Heights -> 0..2]]
      /\ balance \in [Predicates -> Run]
      /\ excused \in [Predicates -> SUBSET Heights]
    BY <1>1, NoJobType DEF SyncInit
<1>3. /\ sync \in Sync /\ logout \in Logout
      /\ sync.at # "none" => UserPredicates # <<>>
    BY NoJobType DEF SyncInit
<1> QED
    BY <1>1, <1>2, <1>3 DEF SyncInit, SyncTypeInv, SyncTypeOK, VaultIsKnown

\* Every step keeps them.
LEMMA NextSyncType == SyncTypeInv /\ [SyncNext]_syncVars => SyncTypeInv'
<1> SUFFICES ASSUME SyncTypeInv, [SyncNext]_syncVars PROVE SyncTypeInv'
    OBVIOUS
<1>1. CASE UNCHANGED syncVars
    BY <1>1 DEF SyncTypeInv, SyncTypeOK, VaultIsKnown, syncVars, chainVars, userVars, storeVars
<1>2. CASE \E T \in SUBSET Predicates : ChainGrows(T)
    BY <1>2, ChainGrowsType
<1>3. CASE \E p \in Predicates : ScheduleBalance(p) \/ TakeBalance(p) \/ BalanceStep(p)
    BY <1>3, TakeBalanceType, FetchBalanceType, RecordBalanceType, StoreBalanceType
       DEF BalanceStep
<1>4. CASE ScheduleSync \/ TakeSync \/ SyncStep
    BY <1>4, TakeSyncType, ReadTipType, FetchSyncType, RecordSyncType, StoreSyncType,
       SaveCursorType DEF SyncStep
<1>5. CASE Login \/ TriggerLogout \/ LogoutStep
    BY <1>5, LogoutType
<1>6. CASE Crash
    BY <1>6, CrashType
<1> QED
    BY <1>1, <1>2, <1>3, <1>4, <1>5, <1>6 DEF SyncNext

\* Types of the chain, the stores, the cursor and the jobs, for any number of vaults.
THEOREM SyncTypeCorrect == SyncSpec => []SyncTypeOK
<1>1. SyncTypeInv => SyncTypeOK
    BY DEF SyncTypeInv
<1> QED
    BY InitSyncType, NextSyncType, <1>1, PTL DEF SyncSpec

-----------------------------------------------------------------------------
(***************************************************************************)
(* The cursor.  It moves forward because no run holds one that is behind   *)
(* it: only a logout changes the cursor while a run goes on.               *)
(***************************************************************************)
Begun == {"tip", "fetch", "record", "store", "persist", "save"}

RunKnowsCursor == sync.at \in Begun => userBlock <= sync.last

\* A step of a run keeps the cursor it has begun with, or ends the attempt.
LEMMA SyncStepKeepsLast ==
    ASSUME SyncTypeInv, SyncStep
    PROVE  /\ sync.at \in Begun
           /\ sync'.at \in Begun => sync'.last = sync.last
<1>1. sync.at \in Begun
    BY DEF SyncStep, ReadTip, FetchSync, RecordSync, StoreSync, PersistDeposits, SaveCursor, Begun
<1>2. /\ sync \in Sync /\ height \in Nat /\ Vault \in Predicates
      /\ sync.from \in Nat /\ sync.next \in Nat
      /\ sync.from + BlockRange \in Nat /\ sync.last + MaxBlocks \in Nat
    BY <1>1, RunningSync, BoundsType DEF Begun, Sync
<1>3. ThrowSync => sync'.at \notin Begun
    BY ThrowSyncStepType DEF GotoSync, Begun
<1>4. CASE ReadTip
  <2>1. ASSUME NEW tip \in Nat
        PROVE  [sync EXCEPT !.tip = tip] \in Sync /\ [sync EXCEPT !.tip = tip].last = sync.last
      BY <1>2 DEF Sync
  <2>2. ASSUME NEW tip \in Nat, sync' = Loop([sync EXCEPT !.tip = tip])
        PROVE  sync'.last = sync.last
      BY <2>1, <2>2, LoopType
  <2> QED
      BY <1>1, <1>2, <1>4, <2>2 DEF ReadTip, GotoSync
<1>5. CASE FetchSync
  <2>1. ASSUME NEW next \in Nat, NEW todo, Answered(next, todo)
        PROVE  sync'.last = sync.last
    <3> DEFINE record == [sync EXCEPT !.at = "record", !.from = 0, !.next = next, !.todo = todo]
    <3>1. record.last = sync.last
        BY <1>2 DEF Sync
    <3>2. \A empty \in BOOLEAN : Advance(sync, next, empty).last = sync.last
        BY <1>2, AdvanceType
    <3>3. (\E empty \in BOOLEAN : sync' = Advance(sync, next, empty)) \/ sync' = record
        BY <2>1 DEF Answered, GotoSync
    <3> HIDE DEF record
    <3> QED
        BY <3>1, <3>2, <3>3
  <2>2. \A next \in NextBlocks(sync.from) : next \in Nat
      BY <1>2, IndexerType
  <2>3. \/ \E next \in NextBlocks(sync.from) : Answered(next, Found(Vault, sync.from, next))
        \/ sync' = Advance(sync, sync.from + BlockRange, TRUE)
        \/ ThrowSync
      BY <1>5, Zenon DEF FetchSync, GotoSync
  <2>4. Advance(sync, sync.from + BlockRange, TRUE).last = sync.last
      BY <1>2, AdvanceType
  <2>5. ThrowSync \/ sync'.last = sync.last
      BY <2>1, <2>2, <2>3, <2>4
  <2> QED
      BY <1>1, <1>3, <2>5
<1>6. CASE RecordSync \/ StoreSync
  <2>1. \/ sync' = [sync EXCEPT !.at = "store"]
        \/ \E b \in sync.todo : sync' = [sync EXCEPT !.todo = sync.todo \ {b}]
        \/ sync' = [sync EXCEPT !.at = "persist"]
        \/ ThrowSync
      BY <1>6, Zenon DEF RecordSync, StoreSync, GotoSync
  <2>2. /\ [sync EXCEPT !.at = "store"].last = sync.last
        /\ [sync EXCEPT !.at = "persist"].last = sync.last
        /\ \A b \in sync.todo : [sync EXCEPT !.todo = sync.todo \ {b}].last = sync.last
      BY <1>2 DEF Sync
  <2> QED
      BY <1>1, <1>3, <2>1, <2>2
<1>7. CASE PersistDeposits \/ SaveCursor
  <2>1. Advance(sync, sync.next, FALSE).last = sync.last
      BY <1>2, AdvanceType
  <2>2. sync' = Advance(sync, sync.next, FALSE) \/ sync' = NoSync \/ ThrowSync
      BY <1>7, Zenon DEF PersistDeposits, SaveCursor, GotoSync
  <2> QED
      BY <1>1, <1>3, <2>1, <2>2, NoJobType DEF Begun
<1> QED
    BY <1>1, <1>4, <1>5, <1>6, <1>7 DEF SyncStep

\* What a step does to the cursor.
LEMMA CursorStep ==
    ASSUME SyncTypeInv, RunKnowsCursor, [SyncNext]_syncVars
    PROVE  \/ userBlock' = userBlock
           \/ /\ sync.at = "save" /\ sync' = NoSync
              /\ userBlock' = sync.last + sync.processed /\ userBlock' >= userBlock
           \/ logout.at = "clean" /\ userBlock' = 0 /\ sync' = sync
<1>1. userBlock \in Nat /\ sync.last \in Nat /\ sync.processed \in Nat
    BY DEF SyncTypeInv, SyncTypeOK, Sync
<1>2. CASE SaveCursor
  <2>1. /\ sync.at = "save"
        /\ (userBlock' = sync.last + sync.processed /\ sync' = NoSync) \/ userBlock' = userBlock
      BY <1>2, Zenon DEF SaveCursor, GotoSync
  <2> QED
      BY <1>1, <2>1 DEF RunKnowsCursor, Begun
<1>3. CASE CleanUp
  <2>1. logout.at = "clean" /\ sync' = sync /\ (userBlock' = 0 \/ userBlock' = userBlock)
      BY <1>3, Zenon DEF CleanUp
  <2> QED
      BY <2>1
<1>4. CASE ~SaveCursor /\ ~CleanUp
  <2>1. CASE UNCHANGED syncVars
      BY <2>1 DEF syncVars, userVars
  <2>2. CASE \E T \in SUBSET Predicates : ChainGrows(T)
      BY <2>2, Zenon DEF ChainGrows, userVars
  <2>3. CASE \E p \in Predicates : ScheduleBalance(p) \/ TakeBalance(p) \/ BalanceStep(p)
      BY <2>3, Zenon DEF ScheduleBalance, TakeBalance, BalanceStep, FetchBalance, RecordBalance,
                         StoreBalance, userVars
  <2>4. CASE ScheduleSync \/ TakeSync \/ SyncStep
      BY <1>4, <2>4, Zenon DEF ScheduleSync, TakeSync, SyncStep, ReadTip, FetchSync, RecordSync,
                               StoreSync, PersistDeposits, userVars
  <2>5. CASE Login \/ TriggerLogout \/ LogoutStep
      BY <1>4, <2>5, Zenon DEF Login, TriggerLogout, LogoutStep, PersistBlock, userVars
  <2>6. CASE Crash
      BY <2>6, Zenon DEF Crash, userVars
  <2> QED
      BY <2>1, <2>2, <2>3, <2>4, <2>5, <2>6, Zenon DEF SyncNext
<1> QED
    BY <1>2, <1>3, <1>4

\* Every step keeps what a run knows of the cursor.
LEMMA NextKnowsCursor ==
    ASSUME SyncTypeInv, RunKnowsCursor, [SyncNext]_syncVars
    PROVE  RunKnowsCursor'
<1>1. /\ userBlock \in Nat /\ sync \in Sync /\ sync.last \in Nat
      /\ sync.at \in Begun => userBlock <= sync.last
    BY DEF SyncTypeInv, SyncTypeOK, Sync, RunKnowsCursor
<1>2. CASE SyncStep
  <2>1. sync.at \in Begun /\ (sync'.at \in Begun => sync'.last = sync.last)
      BY <1>2, SyncStepKeepsLast
  <2>2. userBlock' = userBlock \/ sync' = NoSync \/ userBlock' = 0
      BY CursorStep
  <2> QED
      BY <1>1, <2>1, <2>2, NoJobType DEF RunKnowsCursor, Begun
<1>3. CASE TakeSync
  <2>1. /\ userBlock' = userBlock
        /\ \/ sync' = [sync EXCEPT !.at = "tip", !.last = userBlock, !.from = userBlock]
           \/ ThrowSync
      BY <1>3, Zenon DEF TakeSync, GotoSync, userVars
  <2>2. ThrowSync => sync'.at \in {"none", "waiting"}
      BY <1>1, ThrowSyncStepType DEF GotoSync
  <2>3. CASE sync' = [sync EXCEPT !.at = "tip", !.last = userBlock, !.from = userBlock]
    <3>1. sync'.last = userBlock
        BY <1>1, <2>3 DEF Sync
    <3> QED
        BY <1>1, <2>1, <3>1 DEF RunKnowsCursor
  <2>4. CASE ThrowSync
      BY <2>2, <2>4 DEF RunKnowsCursor, Begun
  <2> QED
      BY <2>1, <2>3, <2>4
<1>4. CASE ScheduleSync
  <2>1. sync' = AgainSync(NoSync)
      BY <1>4 DEF ScheduleSync, GotoSync
  <2> QED
      BY <2>1, AgainType, NoJobType DEF RunKnowsCursor, Begun
<1>5. CASE Crash
  <2>1. userBlock' = userBlock /\ sync' = Stall(sync, NoSync, AgainSync(sync))
      BY <1>5 DEF Crash, userVars
  <2>2. sync' = sync \/ sync'.at \in {"none", "waiting"}
      BY <1>1, <2>1, StallSyncType
  <2> QED
      BY <1>1, <2>1, <2>2 DEF RunKnowsCursor, Begun
<1>6. CASE ~(SyncStep \/ TakeSync \/ ScheduleSync \/ Crash)
  <2>1. sync' = sync
    <3>1. CASE UNCHANGED syncVars
        BY <3>1 DEF syncVars
    <3>2. CASE \E T \in SUBSET Predicates : ChainGrows(T)
        BY <3>2, Zenon DEF ChainGrows
    <3>3. CASE \E p \in Predicates : ScheduleBalance(p) \/ TakeBalance(p) \/ BalanceStep(p)
        BY <3>3, Zenon DEF ScheduleBalance, TakeBalance, BalanceStep, FetchBalance,
                           RecordBalance, StoreBalance
    <3>4. CASE Login \/ TriggerLogout \/ LogoutStep
        BY <3>4, Zenon DEF Login, TriggerLogout, LogoutStep, PersistBlock, CleanUp
    <3> QED
        BY <1>6, <3>1, <3>2, <3>3, <3>4, Zenon DEF SyncNext
  <2>2. userBlock' = userBlock \/ userBlock' = 0 \/ (sync.at = "save" /\ sync' = NoSync)
      BY CursorStep
  <2> QED
      BY <1>1, <2>1, <2>2, NoJobType DEF RunKnowsCursor, Begun
<1> QED
    BY <1>2, <1>3, <1>4, <1>5, <1>6

\* The cursor of a user only moves forward, until a logout cleans it up.
THEOREM CursorOnlyMovesForward == SyncSpec => CursorMovesForward
<1>1. SyncInit => RunKnowsCursor
    BY NoJobType DEF SyncInit, RunKnowsCursor, Begun
<1>2. SyncTypeInv /\ RunKnowsCursor /\ [SyncNext]_syncVars => RunKnowsCursor'
    BY NextKnowsCursor
<1>3. SyncTypeInv /\ RunKnowsCursor /\ [SyncNext]_syncVars
        => [userBlock' < userBlock => logout.at = "clean" /\ userBlock' = 0]_syncVars
  <2> SUFFICES ASSUME SyncTypeInv, RunKnowsCursor, [SyncNext]_syncVars, userBlock' < userBlock
               PROVE  logout.at = "clean" /\ userBlock' = 0
      OBVIOUS
  <2>1. userBlock \in Nat /\ sync.last \in Nat /\ sync.processed \in Nat
      BY DEF SyncTypeInv, SyncTypeOK, Sync
  <2> QED
      BY <2>1, CursorStep
<1> QED
    BY InitSyncType, NextSyncType, <1>1, <1>2, <1>3, PTL DEF SyncSpec, CursorMovesForward

-----------------------------------------------------------------------------
(***************************************************************************)
(* Every transaction is counted once.  A vault whose recorded block nobody *)
(* else has moved is counted precisely: a run holds just the blocks from   *)
(* the recorded one to the one it will record, and the indexer has         *)
(* answered for nothing above the tip.  A sync stores only after it has    *)
(* recorded, which excuses its vault.                                      *)
(***************************************************************************)
Precise(p) ==
    LET run == balance[p]
    IN  /\ block[p] <= height + 1
        /\ \A b \in Heights \ touches[p] : counts[p][b] = 0
        /\ \A b \in touches[p] \ excused[p] :
             counts[p][b] = IF b >= block[p] \/ (run.at = "store" /\ b \in run.todo) THEN 0 ELSE 1
        /\ run.todo \subseteq touches[p]
        /\ run.at \in {"none", "waiting", "fetch"} => run.todo = {}
        /\ run.at = "fetch" => run.from = block[p]
        /\ run.at = "store" => \A b \in run.todo : b < block[p]
        /\ run.at = "record" =>
             \/ run.next = 0 /\ run.todo = {}
             \/ /\ block[p] <= run.next /\ run.next <= height + 1
                /\ \A b \in touches[p] : b \in run.todo <=> (block[p] <= b /\ b < run.next)

Counted(p) == excused[p] = Heights \/ Precise(p)

StoreIsExcused == sync.at = "store" => excused[Vault] = Heights

CountInv == (\A p \in Predicates : Counted(p)) /\ StoreIsExcused

\* What is known of a vault and of the run of its job.
LEMMA VaultTypes ==
    ASSUME SyncTypeInv, NEW p \in Predicates
    PROVE  /\ height \in Nat /\ block[p] \in Nat
           /\ touches[p] \subseteq 0..height /\ touches[p] \subseteq Heights
           /\ counts[p] \in [Heights -> 0..2]
           /\ excused[p] \subseteq Heights
           /\ balance[p] \in Run /\ balance[p].todo \subseteq Heights
           /\ balance[p].from \in Nat /\ balance[p].next \in Nat
<1>1. height \in Nat /\ MaxHeight \in Nat /\ height <= MaxHeight
    BY BoundsType DEF SyncTypeInv, SyncTypeOK, Heights
<1>2. 0..height \subseteq Heights
    BY <1>1 DEF Heights
<1>3. touches[p] \subseteq 0..height
    BY DEF SyncTypeInv, SyncTypeOK
<1>4. balance[p] \in Run
    BY DEF SyncTypeInv, SyncTypeOK
<1> QED
    BY <1>1, <1>2, <1>3, <1>4 DEF SyncTypeInv, SyncTypeOK, Run

\* A vault that a step leaves alone.
LEMMA FrameCounted ==
    ASSUME NEW p \in Predicates, Counted(p),
           height' = height, touches' = touches, block'[p] = block[p], counts'[p] = counts[p],
           excused'[p] = excused[p], balance'[p] = balance[p]
    PROVE  Counted(p)'
<1>1. CASE excused[p] = Heights
    BY <1>1 DEF Counted, Heights
<1>2. CASE Precise(p)
    BY <1>2 DEF Counted, Precise, Heights
<1> QED
    BY <1>1, <1>2 DEF Counted

\* An attempt that ends, or that waits to begin: what it held and had recorded is excused.
LEMMA StoppedCounted ==
    ASSUME SyncTypeInv, NEW p \in Predicates, Precise(p),
           UNCHANGED <<height, touches>>, block'[p] = block[p], counts'[p] = counts[p],
           excused[p] \subseteq excused'[p],
           balance[p].at = "store" => balance[p].todo \subseteq excused'[p],
           balance'[p].at \in {"none", "waiting"}, balance'[p].todo = {}
    PROVE  Counted(p)'
<1>1. \A b \in touches[p] \ excused'[p] :
        counts'[p][b] = IF b >= block'[p] THEN 0 ELSE 1
    BY VaultTypes DEF Precise
<1>2. /\ block'[p] <= height' + 1
      /\ \A b \in Heights \ touches'[p] : counts'[p][b] = 0
    BY DEF Precise
<1> QED
    BY <1>1, <1>2 DEF Counted, Precise, Heights

\* A step of one vault's job leaves the other vaults alone.
LEMMA OtherVaults ==
    ASSUME SyncTypeInv, NEW p \in Predicates, NEW q \in Predicates, q # p,
           ScheduleBalance(p) \/ TakeBalance(p) \/ BalanceStep(p)
    PROVE  /\ height' = height /\ touches' = touches
           /\ block'[q] = block[q] /\ counts'[q] = counts[q]
           /\ excused'[q] = excused[q] /\ balance'[q] = balance[q]
           /\ sync' = sync
<1>1. /\ block \in [Predicates -> Nat] /\ counts \in [Predicates -> [Heights -> 0..2]]
      /\ excused \in [Predicates -> SUBSET Heights] /\ balance \in [Predicates -> Run]
    BY DEF SyncTypeInv, SyncTypeOK
<1>2. ASSUME NEW run, SetRun(p, run) PROVE balance'[q] = balance[q]
    BY <1>1, <1>2 DEF SetRun
<1>3. ASSUME ThrowRun(p) PROVE balance'[q] = balance[q]
    BY <1>1, <1>3, Zenon DEF ThrowRun
<1>4. ASSUME NEW S, Excuse(p, S) PROVE excused'[q] = excused[q]
    BY <1>1, <1>4 DEF Excuse
<1>5. ASSUME NEW b, SetCount(p, b) PROVE counts'[q] = counts[q]
    BY <1>1, <1>5, Zenon DEF SetCount
<1>6. CASE ScheduleBalance(p) \/ TakeBalance(p)
  <2>1. /\ UNCHANGED <<chainVars, userVars, storeVars, sync, logout, failures>>
        /\ \E run : SetRun(p, run)
      BY <1>6, Zenon DEF ScheduleBalance, TakeBalance
  <2> QED
      BY <1>2, <2>1 DEF chainVars, storeVars
<1>7. CASE FetchBalance(p)
  <2>1. /\ UNCHANGED <<chainVars, userVars, storeVars, sync, logout>>
        /\ (\E run : SetRun(p, run)) \/ ThrowRun(p)
      BY <1>7, Zenon DEF FetchBalance
  <2> QED
      BY <1>2, <1>3, <2>1 DEF chainVars, storeVars
<1>8. CASE RecordBalance(p)
  <2>1. /\ UNCHANGED <<chainVars, userVars, counts, sync, logout>>
        /\ (\E run : SetRun(p, run)) \/ ThrowRun(p)
        /\ (\E n : block' = [block EXCEPT ![p] = n]) \/ block' = block
        /\ (\E S : Excuse(p, S)) \/ excused' = excused
      BY <1>8, Zenon DEF RecordBalance
  <2>2. block'[q] = block[q]
      BY <1>1, <2>1
  <2> QED
      BY <1>2, <1>3, <1>4, <2>1, <2>2 DEF chainVars
<1>9. CASE StoreBalance(p)
  <2>1. /\ UNCHANGED <<chainVars, userVars, block, sync, logout>>
        /\ (\E run : SetRun(p, run)) \/ ThrowRun(p)
        /\ (\E b : SetCount(p, b)) \/ counts' = counts
        /\ (\E S : Excuse(p, S)) \/ excused' = excused
      BY <1>9, Zenon DEF StoreBalance
  <2> QED
      BY <1>2, <1>3, <1>4, <1>5, <2>1 DEF chainVars
<1> QED
    BY <1>6, <1>7, <1>8, <1>9 DEF BalanceStep

\* The chain grows by a block that nobody has read.
LEMMA ChainGrowsCounted ==
    ASSUME SyncTypeInv, NEW p \in Predicates, Counted(p), NEW T \in SUBSET Predicates,
           ChainGrows(T)
    PROVE  Counted(p)'
<1>1. /\ height' = height + 1 /\ UNCHANGED <<block, counts, excused, balance>>
    BY DEF ChainGrows, storeVars
<1>2. touches'[p] = touches[p] \/ touches'[p] = touches[p] \cup {height + 1}
    BY DEF ChainGrows, SyncTypeInv, SyncTypeOK
<1>3. CASE excused[p] = Heights
    BY <1>1, <1>3 DEF Counted, Heights
<1>4. CASE Precise(p)
  <2>1. height + 1 \notin touches[p] /\ height + 1 \in Heights
    <3>1. height' \in Heights
        BY ChainGrowsType DEF SyncTypeInv, SyncTypeOK, Heights
    <3>2. height + 1 \notin 0..height
        BY VaultTypes
    <3> QED
        BY <1>1, <3>1, <3>2, VaultTypes
  <2>2. block[p] <= height' + 1 /\ height + 1 >= block[p]
      BY <1>1, <1>4, VaultTypes DEF Precise
  <2>3. \A b \in Heights \ touches'[p] : counts[p][b] = 0
      BY <1>2, <1>4 DEF Precise
  <2>4. \A b \in touches'[p] \ excused[p] :
          counts[p][b] = IF b >= block[p] \/ (balance[p].at = "store" /\ b \in balance[p].todo)
                           THEN 0 ELSE 1
      BY <1>2, <1>4, <2>1, <2>2 DEF Precise
  <2>5. balance[p].todo \subseteq touches'[p]
      BY <1>2, <1>4 DEF Precise
  <2>6. /\ balance[p].at \in {"none", "waiting", "fetch"} => balance[p].todo = {}
        /\ balance[p].at = "fetch" => balance[p].from = block[p]
        /\ balance[p].at = "store" => \A b \in balance[p].todo : b < block[p]
      BY <1>4 DEF Precise
  <2>7. balance[p].at = "record" =>
          \/ balance[p].next = 0 /\ balance[p].todo = {}
          \/ /\ block[p] <= balance[p].next /\ balance[p].next <= height' + 1
             /\ \A b \in touches'[p] :
                  b \in balance[p].todo <=> (block[p] <= b /\ b < balance[p].next)
      BY <1>1, <1>2, <1>4, <2>1, VaultTypes DEF Precise
  <2> QED
      BY <1>1, <2>2, <2>3, <2>4, <2>5, <2>6, <2>7 DEF Counted, Precise, Heights
<1> QED
    BY <1>3, <1>4 DEF Counted

\* A job is scheduled, or begins with the recorded block.
LEMMA TakeBalanceCounted ==
    ASSUME SyncTypeInv, NEW p \in Predicates, Counted(p), ScheduleBalance(p) \/ TakeBalance(p)
    PROVE  Counted(p)'
<1>1. UNCHANGED <<height, touches, block, counts, excused>>
    BY DEF ScheduleBalance, TakeBalance, chainVars, storeVars
<1>2. CASE excused[p] = Heights
    BY <1>1, <1>2 DEF Counted, Heights
<1>3. CASE Precise(p) /\ ScheduleBalance(p)
  <2>1. balance'[p] = AgainRun(NoRun) /\ balance[p].at = "none"
      BY <1>3 DEF ScheduleBalance, SetRun, SyncTypeInv, SyncTypeOK
  <2>2. AgainRun(NoRun).at = "waiting" /\ AgainRun(NoRun).todo = {}
      BY NoJobType, AgainType
  <2> QED
      BY <1>1, <1>3, <2>1, <2>2, StoppedCounted
<1>4. CASE Precise(p) /\ TakeBalance(p)
  <2>1. /\ balance'[p] = [balance[p] EXCEPT !.at = "fetch", !.from = block[p]]
        /\ balance[p].at = "waiting"
      BY <1>4 DEF TakeBalance, SetRun, SyncTypeInv, SyncTypeOK
  <2>2. balance'[p].at = "fetch" /\ balance'[p].from = block[p] /\ balance'[p].todo = balance[p].todo
      BY <2>1, VaultTypes DEF Run
  <2>3. /\ balance[p].todo = {}
        /\ \A b \in touches[p] \ excused[p] : counts[p][b] = IF b >= block[p] THEN 0 ELSE 1
        /\ block[p] <= height + 1
        /\ \A b \in Heights \ touches[p] : counts[p][b] = 0
      BY <1>4, <2>1 DEF Precise
  <2> QED
      BY <1>1, <2>2, <2>3 DEF Counted, Precise, Heights
<1> QED
    BY <1>2, <1>3, <1>4 DEF Counted

\* A run has asked the indexer.
LEMMA FetchBalanceCounted ==
    ASSUME SyncTypeInv, NEW p \in Predicates, Counted(p), FetchBalance(p)
    PROVE  Counted(p)'
<1>1. UNCHANGED <<height, touches, block, counts, excused>> /\ balance[p].at = "fetch"
    BY Zenon DEF FetchBalance, chainVars, storeVars
<1>2. CASE excused[p] = Heights
    BY <1>1, <1>2 DEF Counted, Heights
<1>3. CASE Precise(p)
  <2>1. /\ balance[p].todo = {} /\ balance[p].from = block[p]
        /\ \A b \in touches[p] \ excused[p] : counts[p][b] = IF b >= block[p] THEN 0 ELSE 1
        /\ block[p] <= height + 1
        /\ \A b \in Heights \ touches[p] : counts[p][b] = 0
      BY <1>1, <1>3 DEF Precise
  <2>2. ASSUME NEW run \in Run, SetRun(p, run), run.at = "record", run.todo \subseteq touches[p],
               \/ run.next = 0 /\ run.todo = {}
               \/ /\ block[p] <= run.next /\ run.next <= height + 1
                  /\ \A b \in touches[p] : b \in run.todo <=> (block[p] <= b /\ b < run.next)
        PROVE  Counted(p)'
    <3>1. balance'[p] = run
        BY <2>2 DEF SetRun, SyncTypeInv, SyncTypeOK
    <3> QED
        BY <1>1, <2>1, <2>2, <3>1 DEF Counted, Precise, Heights
  <2>3. ASSUME NEW next \in NextBlocks(balance[p].from),
               SetRun(p, [balance[p] EXCEPT !.at = "record", !.from = 0, !.next = next,
                                            !.todo = Found(p, balance[p].from, next)])
        PROVE  Counted(p)'
    <3> DEFINE found == Found(p, block[p], next)
               run == [balance[p] EXCEPT !.at = "record", !.from = 0, !.next = next, !.todo = found]
    <3>1. /\ next \in Nat /\ block[p] <= next /\ (next > block[p] => next <= height + 1)
          /\ found \subseteq touches[p] /\ found \subseteq Heights
        BY <2>1, VaultTypes, IndexerType
    <3>2. next <= height + 1
        BY <2>1, <3>1, VaultTypes
    <3>3. \A b \in touches[p] : b \in found <=> (block[p] <= b /\ b < next)
        BY DEF Found
    <3> HIDE DEF found
    <3>4. run \in Run /\ run.at = "record" /\ run.next = next /\ run.todo = found
        BY <3>1, VaultTypes DEF Run
    <3>5. SetRun(p, run)
        BY <2>1, <2>3 DEF found
    <3> HIDE DEF run
    <3> QED
        BY <2>2, <3>1, <3>2, <3>3, <3>4, <3>5
  <2>4. ASSUME SetRun(p, [balance[p] EXCEPT !.at = "record", !.from = 0, !.next = 0])
        PROVE  Counted(p)'
    <3> DEFINE run == [balance[p] EXCEPT !.at = "record", !.from = 0, !.next = 0]
    <3>1. run \in Run /\ run.at = "record" /\ run.next = 0 /\ run.todo = {}
        BY <2>1, VaultTypes DEF Run
    <3> QED
        BY <2>2, <2>4, <3>1
  <2>5. ASSUME ThrowRun(p)
        PROVE  Counted(p)'
    <3>1. balance'[p].at \in {"none", "waiting"} /\ balance'[p].todo = {}
        BY <2>5, ThrowRunStepType DEF SetRun, SyncTypeInv, SyncTypeOK
    <3> QED
        BY <1>1, <1>3, <3>1, StoppedCounted
  <2>6. \/ \E next \in NextBlocks(balance[p].from) :
             SetRun(p, [balance[p] EXCEPT !.at = "record", !.from = 0, !.next = next,
                                          !.todo = Found(p, balance[p].from, next)])
        \/ SetRun(p, [balance[p] EXCEPT !.at = "record", !.from = 0, !.next = 0])
        \/ ThrowRun(p)
      BY Zenon DEF FetchBalance
  <2> QED
      BY <2>3, <2>4, <2>5, <2>6, Zenon
<1> QED
    BY <1>2, <1>3 DEF Counted

\* A run has recorded its block.
LEMMA RecordBalanceCounted ==
    ASSUME SyncTypeInv, NEW p \in Predicates, Counted(p), RecordBalance(p)
    PROVE  Counted(p)'
<1> DEFINE next == balance[p].next
           recorded == [block EXCEPT ![p] = next]
           again == IF recorded[p] < block[p] THEN Heights ELSE {}
           todo == balance[p].todo
<1>1. /\ UNCHANGED <<height, touches, counts>> /\ balance[p].at = "record"
      /\ \/ /\ SetRun(p, [balance[p] EXCEPT !.at = "store", !.next = 0])
            /\ block' = recorded /\ Excuse(p, again)
         \/ ThrowRun(p) /\ block' = recorded /\ Excuse(p, again \cup todo)
         \/ ThrowRun(p) /\ UNCHANGED <<block, excused>>
    BY Zenon DEF RecordBalance, RecordedBlock, chainVars
<1>2. block \in [Predicates -> Nat] /\ balance \in [Predicates -> Run]
    BY DEF SyncTypeInv, SyncTypeOK
<1>3. recorded[p] = next /\ next \in Nat /\ todo \subseteq Heights
    BY <1>2, VaultTypes
<1>4. again = (IF next < block[p] THEN Heights ELSE {}) /\ again \in SUBSET Heights
    BY <1>3
<1>5. ThrowRun(p) => balance'[p].at \in {"none", "waiting"} /\ balance'[p].todo = {}
    BY <1>2, ThrowRunStepType DEF SetRun
<1>6. block' = recorded => block'[p] = next
    BY <1>3
<1> HIDE DEF recorded, again, todo, next
<1>7. CASE excused[p] = Heights
  <2>1. \A S \in SUBSET Heights : Excuse(p, S) => excused'[p] = excused[p] \cup S
      BY ExcuseType
  <2>2. excused'[p] = Heights
      BY <1>1, <1>3, <1>4, <1>7, <2>1
  <2> QED
      BY <2>2 DEF Counted, Heights
<1>8. CASE Precise(p) /\ ThrowRun(p) /\ UNCHANGED <<block, excused>>
    BY <1>1, <1>5, <1>8, StoppedCounted
<1>9. CASE /\ Precise(p) /\ block' = recorded
           /\ \/ SetRun(p, [balance[p] EXCEPT !.at = "store", !.next = 0]) /\ Excuse(p, again)
              \/ ThrowRun(p) /\ Excuse(p, again \cup todo)
  <2>1. excused'[p] = excused[p] \cup again \/ excused'[p] = excused[p] \cup again \cup todo
      BY <1>3, <1>4, <1>9, ExcuseType
  <2>2. CASE next < block[p]
    <3>1. excused'[p] = Heights
        BY <1>3, <1>4, <2>1, <2>2, VaultTypes
    <3> QED
        BY <3>1 DEF Counted, Heights
  <2>3. CASE ~(next < block[p])
    <3>1. /\ again = {} /\ excused[p] \subseteq excused'[p] /\ block'[p] = next
        BY <1>4, <1>6, <1>9, <2>1, <2>3
    <3>2. /\ todo \subseteq touches[p] /\ next <= height + 1
          /\ \A b \in touches[p] : b \in todo <=> (block[p] <= b /\ b < next)
        BY <1>1, <1>3, <1>9, <2>3, VaultTypes DEF Precise, todo, next
    <3>3. \A b \in touches[p] \ excused[p] : counts[p][b] = IF b >= block[p] THEN 0 ELSE 1
        BY <1>1, <1>9 DEF Precise
    <3>4. \A b \in touches[p] \ excused'[p] :
            counts[p][b] = IF b >= next \/ b \in todo THEN 0 ELSE 1
        BY <1>3, <2>3, <3>1, <3>2, <3>3, VaultTypes
    <3>5. \A b \in Heights \ touches[p] : counts[p][b] = 0
        BY <1>9 DEF Precise
    <3>6. CASE SetRun(p, [balance[p] EXCEPT !.at = "store", !.next = 0])
      <4>1. balance'[p].at = "store" /\ balance'[p].todo = todo
          BY <1>2, <3>6 DEF SetRun, Run, todo
      <4>2. \A b \in todo : b < next
          BY <3>2
      <4> QED
          BY <1>1, <3>1, <3>2, <3>4, <3>5, <4>1, <4>2 DEF Counted, Precise, Heights
    <3>7. CASE ThrowRun(p) /\ Excuse(p, again \cup todo)
      <4>1. excused'[p] = excused[p] \cup todo
          BY <1>3, <3>1, <3>7, ExcuseType
      <4>2. \A b \in touches[p] \ excused'[p] : counts[p][b] = IF b >= next THEN 0 ELSE 1
          BY <3>4, <4>1
      <4> QED
          BY <1>1, <1>5, <3>1, <3>2, <3>5, <3>7, <4>2 DEF Counted, Precise, Heights
    <3> QED
        BY <1>9, <3>6, <3>7
  <2> QED
      BY <2>2, <2>3
<1> QED
    BY <1>1, <1>7, <1>8, <1>9 DEF Counted

\* A run has stored a transaction, or is done.
LEMMA StoreBalanceCounted ==
    ASSUME SyncTypeInv, NEW p \in Predicates, Counted(p), StoreBalance(p)
    PROVE  Counted(p)'
<1> DEFINE todo == balance[p].todo
<1>1. /\ UNCHANGED <<height, touches, block>> /\ balance[p].at = "store"
      /\ \/ \E b \in todo : /\ SetCount(p, b) /\ excused' = excused
                            /\ SetRun(p, [balance[p] EXCEPT !.todo = todo \ {b}])
         \/ todo = {} /\ SetRun(p, NoRun) /\ UNCHANGED <<counts, excused>>
         \/ ThrowRun(p) /\ Excuse(p, todo) /\ UNCHANGED counts
    BY Zenon DEF StoreBalance, chainVars
<1>2. balance \in [Predicates -> Run] /\ todo \in SUBSET Heights
    BY VaultTypes DEF SyncTypeInv, SyncTypeOK
<1>3. CASE excused[p] = Heights
  <2>1. excused'[p] = Heights
      BY <1>1, <1>2, <1>3, ExcuseType
  <2> QED
      BY <2>1 DEF Counted, Heights
<1>4. CASE Precise(p)
  <2>1. /\ todo \subseteq touches[p] /\ block[p] <= height + 1
        /\ \A b \in Heights \ touches[p] : counts[p][b] = 0
        /\ \A b \in touches[p] \ excused[p] :
             counts[p][b] = IF b >= block[p] \/ b \in todo THEN 0 ELSE 1
      BY <1>1, <1>4 DEF Precise
  <2>2. ASSUME NEW b \in todo, SetCount(p, b), excused' = excused,
               SetRun(p, [balance[p] EXCEPT !.todo = todo \ {b}])
        PROVE  Counted(p)'
    <3>1. /\ balance'[p].at = "store" /\ balance'[p].todo = todo \ {b}
        BY <1>1, <1>2, <2>2 DEF SetRun, Run
    <3>2. /\ counts'[p][b] = Once(counts[p][b])
          /\ \A c \in Heights : c # b => counts'[p][c] = counts[p][c]
        BY <1>2, <2>2, SetCountType
    <3>3. b < block[p] => \A c \in touches[p] \ excused[p] :
            counts'[p][c] = IF c >= block[p] \/ c \in todo \ {b} THEN 0 ELSE 1
        BY <2>1, <3>2, VaultTypes DEF Once
    <3>4. \A c \in todo : c < block[p]
        BY <1>1, <1>4 DEF Precise
    <3>5. \A c \in Heights \ touches[p] : counts'[p][c] = 0
        BY <2>1, <3>2
    <3> QED
        BY <1>1, <2>1, <2>2, <3>1, <3>3, <3>4, <3>5 DEF Counted, Precise, Heights
  <2>3. CASE todo = {} /\ SetRun(p, NoRun) /\ UNCHANGED <<counts, excused>>
    <3>1. balance'[p] = NoRun
        BY <1>2, <2>3 DEF SetRun
    <3> QED
        BY <1>1, <1>4, <2>3, <3>1, NoJobType, StoppedCounted
  <2>4. CASE ThrowRun(p) /\ Excuse(p, todo) /\ UNCHANGED counts
    <3>1. balance'[p].at \in {"none", "waiting"} /\ balance'[p].todo = {}
        BY <1>2, <2>4, ThrowRunStepType DEF SetRun
    <3>2. excused'[p] = excused[p] \cup todo
        BY <1>2, <2>4, ExcuseType
    <3> QED
        BY <1>1, <1>4, <2>4, <3>1, <3>2, StoppedCounted
  <2> QED
      BY <1>1, <2>2, <2>3, <2>4
<1> QED
    BY <1>3, <1>4 DEF Counted

\* The worker dies: what the run of the vault held is excused.
LEMMA CrashCounted ==
    ASSUME SyncTypeInv, NEW p \in Predicates, Counted(p), Crash
    PROVE  Counted(p)'
<1>1. /\ UNCHANGED <<height, touches, block, counts>>
      /\ balance' = [q \in Predicates |-> Stall(balance[q], NoRun, AgainRun(balance[q]))]
      /\ excused' = [q \in Predicates |-> IF balance[q].at = "store"
                                            THEN excused[q] \cup balance[q].todo ELSE excused[q]]
    BY Zenon DEF Crash, chainVars
<1>2. /\ balance'[p] = Stall(balance[p], NoRun, AgainRun(balance[p]))
      /\ excused'[p] = IF balance[p].at = "store"
                         THEN excused[p] \cup balance[p].todo ELSE excused[p]
    BY <1>1
<1>3. /\ \/ balance'[p] = balance[p]
         \/ balance'[p].at \in {"none", "waiting"} /\ balance'[p].todo = {}
      /\ balance[p].at \in {"fetch", "record", "store"} => balance'[p].at \in {"none", "waiting"}
    BY <1>2, StallRunType, VaultTypes
<1>4. CASE excused[p] = Heights
  <2>1. excused'[p] = Heights
      BY <1>2, <1>4, VaultTypes
  <2> QED
      BY <2>1 DEF Counted, Heights
<1>5. CASE Precise(p) /\ balance'[p].at \in {"none", "waiting"} /\ balance'[p].todo = {}
    BY <1>1, <1>2, <1>5, StoppedCounted
<1>6. CASE Precise(p) /\ balance'[p] = balance[p]
  <2>1. balance[p].at # "store" \/ balance'[p].at \in {"none", "waiting"}
      BY <1>3
  <2>2. excused'[p] = excused[p]
      BY <1>2, <1>6, <2>1
  <2> QED
      BY <1>1, <1>6, <2>2, FrameCounted
<1> QED
    BY <1>3, <1>4, <1>5, <1>6 DEF Counted

\* Only a sync that has recorded its block goes on to store.
LEMMA QuietSyncStepGoesOn ==
    ASSUME SyncTypeInv, SyncStep, ~RecordSync, ~StoreSync
    PROVE  sync'.at # "store"
<1>1. sync.at \in Begun
    BY SyncStepKeepsLast
<1>2. /\ sync \in Sync /\ height \in Nat /\ Vault \in Predicates
      /\ sync.from \in Nat /\ sync.next \in Nat
      /\ sync.from + BlockRange \in Nat /\ sync.last + MaxBlocks \in Nat
    BY <1>1, RunningSync, BoundsType DEF Begun, Sync
<1>3. ThrowSync => sync'.at # "store"
    BY ThrowSyncStepType DEF GotoSync
<1>4. \A s \in Sync : Loop(s).at # "store"
    BY LoopType
<1>5. CASE ReadTip
  <2>1. ASSUME NEW tip \in Nat, sync' = Loop([sync EXCEPT !.tip = tip])
        PROVE  sync'.at # "store"
    <3>1. [sync EXCEPT !.tip = tip] \in Sync
        BY <1>2 DEF Sync
    <3> QED
        BY <1>4, <2>1, <3>1
  <2> QED
      BY <1>2, <1>5, <2>1 DEF ReadTip, GotoSync
<1>6. CASE FetchSync
  <2>1. ASSUME NEW next \in Nat, NEW todo, Answered(next, todo)
        PROVE  sync'.at # "store"
    <3> DEFINE record == [sync EXCEPT !.at = "record", !.from = 0, !.next = next, !.todo = todo]
    <3>1. record.at = "record"
        BY <1>2 DEF Sync
    <3>2. \A empty \in BOOLEAN : Advance(sync, next, empty).at \in {"fetch", "save"}
        BY <1>2, AdvanceType
    <3>3. (\E empty \in BOOLEAN : sync' = Advance(sync, next, empty)) \/ sync' = record
        BY <2>1 DEF Answered, GotoSync
    <3> HIDE DEF record
    <3> QED
        BY <3>1, <3>2, <3>3
  <2>2. \A next \in NextBlocks(sync.from) : next \in Nat
      BY <1>2, IndexerType
  <2>3. \/ \E next \in NextBlocks(sync.from) : Answered(next, Found(Vault, sync.from, next))
        \/ sync' = Advance(sync, sync.from + BlockRange, TRUE)
        \/ ThrowSync
      BY <1>6, Zenon DEF FetchSync, GotoSync
  <2>4. Advance(sync, sync.from + BlockRange, TRUE).at \in {"fetch", "save"}
      BY <1>2, AdvanceType
  <2> QED
      BY <1>3, <2>1, <2>2, <2>3, <2>4
<1>7. CASE PersistDeposits \/ SaveCursor
  <2>1. Advance(sync, sync.next, FALSE).at \in {"fetch", "save"}
      BY <1>2, AdvanceType
  <2>2. sync' = Advance(sync, sync.next, FALSE) \/ sync' = NoSync \/ ThrowSync
      BY <1>7, Zenon DEF PersistDeposits, SaveCursor, GotoSync
  <2> QED
      BY <1>3, <2>1, <2>2, NoJobType
<1> QED
    BY <1>5, <1>6, <1>7 DEF SyncStep

\* A step of the user sync leaves a vault alone, or has it excused.
LEMMA SyncStepCounted ==
    ASSUME SyncTypeInv, CountInv, ScheduleSync \/ TakeSync \/ SyncStep
    PROVE  CountInv'
<1>1. UNCHANGED <<height, touches, balance>>
    BY Zenon DEF ScheduleSync, TakeSync, SyncStep, ReadTip, FetchSync, RecordSync, StoreSync,
                 PersistDeposits, SaveCursor, chainVars
<1>2. ASSUME sync.at # "none"
      PROVE  /\ sync \in Sync /\ Vault \in Predicates /\ block \in [Predicates -> Nat]
             /\ counts \in [Predicates -> [Heights -> 0..2]]
             /\ excused \in [Predicates -> SUBSET Heights]
    BY <1>2, RunningSync
<1>3. CASE RecordSync
  <2>1. /\ counts' = counts /\ sync.at = "record"
        /\ block' = block \/ block' = [block EXCEPT ![Vault] = sync.next]
        /\ \/ Excuse(Vault, Heights)
           \/ block' = block /\ Excuse(Vault, {}) /\ ThrowSync
           \/ Excuse(Vault, Heights) /\ ThrowSync
    <3>1. CASE /\ block' = [block EXCEPT ![Vault] = sync.next]
               /\ Excuse(Vault, Heights) /\ GotoSync([sync EXCEPT !.at = "store"])
        BY <1>3, <3>1, Zenon DEF RecordSync
    <3>2. CASE /\ block' \in {block, [block EXCEPT ![Vault] = sync.next]}
               /\ Excuse(Vault, IF block' = block THEN {} ELSE Heights)
               /\ ThrowSync
      <4>1. counts' = counts /\ sync.at = "record"
          BY <1>3, Zenon DEF RecordSync
      <4>2. CASE block' = block
          BY <3>2, <4>1, <4>2
      <4>3. CASE block' # block
          BY <3>2, <4>1, <4>3
      <4> QED
          BY <4>2, <4>3
    <3> QED
        BY <1>3, <3>1, <3>2, Zenon DEF RecordSync
  <2>2. /\ Vault \in Predicates
        /\ \A q \in Predicates : q # Vault => block'[q] = block[q]
      BY <1>2, <2>1
  <2>3. CASE Excuse(Vault, Heights)
    <3>1. /\ excused'[Vault] = Heights
          /\ \A q \in Predicates : q # Vault => excused'[q] = excused[q]
      <4>1. Heights \in SUBSET Heights /\ excused[Vault] \subseteq Heights
          BY <1>2, <2>1
      <4>2. /\ excused'[Vault] = excused[Vault] \cup Heights
            /\ \A q \in Predicates : q # Vault => excused'[q] = excused[q]
          BY <2>2, <2>3, <4>1, ExcuseType
      <4> QED
          BY <4>1, <4>2
    <3>2. Counted(Vault)'
        BY <3>1 DEF Counted, Heights, Vault
    <3>3. ASSUME NEW q \in Predicates, q # Vault PROVE Counted(q)'
        BY <1>1, <2>1, <2>2, <3>1, <3>3, FrameCounted DEF CountInv
    <3>4. ASSUME NEW q \in Predicates PROVE Counted(q)'
      <4>1. CASE q = Vault
          BY <3>2, <4>1 DEF Vault
      <4> QED
          BY <3>3, <4>1
    <3> QED
        BY <3>1, <3>4 DEF CountInv, StoreIsExcused, Heights, Vault
  <2>4. CASE block' = block /\ Excuse(Vault, {}) /\ ThrowSync
    <3>1. /\ excused'[Vault] = excused[Vault]
          /\ \A q \in Predicates : q # Vault => excused'[q] = excused[q]
      <4>1. {} \in SUBSET Heights
          OBVIOUS
      <4>2. /\ excused'[Vault] = excused[Vault] \cup {}
            /\ \A q \in Predicates : q # Vault => excused'[q] = excused[q]
          BY <2>2, <2>4, <4>1, ExcuseType
      <4> QED
          BY <4>2
    <3>2. \A q \in Predicates : Counted(q)'
        BY <1>1, <2>1, <2>4, <3>1, FrameCounted DEF CountInv
    <3>3. sync'.at # "store"
        BY <2>4, ThrowSyncStepType DEF GotoSync
    <3> QED
        BY <3>2, <3>3 DEF CountInv, StoreIsExcused
  <2> QED
      BY <2>1, <2>3, <2>4
<1>4. CASE StoreSync
  <2>1. /\ UNCHANGED <<block, excused>> /\ sync.at = "store"
        /\ counts' = counts \/ \E b \in sync.todo : SetCount(Vault, b)
      BY <1>4, Zenon DEF StoreSync
  <2>2. excused[Vault] = Heights /\ Vault \in Predicates /\ sync.todo \subseteq Heights
      BY <1>2, <2>1 DEF CountInv, StoreIsExcused, Sync
  <2>3. \A q \in Predicates : q # Vault => counts'[q] = counts[q]
      BY <1>2, <2>1, Zenon DEF SetCount
  <2>4. Counted(Vault)'
      BY <2>1, <2>2 DEF Counted, Heights, Vault
  <2>5. ASSUME NEW q \in Predicates, q # Vault PROVE Counted(q)'
      BY <1>1, <2>1, <2>3, <2>5, FrameCounted DEF CountInv
  <2>6. ASSUME NEW q \in Predicates PROVE Counted(q)'
    <3>1. CASE q = Vault
        BY <2>4, <3>1 DEF Vault
    <3> QED
        BY <2>5, <3>1
  <2> QED
      BY <2>1, <2>2, <2>6 DEF CountInv, StoreIsExcused, Heights, Vault
<1>5. CASE ~RecordSync /\ ~StoreSync
  <2>1. UNCHANGED <<block, counts, excused>>
      BY <1>5, Zenon DEF ScheduleSync, TakeSync, SyncStep, ReadTip, FetchSync,
                         PersistDeposits, SaveCursor, storeVars
  <2>2. ASSUME NEW q \in Predicates PROVE Counted(q)'
      BY <1>1, <2>1, FrameCounted DEF CountInv
  <2>3. sync'.at # "store"
    <3>1. CASE ScheduleSync \/ TakeSync
      <4>1. sync \in Sync
          BY DEF SyncTypeInv, SyncTypeOK
      <4>2. CASE ScheduleSync
          BY <4>2, AgainType, NoJobType DEF ScheduleSync, GotoSync
      <4>3. CASE TakeSync
        <5>1. \/ sync' = [sync EXCEPT !.at = "tip", !.last = userBlock, !.from = userBlock]
              \/ ThrowSync
            BY <4>3, Zenon DEF TakeSync, GotoSync
        <5>2. ThrowSync => sync'.at # "store"
            BY <4>1, ThrowSyncStepType DEF GotoSync
        <5> QED
            BY <4>1, <5>1, <5>2 DEF Sync
      <4> QED
          BY <3>1, <4>2, <4>3
    <3>2. CASE SyncStep
        BY <1>5, <3>2, QuietSyncStepGoesOn
    <3> QED
        BY <3>1, <3>2
  <2> QED
      BY <2>2, <2>3 DEF CountInv, StoreIsExcused
<1> QED
    BY <1>3, <1>4, <1>5

\* The steps of the balance queue take nothing back that is excused.
LEMMA BalanceStepExcuses ==
    ASSUME SyncTypeInv, NEW p \in Predicates,
           ScheduleBalance(p) \/ TakeBalance(p) \/ BalanceStep(p)
    PROVE  /\ sync' = sync
           /\ \A q \in Predicates : excused[q] = Heights => excused'[q] = Heights
<1>1. sync' = sync
    BY Zenon DEF ScheduleBalance, TakeBalance, BalanceStep, FetchBalance, RecordBalance, StoreBalance
<1>2. excused \in [Predicates -> SUBSET Heights] /\ balance[p].todo \subseteq Heights
    BY VaultTypes DEF SyncTypeInv, SyncTypeOK
<1>3. excused' = excused \/ \E S \in SUBSET Heights : Excuse(p, S)
  <2>1. CASE ScheduleBalance(p) \/ TakeBalance(p) \/ FetchBalance(p)
      BY <2>1, Zenon DEF ScheduleBalance, TakeBalance, FetchBalance, storeVars
  <2>2. CASE RecordBalance(p)
    <3> DEFINE again == IF RecordedBlock(p, balance[p].next) < block[p] THEN Heights ELSE {}
    <3>1. again \in SUBSET Heights /\ again \cup balance[p].todo \in SUBSET Heights
        BY <1>2
    <3>2. [block EXCEPT ![p] = RecordedBlock(p, balance[p].next)][p]
            = RecordedBlock(p, balance[p].next)
        BY DEF SyncTypeInv, SyncTypeOK
    <3>3. Excuse(p, again) \/ Excuse(p, again \cup balance[p].todo) \/ excused' = excused
        BY <2>2, <3>2 DEF RecordBalance
    <3> QED
        BY <3>1, <3>3
  <2>3. CASE StoreBalance(p)
      BY <1>2, <2>3, Zenon DEF StoreBalance
  <2> QED
      BY <2>1, <2>2, <2>3 DEF BalanceStep
<1>4. ASSUME NEW S \in SUBSET Heights, Excuse(p, S), NEW q \in Predicates, excused[q] = Heights
      PROVE  excused'[q] = Heights
    BY <1>2, <1>4, ExcuseType
<1> QED
    BY <1>1, <1>3, <1>4

\* Every step counts every vault precisely, or excuses it.
LEMMA NextCounts == SyncTypeInv /\ CountInv /\ [SyncNext]_syncVars => CountInv'
<1> SUFFICES ASSUME SyncTypeInv, CountInv, [SyncNext]_syncVars PROVE CountInv'
    OBVIOUS
<1>1. CASE UNCHANGED syncVars
  <2>1. UNCHANGED <<height, touches, block, counts, excused, balance, sync>>
      BY <1>1 DEF syncVars, chainVars, storeVars
  <2>2. ASSUME NEW p \in Predicates PROVE Counted(p)'
      BY <2>1, FrameCounted DEF CountInv
  <2> QED
      BY <2>1, <2>2 DEF CountInv, StoreIsExcused, Heights, Vault
<1>2. ASSUME NEW T \in SUBSET Predicates, ChainGrows(T) PROVE CountInv'
  <2>1. excused' = excused /\ sync' = sync
      BY <1>2 DEF ChainGrows, storeVars
  <2>2. ASSUME NEW p \in Predicates PROVE Counted(p)'
      BY <1>2, ChainGrowsCounted DEF CountInv
  <2> QED
      BY <2>1, <2>2 DEF CountInv, StoreIsExcused, Heights, Vault
<1>3. ASSUME NEW p \in Predicates, ScheduleBalance(p) \/ TakeBalance(p) \/ BalanceStep(p)
      PROVE  CountInv'
  <2>1. Counted(p)'
      BY <1>3, TakeBalanceCounted, FetchBalanceCounted, RecordBalanceCounted, StoreBalanceCounted
         DEF CountInv, BalanceStep
  <2>2. ASSUME NEW q \in Predicates, q # p PROVE Counted(q)'
      BY <1>3, <2>2, OtherVaults, FrameCounted DEF CountInv
  <2>3. \A q \in Predicates : Counted(q)'
    <3> SUFFICES ASSUME NEW q \in Predicates PROVE Counted(q)'
        OBVIOUS
    <3>1. CASE q = p
        BY <2>1, <3>1
    <3> QED
        BY <2>2, <3>1
  <2>4. sync' = sync /\ \A q \in Predicates : excused[q] = Heights => excused'[q] = Heights
      BY <1>3, BalanceStepExcuses
  <2>5. sync.at = "store" => Vault \in Predicates
      BY RunningSync
  <2> QED
      BY <2>3, <2>4, <2>5 DEF CountInv, StoreIsExcused, Heights, Vault
<1>4. CASE ScheduleSync \/ TakeSync \/ SyncStep
    BY <1>4, SyncStepCounted
<1>5. CASE Login \/ TriggerLogout \/ LogoutStep
  <2>1. UNCHANGED <<height, touches, block, counts, excused, balance, sync>>
      BY <1>5, Zenon DEF Login, TriggerLogout, LogoutStep, PersistBlock, CleanUp, chainVars, storeVars
  <2>2. ASSUME NEW p \in Predicates PROVE Counted(p)'
      BY <2>1, FrameCounted DEF CountInv
  <2> QED
      BY <2>1, <2>2 DEF CountInv, StoreIsExcused, Heights, Vault
<1>6. CASE Crash
  <2>1. ASSUME NEW p \in Predicates PROVE Counted(p)'
      BY <1>6, CrashCounted DEF CountInv
  <2>2. sync' = Stall(sync, NoSync, AgainSync(sync))
      BY <1>6, Zenon DEF Crash
  <2>3. sync'.at # "store"
      BY <2>2, StallSyncType DEF SyncTypeInv, SyncTypeOK
  <2> QED
      BY <2>1, <2>3 DEF CountInv, StoreIsExcused
<1> QED
    BY <1>1, <1>2, <1>3, <1>4, <1>5, <1>6 DEF SyncNext

\* Every transaction below the recorded block is counted once, and none above it.
THEOREM EveryTransactionCountedOnce == SyncSpec => []CountedOnce
<1>1. SyncInit => CountInv
  <2> SUFFICES ASSUME SyncInit PROVE CountInv
      OBVIOUS
  <2>1. 0 \in Heights /\ MaxHeight \in Nat
      BY BoundsType DEF Heights
  <2>2. ASSUME NEW p \in Predicates PROVE Precise(p)
    <3>1. /\ height = 0 /\ block[p] = 0 /\ touches[p] = {0} /\ balance[p] = NoRun
          /\ counts[p] = [b \in Heights |-> 0]
        BY DEF SyncInit
    <3> QED
        BY <2>1, <3>1, NoJobType DEF Precise
  <2>3. sync.at # "store"
      BY NoJobType DEF SyncInit
  <2> QED
      BY <2>2, <2>3 DEF CountInv, Counted, StoreIsExcused
<1>2. SyncTypeInv /\ CountInv => CountedOnce
  <2> SUFFICES ASSUME SyncTypeInv, CountInv, NEW p \in Predicates, NEW b \in touches[p] \ excused[p]
               PROVE  counts[p][b] =
                        IF b >= block[p] \/ (balance[p].at = "store" /\ b \in balance[p].todo)
                          THEN 0 ELSE 1
      BY DEF CountedOnce
  <2>1. b \in Heights
      BY VaultTypes
  <2>2. Precise(p)
      BY <2>1 DEF CountInv, Counted
  <2> QED
      BY <2>2 DEF Precise
<1> QED
    BY InitSyncType, NextSyncType, NextCounts, <1>1, <1>2, PTL DEF SyncSpec
=============================================================================
