---------------------------- MODULE BalanceCache ----------------------------
(***************************************************************************)
(* The cached balances of one predicate, per chain: BalanceCache           *)
(* (packages/api/src/server/storage/balance.ts), the requests that read    *)
(* and fill it (ProviderWithCache.getBalances, the balance checks of       *)
(* PredicateService and UserService), and those that invalidate it.  The   *)
(* keys of different predicates are disjoint, so one is enough.            *)
(*                                                                         *)
(* Every Redis command is a step of its own.  A balance is abstracted to   *)
(* its version: how often the chain has changed it.  Redis forgets an      *)
(* entry or a flag when its time to live is over, in any order except that *)
(* a flag (1 hour) outlives the entries (5 minutes) it was set over.       *)
(*                                                                         *)
(* A Redis command that fails is logged and swallowed by RedisReadClient   *)
(* and RedisWriteClient: a read finds nothing, a write does nothing, and   *)
(* the request goes on.                                                    *)
(***************************************************************************)
EXTENDS Naturals

CONSTANTS Chains,       \* the chain ids; 0 is the Fuel testnet, and falsy
          AllChains,    \* the flag key of a predicate without a chain id
          Requests,     \* the requests the API may be handling at a time
          MaxVersion,   \* bound: how often a balance changes
          MaxFailures,  \* bound: how many Redis commands fail
          Overlap,      \* may an invalidation overlap with other requests?
          Operator,     \* does the operator call invalidateAll?
          Nil           \* no entry, no balance

ASSUME BalanceCacheAssumption ==
    /\ Chains \subseteq Nat
    /\ AllChains \notin Chains
    /\ MaxVersion \in Nat /\ MaxFailures \in Nat
    /\ Overlap \in BOOLEAN /\ Operator \in BOOLEAN
    /\ Nil \notin Nat /\ Nil # AllChains

VARIABLES balance,    \* balance[c]: the version of the balance on chain c
          cache,      \* cache[c]: the entry balance:<address>:c, or Nil
          flags,      \* the invalidation flags that are set
          request,    \* request[q]: what request q is in the middle of
          failures,   \* Redis commands that failed so far
          promised    \* history: the version the last invalidation asks for

cacheVars == <<balance, cache, flags, request, failures, promised>>

Versions == 0..MaxVersion

\* buildInvalidationKey: chain 0 is taken for no chain at all.
FlagKey(c) == IF c = 0 THEN AllChains ELSE c
FlagKeys == {FlagKey(c) : c \in Chains} \cup {AllChains}

(***************************************************************************)
(* An entry; covered: the flags set over it, each of which outlives it.    *)
(***************************************************************************)
Entry == [value : Versions, covered : SUBSET FlagKeys]

\* The chains an invalidation with this flag key is about.
Covers(k) == IF k = AllChains THEN Chains ELSE {k}

Steps == {"idle",
          "chainFlag", "allFlag", "entry", "fetch", "store", "clear",   \* read, check
          "delete", "flag",                                             \* invalidate
          "scan", "unflag"}                                             \* invalidateAll

Request == [at : Steps,
            check : BOOLEAN,                   \* a balance check, or getBalances
            chain : Chains \cup {Nil},         \* the chain that is read
            key : FlagKeys \cup {Nil},         \* the flag an invalidation will set
            entries : SUBSET Chains,           \* the entries left to delete
            flags : SUBSET FlagKeys,           \* the flags left to delete
            found : Versions \cup {Nil},       \* what the cache returned
            value : Versions \cup {Nil},       \* what the chain returned
            asked : Versions,                  \* history: promised when it began
            asks : [Chains -> Versions]]       \* history: the balances when it began

IdleRequest == [at |-> "idle", check |-> FALSE, chain |-> Nil, key |-> Nil,
                entries |-> {}, flags |-> {},
                found |-> Nil, value |-> Nil, asked |-> 0,
                asks |-> [c \in Chains |-> 0]]

CacheTypeOK ==
    /\ balance \in [Chains -> Versions]
    /\ cache \in [Chains -> Entry \cup {Nil}]
    /\ flags \subseteq FlagKeys
    /\ request \in [Requests -> Request]
    /\ failures \in 0..MaxFailures
    /\ promised \in [Chains -> Versions]

CacheInit ==
    /\ balance = [c \in Chains |-> 0]
    /\ cache = [c \in Chains |-> Nil]
    /\ flags = {}
    /\ request = [q \in Requests |-> IdleRequest]
    /\ failures = 0
    /\ promised = [c \in Chains |-> 0]

Fails == failures < MaxFailures /\ failures' = failures + 1
Works == UNCHANGED failures

Goto(q, step) == request' = [request EXCEPT ![q].at = step]
Becomes(q, r) == request' = [request EXCEPT ![q] = r]
Finish(q) == Becomes(q, IdleRequest)

-----------------------------------------------------------------------------
(***************************************************************************)
(* Without Overlap, an invalidation runs while no other request does.      *)
(***************************************************************************)
Idle(q) == request[q].at = "idle"
Invalidates(q) == request[q].at \in {"delete", "flag", "scan", "unflag"}

MayRead(q) == Idle(q) /\ (Overlap \/ \A r \in Requests : ~Invalidates(r))
MayInvalidate(q) == Idle(q) /\ (Overlap \/ \A r \in Requests : Idle(r))

(***************************************************************************)
(* BalanceCache.get: both flags, then the entry.  A reader is promised     *)
(* (history) what the invalidations before it asked for; one that begins   *)
(* while an invalidation is under way, nothing.                            *)
(***************************************************************************)
Promise(c) == IF \E r \in Requests : Invalidates(r) THEN 0 ELSE promised[c]

StartRead(q, c, check) ==
    /\ MayRead(q)
    /\ Becomes(q, [IdleRequest EXCEPT !.at = "chainFlag", !.check = check, !.chain = c,
                                      !.asked = Promise(c)])
    /\ UNCHANGED <<balance, cache, flags, failures, promised>>

ReadFlag(q, step, key, next) ==
    /\ request[q].at = step
    /\ \/ Works /\ Goto(q, IF key \in flags THEN "fetch" ELSE next)
       \/ Fails /\ Goto(q, next)
    /\ UNCHANGED <<balance, cache, flags, promised>>

ReadChainFlag(q) == ReadFlag(q, "chainFlag", FlagKey(request[q].chain), "allFlag")
ReadAllFlag(q) == ReadFlag(q, "allFlag", AllChains, "entry")

\* Mutant: a hit is stored again, which starts its time to live anew.
ReadEntryAndRenew(q) ==
    LET entry == cache[request[q].chain]
    IN  /\ request[q].at = "entry"
        /\ Works
        /\ IF entry = Nil
             THEN Goto(q, "fetch")
             ELSE Becomes(q, [request[q] EXCEPT !.at = "store", !.value = entry.value])
        /\ UNCHANGED <<balance, cache, flags, promised>>

\* getBalances returns what it found; a check goes on to compare it with the chain.
ReadEntry(q) ==
    LET entry == cache[request[q].chain]
    IN  /\ request[q].at = "entry"
        /\ \/ Works /\ IF entry = Nil THEN Goto(q, "fetch")
                       ELSE IF ~request[q].check THEN Finish(q)
                       ELSE Becomes(q, [request[q] EXCEPT !.at = "fetch",
                                                          !.found = entry.value])
           \/ Fails /\ Goto(q, "fetch")
        /\ UNCHANGED <<balance, cache, flags, promised>>

-----------------------------------------------------------------------------
(***************************************************************************)
(* The balance is fetched from the chain.  getBalances stores every answer, *)
(* a check only one that differs from the cached one it has found.         *)
(***************************************************************************)
Fetch(q) ==
    LET now == balance[request[q].chain]
        stores == request[q].check => request[q].found \notin {Nil, now}
    IN  /\ request[q].at = "fetch"
        /\ IF stores
             THEN Becomes(q, [request[q] EXCEPT !.at = "store", !.value = now])
             ELSE Finish(q)
        /\ UNCHANGED <<balance, cache, flags, failures, promised>>

\* Mutant: the error of the chain is taken for an answer.
FetchThrowsUnnoticed(q) ==
    /\ request[q].at = "fetch"
    /\ Goto(q, "store")
    /\ UNCHANGED <<balance, cache, flags, failures, promised>>

\* The node throws: getBalances asks it once more and stores nothing.
FetchThrows(q) ==
    /\ request[q].at = "fetch"
    /\ Finish(q)
    /\ UNCHANGED <<balance, cache, flags, failures, promised>>

(***************************************************************************)
(* BalanceCache.set: the entry is written, then the flags are cleared, the *)
(* one of the chain and the one of all chains.                             *)
(***************************************************************************)
Store(q) ==
    /\ request[q].at = "store"
    /\ \/ /\ Works
          /\ cache' = [cache EXCEPT ![request[q].chain] =
                          [value |-> request[q].value, covered |-> {}]]
       \/ Fails /\ UNCHANGED cache
    /\ Goto(q, "clear")
    /\ UNCHANGED <<balance, flags, promised>>

ClearFlags(q) ==
    /\ request[q].at = "clear"
    /\ \/ Works /\ flags' = flags \ {AllChains, FlagKey(request[q].chain)}
       \/ Fails /\ UNCHANGED flags
    /\ Finish(q)
    /\ UNCHANGED <<balance, cache, promised>>

-----------------------------------------------------------------------------
(***************************************************************************)
(* BalanceCache.invalidate: the entries are deleted, then a flag is set.   *)
(* With chain id 0 it does what it does without one.  invalidateAll        *)
(* deletes balance:*, which the flags match as well, and then the flags.   *)
(***************************************************************************)
StartInvalidate(q, k) ==
    /\ MayInvalidate(q)
    /\ Becomes(q, [IdleRequest EXCEPT !.at = "delete", !.key = k, !.entries = Covers(k),
                                      !.asks = balance])
    /\ UNCHANGED <<balance, cache, flags, failures, promised>>

StartInvalidateAll(q) ==
    /\ Operator /\ MayInvalidate(q)
    /\ Becomes(q, [IdleRequest EXCEPT !.at = "scan", !.entries = Chains, !.flags = FlagKeys,
                                      !.asks = balance])
    /\ UNCHANGED <<balance, cache, flags, failures, promised>>

\* What is promised once an invalidation has seen to the entries of C.
Promised(q, C) ==
    [c \in Chains |-> IF c \in C /\ promised[c] < request[q].asks[c]
                      THEN request[q].asks[c] ELSE promised[c]]

(***************************************************************************)
(* delByPattern deletes page by page (and del its one key).  Once an entry *)
(* is deleted, the balance of when the invalidation began is promised.     *)
(***************************************************************************)
DeletePage(q, E, F) ==
    /\ request[q].at \in {"delete", "scan", "unflag"}
    /\ E \subseteq request[q].entries /\ F \subseteq request[q].flags
    /\ E \cup F # {}
    /\ cache' = [c \in Chains |-> IF c \in E THEN Nil ELSE cache[c]]
    /\ flags' = flags \ F
    /\ promised' = Promised(q, E)
    /\ Becomes(q, [request[q] EXCEPT !.entries = request[q].entries \ E,
                                     !.flags = request[q].flags \ F])
    /\ UNCHANGED <<balance, failures>>

\* An error gives the pattern up; what is left stays.
DeleteFails(q) ==
    /\ request[q].at \in {"delete", "scan", "unflag"}
    /\ request[q].entries \cup request[q].flags # {}
    /\ Fails
    /\ Becomes(q, [request[q] EXCEPT !.entries = {}, !.flags = {}])
    /\ UNCHANGED <<balance, cache, flags, promised>>

PatternDone(q) ==
    /\ request[q].entries = {} /\ request[q].flags = {}
    /\ \/ request[q].at = "delete" /\ Goto(q, "flag")
       \/ /\ request[q].at = "scan"
          /\ Becomes(q, [request[q] EXCEPT !.at = "unflag", !.flags = FlagKeys])
       \/ request[q].at = "unflag" /\ Finish(q)
    /\ UNCHANGED <<balance, cache, flags, failures, promised>>

Cover(c, k) ==
    IF cache[c] = Nil THEN Nil ELSE [cache[c] EXCEPT !.covered = cache[c].covered \cup {k}]

(***************************************************************************)
(* If the entry of a chain could not be deleted, its flag keeps the        *)
(* promise all the same (history): readers are sent to the chain.          *)
(***************************************************************************)
SetFlag(q) ==
    LET k == request[q].key
    IN  /\ request[q].at = "flag"
        /\ \/ /\ Works
              /\ flags' = flags \cup {k}
              /\ cache' = [c \in Chains |-> IF c \in Covers(k) THEN Cover(c, k) ELSE cache[c]]
              /\ promised' = Promised(q, {k})
           \/ Fails /\ UNCHANGED <<flags, cache, promised>>
        /\ Finish(q)
        /\ UNCHANGED balance

-----------------------------------------------------------------------------
(***************************************************************************)
(* The chain, and the time to live of the keys.                            *)
(***************************************************************************)
BalanceChanges(c) ==
    /\ balance[c] < MaxVersion
    /\ balance' = [balance EXCEPT ![c] = @ + 1]
    /\ UNCHANGED <<cache, flags, request, failures, promised>>

ExpireEntry(c) ==
    /\ cache[c] # Nil
    /\ cache' = [cache EXCEPT ![c] = Nil]
    /\ UNCHANGED <<balance, flags, request, failures, promised>>

\* Mutant: a flag lives no longer than the entries it was set over.
ExpireFlagEarly(k) ==
    /\ k \in flags
    /\ flags' = flags \ {k}
    /\ UNCHANGED <<balance, cache, request, failures, promised>>

ExpireFlag(k) ==
    /\ k \in flags
    /\ \A c \in Covers(k) : cache[c] # Nil => k \notin cache[c].covered
    /\ flags' = flags \ {k}
    /\ UNCHANGED <<balance, cache, request, failures, promised>>

-----------------------------------------------------------------------------
Start(q) ==
    \/ \E c \in Chains, check \in BOOLEAN : StartRead(q, c, check)
    \/ \E k \in FlagKeys : StartInvalidate(q, k)
    \/ StartInvalidateAll(q)

Delete(q) ==
    \/ \E E \in SUBSET Chains, F \in SUBSET FlagKeys : DeletePage(q, E, F)
    \/ DeleteFails(q)
    \/ PatternDone(q)

Continue(q) ==
    \/ ReadChainFlag(q) \/ ReadAllFlag(q) \/ ReadEntry(q)
    \/ Fetch(q) \/ FetchThrows(q)
    \/ Store(q) \/ ClearFlags(q)
    \/ Delete(q) \/ SetFlag(q)

CacheNext ==
    \/ \E q \in Requests : Start(q) \/ Continue(q)
    \/ \E c \in Chains : BalanceChanges(c) \/ ExpireEntry(c)
    \/ \E k \in FlagKeys : ExpireFlag(k)

CacheSpec == CacheInit /\ [][CacheNext]_cacheVars

(***************************************************************************)
(* A request that has begun runs on, and a time to live comes to its end.  *)
(***************************************************************************)
CacheFairness ==
    /\ \A q \in Requests : WF_cacheVars(Continue(q))
    /\ \A c \in Chains : WF_cacheVars(ExpireEntry(c))

FairCacheSpec == CacheSpec /\ CacheFairness

-----------------------------------------------------------------------------
(***************************************************************************)
(* Properties.                                                             *)
(***************************************************************************)
\* The cache answers request q.
Hits(q) ==
    /\ request[q].at = "entry" /\ request'[q].at # "entry"
    /\ failures' = failures /\ cache[request[q].chain] # Nil

(***************************************************************************)
(* No reader that begins after an invalidation has finished is answered    *)
(* with an older balance: "called after successful transactions to ensure  *)
(* fresh data for all affected predicates".  Deleting the entry and        *)
(* setting the flag back each other up, so it holds although one Redis     *)
(* command may be lost and requests fill the cache at the same time; it    *)
(* does not when an invalidation overlaps with a request that has fetched  *)
(* before it.                                                              *)
(***************************************************************************)
HitAfterInvalidationIsFresh ==
    [][\A q \in Requests :
         Hits(q) => cache[request[q].chain].value >= request[q].asked]_cacheVars

(***************************************************************************)
(* When a balance has changed for the last time, the cache holds it or     *)
(* nothing from some time on, whatever requests were under way.            *)
(***************************************************************************)
EventuallyFresh ==
    \A c \in Chains : <>[](cache[c] = Nil \/ cache[c].value = balance[c])
=============================================================================
