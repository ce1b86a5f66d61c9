------------------------- MODULE BalanceCacheProofs -------------------------
(***************************************************************************)
(* Proofs about BalanceCache, for any chains, requests and number of       *)
(* changes of the balance.                                                 *)
(***************************************************************************)
EXTENDS BalanceCache, TLAPS

Reads(q) == request[q].at \in {"chainFlag", "allFlag", "entry", "fetch", "store", "clear"}

\* A request that reads or fills has a chain, and something to store.
ReadersHaveAChain ==
    \A q \in Requests :
        /\ Reads(q) => request[q].chain \in Chains
        /\ request[q].at \in {"store", "clear"} => request[q].value \in Versions

\* A request that invalidates has a flag to set; only invalidateAll deletes flags.
InvalidatorsHaveAKey ==
    \A q \in Requests :
        /\ request[q].at \in {"delete", "flag"} => /\ request[q].key \in FlagKeys
                                                   /\ request[q].flags = {}
        /\ request[q].at = "scan" => request[q].key = Nil

\* The inductive invariant behind type correctness.
CacheTypeInv == CacheTypeOK /\ ReadersHaveAChain /\ InvalidatorsHaveAKey

-----------------------------------------------------------------------------
(***************************************************************************)
(* Freshness.  An entry is stale if it is older than what was promised.    *)
(***************************************************************************)
Stale(c) == cache[c] # Nil /\ cache[c].value < promised[c]

Quiet == ~Overlap /\ MaxFailures <= 1

\* An invalidation has the cache to itself.
InvalidationsAreAlone ==
    \A q, r \in Requests : Invalidates(q) /\ r # q => Idle(r)

\* No promise is newer than the chain.
PromisesAreKnown ==
    /\ \A c \in Chains : promised[c] <= balance[c]
    /\ \A q \in Requests, c \in Chains :
         Invalidates(q) => request[q].asks[c] <= balance[c]

\* What a reader was promised when it began is what is promised now.
ReadersAreUpToDate ==
    \A q \in Requests :
        Reads(q) => /\ request[q].asked = promised[request[q].chain]
                    /\ request[q].at = "store"
                         => request[q].value >= promised[request[q].chain]

(***************************************************************************)
(* A stale entry is one that a lost command has left; its flag is set, or  *)
(* invalidateAll is about to delete it.                                    *)
(***************************************************************************)
StaleIsFlagged ==
    \A c \in Chains : Stale(c) =>
        /\ failures = MaxFailures
        /\ \/ c \in flags /\ c \in cache[c].covered
           \/ \E q \in Requests : request[q].at = "scan"

\* Who got past the flag of a chain, or set an entry, finds no stale one.
StaleIsNotInUse ==
    \A q \in Requests :
        /\ request[q].at \in {"allFlag", "entry", "clear"} => ~Stale(request[q].chain)
        /\ request[q].at = "scan" => \A c \in Chains : Stale(c) => c \in request[q].entries
        /\ request[q].at = "unflag" => \A c \in Chains : ~Stale(c)

\* A delete that failed has used the one failure up; one that did not has made its promise.
FailedDeleteIsCounted ==
    \A q \in Requests, c \in Chains :
        request[q].at \in {"delete", "flag"} /\ c = request[q].key
          => \/ request[q].at = "delete" /\ c \in request[q].entries
             \/ request[q].asks[c] <= promised[c]
             \/ failures = MaxFailures

\* The inductive invariant.
FreshInv ==
    /\ CacheTypeInv
    /\ InvalidationsAreAlone
    /\ PromisesAreKnown
    /\ ReadersAreUpToDate
    /\ StaleIsFlagged
    /\ StaleIsNotInUse
    /\ FailedDeleteIsCounted

-----------------------------------------------------------------------------
(***************************************************************************)
(* Types.                                                                  *)
(***************************************************************************)
\* The empty cache.
LEMMA CacheInitType == CacheInit => CacheTypeInv
<1> SUFFICES ASSUME CacheInit PROVE CacheTypeInv
    OBVIOUS
<1>1. 0 \in Versions
    BY BalanceCacheAssumption DEF Versions
<1>2. IdleRequest \in Request
    BY <1>1 DEF IdleRequest, Request, Steps
<1>3. \A q \in Requests : request[q].at = "idle"
    BY DEF CacheInit, IdleRequest
<1> QED
    BY <1>1, <1>2, <1>3, BalanceCacheAssumption
       DEF CacheInit, CacheTypeInv, CacheTypeOK, ReadersHaveAChain, InvalidatorsHaveAKey, Reads

\* A request that begins keeps the types.
LEMMA StartType ==
    ASSUME CacheTypeInv, NEW q \in Requests, Start(q)
    PROVE  CacheTypeInv'
<1> USE DEF CacheTypeInv, CacheTypeOK, ReadersHaveAChain, InvalidatorsHaveAKey, Reads
<1>1. 0 \in Versions
    BY BalanceCacheAssumption DEF Versions
<1>2. ASSUME NEW c \in Chains, NEW check \in BOOLEAN, StartRead(q, c, check)
      PROVE  CacheTypeInv'
  <2> DEFINE new == [IdleRequest EXCEPT !.at = "chainFlag", !.check = check, !.chain = c,
                                        !.asked = Promise(c)]
  <2>p. Promise(c) \in Versions
      BY <1>1 DEF Promise
  <2>1. new \in Request /\ new.at = "chainFlag" /\ new.chain = c
      BY <1>1, <2>p DEF IdleRequest, Request, Steps
  <2>2. request' = [request EXCEPT ![q] = new]
      BY <1>2 DEF StartRead, Becomes
  <2> QED
      BY <1>2, <2>1, <2>2 DEF StartRead
<1>3. ASSUME NEW k \in FlagKeys, StartInvalidate(q, k)
      PROVE  CacheTypeInv'
  <2> DEFINE new == [IdleRequest EXCEPT !.at = "delete", !.key = k, !.entries = Covers(k),
                                        !.asks = balance]
  <2>1. Covers(k) \subseteq Chains
      BY DEF Covers, FlagKeys, FlagKey
  <2>2. new \in Request /\ new.at = "delete" /\ new.key = k /\ new.flags = {}
      BY <1>1, <2>1 DEF IdleRequest, Request, Steps
  <2>3. request' = [request EXCEPT ![q] = new]
      BY <1>3 DEF StartInvalidate, Becomes
  <2> QED
      BY <1>3, <2>2, <2>3 DEF StartInvalidate
<1>4. ASSUME StartInvalidateAll(q)
      PROVE  CacheTypeInv'
  <2> DEFINE new == [IdleRequest EXCEPT !.at = "scan", !.entries = Chains, !.flags = FlagKeys,
                                        !.asks = balance]
  <2>1. new \in Request /\ new.at = "scan" /\ new.key = Nil
      BY <1>1 DEF IdleRequest, Request, Steps
  <2>2. request' = [request EXCEPT ![q] = new]
      BY <1>4 DEF StartInvalidateAll, Becomes
  <2> QED
      BY <1>4, <2>1, <2>2 DEF StartInvalidateAll
<1> QED
    BY <1>2, <1>3, <1>4 DEF Start

\* The two ways in which a Redis command goes.
LEMMA FailuresType ==
    ASSUME failures \in 0..MaxFailures, Works \/ Fails
    PROVE  failures' \in 0..MaxFailures
  BY BalanceCacheAssumption DEF Works, Fails

\* A request that goes on reading keeps the types.
LEMMA GotoType ==
    ASSUME CacheTypeInv, NEW q \in Requests,
           NEW step \in {"allFlag", "entry", "fetch", "clear"}, Goto(q, step), Reads(q),
           step = "clear" => request[q].value \in Versions,
           UNCHANGED <<balance, flags, promised>>,
           failures' \in 0..MaxFailures, cache' \in [Chains -> Entry \cup {Nil}]
    PROVE  CacheTypeInv'
<1> DEFINE new == [request[q] EXCEPT !.at = step]
<1>1. request[q] \in Request /\ request \in [Requests -> Request]
    BY DEF CacheTypeInv, CacheTypeOK
<1>2. /\ new \in Request /\ new.at = step /\ new.chain = request[q].chain
      /\ new.value = request[q].value
    BY <1>1 DEF Request, Steps
<1>3. request' = [request EXCEPT ![q] = new]
    BY <1>1 DEF Goto
<1> HIDE DEF new
<1> QED
    BY <1>1, <1>2, <1>3
       DEF CacheTypeInv, CacheTypeOK, ReadersHaveAChain, InvalidatorsHaveAKey, Reads

\* A request that ends keeps the types.
LEMMA FinishType ==
    ASSUME CacheTypeInv, NEW q \in Requests, Finish(q),
           UNCHANGED <<balance, promised>>, flags' \subseteq FlagKeys,
           failures' \in 0..MaxFailures, cache' \in [Chains -> Entry \cup {Nil}]
    PROVE  CacheTypeInv'
<1>1. 0 \in Versions
    BY BalanceCacheAssumption DEF Versions
<1>2. IdleRequest \in Request /\ IdleRequest.at = "idle"
    BY <1>1 DEF IdleRequest, Request, Steps
<1> QED
    BY <1>2 DEF Finish, Becomes, CacheTypeInv, CacheTypeOK, ReadersHaveAChain, InvalidatorsHaveAKey,
                Reads

\* A request that goes on keeps the types if what becomes of it has them.
LEMMA BecomesType ==
    ASSUME CacheTypeInv, NEW q \in Requests, NEW r \in Request, Becomes(q, r),
           r.at \in {"chainFlag", "allFlag", "entry", "fetch", "store", "clear"}
             => r.chain \in Chains,
           r.at \in {"store", "clear"} => r.value \in Versions,
           r.at \in {"delete", "flag"} => r.key \in FlagKeys /\ r.flags = {},
           r.at = "scan" => r.key = Nil,
           UNCHANGED balance, promised' \in [Chains -> Versions], flags' \subseteq FlagKeys,
           failures' \in 0..MaxFailures, cache' \in [Chains -> Entry \cup {Nil}]
    PROVE  CacheTypeInv'
  BY DEF Becomes, CacheTypeInv, CacheTypeOK, ReadersHaveAChain, InvalidatorsHaveAKey, Reads

\* The steps of get, of the fetch and of set keep the types.
LEMMA FillType ==
    ASSUME CacheTypeInv, NEW q \in Requests,
           \/ ReadChainFlag(q) \/ ReadAllFlag(q) \/ ReadEntry(q)
           \/ Fetch(q) \/ FetchThrows(q) \/ Store(q) \/ ClearFlags(q)
    PROVE  CacheTypeInv'
<1>1. /\ CacheTypeOK /\ failures \in 0..MaxFailures /\ flags \subseteq FlagKeys
      /\ cache \in [Chains -> Entry \cup {Nil}]
    BY DEF CacheTypeInv, CacheTypeOK
<1>2. /\ Reads(q) => request[q].chain \in Chains
      /\ request[q].at \in {"store", "clear"} => request[q].value \in Versions
    BY DEF CacheTypeInv, ReadersHaveAChain
<1>3. CASE ReadChainFlag(q)
  <2>1. Goto(q, "fetch") \/ Goto(q, "allFlag")
      BY <1>3 DEF ReadChainFlag, ReadFlag
  <2>2. failures' \in 0..MaxFailures
      BY <1>1, <1>3, FailuresType DEF ReadChainFlag, ReadFlag
  <2>3. UNCHANGED <<balance, cache, flags, promised>> /\ Reads(q)
      BY <1>3 DEF ReadChainFlag, ReadFlag, Reads
  <2> QED
      BY <1>1, <2>1, <2>2, <2>3, GotoType
<1>4. CASE ReadAllFlag(q)
  <2>1. Goto(q, "fetch") \/ Goto(q, "entry")
      BY <1>4 DEF ReadAllFlag, ReadFlag
  <2>2. failures' \in 0..MaxFailures
      BY <1>1, <1>4, FailuresType DEF ReadAllFlag, ReadFlag
  <2>3. UNCHANGED <<balance, cache, flags, promised>> /\ Reads(q)
      BY <1>4 DEF ReadAllFlag, ReadFlag, Reads
  <2> QED
      BY <1>1, <2>1, <2>2, <2>3, GotoType
<1>5. CASE ReadEntry(q)
  <2>1. failures' \in 0..MaxFailures
      BY <1>1, <1>5, FailuresType DEF ReadEntry
  <2>2. UNCHANGED <<balance, cache, flags, promised>> /\ Reads(q)
      BY <1>5 DEF ReadEntry, Reads
  <2>3. CASE Goto(q, "fetch")
      BY <1>1, <2>1, <2>2, <2>3, GotoType
  <2>4. CASE Finish(q)
      BY <1>1, <2>1, <2>2, <2>4, FinishType
  <2>5. CASE /\ cache[request[q].chain] # Nil
             /\ Becomes(q, [request[q] EXCEPT !.at = "fetch",
                                              !.found = cache[request[q].chain].value])
    <3> DEFINE new == [request[q] EXCEPT !.at = "fetch",
                                         !.found = cache[request[q].chain].value]
    <3>1. cache[request[q].chain].value \in Versions
        BY <1>1, <1>2, <2>2, <2>5 DEF Entry
    <3>2. new \in Request /\ new.at = "fetch" /\ new.chain = request[q].chain
        BY <1>1, <3>1 DEF CacheTypeOK, Request, Steps
    <3>3. Becomes(q, new) /\ promised \in [Chains -> Versions]
        BY <1>1, <2>5 DEF CacheTypeOK
    <3> HIDE DEF new
    <3> QED
        BY <1>1, <1>2, <2>1, <2>2, <3>2, <3>3, BecomesType
  <2> QED
      BY <1>5, <2>3, <2>4, <2>5 DEF ReadEntry
<1>6. CASE Fetch(q)
  <2> DEFINE now == balance[request[q].chain]
  <2>1. Reads(q) /\ UNCHANGED <<balance, cache, flags, failures, promised>>
      BY <1>6 DEF Fetch, Reads
  <2>2. now \in Versions
      BY <1>1, <1>2, <2>1 DEF CacheTypeOK
  <2>3. CASE Finish(q)
      BY <1>1, <2>1, <2>3, FinishType
  <2>4. CASE Becomes(q, [request[q] EXCEPT !.at = "store", !.value = now])
    <3> DEFINE new == [request[q] EXCEPT !.at = "store", !.value = now]
    <3>1. /\ new \in Request /\ new.at = "store"
          /\ new.chain = request[q].chain /\ new.value = now
        BY <1>1, <2>2 DEF CacheTypeOK, Request, Steps
    <3>2. Becomes(q, new) /\ promised \in [Chains -> Versions]
        BY <1>1, <2>4 DEF CacheTypeOK
    <3> HIDE DEF new
    <3> QED
        BY <1>1, <1>2, <2>1, <2>2, <3>1, <3>2, BecomesType
  <2> QED
      BY <1>6, <2>3, <2>4 DEF Fetch
<1>7. CASE FetchThrows(q)
    BY <1>1, <1>7, FinishType DEF FetchThrows
<1>8. CASE Store(q)
  <2>1. failures' \in 0..MaxFailures
      BY <1>1, <1>8, FailuresType DEF Store
  <2>2. request[q].chain \in Chains /\ request[q].value \in Versions /\ Reads(q)
      BY <1>2, <1>8 DEF Store, Reads
  <2>3. [value |-> request[q].value, covered |-> {}] \in Entry
      BY <2>2 DEF Entry
  <2>4. cache' \in [Chains -> Entry \cup {Nil}]
      BY <1>1, <1>8, <2>2, <2>3 DEF Store
  <2> QED
      BY <1>8, <2>1, <2>2, <2>4, GotoType DEF Store
<1>9. CASE ClearFlags(q)
  <2>1. failures' \in 0..MaxFailures
      BY <1>1, <1>9, FailuresType DEF ClearFlags
  <2> QED
      BY <1>1, <1>9, <2>1, FinishType DEF ClearFlags
<1> QED
    BY <1>3, <1>4, <1>5, <1>6, <1>7, <1>8, <1>9

\* What an invalidation promises are balances of the chain.
LEMMA PromisedType ==
    ASSUME promised \in [Chains -> Versions], NEW q \in Requests, request[q] \in Request, NEW C
    PROVE  Promised(q, C) \in [Chains -> Versions]
BY DEF Promised, Request

\* The steps of an invalidation keep the types.
LEMMA InvalidateType ==
    ASSUME CacheTypeInv, NEW q \in Requests, Delete(q) \/ SetFlag(q)
    PROVE  CacheTypeInv'
<1>1. /\ CacheTypeOK /\ failures \in 0..MaxFailures /\ flags \subseteq FlagKeys
      /\ cache \in [Chains -> Entry \cup {Nil}]
      /\ balance \in [Chains -> Versions] /\ promised \in [Chains -> Versions]
      /\ request[q] \in Request
    BY DEF CacheTypeInv, CacheTypeOK
<1>2. ASSUME NEW E \in SUBSET Chains, NEW F \in SUBSET FlagKeys, DeletePage(q, E, F)
      PROVE  CacheTypeInv'
  <2>1. cache' \in [Chains -> Entry \cup {Nil}] /\ promised' \in [Chains -> Versions]
      BY <1>1, <1>2, PromisedType DEF DeletePage
  <2> DEFINE new == [request[q] EXCEPT !.entries = request[q].entries \ E,
                                       !.flags = request[q].flags \ F]
  <2>2. /\ new \in Request /\ new.at = request[q].at /\ new.key = request[q].key
        /\ new.flags = request[q].flags \ F
      BY <1>1 DEF Request
  <2>3. /\ Becomes(q, new) /\ request[q].at \in {"delete", "scan", "unflag"}
        /\ flags' \subseteq FlagKeys /\ UNCHANGED <<balance, failures>>
      BY <1>1, <1>2 DEF DeletePage
  <2> HIDE DEF new
  <2>4. new.at \in {"delete", "flag"} => new.key \in FlagKeys /\ new.flags = {}
      BY <2>2 DEF CacheTypeInv, InvalidatorsHaveAKey
  <2>5. new.at = "scan" => new.key = Nil
      BY <2>2 DEF CacheTypeInv, InvalidatorsHaveAKey
  <2> QED
      BY <1>1, <2>1, <2>2, <2>3, <2>4, <2>5, BecomesType
<1>3. CASE DeleteFails(q)
  <2>2. failures' \in 0..MaxFailures
      BY <1>1, <1>3, FailuresType DEF DeleteFails
  <2> DEFINE new == [request[q] EXCEPT !.entries = {}, !.flags = {}]
  <2>3. /\ new \in Request /\ new.at = request[q].at /\ new.key = request[q].key
        /\ new.flags = {}
      BY <1>1 DEF Request
  <2>4. /\ Becomes(q, new) /\ request[q].at \in {"delete", "scan", "unflag"}
        /\ UNCHANGED <<balance, cache, flags, promised>>
      BY <1>3 DEF DeleteFails
  <2> HIDE DEF new
  <2>5. /\ new.at \in {"delete", "flag"} => new.key \in FlagKeys
        /\ new.at = "scan" => new.key = Nil
      BY <2>3, <2>4 DEF CacheTypeInv, InvalidatorsHaveAKey
  <2> QED
      BY <1>1, <2>2, <2>3, <2>4, <2>5, BecomesType
<1>4. CASE PatternDone(q)
  <2>1. CASE Finish(q)
      BY <1>1, <1>4, <2>1, FinishType DEF PatternDone
  <2>2. CASE request[q].at = "delete" /\ Goto(q, "flag")
    <3> DEFINE new == [request[q] EXCEPT !.at = "flag"]
    <3>1. /\ new \in Request /\ new.at = "flag" /\ new.key = request[q].key
          /\ new.flags = request[q].flags
        BY <1>1 DEF Request, Steps
    <3>2. Becomes(q, new) /\ UNCHANGED <<balance, cache, flags, failures, promised>>
        BY <1>4, <2>2 DEF PatternDone, Goto, Becomes, CacheTypeInv, CacheTypeOK
    <3>3. new.key \in FlagKeys /\ new.flags = {}
        BY <2>2, <3>1 DEF CacheTypeInv, InvalidatorsHaveAKey
    <3> HIDE DEF new
    <3> QED
        BY <1>1, <3>1, <3>2, <3>3, BecomesType
  <2>3. CASE Becomes(q, [request[q] EXCEPT !.at = "unflag", !.flags = FlagKeys])
    <3> DEFINE new == [request[q] EXCEPT !.at = "unflag", !.flags = FlagKeys]
    <3>1. new \in Request /\ new.at = "unflag"
        BY <1>1 DEF Request, Steps
    <3>2. Becomes(q, new) /\ UNCHANGED <<balance, cache, flags, failures, promised>>
        BY <1>4, <2>3 DEF PatternDone
    <3> HIDE DEF new
    <3> QED
        BY <1>1, <3>1, <3>2, BecomesType
  <2> QED
      BY <1>4, <2>1, <2>2, <2>3 DEF PatternDone
<1>5. CASE SetFlag(q)
  <2>1. failures' \in 0..MaxFailures
      BY <1>1, <1>5, FailuresType DEF SetFlag
  <2>2. request[q].key \in FlagKeys
      BY <1>5 DEF SetFlag, CacheTypeInv, InvalidatorsHaveAKey
  <2>3. \A c \in Chains : Cover(c, request[q].key) \in Entry \cup {Nil}
      BY <1>1, <2>2 DEF Cover, Entry
  <2>4. cache' \in [Chains -> Entry \cup {Nil}]
      BY <1>1, <1>5, <2>3 DEF SetFlag
  <2>5. promised' \in [Chains -> Versions]
      BY <1>1, <1>5, PromisedType DEF SetFlag
  <2>6. flags' \subseteq FlagKeys /\ Finish(q) /\ UNCHANGED balance
      BY <1>1, <1>5, <2>2 DEF SetFlag
  <2>7. IdleRequest \in Request /\ IdleRequest.at = "idle"
      BY BalanceCacheAssumption DEF IdleRequest, Request, Steps, Versions
  <2> QED
      BY <2>1, <2>4, <2>5, <2>6, <2>7
         DEF Finish, Becomes, CacheTypeInv, CacheTypeOK, ReadersHaveAChain, InvalidatorsHaveAKey, Reads
<1> QED
    BY <1>2, <1>3, <1>4, <1>5 DEF Delete

\* The chain, and the times to live, keep the types.
LEMMA EnvironmentType ==
    ASSUME CacheTypeInv,
           \/ \E c \in Chains : BalanceChanges(c) \/ ExpireEntry(c)
           \/ \E k \in FlagKeys : ExpireFlag(k)
    PROVE  CacheTypeInv'
<1> USE DEF CacheTypeInv, CacheTypeOK, ReadersHaveAChain, InvalidatorsHaveAKey, Reads
<1>1. ASSUME NEW c \in Chains, BalanceChanges(c)
      PROVE  CacheTypeInv'
  <2>1. balance[c] + 1 \in Versions
      BY <1>1, BalanceCacheAssumption DEF BalanceChanges, Versions
  <2> QED
      BY <1>1, <2>1 DEF BalanceChanges
<1>2. ASSUME NEW c \in Chains, ExpireEntry(c)
      PROVE  CacheTypeInv'
    BY <1>2 DEF ExpireEntry
<1>3. ASSUME NEW k \in FlagKeys, ExpireFlag(k)
      PROVE  CacheTypeInv'
    BY <1>3 DEF ExpireFlag
<1> QED
    BY <1>1, <1>2, <1>3

\* Every step keeps the types.
LEMMA CacheNextType == CacheTypeInv /\ [CacheNext]_cacheVars => CacheTypeInv'
<1> SUFFICES ASSUME CacheTypeInv, [CacheNext]_cacheVars PROVE CacheTypeInv'
    OBVIOUS
<1>1. ASSUME NEW q \in Requests, Start(q) PROVE CacheTypeInv'
    BY <1>1, StartType
<1>2. ASSUME NEW q \in Requests, Continue(q) PROVE CacheTypeInv'
    BY <1>2, FillType, InvalidateType DEF Continue
<1>3. CASE UNCHANGED cacheVars
    BY <1>3 DEF cacheVars, CacheTypeInv, CacheTypeOK, ReadersHaveAChain, InvalidatorsHaveAKey,
                Reads
<1> QED
    BY <1>1, <1>2, <1>3, EnvironmentType DEF CacheNext

(***************************************************************************)
(* The cached balances, the flags and the requests keep to their types: a  *)
(* request only ever stores a balance the chain has returned.              *)
(***************************************************************************)
THEOREM CacheTypeCorrect == CacheSpec => []CacheTypeOK
<1>1. CacheTypeInv => CacheTypeOK
    BY DEF CacheTypeInv
<1> QED
    BY <1>1, CacheInitType, CacheNextType, PTL DEF CacheSpec
-----------------------------------------------------------------------------
(***************************************************************************)
(* Freshness.                                                              *)
(***************************************************************************)
\* Nothing is promised, nothing is cached.
LEMMA CacheInitFresh == CacheInit => FreshInv
<1> SUFFICES ASSUME CacheInit PROVE FreshInv
    OBVIOUS
<1>1. \A q \in Requests : request[q].at = "idle"
    BY DEF CacheInit, IdleRequest
<1>2. \A c \in Chains : cache[c] = Nil /\ promised[c] = 0 /\ balance[c] = 0
    BY DEF CacheInit
<1>3. PromisesAreKnown
    BY <1>1, <1>2 DEF PromisesAreKnown, Invalidates
<1> QED
    BY <1>1, <1>2, <1>3, CacheInitType
       DEF FreshInv, InvalidationsAreAlone, ReadersAreUpToDate, StaleIsFlagged, Stale,
           StaleIsNotInUse, FailedDeleteIsCounted, Invalidates, Reads

\* The failure is the last one, and the first: nothing was stale before it.
LEMMA LastFailure ==
    ASSUME Quiet, FreshInv, Fails
    PROVE  failures' = MaxFailures /\ \A c \in Chains : ~Stale(c)
<1>1. failures \in 0..MaxFailures /\ failures # MaxFailures /\ failures' = MaxFailures
    BY BalanceCacheAssumption DEF Quiet, Fails, FreshInv, CacheTypeInv, CacheTypeOK
<1> QED
    BY <1>1 DEF FreshInv, StaleIsFlagged

\* What a step of a reader that leaves the cache alone has to see to.
LEMMA ReadStepFresh ==
    ASSUME FreshInv, CacheTypeInv', NEW q \in Requests, Reads(q), Reads(q)' \/ Idle(q)',
           \A r \in Requests : r # q => request'[r] = request[r],
           Reads(q)' => /\ request'[q].chain = request[q].chain
                        /\ request'[q].asked = request[q].asked,
           request'[q].at = "store" => request'[q].value >= promised[request[q].chain],
           request'[q].at \in {"allFlag", "entry", "clear"} => ~Stale(request[q].chain),
           UNCHANGED <<balance, cache, flags, promised>>,
           failures' \in {failures, MaxFailures}
    PROVE  FreshInv'
<1> USE DEF FreshInv
<1>1. ~Invalidates(q) /\ ~Invalidates(q)' /\ request'[q].at # "scan" /\ request'[q].at # "unflag"
      /\ request'[q].at \notin {"delete", "flag"} /\ request[q].at # "scan"
    BY DEF Reads, Idle, Invalidates
<1>2. \A c \in Chains : Stale(c)' <=> Stale(c)
    BY DEF Stale
<1>3. InvalidationsAreAlone'
    BY <1>1 DEF InvalidationsAreAlone, Invalidates, Idle, Reads
<1>4. PromisesAreKnown'
    BY <1>1 DEF PromisesAreKnown, Invalidates
<1>5. ReadersAreUpToDate'
    BY DEF ReadersAreUpToDate, Reads, Idle
<1>6. StaleIsFlagged'
    BY <1>1, <1>2 DEF StaleIsFlagged
<1>7. StaleIsNotInUse'
  <2>1. \A r \in Requests : Reads(r) => request[r].chain \in Chains
      BY DEF CacheTypeInv, ReadersHaveAChain
  <2>2. ASSUME NEW r \in Requests
        PROVE  request'[r].at \in {"allFlag", "entry", "clear"}
                 => \A c \in Chains : c = request'[r].chain => ~Stale(c)'
      BY <1>2, <2>1 DEF StaleIsNotInUse, Reads
  <2>3. ASSUME NEW r \in Requests
        PROVE  /\ request'[r].at = "scan"
                    => \A c \in Chains : Stale(c)' => c \in request'[r].entries
               /\ request'[r].at = "unflag" => \A c \in Chains : ~Stale(c)'
      BY <1>1, <1>2 DEF StaleIsNotInUse
  <2>4. \A r \in Requests : Reads(r)' => request'[r].chain \in Chains
      BY DEF CacheTypeInv, ReadersHaveAChain
  <2> QED
      BY <2>2, <2>3, <2>4 DEF StaleIsNotInUse, Stale, Reads
<1>8. FailedDeleteIsCounted'
    BY <1>1 DEF FailedDeleteIsCounted
<1> QED
    BY <1>3, <1>4, <1>5, <1>6, <1>7, <1>8

\* Goto and Finish change one request only.
LEMMA GotoFrame ==
    ASSUME CacheTypeInv, NEW q \in Requests, NEW step, Goto(q, step)
    PROVE  /\ request'[q].at = step
           /\ request'[q].chain = request[q].chain
           /\ request'[q].asked = request[q].asked
           /\ request'[q].value = request[q].value
           /\ request'[q].asks = request[q].asks
           /\ request'[q].key = request[q].key
           /\ request'[q].entries = request[q].entries
           /\ \A r \in Requests : r # q => request'[r] = request[r]
  BY DEF Goto, CacheTypeInv, CacheTypeOK, Request

\* A request that has ended is idle.
LEMMA FinishFrame ==
    ASSUME CacheTypeInv, NEW q \in Requests, Finish(q)
    PROVE  /\ request'[q].at = "idle"
           /\ \A r \in Requests : r # q => request'[r] = request[r]
  BY DEF Finish, Becomes, IdleRequest, CacheTypeInv, CacheTypeOK

\* What a step of a reader that writes the entry or clears the flags has to see to.
LEMMA CacheStepFresh ==
    ASSUME FreshInv, CacheTypeInv', NEW q \in Requests, Reads(q),
           \A r \in Requests : r # q => request'[r] = request[r] /\ ~Invalidates(r),
           \/ request'[q].at = "idle"
           \/ /\ request'[q].at = "clear"
              /\ request'[q].chain = request[q].chain /\ request'[q].asked = request[q].asked,
           UNCHANGED <<balance, promised, failures>>,
           \A c \in Chains : Stale(c)' => /\ Stale(c) /\ c # request[q].chain
                                          /\ cache'[c] = cache[c],
           \A c \in Chains : c \in flags /\ c # request[q].chain => c \in flags'
    PROVE  FreshInv'
<1> USE DEF FreshInv
<1>1. /\ ~Invalidates(q) /\ request[q].at # "scan"
      /\ \A r \in Requests : ~Invalidates(r)' /\ request'[r].at # "scan"
                                              /\ request'[r].at \notin {"unflag", "delete", "flag"}
      /\ \A r \in Requests : request[r].at # "scan"
    BY DEF Reads, Invalidates
<1>2. InvalidationsAreAlone'
    BY <1>1 DEF InvalidationsAreAlone
<1>3. PromisesAreKnown'
    BY <1>1 DEF PromisesAreKnown
<1>4. ReadersAreUpToDate'
    BY DEF ReadersAreUpToDate, Reads
<1>5. StaleIsFlagged'
    BY <1>1 DEF StaleIsFlagged
<1>6. StaleIsNotInUse'
  <2>1. ASSUME NEW r \in Requests
        PROVE  request'[r].at \in {"allFlag", "entry", "clear"}
                 => \A c \in Chains : c = request'[r].chain => ~Stale(c)'
      BY DEF StaleIsNotInUse
  <2>2. \A r \in Requests : Reads(r)' => request'[r].chain \in Chains
      BY DEF CacheTypeInv, ReadersHaveAChain
  <2> QED
      BY <1>1, <2>1, <2>2 DEF StaleIsNotInUse, Stale, Reads
<1>7. FailedDeleteIsCounted'
    BY <1>1 DEF FailedDeleteIsCounted
<1> QED
    BY <1>2, <1>3, <1>4, <1>5, <1>6, <1>7

\* The steps of get, of the fetch and of set.
LEMMA FillFresh ==
    ASSUME Quiet, FreshInv, CacheTypeInv', NEW q \in Requests,
           \/ ReadChainFlag(q) \/ ReadAllFlag(q) \/ ReadEntry(q)
           \/ Fetch(q) \/ FetchThrows(q) \/ Store(q) \/ ClearFlags(q)
    PROVE  FreshInv'
<1>1. CacheTypeInv /\ CacheTypeOK
    BY DEF FreshInv, CacheTypeInv
<1>2. /\ Reads(q)
      /\ request[q].chain \in Chains
      /\ request[q].asked = promised[request[q].chain]
      /\ request[q].at = "store" => request[q].value >= promised[request[q].chain]
      /\ request[q].at \in {"allFlag", "entry", "clear"} => ~Stale(request[q].chain)
  <2>1. Reads(q)
      BY DEF ReadChainFlag, ReadAllFlag, ReadFlag, ReadEntry, Fetch, FetchThrows, Store,
             ClearFlags, Reads
  <2> QED
      BY <2>1 DEF FreshInv, CacheTypeInv, ReadersHaveAChain, ReadersAreUpToDate, StaleIsNotInUse
<1>3. ASSUME NEW r \in Requests PROVE r # q => ~Invalidates(r)
    BY <1>2 DEF FreshInv, InvalidationsAreAlone, Reads, Idle
<1>4. ASSUME NEW c \in Chains, Stale(c) PROVE c \in flags /\ c \in cache[c].covered
  <2>1. \A r \in Requests : request[r].at # "scan"
      BY <1>2, <1>3 DEF Reads, Invalidates
  <2> QED
      BY <1>4, <2>1 DEF FreshInv, StaleIsFlagged
<1>5. ASSUME Finish(q), UNCHANGED <<balance, cache, flags, promised>>,
             failures' \in {failures, MaxFailures}
      PROVE  FreshInv'
    BY <1>1, <1>2, <1>5, FinishFrame, ReadStepFresh DEF Reads, Idle
<1>6. ASSUME NEW step \in {"allFlag", "entry", "fetch", "clear"}, Goto(q, step),
             UNCHANGED <<balance, cache, flags, promised>>,
             failures' \in {failures, MaxFailures}, step # "fetch" => ~Stale(request[q].chain)
      PROVE  FreshInv'
    BY <1>1, <1>2, <1>6, GotoFrame, ReadStepFresh DEF Reads, Idle
<1>7. CASE ReadChainFlag(q)
  <2>1. UNCHANGED <<balance, cache, flags, promised>>
      BY <1>7 DEF ReadChainFlag, ReadFlag
  <2>2. CASE Fails /\ Goto(q, "allFlag")
      BY <1>2, <1>6, <2>1, <2>2, LastFailure
  <2>3. CASE Works /\ FlagKey(request[q].chain) \notin flags /\ Goto(q, "allFlag")
    <3>1. ~Stale(request[q].chain)
      <4>1. SUFFICES ASSUME Stale(request[q].chain) PROVE FALSE
          OBVIOUS
      <4>2. request[q].chain \in flags
          BY <1>2, <1>4, <4>1
      <4>3. request[q].chain \in FlagKeys
          BY <1>1, <4>2 DEF CacheTypeOK
      <4>4. request[q].chain # 0
          BY <1>2, <4>3, BalanceCacheAssumption DEF FlagKeys, FlagKey
      <4> QED
          BY <2>3, <4>2, <4>4 DEF FlagKey
    <3> QED
        BY <1>6, <2>1, <2>3, <3>1 DEF Works
  <2>4. CASE Works /\ Goto(q, "fetch")
      BY <1>6, <2>1, <2>4 DEF Works
  <2> QED
      BY <1>7, <2>2, <2>3, <2>4 DEF ReadChainFlag, ReadFlag
<1>8. CASE ReadAllFlag(q)
  <2>1. UNCHANGED <<balance, cache, flags, promised>> /\ ~Stale(request[q].chain)
      BY <1>2, <1>8 DEF ReadAllFlag, ReadFlag
  <2>2. Goto(q, "fetch") \/ Goto(q, "entry")
      BY <1>8 DEF ReadAllFlag, ReadFlag
  <2>3. failures' \in {failures, MaxFailures}
      BY <1>8, LastFailure DEF ReadAllFlag, ReadFlag, Works
  <2> QED
      BY <1>6, <2>1, <2>2, <2>3
<1>9. CASE ReadEntry(q)
  <2> DEFINE new == [request[q] EXCEPT !.at = "fetch", !.found = cache[request[q].chain].value]
  <2>1. UNCHANGED <<balance, cache, flags, promised>>
      BY <1>9 DEF ReadEntry
  <2>2. failures' \in {failures, MaxFailures}
      BY <1>9, LastFailure DEF ReadEntry, Works
  <2>3. CASE Becomes(q, new)
    <3>1. /\ request'[q].at = "fetch"
          /\ request'[q].chain = request[q].chain /\ request'[q].asked = request[q].asked
          /\ \A r \in Requests : r # q => request'[r] = request[r]
        BY <1>1, <2>3 DEF Becomes, CacheTypeOK, Request
    <3> QED
        BY <1>2, <2>1, <2>2, <3>1, ReadStepFresh DEF Reads
  <2> QED
      BY <1>5, <1>6, <1>9, <2>1, <2>2, <2>3 DEF ReadEntry
<1>10. CASE Fetch(q)
  <2> DEFINE new == [request[q] EXCEPT !.at = "store", !.value = balance[request[q].chain]]
  <2>1. UNCHANGED <<balance, cache, flags, failures, promised>>
      BY <1>10 DEF Fetch
  <2>2. CASE Becomes(q, new)
    <3>1. /\ request'[q].at = "store" /\ request'[q].value = balance[request[q].chain]
          /\ request'[q].chain = request[q].chain /\ request'[q].asked = request[q].asked
          /\ \A r \in Requests : r # q => request'[r] = request[r]
        BY <1>1, <2>2 DEF Becomes, CacheTypeOK, Request
    <3>2. balance[request[q].chain] >= promised[request[q].chain]
        BY <1>1, <1>2 DEF FreshInv, PromisesAreKnown, CacheTypeOK, Versions
    <3> QED
        BY <1>2, <2>1, <3>1, <3>2, ReadStepFresh DEF Reads
  <2> QED
      BY <1>5, <1>10, <2>1, <2>2 DEF Fetch
<1>11. CASE FetchThrows(q)
    BY <1>5, <1>11 DEF FetchThrows
<1>12. CASE Store(q)
  <2>1. Goto(q, "clear") /\ UNCHANGED <<balance, flags, promised>>
      BY <1>12 DEF Store
  <2>2. CASE Fails /\ UNCHANGED cache
      BY <1>2, <1>6, <2>1, <2>2, LastFailure
  <2>3. CASE /\ Works
             /\ cache' = [cache EXCEPT ![request[q].chain] =
                             [value |-> request[q].value, covered |-> {}]]
    <3>1. \A c \in Chains : Stale(c)' => Stale(c) /\ cache'[c] = cache[c] /\ c # request[q].chain
      <4>1. request[q].value \in Nat /\ promised[request[q].chain] \in Nat
          BY <1>1, <1>2, <1>12
             DEF CacheTypeInv, CacheTypeOK, ReadersHaveAChain, Versions, Store
      <4> QED
          BY <1>1, <1>2, <1>12, <2>1, <2>3, <4>1 DEF Stale, CacheTypeOK, Store
    <3> QED
        BY <1>1, <1>2, <1>3, <2>1, <2>3, <3>1, CacheStepFresh, GotoFrame DEF Works, Reads
  <2> QED
      BY <1>12, <2>2, <2>3 DEF Store
<1>13. CASE ClearFlags(q)
  <2>1. Finish(q) /\ UNCHANGED <<balance, cache, promised>> /\ ~Stale(request[q].chain)
      BY <1>2, <1>13 DEF ClearFlags
  <2>2. CASE Fails /\ UNCHANGED flags
      BY <1>5, <2>1, <2>2, LastFailure
  <2>3. CASE Works /\ flags' = flags \ {AllChains, FlagKey(request[q].chain)}
    <3>1. \A c \in Chains : Stale(c)' => Stale(c) /\ c # request[q].chain
        BY <2>1 DEF Stale
    <3>2. \A c \in Chains : c \in flags /\ c # request[q].chain => c \in flags'
        BY <2>3, BalanceCacheAssumption DEF FlagKey
    <3> QED
        BY <1>1, <1>2, <1>3, <2>1, <2>3, <3>1, <3>2, CacheStepFresh, FinishFrame
           DEF Works, Reads, Idle
  <2> QED
      BY <1>13, <2>2, <2>3 DEF ClearFlags
<1> QED
    BY <1>7, <1>8, <1>9, <1>10, <1>11, <1>12, <1>13

\* A request that begins; an invalidation only when nothing else is under way.
LEMMA StartFresh ==
    ASSUME Quiet, FreshInv, CacheTypeInv', NEW q \in Requests, Start(q)
    PROVE  FreshInv'
<1> USE DEF FreshInv
<1>1. request \in [Requests -> Request] /\ UNCHANGED <<balance, cache, flags, failures, promised>>
    BY DEF CacheTypeInv, CacheTypeOK, Start, StartRead, StartInvalidate, StartInvalidateAll
<1>2. \A r \in Requests : ~Invalidates(r)
    BY DEF Quiet, Start, StartRead, StartInvalidate, StartInvalidateAll, MayRead, MayInvalidate,
           Invalidates, Idle
<1>b. \A c \in Chains : balance[c] \in Nat
    BY BalanceCacheAssumption DEF CacheTypeInv, CacheTypeOK, Versions
<1>3. \A c \in Chains : Stale(c)' => /\ Stale(c) /\ failures' = MaxFailures
                                     /\ c \in flags' /\ c \in cache'[c].covered
    BY <1>1, <1>2 DEF Stale, StaleIsFlagged, Invalidates
<1>4. ASSUME NEW c \in Chains, NEW check \in BOOLEAN, StartRead(q, c, check)
      PROVE  FreshInv'
  <2>1. /\ request'[q].at = "chainFlag" /\ request'[q].chain = c
        /\ request'[q].asked = promised[c]
        /\ \A r \in Requests : r # q => request'[r] = request[r]
    <3>1. Promise(c) = promised[c]
        BY <1>2 DEF Promise
    <3> QED
        BY <1>1, <1>4, <3>1 DEF StartRead, Becomes, IdleRequest
  <2>2. \A r \in Requests : ~Invalidates(r)'
      BY <1>2, <2>1 DEF Invalidates
  <2>3. InvalidationsAreAlone' /\ PromisesAreKnown'
      BY <1>1, <2>2 DEF InvalidationsAreAlone, PromisesAreKnown
  <2>f. FailedDeleteIsCounted'
      BY <2>2 DEF FailedDeleteIsCounted, Invalidates
  <2>4. ReadersAreUpToDate'
      BY <1>1, <2>1 DEF ReadersAreUpToDate, Reads
  <2>5. StaleIsNotInUse'
      BY <1>1, <2>1, <2>2 DEF StaleIsNotInUse, Stale, Invalidates
  <2> QED
      BY <1>3, <2>3, <2>f, <2>4, <2>5 DEF StaleIsFlagged
<1>5. ASSUME MayInvalidate(q), request'[q].at \in {"delete", "scan"}, request'[q].asks = balance,
             request'[q].at = "delete" => request'[q].entries = Covers(request'[q].key),
             request'[q].at = "scan" => request'[q].entries = Chains,
             \A r \in Requests : r # q => request'[r] = request[r]
      PROVE  FreshInv'
  <2>1. \A r \in Requests : r # q => request'[r].at = "idle"
      BY <1>5 DEF Quiet, MayInvalidate, Idle
  <2>2. InvalidationsAreAlone'
      BY <1>5, <2>1 DEF InvalidationsAreAlone, Invalidates, Idle
  <2>3. PromisesAreKnown'
    <3>1. \A r \in Requests : r # q => ~Invalidates(r)'
        BY <2>1 DEF Invalidates
    <3> QED
        BY <1>1, <1>b, <1>5, <3>1 DEF PromisesAreKnown
  <2>k. \A c \in Chains : c \in Covers(c)
      BY BalanceCacheAssumption DEF Covers
  <2>4. ReadersAreUpToDate' /\ FailedDeleteIsCounted'
      BY <1>5, <2>1, <2>k DEF ReadersAreUpToDate, Reads, FailedDeleteIsCounted
  <2>5. StaleIsNotInUse'
      BY <1>5, <2>1 DEF StaleIsNotInUse
  <2> QED
      BY <1>3, <2>2, <2>3, <2>4, <2>5 DEF StaleIsFlagged
<1>6. ASSUME NEW k \in FlagKeys, StartInvalidate(q, k)
      PROVE  FreshInv'
    BY <1>1, <1>5, <1>6 DEF StartInvalidate, Becomes, IdleRequest
<1>7. ASSUME StartInvalidateAll(q)
      PROVE  FreshInv'
    BY <1>1, <1>5, <1>7 DEF StartInvalidateAll, Becomes, IdleRequest
<1> QED
    BY <1>4, <1>6, <1>7 DEF Start

\* What a step of an invalidation has to see to; all other requests are idle.
LEMMA InvalidateStepFresh ==
    ASSUME FreshInv, CacheTypeInv', NEW q \in Requests, Invalidates(q),
           Invalidates(q)' \/ Idle(q)',
           \A r \in Requests : r # q => request'[r] = request[r],
           UNCHANGED balance,
           \A c \in Chains : promised'[c] <= balance[c],
           Invalidates(q)' => request'[q].asks = request[q].asks,
           \A c \in Chains : request'[q].at \in {"delete", "flag"} /\ c = request'[q].key
             => \/ request'[q].at = "delete" /\ c \in request'[q].entries
                \/ request'[q].asks[c] <= promised'[c]
                \/ failures' = MaxFailures,
           \A c \in Chains : Stale(c)' => \/ request'[q].at = "scan" /\ c \in request'[q].entries
                                          \/ /\ request'[q].at \in {"delete", "flag", "idle"}
                                             /\ c \in flags' /\ c \in cache'[c].covered,
           \A c \in Chains : Stale(c)' => failures' = MaxFailures
    PROVE  FreshInv'
<1> USE DEF FreshInv
<1>1. \A r \in Requests : r # q => request'[r].at = "idle"
    BY DEF InvalidationsAreAlone, Idle
<1>2. InvalidationsAreAlone'
    BY <1>1 DEF InvalidationsAreAlone, Invalidates, Idle
<1>3. PromisesAreKnown'
  <2>1. \A r \in Requests : r # q => ~Invalidates(r)'
      BY <1>1 DEF Invalidates
  <2> QED
      BY <2>1 DEF PromisesAreKnown
<1>4. ReadersAreUpToDate'
    BY <1>1 DEF ReadersAreUpToDate, Reads, Invalidates, Idle
<1>5. StaleIsFlagged'
    BY DEF StaleIsFlagged
<1>6. StaleIsNotInUse'
    BY <1>1 DEF StaleIsNotInUse, Invalidates, Idle
<1>7. FailedDeleteIsCounted'
    BY <1>1 DEF FailedDeleteIsCounted
<1> QED
    BY <1>2, <1>3, <1>4, <1>5, <1>6, <1>7

\* The steps of an invalidation.
LEMMA InvalidateFresh ==
    ASSUME Quiet, FreshInv, CacheTypeInv', NEW q \in Requests, Delete(q) \/ SetFlag(q)
    PROVE  FreshInv'
<1>1. /\ CacheTypeInv /\ CacheTypeOK /\ request[q] \in Request /\ Invalidates(q)
      /\ request \in [Requests -> Request]
    BY DEF FreshInv, CacheTypeInv, CacheTypeOK, Delete, DeletePage, DeleteFails, PatternDone,
           SetFlag, Invalidates
<1>2. \A c \in Chains : /\ balance[c] \in Nat /\ promised[c] \in Nat /\ promised[c] <= balance[c]
                        /\ request[q].asks[c] \in Nat /\ request[q].asks[c] <= balance[c]
    BY <1>1, BalanceCacheAssumption DEF FreshInv, PromisesAreKnown, CacheTypeOK, Versions, Request
<1>3. \A c \in Chains : request[q].at \in {"delete", "flag"} /\ c = request[q].key
        => \/ request[q].at = "delete" /\ c \in request[q].entries
           \/ request[q].asks[c] <= promised[c]
           \/ failures = MaxFailures
    BY DEF FreshInv, FailedDeleteIsCounted
<1>4. \A c \in Chains : Stale(c) =>
         /\ failures = MaxFailures
         /\ \/ request[q].at = "scan" /\ c \in request[q].entries
            \/ request[q].at \in {"delete", "flag"} /\ c \in flags /\ c \in cache[c].covered
  <2>1. \A r \in Requests : r # q => request[r].at = "idle"
      BY <1>1 DEF FreshInv, InvalidationsAreAlone, Idle
  <2> QED
      BY <1>1, <2>1 DEF FreshInv, StaleIsFlagged, StaleIsNotInUse, Invalidates
<1>5. ASSUME NEW E \in SUBSET Chains, NEW F \in SUBSET FlagKeys, DeletePage(q, E, F)
      PROVE  FreshInv'
  <2> DEFINE new == [request[q] EXCEPT !.entries = request[q].entries \ E,
                                       !.flags = request[q].flags \ F]
  <2>1. /\ request'[q].at = request[q].at /\ request'[q].asks = request[q].asks
        /\ request'[q].key = request[q].key
        /\ request'[q].entries = request[q].entries \ E
        /\ \A r \in Requests : r # q => request'[r] = request[r]
      BY <1>1, <1>5 DEF DeletePage, Becomes, Request
  <2>2. UNCHANGED <<balance, failures>>
      BY <1>5 DEF DeletePage
  <2>p. \A c \in Chains : promised'[c] = IF c \in E /\ promised[c] < request[q].asks[c]
                                          THEN request[q].asks[c] ELSE promised[c]
      BY <1>5 DEF DeletePage, Promised
  <2>3. \A c \in Chains : promised'[c] <= balance[c]
      BY <1>2, <2>p
  <2>f. \A c \in Chains : request'[q].at \in {"delete", "flag"} /\ c = request'[q].key
          => \/ request'[q].at = "delete" /\ c \in request'[q].entries
             \/ request'[q].asks[c] <= promised'[c]
             \/ failures' = MaxFailures
      BY <1>2, <1>3, <2>1, <2>2, <2>p
  <2>4. \A c \in Chains : Stale(c)' => Stale(c) /\ c \notin E /\ cache'[c] = cache[c]
    <3>1. \A c \in Chains : cache'[c] = IF c \in E THEN Nil ELSE cache[c]
        BY <1>5 DEF DeletePage
    <3> QED
        BY <2>p, <3>1 DEF Stale
  <2>5. request[q].at = "delete" => flags' = flags
      BY <1>1, <1>5 DEF DeletePage, CacheTypeInv, InvalidatorsHaveAKey
  <2>6. request[q].at # "flag"
      BY <1>5 DEF DeletePage
  <2> QED
      BY <1>1, <1>4, <2>1, <2>2, <2>3, <2>f, <2>4, <2>5, <2>6, InvalidateStepFresh
         DEF Invalidates
<1>6. CASE DeleteFails(q)
  <2>1. /\ request'[q].at = request[q].at /\ request'[q].asks = request[q].asks
        /\ request'[q].key = request[q].key
        /\ \A r \in Requests : r # q => request'[r] = request[r]
      BY <1>1, <1>6 DEF DeleteFails, Becomes, Request
  <2>2. UNCHANGED <<balance, cache, flags, promised>>
      BY <1>6 DEF DeleteFails
  <2>3. failures' = MaxFailures /\ \A c \in Chains : ~Stale(c)
      BY <1>6, LastFailure DEF DeleteFails
  <2>4. \A c \in Chains : ~Stale(c)'
      BY <2>2, <2>3 DEF Stale
  <2> QED
      BY <1>1, <1>2, <2>1, <2>2, <2>3, <2>4, InvalidateStepFresh DEF Invalidates
<1>7. CASE PatternDone(q)
  <2>1. UNCHANGED <<balance, cache, flags, failures, promised>>
      BY <1>7 DEF PatternDone
  <2>2. \A c \in Chains : Stale(c)' <=> Stale(c)
      BY <2>1 DEF Stale
  <2>3. CASE request[q].at = "delete" /\ Goto(q, "flag")
    <3>1. request[q].entries = {}
        BY <1>7 DEF PatternDone
    <3> QED
      BY <1>1, <1>2, <1>3, <1>4, <2>1, <2>2, <2>3, <3>1, GotoFrame, InvalidateStepFresh
         DEF Invalidates
  <2>4. CASE request[q].at # "delete"
    <3>1. \A c \in Chains : ~Stale(c)'
        BY <1>4, <1>7, <2>2, <2>4 DEF PatternDone
    <3>2. \/ Finish(q)
          \/ Becomes(q, [request[q] EXCEPT !.at = "unflag", !.flags = FlagKeys])
        BY <1>7, <2>4 DEF PatternDone
    <3>3. /\ request'[q].at \in {"unflag", "idle"}
          /\ request'[q].at = "unflag" => request'[q].asks = request[q].asks
          /\ \A r \in Requests : r # q => request'[r] = request[r]
      <4>1. CASE Finish(q)
          BY <1>1, <4>1, FinishFrame
      <4>2. CASE Becomes(q, [request[q] EXCEPT !.at = "unflag", !.flags = FlagKeys])
          BY <1>1, <4>2 DEF Becomes, Request
      <4> QED
          BY <3>2, <4>1, <4>2
    <3> QED
        BY <1>1, <1>2, <2>1, <3>1, <3>3, InvalidateStepFresh DEF Invalidates, Idle
  <2> QED
      BY <1>7, <2>3, <2>4 DEF PatternDone
<1>8. CASE SetFlag(q)
  <2>1. /\ request'[q].at = "idle" /\ UNCHANGED balance
        /\ \A r \in Requests : r # q => request'[r] = request[r]
      BY <1>1, <1>8, FinishFrame DEF SetFlag
  <2>2. CASE Fails /\ UNCHANGED <<flags, cache, promised>>
    <3>1. \A c \in Chains : ~Stale(c)'
        BY <2>2, LastFailure DEF Stale
    <3> QED
        BY <1>1, <1>2, <2>1, <2>2, <3>1, InvalidateStepFresh DEF Idle, Invalidates
  <2>3. CASE Works /\ ~(Fails /\ UNCHANGED <<flags, cache, promised>>)
    <3> DEFINE k == request[q].key
    <3>1. /\ flags' = flags \cup {k} /\ failures' = failures
          /\ cache' = [c \in Chains |-> IF c \in Covers(k) THEN Cover(c, k) ELSE cache[c]]
          /\ \A c \in Chains : promised'[c] = IF c = k /\ promised[c] < request[q].asks[c]
                                               THEN request[q].asks[c] ELSE promised[c]
        BY <1>8, <2>3 DEF SetFlag, Works, Promised
    <3>2. request[q].at = "flag"
        BY <1>8 DEF SetFlag
    <3>3. \A c \in Chains : promised'[c] <= balance[c]
        BY <1>2, <3>1
    <3>4. ASSUME NEW c \in Chains, cache'[c] # Nil
          PROVE  /\ cache[c] # Nil /\ cache'[c].value = cache[c].value
                 /\ c \in cache[c].covered => c \in cache'[c].covered
                 /\ c = k => c \in cache'[c].covered
      <4>1. cache[c] # Nil => cache[c] \in Entry
          BY <1>1 DEF CacheTypeOK
      <4>2. cache'[c] \in {cache[c], Cover(c, k)} /\ (c = k => cache'[c] = Cover(c, k))
          BY <3>1, BalanceCacheAssumption DEF Covers
      <4>3. cache[c] # Nil
          BY <3>4, <4>2 DEF Cover
      <4>4. Cover(c, k).value = cache[c].value /\ Cover(c, k).covered = cache[c].covered \cup {k}
          BY <4>1, <4>3 DEF Cover, Entry
      <4> QED
          BY <4>2, <4>3, <4>4
    <3>5. ASSUME NEW c \in Chains, Stale(c)'
          PROVE  failures' = MaxFailures /\ c \in flags' /\ c \in cache'[c].covered
      <4>1. /\ cache[c] # Nil /\ cache'[c].value = cache[c].value
            /\ c \in cache[c].covered => c \in cache'[c].covered
            /\ c = k => c \in cache'[c].covered
          BY <3>4, <3>5 DEF Stale
      <4>2. CASE c = k /\ failures = MaxFailures
          BY <3>1, <4>1, <4>2
      <4>3. CASE ~(c = k /\ failures = MaxFailures)
        <5>1. promised'[c] = promised[c]
            BY <1>2, <1>3, <3>1, <3>2, <4>3
        <5>2. Stale(c)
            BY <3>5, <4>1, <5>1 DEF Stale
        <5> QED
            BY <1>4, <3>1, <3>2, <4>1, <5>2
      <4> QED
          BY <4>2, <4>3
    <3> QED
        BY <1>1, <2>1, <3>3, <3>5, InvalidateStepFresh DEF Idle, Invalidates
  <2> QED
      BY <1>8, <2>2, <2>3 DEF SetFlag
<1> QED
    BY <1>5, <1>6, <1>7, <1>8 DEF Delete

\* The chain moves on; Redis forgets an entry, or a flag that covers no entry.
LEMMA EnvironmentFresh ==
    ASSUME FreshInv, CacheTypeInv',
           \/ \E c \in Chains : BalanceChanges(c) \/ ExpireEntry(c)
           \/ \E k \in FlagKeys : ExpireFlag(k)
    PROVE  FreshInv'
<1> USE DEF FreshInv
<1>1. UNCHANGED <<request, failures, promised>>
    BY DEF BalanceChanges, ExpireEntry, ExpireFlag
<1>2. \A c \in Chains : promised[c] \in Nat /\ balance[c] \in Nat /\ balance'[c] \in Nat
                        /\ balance[c] <= balance'[c]
    BY BalanceCacheAssumption
       DEF CacheTypeInv, CacheTypeOK, Versions, BalanceChanges, ExpireEntry, ExpireFlag
<1>3. \A c \in Chains : Stale(c)' => Stale(c) /\ cache'[c] = cache[c] /\ c \in Chains
    BY DEF CacheTypeInv, CacheTypeOK, Stale, BalanceChanges, ExpireEntry, ExpireFlag
<1>4. \A c \in Chains : Stale(c)' /\ c \in flags /\ c \in cache[c].covered => c \in flags'
    BY BalanceCacheAssumption, <1>3 DEF Stale, Covers, BalanceChanges, ExpireEntry, ExpireFlag
<1>5. InvalidationsAreAlone' /\ FailedDeleteIsCounted'
    BY <1>1 DEF InvalidationsAreAlone, FailedDeleteIsCounted, Invalidates, Idle
<1>6. PromisesAreKnown'
  <2>1. \A q \in Requests, c \in Chains : request[q].asks[c] \in Nat
      BY BalanceCacheAssumption DEF CacheTypeInv, CacheTypeOK, Request, Versions
  <2>2. ASSUME NEW q \in Requests, NEW c \in Chains, Invalidates(q)
        PROVE  request[q].asks[c] <= balance'[c]
    <3>1. request[q].asks[c] <= balance[c]
        BY <2>2 DEF PromisesAreKnown
    <3> QED
        BY <1>2, <2>1, <3>1
  <2> QED
      BY <1>1, <1>2, <2>2 DEF PromisesAreKnown, Invalidates
<1>7. ReadersAreUpToDate'
    BY <1>1 DEF ReadersAreUpToDate, Reads
<1>8. StaleIsFlagged'
    BY <1>1, <1>3, <1>4 DEF StaleIsFlagged
<1>9. StaleIsNotInUse'
  <2>1. \A q \in Requests : Reads(q) => request[q].chain \in Chains
      BY DEF CacheTypeInv, ReadersHaveAChain
  <2>2. ASSUME NEW q \in Requests
        PROVE  request[q].at \in {"allFlag", "entry", "clear"}
                 => \A c \in Chains : c = request[q].chain => ~Stale(c)'
      BY <1>3 DEF StaleIsNotInUse
  <2>3. ASSUME NEW q \in Requests
        PROVE  /\ request[q].at = "scan" => \A c \in Chains : Stale(c)' => c \in request[q].entries
               /\ request[q].at = "unflag" => \A c \in Chains : ~Stale(c)'
      BY <1>3 DEF StaleIsNotInUse
  <2> QED
      BY <1>1, <2>1, <2>2, <2>3 DEF StaleIsNotInUse, Stale, Reads
<1> QED
    BY <1>5, <1>6, <1>7, <1>8, <1>9

\* Every step keeps the cache fresh.
LEMMA CacheNextFresh == Quiet /\ FreshInv /\ [CacheNext]_cacheVars => FreshInv'
<1> SUFFICES ASSUME Quiet, FreshInv, [CacheNext]_cacheVars PROVE FreshInv'
    OBVIOUS
<1>1. CacheTypeInv'
    BY CacheNextType DEF FreshInv
<1>2. ASSUME NEW q \in Requests, Start(q) PROVE FreshInv'
    BY <1>1, <1>2, StartFresh
<1>3. ASSUME NEW q \in Requests, Continue(q) PROVE FreshInv'
    BY <1>1, <1>3, FillFresh, InvalidateFresh DEF Continue
<1>4. CASE UNCHANGED cacheVars
    BY <1>1, <1>4 DEF cacheVars, FreshInv, InvalidationsAreAlone, PromisesAreKnown,
                      ReadersAreUpToDate, StaleIsFlagged, StaleIsNotInUse, FailedDeleteIsCounted,
                      Stale, Reads, Invalidates, Idle
<1> QED
    BY <1>1, <1>2, <1>3, <1>4, EnvironmentFresh DEF CacheNext

(***************************************************************************)
(* While no invalidation overlaps with another request, and at most one    *)
(* Redis command is lost, the cache answers no reader with a balance older *)
(* than the invalidations before it ask for: for any chains, any number of *)
(* requests and of changes.                                                *)
(***************************************************************************)
THEOREM FreshAfterInvalidation ==
    ASSUME Quiet
    PROVE  CacheSpec => HitAfterInvalidationIsFresh
<1>1. FreshInv /\ [CacheNext]_cacheVars
        => [\A q \in Requests :
              Hits(q) => cache[request[q].chain].value >= request[q].asked]_cacheVars
  <2> SUFFICES ASSUME FreshInv, NEW q \in Requests, Hits(q)
               PROVE  cache[request[q].chain].value >= request[q].asked
      OBVIOUS
  <2>1. /\ request[q].chain \in Chains /\ ~Stale(request[q].chain)
        /\ request[q].asked = promised[request[q].chain]
      BY DEF Hits, FreshInv, CacheTypeInv, ReadersHaveAChain, ReadersAreUpToDate,
             StaleIsNotInUse, Reads
  <2>2. cache[request[q].chain] \in Entry
      BY <2>1 DEF Hits, FreshInv, CacheTypeInv, CacheTypeOK
  <2>3. cache[request[q].chain].value \in Versions /\ promised[request[q].chain] \in Versions
      BY <2>1, <2>2 DEF FreshInv, CacheTypeInv, CacheTypeOK, Entry
  <2>4. Versions \subseteq Nat
      BY BalanceCacheAssumption DEF Versions
  <2>5. ~(cache[request[q].chain].value < promised[request[q].chain])
      BY <2>1 DEF Hits, Stale
  <2>6. cache[request[q].chain].value \in Nat /\ promised[request[q].chain] \in Nat
      BY <2>3, <2>4
  <2>7. cache[request[q].chain].value >= promised[request[q].chain]
      BY <2>5, <2>6
  <2> QED
      BY <2>1, <2>7
<1>2. FreshInv /\ [CacheNext]_cacheVars => FreshInv'
    BY CacheNextFresh
<1> QED
    BY <1>1, <1>2, CacheInitFresh, PTL DEF CacheSpec, HitAfterInvalidationIsFresh
=============================================================================
