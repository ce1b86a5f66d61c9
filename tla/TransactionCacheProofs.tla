----------------------- MODULE TransactionCacheProofs -----------------------
(***************************************************************************)
(* Proofs about TransactionCache, for any chains, requests, limits and     *)
(* numbers of transactions, invalidations and lost commands.               *)
(***************************************************************************)
EXTENDS TransactionCache, TLAPS

\* A request that lists has a chain.
ListersHaveAChain ==
    \A q \in Requests :
        request[q].at \in {"entry", "mark", "fetch", "store", "clear"} =>
            request[q].chain \in Chains

\* The types of the history.
HistoryOK ==
    /\ promised \in [Chains -> 0..MaxTransactions]
    /\ behind \subseteq Requests /\ unguarded \subseteq Chains

\* The inductive invariant behind type correctness.
PagesTypeInv == PagesTypeOK /\ ListersHaveAChain

\* Nobody is promised a transaction that has not come.
PromisesHaveCome == \A c \in Chains : promised[c] <= length[c]

\* The page of chain c is there and misses what was promised.
Stale(c) == pages[c] # Nil /\ ~Fresh(c, pages[c].deposits)

\* The mark of a page that is not fresh was set over it, and cannot expire before it.
StalePageIsCovered ==
    \A c \in Chains :
        Stale(c) => c \in unguarded \/ (pages[c].marked /\ c \in marks)

(***************************************************************************)
(* What a request is about to store is fresh, unless it is behind; where   *)
(* it removes the mark, the page is, unless one that is behind stored it.  *)
(***************************************************************************)
FillIsFresh(q) ==
    \/ q \in behind
    \/ /\ request[q].at = "store" => Fresh(request[q].chain, request[q].list)
       /\ request[q].at = "clear" /\ Stale(request[q].chain)
            => request[q].chain \in unguarded

FillsAreFresh == \A q \in Requests : FillIsFresh(q)

\* The inductive invariant.
FreshPagesInv == PagesTypeInv /\ PromisesHaveCome /\ StalePageIsCovered /\ FillsAreFresh

-----------------------------------------------------------------------------
(***************************************************************************)
(* What a step of one request does to the types.                           *)
(***************************************************************************)
\* The request that takes the step becomes new, the others stay what they are.
LEMMA BecomesOne ==
    ASSUME request \in [Requests -> Request], NEW q \in Requests, NEW new \in Request,
           Becomes(q, new)
    PROVE  /\ request' \in [Requests -> Request]
           /\ request'[q] = new
           /\ \A r \in Requests : r # q => request'[r] = request[r]
BY DEF Becomes

\* A request that ends is idle and holds nothing.
LEMMA IdleIsARequest ==
    /\ IdleRequest \in Request
    /\ IdleRequest.at = "idle" /\ IdleRequest.chain = Nil /\ IdleRequest.found = Nil
    /\ IdleRequest.list = {} /\ IdleRequest.todo = {}
BY DEF IdleRequest, Request, Steps

\* A request that goes to another step keeps what it holds.
LEMMA GotoKeeps ==
    ASSUME PagesTypeInv, NEW q \in Requests, NEW step \in Steps, Goto(q, step)
    PROVE  /\ request' \in [Requests -> Request]
           /\ request'[q].at = step /\ request'[q].chain = request[q].chain
           /\ request'[q].found = request[q].found /\ request'[q].list = request[q].list
           /\ request'[q].todo = request[q].todo
           /\ \A r \in Requests : r # q => request'[r] = request[r]
<1> DEFINE new == [request[q] EXCEPT !.at = step]
<1>1. request[q] \in Request
    BY DEF PagesTypeInv, PagesTypeOK
<1>2. /\ new \in Request
      /\ new.at = step /\ new.chain = request[q].chain /\ new.found = request[q].found
      /\ new.list = request[q].list /\ new.todo = request[q].todo
    BY <1>1 DEF Request
<1>3. Becomes(q, new)
    BY DEF Goto
<1> HIDE DEF new
<1> QED
    BY <1>2, <1>3, BecomesOne DEF PagesTypeInv, PagesTypeOK

(***************************************************************************)
(* A step of a request that keeps the chain's transactions and the pages:  *)
(* the request holds nothing but deposits afterwards.                      *)
(***************************************************************************)
LEMMA QuietStepType ==
    ASSUME PagesTypeInv, NEW q \in Requests,
           request' \in [Requests -> Request],
           \A r \in Requests : r # q => request'[r] = request[r],
           UNCHANGED <<length, deposits, pages>>,
           marks' \subseteq Chains, invalidations' \in 0..MaxInvalidations,
           failures' \in 0..MaxFailures, HistoryOK',
           request'[q].at \in {"entry", "mark", "fetch", "store", "clear"}
               => request'[q].chain \in Chains,
           \A c \in Chains : request'[q].chain = c =>
              /\ request'[q].found # Nil => request'[q].found \subseteq deposits[c]
              /\ request'[q].list \subseteq deposits[c]
    PROVE  PagesTypeInv'
BY DEF PagesTypeInv, PagesTypeOK, HoldDeposits, ListersHaveAChain, HistoryOK

\* Counting a failure.
LEMMA FailuresType ==
    ASSUME PagesTypeInv, Works \/ Fails
    PROVE  failures' \in 0..MaxFailures
<1>1. failures \in 0..MaxFailures /\ MaxFailures \in Nat
    BY TransactionCacheAssumption DEF PagesTypeInv, PagesTypeOK
<1> QED
    BY <1>1 DEF Works, Fails

-----------------------------------------------------------------------------
(***************************************************************************)
(* Types.                                                                  *)
(***************************************************************************)
\* A request that holds no deposits keeps the types.
LEMMA EmptyStepType ==
    ASSUME PagesTypeInv, NEW q \in Requests, NEW new \in Request,
           new.at \in {"idle", "keys", "set"}, new.found = Nil, new.list = {},
           Becomes(q, new),
           UNCHANGED <<length, deposits, pages>>, marks' \subseteq Chains,
           invalidations' \in 0..MaxInvalidations, failures' \in 0..MaxFailures,
           HistoryOK'
    PROVE  PagesTypeInv'
<1>1. /\ request' \in [Requests -> Request]
      /\ request'[q] = new
      /\ \A r \in Requests : r # q => request'[r] = request[r]
    BY BecomesOne DEF PagesTypeInv, PagesTypeOK
<1> QED
    BY <1>1, QuietStepType

\* A request that ends keeps the types.
LEMMA FinishType ==
    ASSUME PagesTypeInv, NEW q \in Requests, Finish(q),
           UNCHANGED <<length, deposits, pages>>, marks' \subseteq Chains,
           invalidations' \in 0..MaxInvalidations, failures' \in 0..MaxFailures,
           HistoryOK'
    PROVE  PagesTypeInv'
BY IdleIsARequest, EmptyStepType DEF Finish

\* The parts of the type invariant a quiet step leaves alone.
LEMMA TypeParts ==
    ASSUME PagesTypeInv
    PROVE  /\ marks \subseteq Chains /\ invalidations \in 0..MaxInvalidations
           /\ failures \in 0..MaxFailures /\ HistoryOK
           /\ UNCHANGED history => HistoryOK'
           /\ request \in [Requests -> Request]
           /\ \A q \in Requests, c \in Chains : request[q].chain = c =>
                /\ request[q].found # Nil => request[q].found \subseteq deposits[c]
                /\ request[q].list \subseteq deposits[c]
BY DEF PagesTypeInv, PagesTypeOK, HoldDeposits, HistoryOK, history

\* A listing that begins.
LEMMA StartListType ==
    ASSUME PagesTypeInv, NEW q \in Requests, NEW c \in Chains, StartList(q, c)
    PROVE  PagesTypeInv'
<1> DEFINE new == [IdleRequest EXCEPT !.at = "entry", !.chain = c]
<1>1. /\ new \in Request /\ new.at = "entry" /\ new.chain = c
      /\ new.found = Nil /\ new.list = {}
    BY DEF IdleRequest, Request, Steps
<1>2. Becomes(q, new)
    BY DEF StartList
<1> HIDE DEF new
<1>3. /\ request' \in [Requests -> Request]
      /\ request'[q] = new
      /\ \A r \in Requests : r # q => request'[r] = request[r]
    BY <1>1, <1>2, BecomesOne DEF PagesTypeInv, PagesTypeOK
<1> QED
    BY <1>1, <1>3, QuietStepType, TypeParts DEF StartList, outside

\* The entry is a set of deposits.
LEMMA ReadEntryType ==
    ASSUME PagesTypeInv, NEW q \in Requests, ReadEntry(q)
    PROVE  PagesTypeInv'
<1> DEFINE entry == pages[request[q].chain]
           new == [request[q] EXCEPT !.at = "mark",
                     !.found = IF entry = Nil THEN Nil ELSE entry.deposits]
<1>1. request[q] \in Request /\ request[q].chain \in Chains
    BY DEF PagesTypeInv, PagesTypeOK, ListersHaveAChain, ReadEntry
<1>2. failures' \in 0..MaxFailures
    BY FailuresType DEF ReadEntry
<1>3. CASE Becomes(q, new)
  <2>1. entry \in Page \cup {Nil}
      BY <1>1 DEF PagesTypeInv, PagesTypeOK
  <2>2. (IF entry = Nil THEN Nil ELSE entry.deposits) \in (SUBSET Numbers) \cup {Nil}
      BY <2>1 DEF Page
  <2>3. /\ new \in Request /\ new.at = "mark" /\ new.chain = request[q].chain
        /\ new.list = request[q].list
        /\ new.found = IF entry = Nil THEN Nil ELSE entry.deposits
      BY <1>1, <2>2 DEF Request, Steps
  <2>4. entry # Nil => entry.deposits \subseteq deposits[request[q].chain]
      BY <1>1 DEF PagesTypeInv, PagesTypeOK, HoldDeposits
  <2>5. new.found # Nil => new.found \subseteq deposits[request[q].chain]
      BY <2>3, <2>4
  <2> HIDE DEF new, entry
  <2>6. /\ request' \in [Requests -> Request]
        /\ request'[q] = new
        /\ \A r \in Requests : r # q => request'[r] = request[r]
      BY <1>3, <2>3, BecomesOne DEF PagesTypeInv, PagesTypeOK
  <2> QED
      BY <1>1, <1>2, <2>3, <2>5, <2>6, QuietStepType, TypeParts DEF ReadEntry, outside
<1>4. CASE Goto(q, "mark")
    BY <1>1, <1>2, <1>4, GotoKeeps, QuietStepType, TypeParts DEF ReadEntry, outside, Steps
<1> QED
    BY <1>3, <1>4 DEF ReadEntry

\* A listing goes on to the node, or is done.
LEMMA ReadMarkType ==
    ASSUME PagesTypeInv, NEW q \in Requests, ReadMark(q) \/ FetchThrows(q) \/ MarksSet(q)
    PROVE  PagesTypeInv'
<1>1. failures' \in 0..MaxFailures
    BY FailuresType DEF ReadMark, FetchThrows, MarksSet, Works
<1>2. UNCHANGED <<outside, pages, marks, history>>
    BY DEF ReadMark, FetchThrows, MarksSet
<1>3. CASE Finish(q)
    BY <1>1, <1>2, <1>3, FinishType, TypeParts DEF outside
<1>4. CASE Goto(q, "fetch") /\ request[q].at = "mark"
  <2>1. request[q].chain \in Chains
      BY <1>4 DEF PagesTypeInv, ListersHaveAChain
  <2> QED
      BY <1>1, <1>2, <1>4, <2>1, GotoKeeps, QuietStepType, TypeParts DEF outside, Steps
<1> QED
    BY <1>3, <1>4 DEF ReadMark, FetchThrows, MarksSet

\* What is fetched and merged are deposits of the chain.
LEMMA FetchType ==
    ASSUME PagesTypeInv, NEW q \in Requests, Fetch(q)
    PROVE  PagesTypeInv'
<1> DEFINE c == request[q].chain
           found == request[q].found
           list == IF found = Nil THEN Newest(c, LimitOf(found))
                   ELSE MergeTransactions(found, Newest(c, LimitOf(found)))
           new == [request[q] EXCEPT !.at = "store", !.list = list]
<1>1. request[q] \in Request /\ c \in Chains
    BY DEF PagesTypeInv, PagesTypeOK, ListersHaveAChain, Fetch
<1>2. Newest(c, LimitOf(found)) \subseteq deposits[c]
    BY DEF Newest
<1>3. found # Nil => found \subseteq deposits[c]
    BY <1>1 DEF PagesTypeInv, PagesTypeOK, HoldDeposits
<1>4. list \subseteq deposits[c] /\ deposits[c] \subseteq Numbers
    BY <1>1, <1>2, <1>3 DEF MergeTransactions, PagesTypeInv, PagesTypeOK
<1>5. /\ new \in Request /\ new.at = "store" /\ new.chain = c
      /\ new.list = list /\ new.found = found
    BY <1>1, <1>4 DEF Request, Steps
<1>6. Becomes(q, new)
    BY DEF Fetch
<1> HIDE DEF new, list
<1>7. /\ request' \in [Requests -> Request]
      /\ request'[q] = new
      /\ \A r \in Requests : r # q => request'[r] = request[r]
    BY <1>5, <1>6, BecomesOne DEF PagesTypeInv, PagesTypeOK
<1> QED
    BY <1>1, <1>3, <1>4, <1>5, <1>7, QuietStepType, TypeParts DEF Fetch, outside

\* The page that is stored holds what the request has fetched.
LEMMA StoreType ==
    ASSUME PagesTypeInv, NEW q \in Requests, Store(q)
    PROVE  PagesTypeInv'
<1> DEFINE c == request[q].chain
           page == [deposits |-> request[q].list, marked |-> FALSE]
<1>1. request[q] \in Request /\ c \in Chains
    BY DEF PagesTypeInv, PagesTypeOK, ListersHaveAChain, Store
<1>2. failures' \in 0..MaxFailures
    BY FailuresType DEF Store
<1>3. page \in Page /\ page.deposits = request[q].list
    BY <1>1 DEF Request, Page
<1>4. request[q].list \subseteq deposits[c]
    BY <1>1 DEF PagesTypeInv, PagesTypeOK, HoldDeposits
<1>5. pages' \in [Chains -> Page \cup {Nil}]
      /\ \A d \in Chains : pages'[d] = pages[d] \/ (d = c /\ pages'[d] = page)
    BY <1>1, <1>3 DEF Store, PagesTypeInv, PagesTypeOK
<1>6. \A d \in Chains : pages'[d] # Nil => pages'[d].deposits \subseteq deposits[d]
    BY <1>3, <1>4, <1>5 DEF PagesTypeInv, PagesTypeOK, HoldDeposits
<1>7. HistoryOK'
    BY <1>1, TypeParts DEF Store, HistoryOK
<1> HIDE DEF page
<1>8. /\ request' \in [Requests -> Request]
      /\ request'[q].chain = request[q].chain
      /\ request'[q].found = request[q].found /\ request'[q].list = request[q].list
      /\ \A r \in Requests : r # q => request'[r] = request[r]
    BY GotoKeeps DEF Store, Steps
<1>9. UNCHANGED <<length, deposits, marks, invalidations>>
    BY DEF Store, outside
<1> QED
    BY <1>1, <1>2, <1>5, <1>6, <1>7, <1>8, <1>9
       DEF PagesTypeInv, PagesTypeOK, HoldDeposits, ListersHaveAChain, HistoryOK

\* Removing a mark.
LEMMA ClearType ==
    ASSUME PagesTypeInv, NEW q \in Requests, ClearRefreshFlag(q)
    PROVE  PagesTypeInv'
<1>1. request[q].chain \in Chains
    BY DEF ClearRefreshFlag, PagesTypeInv, ListersHaveAChain
<1>2. HistoryOK'
    BY <1>1, TypeParts DEF ClearRefreshFlag, HistoryOK
<1>3. failures' \in 0..MaxFailures /\ marks' \subseteq Chains
    BY FailuresType, TypeParts DEF ClearRefreshFlag
<1> QED
    BY <1>2, <1>3, FinishType, TypeParts DEF ClearRefreshFlag, outside

\* An invalidation that begins.
LEMMA InvalidateType ==
    ASSUME PagesTypeInv, NEW q \in Requests,
           InvalidateAll(q) \/ \E c \in Chains : InvalidateChain(q, c)
    PROVE  PagesTypeInv'
<1>1. Invalidate(q)
    BY DEF InvalidateAll, InvalidateChain
<1>2. invalidations' \in 0..MaxInvalidations
    BY <1>1, TransactionCacheAssumption, TypeParts DEF Invalidate
<1>3. CASE InvalidateAll(q)
  <2> DEFINE new == [IdleRequest EXCEPT !.at = "keys"]
  <2>1. new \in Request /\ new.at = "keys" /\ new.found = Nil /\ new.list = {}
      BY DEF IdleRequest, Request, Steps
  <2>2. Becomes(q, new)
      BY <1>3 DEF InvalidateAll
  <2> HIDE DEF new
  <2> QED
      BY <1>1, <1>2, <2>1, <2>2, EmptyStepType, TypeParts DEF Invalidate
<1>4. ASSUME NEW c \in Chains, InvalidateChain(q, c)
      PROVE  PagesTypeInv'
  <2> DEFINE new == [IdleRequest EXCEPT !.at = "set", !.todo = {c}]
  <2>1. new \in Request /\ new.at = "set" /\ new.found = Nil /\ new.list = {}
      BY DEF IdleRequest, Request, Steps
  <2>2. Becomes(q, new)
      BY <1>4 DEF InvalidateChain
  <2> HIDE DEF new
  <2> QED
      BY <1>1, <1>2, <2>1, <2>2, EmptyStepType, TypeParts DEF Invalidate
<1> QED
    BY <1>3, <1>4

\* A request that marks keeps its chain and what it holds.
LEMMA TodoType ==
    ASSUME PagesTypeInv, NEW q \in Requests, NEW new \in Request,
           new.at = "set", new.chain = request[q].chain,
           new.found = request[q].found, new.list = request[q].list,
           Becomes(q, new),
           UNCHANGED <<length, deposits, pages, invalidations>>, marks' \subseteq Chains,
           failures' \in 0..MaxFailures, HistoryOK'
    PROVE  PagesTypeInv'
<1>1. /\ request' \in [Requests -> Request]
      /\ request'[q] = new
      /\ \A r \in Requests : r # q => request'[r] = request[r]
    BY BecomesOne DEF PagesTypeInv, PagesTypeOK
<1> QED
    BY <1>1, QuietStepType, TypeParts

\* The scan of the entries.
LEMMA KeysType ==
    ASSUME PagesTypeInv, NEW q \in Requests, Keys(q)
    PROVE  PagesTypeInv'
<1> DEFINE found == {c \in Chains : pages[c] # Nil}
<1>1. failures' \in 0..MaxFailures
    BY FailuresType DEF Keys
<1>2. HistoryOK'
  <2>1. Filling(Chains \ found) \subseteq Requests
      BY DEF Filling
  <2>2. length \in [Chains -> 0..MaxTransactions] /\ HistoryOK
      BY TypeParts DEF PagesTypeInv, PagesTypeOK
  <2> QED
      BY <2>1, <2>2 DEF Keys, HistoryOK
<1>3. UNCHANGED <<length, deposits, pages, marks, invalidations>>
    BY DEF Keys, outside
<1>4. CASE Finish(q)
    BY <1>1, <1>2, <1>3, <1>4, FinishType, TypeParts
<1>5. CASE Becomes(q, [request[q] EXCEPT !.at = "set", !.todo = found])
  <2> DEFINE new == [request[q] EXCEPT !.at = "set", !.todo = found]
  <2>1. request[q] \in Request /\ found \in SUBSET Chains
      BY TypeParts
  <2>2. /\ new \in Request /\ new.at = "set" /\ new.chain = request[q].chain
        /\ new.found = request[q].found /\ new.list = request[q].list
      BY <2>1 DEF Request, Steps
  <2>3. Becomes(q, new)
      BY <1>5
  <2> HIDE DEF new
  <2> QED
      BY <1>1, <1>2, <1>3, <2>2, <2>3, TodoType, TypeParts
<1> QED
    BY <1>4, <1>5 DEF Keys

\* A mark is set.
LEMMA SetMarkType ==
    ASSUME PagesTypeInv, NEW q \in Requests, NEW c \in Chains, SetMark(q, c)
    PROVE  PagesTypeInv'
<1> DEFINE page == [pages[c] EXCEPT !.marked = TRUE]
<1>1. failures' \in 0..MaxFailures
    BY FailuresType DEF SetMark
<1>2. HistoryOK'
  <2>1. Filling({c}) \subseteq Requests
      BY DEF Filling
  <2>2. length \in [Chains -> 0..MaxTransactions] /\ HistoryOK
      BY TypeParts DEF PagesTypeInv, PagesTypeOK
  <2> QED
      BY <2>1, <2>2 DEF SetMark, HistoryOK, history
<1>3. marks' \subseteq Chains
    BY TypeParts DEF SetMark
<1>4. pages[c] # Nil => page \in Page /\ page.deposits = pages[c].deposits
    BY DEF PagesTypeInv, PagesTypeOK, Page
<1>5. /\ pages' \in [Chains -> Page \cup {Nil}]
      /\ \A d \in Chains : pages'[d] # Nil =>
            pages[d] # Nil /\ pages'[d].deposits = pages[d].deposits
  <2>1. CASE UNCHANGED pages
      BY <2>1 DEF PagesTypeInv, PagesTypeOK
  <2>2. CASE pages' = [pages EXCEPT ![c] = IF pages[c] = Nil THEN Nil ELSE page]
      BY <1>4, <2>2 DEF PagesTypeInv, PagesTypeOK
  <2> QED
      BY <2>1, <2>2 DEF SetMark
<1>6. request[q].at = "set" /\ request[q] \in Request
    BY TypeParts DEF SetMark
<1>7. /\ request' \in [Requests -> Request]
      /\ request'[q].at = "set" /\ request'[q].chain = request[q].chain
      /\ request'[q].found = request[q].found /\ request'[q].list = request[q].list
      /\ \A r \in Requests : r # q => request'[r] = request[r]
  <2> DEFINE new == [request[q] EXCEPT !.todo = request[q].todo \ {c}]
  <2>1. /\ new \in Request /\ new.at = "set" /\ new.chain = request[q].chain
        /\ new.found = request[q].found /\ new.list = request[q].list
      BY <1>6 DEF Request
  <2>2. Becomes(q, new)
      BY DEF SetMark
  <2> HIDE DEF new
  <2> QED
      BY <2>1, <2>2, BecomesOne, TypeParts
<1>8. UNCHANGED <<length, deposits, invalidations>>
    BY DEF SetMark, outside
<1> QED
    BY <1>1, <1>2, <1>3, <1>5, <1>7, <1>8
       DEF PagesTypeInv, PagesTypeOK, HoldDeposits, ListersHaveAChain, HistoryOK

\* The chain and the times to live.
LEMMA EnvironmentType ==
    ASSUME PagesTypeInv, NEW c \in Chains,
           \/ \E deposit \in BOOLEAN : ChainGrows(c, deposit)
           \/ ExpirePage(c) \/ ExpireMark(c)
    PROVE  PagesTypeInv'
<1>1. ASSUME NEW deposit \in BOOLEAN, ChainGrows(c, deposit)
      PROVE  PagesTypeInv'
  <2>1. length[c] \in 0..MaxTransactions /\ length[c] < MaxTransactions /\ MaxTransactions \in Nat
      BY <1>1, TransactionCacheAssumption DEF ChainGrows, PagesTypeInv, PagesTypeOK
  <2>2. length[c] + 1 \in Numbers
      BY <2>1 DEF Numbers
  <2>3. length' \in [Chains -> 0..MaxTransactions] /\ deposits' \in [Chains -> SUBSET Numbers]
      BY <1>1, <2>1, <2>2 DEF ChainGrows, PagesTypeInv, PagesTypeOK
  <2>4. \A d \in Chains : deposits'[d] \subseteq 1..length'[d]
      BY <1>1, <2>1 DEF ChainGrows, PagesTypeInv, PagesTypeOK, HoldDeposits
  <2>5. \A d \in Chains : deposits[d] \subseteq deposits'[d]
      BY <1>1 DEF ChainGrows, PagesTypeInv, PagesTypeOK
  <2>6. UNCHANGED <<pages, marks, request, invalidations, failures, history>>
      BY <1>1 DEF ChainGrows
  <2> QED
      BY <2>3, <2>4, <2>5, <2>6
         DEF PagesTypeInv, PagesTypeOK, HoldDeposits, ListersHaveAChain, history
<1>2. CASE ExpirePage(c)
    BY <1>2 DEF ExpirePage, outside, PagesTypeInv, PagesTypeOK, HoldDeposits, ListersHaveAChain
<1>3. CASE ExpireMark(c)
    BY <1>3 DEF ExpireMark, outside, history, PagesTypeInv, PagesTypeOK, HoldDeposits, ListersHaveAChain
<1> QED
    BY <1>1, <1>2, <1>3

\* Every step keeps the types.
LEMMA PagesTypeStep == PagesTypeInv /\ [PagesNext]_pageVars => PagesTypeInv'
<1> SUFFICES ASSUME PagesTypeInv, [PagesNext]_pageVars
             PROVE  PagesTypeInv'
    OBVIOUS
<1>1. ASSUME NEW q \in Requests, NEW c \in Chains, StartList(q, c)
      PROVE  PagesTypeInv'
    BY <1>1, StartListType
<1>2. ASSUME NEW q \in Requests, InvalidateAll(q) \/ \E c \in Chains : InvalidateChain(q, c)
      PROVE  PagesTypeInv'
    BY <1>2, InvalidateType
<1>3. ASSUME NEW q \in Requests, List(q)
      PROVE  PagesTypeInv'
    BY <1>3, ReadEntryType, ReadMarkType, FetchType, StoreType, ClearType DEF List
<1>4. ASSUME NEW q \in Requests, Mark(q)
      PROVE  PagesTypeInv'
    BY <1>4, KeysType, ReadMarkType, SetMarkType DEF Mark
<1>5. ASSUME NEW c \in Chains, \/ \E deposit \in BOOLEAN : ChainGrows(c, deposit)
                               \/ ExpirePage(c) \/ ExpireMark(c)
      PROVE  PagesTypeInv'
    BY <1>5, EnvironmentType
<1>6. CASE UNCHANGED pageVars
    BY <1>6 DEF pageVars, history, PagesTypeInv, PagesTypeOK, HoldDeposits, ListersHaveAChain
<1> QED
    BY <1>1, <1>2, <1>3, <1>4, <1>5, <1>6 DEF PagesNext

-----------------------------------------------------------------------------
(***************************************************************************)
(* Freshness.                                                              *)
(***************************************************************************)
\* Lengths are numbers.
LEMMA LengthType ==
    ASSUME PagesTypeInv
    PROVE  \A c \in Chains : length[c] \in Nat /\ promised[c] \in Nat
BY TransactionCacheAssumption DEF PagesTypeInv, PagesTypeOK

\* A step that fills nothing and keeps the pages, the marks and the promises.
LEMMA QuietStepFresh ==
    ASSUME FreshPagesInv, PagesTypeInv', NEW q \in Requests,
           UNCHANGED <<length, deposits, pages, marks, history>>,
           request'[q].at \notin {"store", "clear"},
           \A r \in Requests : r # q => request'[r] = request[r]
    PROVE  FreshPagesInv'
BY DEF FreshPagesInv, PromisesHaveCome, StalePageIsCovered, FillsAreFresh, FillIsFresh, Stale,
       Fresh, Newest, history

\* The request itself, in a step that only updates it.
LEMMA RequestAfter ==
    ASSUME request \in [Requests -> Request], NEW q \in Requests, NEW new, Becomes(q, new)
    PROVE  request'[q] = new /\ \A r \in Requests : r # q => request'[r] = request[r]
BY DEF Becomes

\* The step a request goes to.
LEMMA GotoAfter ==
    ASSUME request \in [Requests -> Request], NEW q \in Requests, NEW step, Goto(q, step)
    PROVE  /\ request'[q].at = step /\ request'[q].chain = request[q].chain
           /\ request'[q].list = request[q].list
           /\ \A r \in Requests : r # q => request'[r] = request[r]
<1>1. request[q] \in Request
    OBVIOUS
<1> DEFINE new == [request[q] EXCEPT !.at = step]
<1>2. new.at = step /\ new.chain = request[q].chain /\ new.list = request[q].list
    BY <1>1 DEF Request
<1>3. Becomes(q, new)
    BY DEF Goto
<1> HIDE DEF new
<1> QED
    BY <1>2, <1>3, RequestAfter

\* What a fetch returns holds what an incremental fetch would return.
LEMMA FetchIsFresh ==
    ASSUME PagesTypeInv, NEW c \in Chains, NEW found, NEW limit \in {FetchLimit, IncrementalLimit}
    PROVE  Newest(c, IncrementalLimit) \subseteq Newest(c, limit)
<1>1. length[c] \in Nat /\ deposits[c] \subseteq Numbers
    BY TransactionCacheAssumption DEF PagesTypeInv, PagesTypeOK
<1>2. IncrementalLimit \in Nat /\ FetchLimit \in Nat /\ IncrementalLimit <= FetchLimit
    BY TransactionCacheAssumption
<1> QED
    BY <1>1, <1>2 DEF Newest, Numbers

\* The page that will be stored is fresh.
LEMMA FetchFresh ==
    ASSUME FreshPagesInv, PagesTypeInv', NEW q \in Requests, Fetch(q)
    PROVE  FreshPagesInv'
<1> DEFINE c == request[q].chain
           found == request[q].found
           fetched == Newest(c, LimitOf(found))
           list == IF found = Nil THEN fetched ELSE MergeTransactions(found, fetched)
           new == [request[q] EXCEPT !.at = "store", !.list = list]
<1>1. request[q] \in Request /\ c \in Chains
    BY DEF FreshPagesInv, PagesTypeInv, PagesTypeOK, ListersHaveAChain, Fetch
<1>2. new.at = "store" /\ new.chain = c /\ new.list = list
    BY <1>1 DEF Request
<1>3. Becomes(q, new)
    BY DEF Fetch
<1>4. Newest(c, IncrementalLimit) \subseteq fetched
    BY <1>1, FetchIsFresh DEF LimitOf, FreshPagesInv
<1>5. Fresh(c, list)
    BY <1>4 DEF Fresh, MergeTransactions
<1> HIDE DEF new, list
<1>6. request'[q] = new /\ \A r \in Requests : r # q => request'[r] = request[r]
    BY <1>3, RequestAfter DEF FreshPagesInv, PagesTypeInv, PagesTypeOK
<1>7. UNCHANGED <<length, deposits, pages, marks, history>>
    BY DEF Fetch, outside
<1> QED
    BY <1>2, <1>5, <1>6, <1>7
       DEF FreshPagesInv, PromisesHaveCome, StalePageIsCovered, FillsAreFresh, FillIsFresh, Stale,
           Fresh, Newest, history

(***************************************************************************)
(* A page that is stored is fresh, unless the request is behind; one that  *)
(* is not stored leaves it behind.                                         *)
(***************************************************************************)
LEMMA StoreFresh ==
    ASSUME FreshPagesInv, PagesTypeInv', NEW q \in Requests, Store(q)
    PROVE  FreshPagesInv'
<1>s. request[q].at = "store" /\ request[q].chain \in Chains
    BY DEF Store, FreshPagesInv, PagesTypeInv, ListersHaveAChain
<1>c. PICK c \in Chains : c = request[q].chain
    BY <1>s
<1>1. q \in behind \/ Fresh(c, request[q].list)
    BY <1>s, <1>c DEF FreshPagesInv, FillsAreFresh, FillIsFresh
<1>2. /\ request'[q].at = "clear" /\ request'[q].chain = c
      /\ \A r \in Requests : r # q => request'[r] = request[r]
  <2>1. Goto(q, "clear") /\ request \in [Requests -> Request]
      BY DEF Store, FreshPagesInv, PagesTypeInv, PagesTypeOK
  <2> QED
      BY <1>c, <2>1, GotoAfter
<1>3. UNCHANGED <<length, deposits, marks, promised>>
    BY DEF Store, outside
<1>4. PromisesHaveCome'
    BY <1>3 DEF FreshPagesInv, PromisesHaveCome
<1>5. CASE /\ pages' = [pages EXCEPT ![c] = [deposits |-> request[q].list, marked |-> FALSE]]
           /\ unguarded' = IF q \in behind THEN unguarded \cup {c} ELSE unguarded \ {c}
           /\ UNCHANGED behind
  <2>1. /\ pages'[c].deposits = request[q].list
        /\ \A d \in Chains : d # c =>
              pages'[d] = pages[d] /\ (d \in unguarded' <=> d \in unguarded)
      BY <1>1, <1>5 DEF FreshPagesInv, PagesTypeInv, PagesTypeOK
  <2>2. Stale(c)' => c \in unguarded'
    <3>1. q \in behind => c \in unguarded'
        BY <1>5
    <3>2. Fresh(c, request[q].list) => ~Stale(c)'
        BY <1>3, <2>1 DEF Stale, Fresh, Newest
    <3> QED
        BY <1>1, <3>1, <3>2
  <2>3. \A d \in Chains : d # c => (Stale(d)' <=> Stale(d))
      BY <1>3, <2>1 DEF Stale, Fresh, Newest
  <2>4. StalePageIsCovered'
    <3> SUFFICES ASSUME NEW d \in Chains, Stale(d)'
                 PROVE  d \in unguarded' \/ (pages'[d].marked /\ d \in marks')
        BY DEF StalePageIsCovered
    <3>1. d = c \/ (d # c /\ Stale(d))
        BY <2>3
    <3>2. Stale(d) => d \in unguarded \/ (pages[d].marked /\ d \in marks)
        BY DEF FreshPagesInv, StalePageIsCovered
    <3> QED
        BY <1>3, <2>1, <2>2, <3>1, <3>2
  <2>5. FillsAreFresh'
    <3> SUFFICES ASSUME NEW r \in Requests PROVE FillIsFresh(r)'
        BY DEF FillsAreFresh
    <3>1. CASE r = q
        BY <1>2, <2>2, <3>1 DEF FillIsFresh
    <3>2. CASE r # q
      <4>1. request'[r] = request[r] /\ FillIsFresh(r)
          BY <1>2, <3>2 DEF FreshPagesInv, FillsAreFresh
      <4>2. request[r].at = "clear" => request[r].chain \in Chains
          BY DEF FreshPagesInv, PagesTypeInv, ListersHaveAChain
      <4>3. request[r].at = "store" /\ Fresh(request[r].chain, request[r].list)
              => Fresh(request[r].chain, request[r].list)'
          BY <1>3, <4>1 DEF Fresh, Newest
      <4> QED
          BY <1>5, <2>1, <2>2, <2>3, <4>1, <4>2, <4>3 DEF FillIsFresh
    <3> QED
        BY <3>1, <3>2
  <2> QED
      BY <1>4, <2>4, <2>5 DEF FreshPagesInv
<1>6. CASE behind' = behind \cup {q} /\ UNCHANGED <<pages, unguarded>>
  <2>1. StalePageIsCovered'
      BY <1>3, <1>6 DEF FreshPagesInv, StalePageIsCovered, Stale, Fresh, Newest
  <2>2. FillsAreFresh'
      BY <1>2, <1>3, <1>6 DEF FreshPagesInv, FillsAreFresh, FillIsFresh, Stale, Fresh, Newest
  <2> QED
      BY <1>4, <2>1, <2>2 DEF FreshPagesInv
<1> QED
    BY <1>5, <1>6, <1>c DEF Store

\* Whoever removes a mark finds a fresh page, or none, or is behind, or one that was stored it.
LEMMA ClearFresh ==
    ASSUME FreshPagesInv, PagesTypeInv', NEW q \in Requests, ClearRefreshFlag(q)
    PROVE  FreshPagesInv'
<1> DEFINE c == request[q].chain
<1>1. request[q].at = "clear" /\ UNCHANGED <<length, deposits, pages, promised>>
    BY DEF ClearRefreshFlag, outside
<1>2. c \in Chains /\ (Stale(c) => q \in behind \/ c \in unguarded)
    BY <1>1 DEF FreshPagesInv, PagesTypeInv, ListersHaveAChain, FillsAreFresh, FillIsFresh
<1>3. request'[q] = IdleRequest /\ \A r \in Requests : r # q => request'[r] = request[r]
  <2>1. Becomes(q, IdleRequest) /\ request \in [Requests -> Request]
      BY DEF ClearRefreshFlag, Finish, FreshPagesInv, PagesTypeInv, PagesTypeOK
  <2> QED
      BY <2>1, RequestAfter
<1>4. /\ \A d \in Chains : d # c => (d \in marks' <=> d \in marks)
      /\ unguarded \subseteq unguarded' /\ behind' = behind \ {q}
      /\ q \in behind /\ c \in marks => c \in unguarded' \/ marks' = marks
    BY DEF ClearRefreshFlag
<1>5. PromisesHaveCome'
    BY <1>1 DEF FreshPagesInv, PromisesHaveCome
<1>6. \A d \in Chains : Stale(d)' <=> Stale(d)
    BY <1>1 DEF Stale, Fresh, Newest
<1>7. StalePageIsCovered'
    BY <1>1, <1>2, <1>4, <1>6 DEF FreshPagesInv, StalePageIsCovered
<1>8. FillsAreFresh'
  <2> SUFFICES ASSUME NEW r \in Requests PROVE FillIsFresh(r)'
      BY DEF FillsAreFresh
  <2>1. CASE r = q
      BY <1>3, <2>1, IdleIsARequest DEF FillIsFresh
  <2>2. CASE r # q
    <3>1. request'[r] = request[r] /\ FillIsFresh(r)
        BY <1>3, <2>2 DEF FreshPagesInv, FillsAreFresh
    <3>2. request[r].at = "clear" => request[r].chain \in Chains
        BY DEF FreshPagesInv, PagesTypeInv, ListersHaveAChain
    <3>3. request[r].at = "store" /\ Fresh(request[r].chain, request[r].list)
            => Fresh(request[r].chain, request[r].list)'
        BY <1>1, <3>1 DEF Fresh, Newest
    <3> QED
        BY <1>4, <1>6, <2>2, <3>1, <3>2, <3>3 DEF FillIsFresh
  <2> QED
      BY <2>1, <2>2
<1> QED
    BY <1>5, <1>7, <1>8 DEF FreshPagesInv

(***************************************************************************)
(* What a promise of a set of chains does: whoever is filling one of them  *)
(* is behind, and a page of one of them is marked.                         *)
(***************************************************************************)
LEMMA PromiseFresh ==
    ASSUME FreshPagesInv, PagesTypeInv', NEW q \in Requests, NEW C \in SUBSET Chains,
           request'[q].at \notin {"store", "clear"},
           \A r \in Requests : r # q => request'[r] = request[r],
           UNCHANGED <<length, deposits>>,
           \A d \in Chains : promised'[d] = IF d \in C THEN length[d] ELSE promised[d],
           \A d \in Chains \ C : /\ pages'[d] = pages[d]
                                 /\ d \in marks => d \in marks'
                                 /\ d \in unguarded => d \in unguarded',
           \A d \in C : pages'[d] # Nil => pages'[d].marked /\ d \in marks',
           behind' = behind \cup Filling(C)
    PROVE  FreshPagesInv'
<1>1. PromisesHaveCome'
    BY LengthType DEF FreshPagesInv, PromisesHaveCome
<1>2. \A d \in Chains \ C : Stale(d)' <=> Stale(d)
    BY DEF Stale, Fresh, Newest
<1>3. StalePageIsCovered'
    BY <1>2 DEF FreshPagesInv, StalePageIsCovered, Stale
<1>4. FillsAreFresh'
  <2> SUFFICES ASSUME NEW r \in Requests, request'[r].at \in {"store", "clear"}, r \notin behind'
               PROVE  FillIsFresh(r)'
      BY DEF FillsAreFresh, FillIsFresh
  <2>1. r # q /\ request'[r] = request[r] /\ request[r].chain \in Chains /\ FillIsFresh(r)
      BY DEF FreshPagesInv, PagesTypeInv, ListersHaveAChain, FillsAreFresh
  <2>2. r \notin behind /\ request[r].chain \notin C
      BY <2>1 DEF Filling
  <2>3. Fresh(request[r].chain, request[r].list) => Fresh(request[r].chain, request[r].list)'
      BY <2>1, <2>2 DEF Fresh, Newest
  <2> QED
      BY <1>2, <2>1, <2>2, <2>3 DEF FillIsFresh
<1> QED
    BY <1>1, <1>3, <1>4 DEF FreshPagesInv

\* A chain without an entry is promised what has come by now.
LEMMA KeysFresh ==
    ASSUME FreshPagesInv, PagesTypeInv', NEW q \in Requests, Keys(q)
    PROVE  FreshPagesInv'
<1> DEFINE found == {c \in Chains : pages[c] # Nil}
<1>1. /\ request \in [Requests -> Request]
      /\ UNCHANGED <<length, deposits, pages, marks, unguarded>>
    BY DEF Keys, outside, FreshPagesInv, PagesTypeInv, PagesTypeOK
<1>2. request'[q].at \in {"idle", "set"} /\ \A r \in Requests : r # q => request'[r] = request[r]
  <2>1. CASE Finish(q)
      BY <1>1, <2>1, RequestAfter, IdleIsARequest DEF Finish
  <2>2. CASE Becomes(q, [request[q] EXCEPT !.at = "set", !.todo = found])
    <3> DEFINE new == [request[q] EXCEPT !.at = "set", !.todo = found]
    <3>1. new.at = "set"
        BY <1>1 DEF Request
    <3>2. Becomes(q, new)
        BY <2>2
    <3> HIDE DEF new
    <3> QED
        BY <1>1, <3>1, <3>2, RequestAfter
  <2> QED
      BY <2>1, <2>2 DEF Keys
<1>3. CASE UNCHANGED <<promised, behind>>
    BY <1>1, <1>2, <1>3, QuietStepFresh DEF history
<1>4. CASE /\ promised' = [c \in Chains |-> IF c \in found THEN promised[c] ELSE length[c]]
           /\ behind' = behind \cup Filling(Chains \ found)
  <2> DEFINE C == Chains \ found
  <2>1. \A d \in Chains : promised'[d] = IF d \in C THEN length[d] ELSE promised[d]
      BY <1>4
  <2>2. \A d \in C : pages'[d] = Nil
      BY <1>1
  <2>3. behind' = behind \cup Filling(C) /\ C \in SUBSET Chains
      BY <1>4
  <2> HIDE DEF C
  <2> QED
      BY <1>1, <1>2, <2>1, <2>2, <2>3, PromiseFresh
<1> QED
    BY <1>3, <1>4 DEF Keys

\* A mark covers the page it is set over.
LEMMA SetMarkFresh ==
    ASSUME FreshPagesInv, PagesTypeInv', NEW q \in Requests, NEW c \in Chains, SetMark(q, c)
    PROVE  FreshPagesInv'
<1> DEFINE new == [request[q] EXCEPT !.todo = request[q].todo \ {c}]
<1>1. /\ request \in [Requests -> Request] /\ request[q].at = "set"
      /\ UNCHANGED <<length, deposits>>
    BY DEF SetMark, outside, FreshPagesInv, PagesTypeInv, PagesTypeOK
<1>2. new.at = "set"
    BY <1>1 DEF Request
<1>3. Becomes(q, new)
    BY DEF SetMark
<1> HIDE DEF new
<1>4. request'[q].at = "set" /\ \A r \in Requests : r # q => request'[r] = request[r]
    BY <1>1, <1>2, <1>3, RequestAfter
<1>5. CASE UNCHANGED <<marks, pages, history>>
    BY <1>1, <1>4, <1>5, QuietStepFresh
<1>6. CASE /\ marks' = marks \cup {c}
           /\ pages' = [pages EXCEPT ![c] = IF pages[c] = Nil THEN Nil
                                            ELSE [pages[c] EXCEPT !.marked = TRUE]]
           /\ promised' = [promised EXCEPT ![c] = length[c]]
           /\ behind' = behind \cup Filling({c})
           /\ unguarded' = unguarded \ {c}
  <2>1. \A d \in Chains : promised'[d] = IF d \in {c} THEN length[d] ELSE promised[d]
      BY <1>6 DEF FreshPagesInv, PagesTypeInv, PagesTypeOK
  <2>2. \A d \in Chains \ {c} : /\ pages'[d] = pages[d]
                                /\ d \in marks => d \in marks'
                                /\ d \in unguarded => d \in unguarded'
      BY <1>6 DEF FreshPagesInv, PagesTypeInv, PagesTypeOK
  <2>3. \A d \in {c} : pages'[d] # Nil => pages'[d].marked /\ d \in marks'
      BY <1>6 DEF FreshPagesInv, PagesTypeInv, PagesTypeOK, Page
  <2> QED
      BY <1>1, <1>4, <1>6, <2>1, <2>2, <2>3, PromiseFresh
<1> QED
    BY <1>5, <1>6 DEF SetMark

\* New transactions are promised to nobody, and move the old ones out of the window.
LEMMA EnvironmentFresh ==
    ASSUME FreshPagesInv, PagesTypeInv', NEW c \in Chains,
           \/ \E deposit \in BOOLEAN : ChainGrows(c, deposit)
           \/ ExpirePage(c) \/ ExpireMark(c)
    PROVE  FreshPagesInv'
<1>1. ASSUME NEW deposit \in BOOLEAN, ChainGrows(c, deposit)
      PROVE  FreshPagesInv'
  <2>1. UNCHANGED <<pages, marks, request, promised, behind, unguarded>>
      BY <1>1 DEF ChainGrows, history
  <2>2. /\ length'[c] = length[c] + 1
        /\ deposits'[c] \subseteq deposits[c] \cup {length[c] + 1}
        /\ \A d \in Chains : d # c => length'[d] = length[d] /\ deposits'[d] = deposits[d]
      BY <1>1 DEF ChainGrows, FreshPagesInv, PagesTypeInv, PagesTypeOK
  <2>3. \A d \in Chains : /\ length[d] \in Nat /\ promised[d] \in Nat
                          /\ promised[d] <= length[d] /\ deposits[d] \subseteq Nat
      BY LengthType DEF FreshPagesInv, PromisesHaveCome, PagesTypeInv, PagesTypeOK, Numbers
  <2>4. \A d \in Chains : \A i \in deposits'[d] :
          i > length'[d] - IncrementalLimit /\ i <= promised[d]
            => i \in deposits[d] /\ i > length[d] - IncrementalLimit
    <3> SUFFICES ASSUME NEW d \in Chains, NEW i \in deposits'[d],
                        i > length'[d] - IncrementalLimit, i <= promised[d]
                 PROVE  i \in deposits[d] /\ i > length[d] - IncrementalLimit
        OBVIOUS
    <3>1. /\ length[d] \in Nat /\ promised[d] \in Nat /\ promised[d] <= length[d]
          /\ IncrementalLimit \in Nat
        BY <2>3, TransactionCacheAssumption
    <3>2. CASE d # c
        BY <2>2, <3>2
    <3>3. CASE d = c
      <4>1. i \in deposits[c] \/ i = length[c] + 1
          BY <2>2, <3>3
      <4>2. i \in deposits[c] /\ i \in Nat
          BY <2>3, <3>1, <3>3, <4>1
      <4>3. i > length[c] + 1 - IncrementalLimit
        <5>1. length'[d] = length[c] + 1
            BY <2>2, <3>3
        <5>2. length[c] \in Nat /\ IncrementalLimit \in Nat /\ length'[d] \in Nat
            BY <3>1, <3>3, <5>1
        <5> QED
            BY <4>2, <5>1, <5>2
      <4> QED
          BY <3>1, <3>3, <4>2, <4>3
    <3> QED
        BY <3>2, <3>3
  <2>5. PromisesHaveCome'
      BY <2>1, <2>2, <2>3 DEF PromisesHaveCome
  <2>6. StalePageIsCovered'
      BY <2>1, <2>4 DEF FreshPagesInv, StalePageIsCovered, Stale, Fresh, Newest
  <2>7. FillsAreFresh'
      BY <2>1, <2>4
         DEF FreshPagesInv, FillsAreFresh, FillIsFresh, Stale, Fresh, Newest, PagesTypeInv,
             ListersHaveAChain
  <2> QED
      BY <2>5, <2>6, <2>7 DEF FreshPagesInv
<1>2. CASE ExpirePage(c)
  <2>1. /\ UNCHANGED <<length, deposits, marks, request, promised, behind>>
        /\ pages'[c] = Nil
        /\ \A d \in Chains : d # c =>
              pages'[d] = pages[d] /\ (d \in unguarded' <=> d \in unguarded)
      BY <1>2 DEF ExpirePage, outside, FreshPagesInv, PagesTypeInv, PagesTypeOK
  <2>2. \A d \in Chains : Stale(d)' => Stale(d) /\ d # c
      BY <2>1 DEF Stale, Fresh, Newest
  <2>3. PromisesHaveCome'
      BY <2>1 DEF FreshPagesInv, PromisesHaveCome
  <2>4. StalePageIsCovered'
      BY <2>1, <2>2 DEF FreshPagesInv, StalePageIsCovered
  <2>5. FillsAreFresh'
      BY <2>1, <2>2 DEF FreshPagesInv, FillsAreFresh, FillIsFresh, Fresh, Newest, PagesTypeInv,
                        ListersHaveAChain
  <2> QED
      BY <2>3, <2>4, <2>5 DEF FreshPagesInv
<1>3. CASE ExpireMark(c)
  <2>1. UNCHANGED <<length, deposits, pages, request, promised, behind, unguarded>>
      BY <1>3 DEF ExpireMark, outside, history
  <2>2. \A d \in Chains : pages[d] # Nil /\ pages[d].marked /\ d \in marks => d \in marks'
      BY <1>3 DEF ExpireMark
  <2> QED
      BY <2>1, <2>2 DEF FreshPagesInv, PromisesHaveCome, StalePageIsCovered, FillsAreFresh,
                        FillIsFresh, Stale, Fresh, Newest
<1> QED
    BY <1>1, <1>2, <1>3

\* Every step keeps the invariant.
LEMMA FreshPagesStep == FreshPagesInv /\ [PagesNext]_pageVars => FreshPagesInv'
<1> SUFFICES ASSUME FreshPagesInv, [PagesNext]_pageVars
             PROVE  FreshPagesInv'
    OBVIOUS
<1>t. PagesTypeInv'
    BY PagesTypeStep DEF FreshPagesInv
<1>r. request \in [Requests -> Request]
    BY DEF FreshPagesInv, PagesTypeInv, PagesTypeOK
<1>1. ASSUME NEW q \in Requests, NEW c \in Chains, StartList(q, c)
      PROVE  FreshPagesInv'
  <2> DEFINE new == [IdleRequest EXCEPT !.at = "entry", !.chain = c]
  <2>1. new.at = "entry"
      BY DEF IdleRequest
  <2>2. Becomes(q, new)
      BY <1>1 DEF StartList
  <2> HIDE DEF new
  <2> QED
      BY <1>1, <1>t, <1>r, <2>1, <2>2, RequestAfter, QuietStepFresh DEF StartList, outside
<1>2. ASSUME NEW q \in Requests, InvalidateAll(q)
      PROVE  FreshPagesInv'
  <2> DEFINE new == [IdleRequest EXCEPT !.at = "keys"]
  <2>1. new.at = "keys"
      BY DEF IdleRequest
  <2>2. Becomes(q, new)
      BY <1>2 DEF InvalidateAll
  <2> HIDE DEF new
  <2> QED
      BY <1>2, <1>t, <1>r, <2>1, <2>2, RequestAfter, QuietStepFresh DEF InvalidateAll, Invalidate
<1>3. ASSUME NEW q \in Requests, NEW c \in Chains, InvalidateChain(q, c)
      PROVE  FreshPagesInv'
  <2> DEFINE new == [IdleRequest EXCEPT !.at = "set", !.todo = {c}]
  <2>1. new.at = "set"
      BY DEF IdleRequest
  <2>2. Becomes(q, new)
      BY <1>3 DEF InvalidateChain
  <2> HIDE DEF new
  <2> QED
      BY <1>3, <1>t, <1>r, <2>1, <2>2, RequestAfter, QuietStepFresh DEF InvalidateChain, Invalidate
<1>4. ASSUME NEW q \in Requests, ReadEntry(q)
      PROVE  FreshPagesInv'
  <2> DEFINE entry == pages[request[q].chain]
             new == [request[q] EXCEPT !.at = "mark",
                       !.found = IF entry = Nil THEN Nil ELSE entry.deposits]
  <2>1. new.at = "mark"
      BY <1>r DEF Request
  <2>2. Becomes(q, new) \/ Goto(q, "mark")
      BY <1>4 DEF ReadEntry
  <2> HIDE DEF new
  <2>3. request'[q].at = "mark" /\ \A r \in Requests : r # q => request'[r] = request[r]
      BY <1>r, <2>1, <2>2, RequestAfter, GotoAfter
  <2> QED
      BY <1>4, <1>t, <2>3, QuietStepFresh DEF ReadEntry, outside
<1>5. ASSUME NEW q \in Requests, ReadMark(q) \/ FetchThrows(q) \/ MarksSet(q)
      PROVE  FreshPagesInv'
  <2>1. Becomes(q, IdleRequest) \/ Goto(q, "fetch")
      BY <1>5 DEF ReadMark, FetchThrows, MarksSet, Finish
  <2>2. request'[q].at \in {"idle", "fetch"} /\ \A r \in Requests : r # q => request'[r] = request[r]
      BY <1>r, <2>1, RequestAfter, GotoAfter, IdleIsARequest
  <2>3. UNCHANGED <<length, deposits, pages, marks, history>>
      BY <1>5 DEF ReadMark, FetchThrows, MarksSet, outside
  <2> QED
      BY <1>t, <2>2, <2>3, QuietStepFresh
<1>6. ASSUME NEW q \in Requests, Fetch(q) \/ Store(q) \/ ClearRefreshFlag(q) \/ Keys(q)
      PROVE  FreshPagesInv'
    BY <1>6, <1>t, FetchFresh, StoreFresh, ClearFresh, KeysFresh
<1>7. ASSUME NEW q \in Requests, NEW c \in Chains, SetMark(q, c)
      PROVE  FreshPagesInv'
    BY <1>7, <1>t, SetMarkFresh
<1>8. ASSUME NEW c \in Chains, \/ \E deposit \in BOOLEAN : ChainGrows(c, deposit)
                               \/ ExpirePage(c) \/ ExpireMark(c)
      PROVE  FreshPagesInv'
    BY <1>8, <1>t, EnvironmentFresh
<1>9. CASE UNCHANGED pageVars
    BY <1>9, <1>t DEF pageVars, history, FreshPagesInv, PromisesHaveCome, StalePageIsCovered,
                      FillsAreFresh, FillIsFresh, Stale, Fresh, Newest
<1> QED
    BY <1>1, <1>2, <1>3, <1>4, <1>5, <1>6, <1>7, <1>8, <1>9 DEF PagesNext, List, Mark

\* The empty cache.
LEMMA FreshPagesAtFirst == PagesInit => FreshPagesInv
<1> SUFFICES ASSUME PagesInit PROVE FreshPagesInv
    OBVIOUS
<1>1. PagesTypeInv
    BY IdleIsARequest, TransactionCacheAssumption
       DEF PagesInit, PagesTypeInv, PagesTypeOK, HoldDeposits, ListersHaveAChain
<1>2. \A q \in Requests : request[q].at = "idle"
    BY IdleIsARequest DEF PagesInit
<1> QED
    BY <1>1, <1>2 DEF PagesInit, FreshPagesInv, PromisesHaveCome, StalePageIsCovered,
                      FillsAreFresh, FillIsFresh, Stale

-----------------------------------------------------------------------------
(***************************************************************************)
(* Types, and that pages and requests hold nothing but deposits of their   *)
(* chain, whatever overlaps and whatever is lost.                          *)
(***************************************************************************)
THEOREM PagesTypeCorrect == PagesSpec => []PagesTypeOK
<1>1. PagesInit => PagesTypeInv
    BY FreshPagesAtFirst DEF FreshPagesInv
<1>2. PagesTypeInv => PagesTypeOK
    BY DEF PagesTypeInv
<1> QED
    BY <1>1, <1>2, PagesTypeStep, PTL DEF PagesSpec

(***************************************************************************)
(* For any chains, requests and limits, and any number of transactions,    *)
(* invalidations and lost commands: a page that misses what a mark asked   *)
(* for, of the newest transactions that an incremental fetch covers, keeps *)
(* the mark (set, markForRefresh and their times to live), or its mark     *)
(* was undone by a request that had fetched before it, or by one that      *)
(* could not write its page; there is no other way to lose it.             *)
(***************************************************************************)
THEOREM StalePageIsAlwaysMarked == PagesSpec => []StalePageIsMarked
<1>1. FreshPagesInv => StalePageIsMarked
    BY DEF FreshPagesInv, StalePageIsCovered, StalePageIsMarked, Stale
<1> QED
    BY <1>1, FreshPagesAtFirst, FreshPagesStep, PTL DEF PagesSpec
=============================================================================
