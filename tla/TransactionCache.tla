-------------------------- MODULE TransactionCache --------------------------
(***************************************************************************)
(* The cached deposits of one predicate, per chain: TransactionCache       *)
(* (packages/api/src/server/storage/transaction.ts), the listing that      *)
(* reads and fills it (fetchFuelTransactions), and the invalidations that  *)
(* mark a page for refresh instead of deleting it.                         *)
(*                                                                         *)
(* The transactions of the address on a chain are numbered in their order; *)
(* the deposits are those a page keeps (successful, with the address as a  *)
(* receiver).  A page is the set of deposits it holds.  Every Redis        *)
(* command is a step of its own, and one that fails is logged and          *)
(* swallowed: a read finds nothing, a write does nothing.                  *)
(***************************************************************************)
EXTENDS Integers, FiniteSets

CONSTANTS Chains,            \* the chain ids; 0 is the Fuel testnet, and falsy
          Requests,          \* the requests the API may be handling at a time
          FetchLimit,        \* transactions a full fetch asks for
          IncrementalLimit,  \* transactions an incremental fetch asks for
          MaxTransactions,   \* bound: the transactions of the address
          MaxInvalidations,  \* bound: how often the page is invalidated
          MaxFailures,       \* bound: how many Redis commands fail
          Nil                \* no page

ASSUME TransactionCacheAssumption ==
    /\ Chains \subseteq Nat
    /\ MaxTransactions \in Nat /\ MaxInvalidations \in Nat /\ MaxFailures \in Nat
    /\ IncrementalLimit \in Nat \ {0} /\ FetchLimit \in Nat
    /\ IncrementalLimit <= FetchLimit

VARIABLES length,         \* length[c]: the transactions of the address on chain c
          deposits,       \* deposits[c]: which of them are deposits
          pages,          \* pages[c]: the entry tx:<address>:c, or Nil
          marks,          \* the chains whose refresh mark is set
          request,        \* request[q]: what request q is in the middle of
          invalidations,  \* invalidations so far
          failures,       \* Redis commands that failed so far
          promised,       \* history: the length the last mark asks for
          behind,         \* history: the requests that store or clear too late
          unguarded       \* history: the chains whose page lost its mark to one

history == <<promised, behind, unguarded>>
pageVars == <<length, deposits, pages, marks, request, invalidations, failures, history>>

Numbers == 1..MaxTransactions

\* An entry; marked: a refresh mark was set over it, which outlives it.
Page == [deposits : SUBSET Numbers, marked : BOOLEAN]

Steps == {"idle",
          "entry", "mark", "fetch", "store", "clear",   \* list
          "keys", "set"}                                \* invalidate

Request == [at : Steps,
            chain : Chains \cup {Nil},            \* the chain that is listed
            found : (SUBSET Numbers) \cup {Nil},  \* what the cache returned
            list : SUBSET Numbers,                \* what will be stored
            todo : SUBSET Chains]                 \* the marks left to set

IdleRequest == [at |-> "idle", chain |-> Nil, found |-> Nil, list |-> {}, todo |-> {}]

\* Pages and requests hold nothing but deposits of their chain.
HoldDeposits ==
    /\ \A c \in Chains : deposits[c] \subseteq 1..length[c]
    /\ \A c \in Chains : pages[c] # Nil => pages[c].deposits \subseteq deposits[c]
    /\ \A q \in Requests, c \in Chains : request[q].chain = c =>
          /\ request[q].found # Nil => request[q].found \subseteq deposits[c]
          /\ request[q].list \subseteq deposits[c]

PagesTypeOK ==
    /\ length \in [Chains -> 0..MaxTransactions]
    /\ deposits \in [Chains -> SUBSET Numbers]
    /\ pages \in [Chains -> Page \cup {Nil}]
    /\ marks \subseteq Chains
    /\ request \in [Requests -> Request]
    /\ invalidations \in 0..MaxInvalidations
    /\ failures \in 0..MaxFailures
    /\ promised \in [Chains -> 0..MaxTransactions]
    /\ behind \subseteq Requests
    /\ unguarded \subseteq Chains
    /\ HoldDeposits

PagesInit ==
    /\ length = [c \in Chains |-> 0]
    /\ deposits = [c \in Chains |-> {}]
    /\ pages = [c \in Chains |-> Nil]
    /\ marks = {}
    /\ request = [q \in Requests |-> IdleRequest]
    /\ invalidations = 0
    /\ failures = 0
    /\ promised = [c \in Chains |-> 0]
    /\ behind = {} /\ unguarded = {}

Fails == failures < MaxFailures /\ failures' = failures + 1
Works == UNCHANGED failures

Becomes(q, r) == request' = [request EXCEPT ![q] = r]
Goto(q, step) == Becomes(q, [request[q] EXCEPT !.at = step])
Finish(q) == Becomes(q, IdleRequest)

outside == <<length, deposits, invalidations>>

-----------------------------------------------------------------------------
(***************************************************************************)
(* getWithRefreshCheck: the entry, then its mark.                          *)
(***************************************************************************)
StartList(q, c) ==
    /\ request[q].at = "idle"
    /\ Becomes(q, [IdleRequest EXCEPT !.at = "entry", !.chain = c])
    /\ UNCHANGED <<outside, pages, marks, failures, history>>

ReadEntry(q) ==
    LET entry == pages[request[q].chain]
    IN  /\ request[q].at = "entry"
        /\ \/ /\ Works
              /\ Becomes(q, [request[q] EXCEPT !.at = "mark",
                               !.found = IF entry = Nil THEN Nil ELSE entry.deposits])
           \/ Fails /\ Goto(q, "mark")
        /\ UNCHANGED <<outside, pages, marks, history>>

\* A page that is not marked is returned as it is.
ReadMark(q) ==
    /\ request[q].at = "mark"
    /\ \/ /\ Works
          /\ IF request[q].found = Nil \/ request[q].chain \in marks
               THEN Goto(q, "fetch") ELSE Finish(q)
       \/ /\ Fails
          /\ IF request[q].found = Nil THEN Goto(q, "fetch") ELSE Finish(q)
    /\ UNCHANGED <<outside, pages, marks, history>>

-----------------------------------------------------------------------------
\* Mutant: what was sent or has failed is taken for a deposit.
NewestUnfiltered(c, n) == {i \in 1..length[c] : i > length[c] - n}

\* The deposits among the newest n transactions of the address.
Newest(c, n) == {i \in deposits[c] : i > length[c] - n}

\* Mutant: a page is always fetched as if there were an older one to merge it with.
IncrementalAlways(found) == IncrementalLimit

\* An empty page is no page to merge with.
LimitOf(found) == IF found \in {Nil, {}} THEN FetchLimit ELSE IncrementalLimit

MergeTransactions(cached, new) == cached \cup new

Fetch(q) ==
    LET found == request[q].found
        new == Newest(request[q].chain, LimitOf(found))
    IN  /\ request[q].at = "fetch"
        /\ Becomes(q, [request[q] EXCEPT !.at = "store",
                         !.list = IF found = Nil THEN new ELSE MergeTransactions(found, new)])
        /\ UNCHANGED <<outside, pages, marks, failures, history>>

\* The node throws: the listing is answered without deposits.
FetchThrows(q) ==
    /\ request[q].at = "fetch"
    /\ Finish(q)
    /\ UNCHANGED <<outside, pages, marks, failures, history>>

(***************************************************************************)
(* set: the entry is written, then its mark is removed, whether or not the *)
(* write succeeded.  A request is behind (history) from when another mark  *)
(* falls after its fetch, or from when its page could not be written: what *)
(* it stores may be old, and the mark it removes is still needed.          *)
(***************************************************************************)
Store(q) ==
    LET c == request[q].chain
    IN  /\ request[q].at = "store"
        /\ \/ /\ Works
              /\ pages' = [pages EXCEPT ![c] = [deposits |-> request[q].list, marked |-> FALSE]]
              /\ unguarded' = IF q \in behind THEN unguarded \cup {c} ELSE unguarded \ {c}
              /\ UNCHANGED behind
           \/ /\ Fails
              /\ behind' = behind \cup {q}
              /\ UNCHANGED <<pages, unguarded>>
        /\ Goto(q, "clear")
        /\ UNCHANGED <<outside, marks, promised>>

ClearRefreshFlag(q) ==
    LET c == request[q].chain
    IN  /\ request[q].at = "clear"
        /\ \/ /\ Works
              /\ marks' = marks \ {c}
              /\ unguarded' = IF q \in behind /\ c \in marks THEN unguarded \cup {c}
                                                            ELSE unguarded
           \/ Fails /\ UNCHANGED <<marks, unguarded>>
        /\ behind' = behind \ {q}
        /\ Finish(q)
        /\ UNCHANGED <<outside, pages, promised>>

-----------------------------------------------------------------------------
(***************************************************************************)
(* markForRefresh of one chain, or of all: without a chain id, and with    *)
(* chain id 0, it marks the entries that it finds.                         *)
(***************************************************************************)
Invalidate(q) ==
    /\ request[q].at = "idle"
    /\ invalidations < MaxInvalidations
    /\ invalidations' = invalidations + 1
    /\ UNCHANGED <<length, deposits, pages, marks, failures, history>>

InvalidateChain(q, c) ==
    /\ c # 0
    /\ Becomes(q, [IdleRequest EXCEPT !.at = "set", !.todo = {c}])
    /\ Invalidate(q)

InvalidateAll(q) ==
    /\ Becomes(q, [IdleRequest EXCEPT !.at = "keys"])
    /\ Invalidate(q)

\* The requests that have fetched a chain, and will store the page and clear its mark.
Filling(C) == {r \in Requests : request[r].chain \in C /\ request[r].at \in {"store", "clear"}}

(***************************************************************************)
(* A chain without an entry needs no mark: its next reader fetches.  From  *)
(* then on readers are promised (history) the transactions of now.         *)
(***************************************************************************)
Keys(q) ==
    LET found == {c \in Chains : pages[c] # Nil}
    IN  /\ request[q].at = "keys"
        /\ \/ /\ Works
              /\ Becomes(q, [request[q] EXCEPT !.at = "set", !.todo = found])
              /\ promised' = [c \in Chains |-> IF c \in found THEN promised[c] ELSE length[c]]
              /\ behind' = behind \cup Filling(Chains \ found)
           \/ Fails /\ Finish(q) /\ UNCHANGED <<promised, behind>>
        /\ UNCHANGED <<outside, pages, marks, unguarded>>

\* A mark that is set promises (history) the transactions of now.
SetMark(q, c) ==
    /\ request[q].at = "set" /\ c \in request[q].todo
    /\ \/ /\ Works
          /\ marks' = marks \cup {c}
          /\ pages' = [pages EXCEPT ![c] = IF pages[c] = Nil THEN Nil
                                           ELSE [pages[c] EXCEPT !.marked = TRUE]]
          /\ promised' = [promised EXCEPT ![c] = length[c]]
          /\ behind' = behind \cup Filling({c})
          /\ unguarded' = unguarded \ {c}
       \/ Fails /\ UNCHANGED <<marks, pages, history>>
    /\ Becomes(q, [request[q] EXCEPT !.todo = request[q].todo \ {c}])
    /\ UNCHANGED outside

MarksSet(q) ==
    /\ request[q].at = "set" /\ request[q].todo = {}
    /\ Finish(q)
    /\ UNCHANGED <<outside, pages, marks, failures, history>>

-----------------------------------------------------------------------------
(***************************************************************************)
(* The chain, and the time to live of the keys: 10 minutes for both, so    *)
(* that a mark outlives the entry it was set over.                         *)
(***************************************************************************)
ChainGrows(c, deposit) ==
    /\ length[c] < MaxTransactions
    /\ length' = [length EXCEPT ![c] = length[c] + 1]
    /\ deposits' = [deposits EXCEPT ![c] = IF deposit THEN deposits[c] \cup {length[c] + 1}
                                                      ELSE deposits[c]]
    /\ UNCHANGED <<pages, marks, request, invalidations, failures, history>>

ExpirePage(c) ==
    /\ pages[c] # Nil
    /\ pages' = [pages EXCEPT ![c] = Nil]
    /\ unguarded' = unguarded \ {c}
    /\ UNCHANGED <<outside, marks, request, failures, promised, behind>>

\* Mutant: a mark lives shorter than the entry it was set over.
ExpireMarkEarly(c) ==
    /\ c \in marks
    /\ marks' = marks \ {c}
    /\ UNCHANGED <<outside, pages, request, failures, history>>

ExpireMark(c) ==
    /\ c \in marks
    /\ pages[c] # Nil => ~pages[c].marked
    /\ marks' = marks \ {c}
    /\ UNCHANGED <<outside, pages, request, failures, history>>

-----------------------------------------------------------------------------
List(q) ==
    \/ ReadEntry(q) \/ ReadMark(q)
    \/ Fetch(q) \/ FetchThrows(q)
    \/ Store(q) \/ ClearRefreshFlag(q)

Mark(q) ==
    \/ Keys(q) \/ MarksSet(q)
    \/ \E c \in Chains : SetMark(q, c)

PagesNext ==
    \/ \E q \in Requests :
         \/ \E c \in Chains : StartList(q, c) \/ InvalidateChain(q, c)
         \/ InvalidateAll(q)
         \/ List(q) \/ Mark(q)
    \/ \E c \in Chains :
         \/ \E deposit \in BOOLEAN : ChainGrows(c, deposit)
         \/ ExpirePage(c) \/ ExpireMark(c)

PagesSpec == PagesInit /\ [][PagesNext]_pageVars

(***************************************************************************)
(* A request that has begun runs on, and a time to live comes to its end.  *)
(***************************************************************************)
FairPagesSpec ==
    /\ PagesSpec
    /\ \A q \in Requests : WF_pageVars(List(q) \/ Mark(q))
    /\ \A c \in Chains : WF_pageVars(ExpirePage(c))

-----------------------------------------------------------------------------
(***************************************************************************)
(* Properties.                                                             *)
(***************************************************************************)
\* S holds the promised deposits that an incremental fetch can still find.
Fresh(c, S) == \A i \in Newest(c, IncrementalLimit) : i <= promised[c] => i \in S

(***************************************************************************)
(* A page that misses what a mark asked for keeps the mark ("Called after  *)
(* successful transactions to ensure fresh data"), although listings,      *)
(* invalidations, expiries and lost commands overlap.  A page is without   *)
(* it in these cases only: another request that had fetched before the     *)
(* mark stored its page or removed the mark after it; a request whose      *)
(* page could not be written removed the mark all the same (both:          *)
(* unguarded, until the page is written anew, marked again or expires);    *)
(* what is missing is not among the newest transactions, which are all an  *)
(* incremental fetch asks for (Fresh); the mark itself could not be set    *)
(* (nothing is promised).                                                  *)
(***************************************************************************)
StalePageIsMarked ==
    \A c \in Chains :
        pages[c] # Nil => \/ Fresh(c, pages[c].deposits)
                          \/ c \in marks \cup unguarded

(***************************************************************************)
(* Whatever a mark missed and whatever the incremental limit cut off, when *)
(* the address has had its last transaction the cache holds all deposits   *)
(* of a full fetch, or nothing, from some time on.                         *)
(***************************************************************************)
EventuallyComplete ==
    \A c \in Chains : <>[](pages[c] = Nil \/ Newest(c, FetchLimit) \subseteq pages[c].deposits)
=============================================================================
