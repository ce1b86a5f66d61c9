-------------------------- MODULE TransactionPages --------------------------
(***************************************************************************)
(* The pages of a vault's history: mergeTransactionLists                   *)
(* (packages/api/src/modules/transaction/utils.ts) joins a page of rows of *)
(* the database with the deposits of the transaction cache, and answers    *)
(* with the offsets from which the client asks for the next page.          *)
(*                                                                         *)
(* A transaction is known by its time.  A view is what one request sees:   *)
(* the times of the rows, of those of them that record a deposit, and of   *)
(* the deposits of the cache (a recorded deposit is in both lists).        *)
(***************************************************************************)
EXTENDS Integers, FiniteSets

\* An entry of a list; its id tells the two sources apart (isUUID).
Items(times, origin) == {[at |-> t, origin |-> origin] : t \in times}

\* Mutant: the order the client asked for is ignored.
PrecedesNewestFirst(a, b, sort) ==
    a.at > b.at \/ (a.at = b.at /\ a.origin = "DB" /\ b.origin = "FUEL")

\* sortTransactions: by time, in the order that is asked for; rows stay before deposits.
Precedes(a, b, sort) ==
    \/ IF sort = "DESC" THEN a.at > b.at ELSE a.at < b.at
    \/ a.at = b.at /\ a.origin = "DB" /\ b.origin = "FUEL"

\* The place of an item in the sorted list, from 0.
Rank(list, item, sort) == Cardinality({other \in list : Precedes(other, item, sort)})

\* n items of the sorted list, from an offset.
Slice(list, from, n, sort) == {item \in list : Rank(list, item, sort) \in from..(from + n - 1)}

\* TransactionPagination.paginate: skip and take.
Paginate(rows, offsetDb, perPage, sort) == Slice(Items(rows, "DB"), offsetDb, perPage, sort)

\* A deposit of the cache is left out if the page of rows records it.
FilterRecorded(fuel, page, recorded) ==
    {t \in fuel : ~\E row \in page : row.at = t /\ t \in recorded}

CountPerOrigin(list, origin) == Cardinality({item \in list : item.origin = origin})

\* Mutant: the offsets move on by what was fetched, not by what was listed.
NextOffsetOfFetched(offset, page, list, origin) == offset + Cardinality(page)

NextOffset(offset, page, list, origin) == offset + CountPerOrigin(list, origin)

MergeTransactionLists(view, offsets, perPage, sort) ==
    LET page == Paginate(view.rows, offsets.db, perPage, sort)
        unrecorded == FilterRecorded(view.fuel, page, view.recorded)
        fuel == Slice(Items(unrecorded, "FUEL"), offsets.fuel, perPage, sort)
        list == Slice(page \cup fuel, 0, perPage, sort)
    IN  [data |-> list,
         offsets |-> [db |-> NextOffset(offsets.db, page, list, "DB"),
                      fuel |-> NextOffset(offsets.fuel, fuel, list, "FUEL")]]

-----------------------------------------------------------------------------
(***************************************************************************)
(* A client that asks for n pages, one after the other: the k-th request   *)
(* sees views[k].  page is the last answer, shown the times of all so far. *)
(***************************************************************************)
Beginning == [page |-> {}, shown |-> {}, offsets |-> [db |-> 0, fuel |-> 0]]

NextPage(before, view, perPage, sort) ==
    LET answer == MergeTransactionLists(view, before.offsets, perPage, sort)
    IN  [page |-> answer.data,
         shown |-> before.shown \cup {item.at : item \in answer.data},
         offsets |-> answer.offsets]

Walk(views, perPage, sort, n) ==
    LET walk[k \in 0..n] ==
          IF k = 0 THEN Beginning ELSE NextPage(walk[k - 1], views[k], perPage, sort)
    IN  walk

View(kinds) ==
    [rows |-> {t \in DOMAIN kinds : kinds[t] \in {"row", "recorded"}},
     recorded |-> {t \in DOMAIN kinds : kinds[t] = "recorded"},
     fuel |-> {t \in DOMAIN kinds : kinds[t] \in {"deposit", "recorded"}}]

Sorts == {"ASC", "DESC"}

CONSTANTS MaxTime,   \* bound: the transactions of the history
          MaxPages   \* bound: the pages a client asks for

\* A client asks until it has seen both lists.
ASSUME PagesAssumption == MaxTime \in Nat /\ MaxPages \in Nat /\ MaxPages >= 2 * MaxTime

Times == 1..MaxTime

Histories == [Times -> {"row", "deposit", "recorded"}]

\* The history as it is when n of its transactions have come.
Come(h, n) == View([t \in 1..n |-> h[t]])

\* What a client sees while transactions come before its second and its third request.
Views(h, first, second) ==
    [k \in 1..MaxPages |-> Come(h, IF k = 1 THEN first ELSE IF k = 2 THEN second ELSE MaxTime)]

(***************************************************************************)
(* A new row that comes first moves all rows by one place, and the row of  *)
(* a recorded deposit with them, back into the page that leaves it out.    *)
(***************************************************************************)
MovesRecorded(h, first, sort) ==
    /\ sort = "DESC"
    /\ \E t \in Times : h[t] = "recorded"
    /\ \E t \in (first + 1)..MaxTime : h[t] # "deposit"

\* The walks of a client that begin when the first transactions of a history are there.
WalkShowsAll(h, first) ==
    \A perPage \in 1..2, sort \in Sorts, second \in first..MaxTime :
      ~MovesRecorded(h, first, sort) =>
        1..first \subseteq Walk(Views(h, first, second), perPage, sort, MaxPages)[MaxPages].shown

\* The histories a client is not shown all of.
HistoriesNotShown == {h \in Histories : \E first \in 0..MaxTime : ~WalkShowsAll(h, first)}

\* The place of a transaction when there is one for each time.
Place(t, sort) == IF sort = "DESC" THEN MaxTime - t ELSE t - 1

\* The walk while nothing changes: every page is its part of the one list.
WalkIsTheList(h) ==
    \A perPage \in 1..MaxTime, sort \in Sorts :
      LET walk == Walk([k \in 1..MaxPages |-> View(h)], perPage, sort, MaxPages)
      IN  \A k \in 1..MaxPages :
            {item.at : item \in walk[k].page} =
              {t \in Times : Place(t, sort) \in ((k - 1) * perPage)..(k * perPage - 1)}

HistoriesOutOfOrder == {h \in [Times -> {"row", "deposit"}] : ~WalkIsTheList(h)}
=============================================================================
