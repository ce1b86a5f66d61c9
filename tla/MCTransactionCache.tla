------------------------- MODULE MCTransactionCache -------------------------
(* TransactionCache for the Fuel mainnet, and the pages that are listed from *)
(* its deposits, of any history (TransactionPages).                          *)
EXTENDS TransactionCache, TransactionPages

Mainnet == 9889
OnlyMainnet == {Mainnet}

(***************************************************************************)
(* Nothing is skipped.  Once deposits come from the cache, and whatever    *)
(* rows and deposits come while a client walks through the history, newest *)
(* first or oldest first, and in whichever order the two sources mix, it   *)
(* is shown every transaction that was there when it began                 *)
(* (mergeTransactionLists); unless it walks from the newest one, a row     *)
(* comes, and the database records deposits that the cache holds too       *)
(* (MovesRecorded).                                                        *)
(***************************************************************************)
PagingIsComplete ==
    (\E c \in Chains : pages[c] # Nil) => HistoriesNotShown = {}

(***************************************************************************)
(* While nothing changes and no row records a deposit of the cache, every  *)
(* page of a walk is its part of the one list of all transactions, in the  *)
(* order that was asked for (mergeTransactionLists).                       *)
(***************************************************************************)
PagingIsTheList ==
    (\E c \in Chains : pages[c] # Nil) => HistoriesOutOfOrder = {}
=============================================================================
