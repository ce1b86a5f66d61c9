---------------------------- MODULE MCBlockSync ----------------------------
(* BlockSync for one vault of the user among others.                       *)
EXTENDS BlockSync, PredicateBalances

CONSTANTS v1

OneVault == {v1}
VaultOfUser == <<v1>>

(***************************************************************************)
(* However the indexer cuts its answer into pages, and whatever coins,     *)
(* messages, change and foreign rows a transaction has, the amounts stored *)
(* for it add up to what the coins of the vault gained or lost in it, and  *)
(* a failed transaction adds nothing (makeDeposits): what a job counted    *)
(* once, it counted right.                                                 *)
(***************************************************************************)
BalancesAddUp ==
    \A p \in Predicates : (\E b \in DOMAIN counts[p] : counts[p][b] = 1) => Miscounted = {}
=============================================================================
