----------------------- MODULE TransactionLifecycle ------------------------
(***************************************************************************)
(* What the service promises about a transaction, without its mechanism:   *)
(* no witnesses, no queue, no requests in flight.  A hash has at most one  *)
(* live row, only a row whose quorum is complete is submitted, a row ends  *)
(* as the chain decided, and an ended row never changes again.             *)
(* TransactionSystem is shown to implement it when the API handles its     *)
(* requests one after the other (see README.md for what breaks otherwise). *)
(***************************************************************************)
CONSTANTS Rows,      \* the rows of the transactions table
          Hashes,    \* the transaction hashes
          RowHash    \* the hash of each row

VARIABLES status,    \* the status of each row, "DELETED" when soft-deleted
          settled    \* how the chain settled each hash, if it did

lifecycleVars == <<status, settled>>

Live == {"AWAIT_REQUIREMENTS", "PENDING_SENDER", "SUCCESS"}

LifecycleInit ==
    /\ status = [r \in Rows |-> "NONE"]
    /\ settled = [x \in Hashes |-> "no"]

Move(r, from, to) ==
    /\ status[r] = from
    /\ status' = [status EXCEPT ![r] = to]
    /\ UNCHANGED settled

Create(r) ==
    /\ \A q \in Rows : RowHash[q] = RowHash[r] => status[q] \notin Live
    /\ Move(r, "NONE", "AWAIT_REQUIREMENTS")

Approve(r) == Move(r, "AWAIT_REQUIREMENTS", "PENDING_SENDER")
Decline(r) == Move(r, "AWAIT_REQUIREMENTS", "DECLINED")
Cancel(r) == Move(r, "AWAIT_REQUIREMENTS", "CANCELED")
Delete(r) == Move(r, "AWAIT_REQUIREMENTS", "DELETED")

\* Only an approved transaction reaches the chain, and only once.
Settle(x) ==
    /\ settled[x] = "no"
    /\ \E r \in Rows : RowHash[r] = x /\ status[r] = "PENDING_SENDER"
    /\ \E result \in {"included", "reverted"} :
         settled' = [settled EXCEPT ![x] = result]
    /\ UNCHANGED status

Confirm(r) ==
    /\ settled[RowHash[r]] = "included"
    /\ Move(r, "PENDING_SENDER", "SUCCESS")

Fail(r) ==
    /\ settled[RowHash[r]] # "included"
    /\ Move(r, "PENDING_SENDER", "FAILED")

LifecycleNext ==
    \/ \E r \in Rows : \/ Create(r) \/ Approve(r) \/ Decline(r)
                       \/ Cancel(r) \/ Delete(r) \/ Confirm(r) \/ Fail(r)
    \/ \E x \in Hashes : Settle(x)

LifecycleSpec == LifecycleInit /\ [][LifecycleNext]_lifecycleVars
=============================================================================
