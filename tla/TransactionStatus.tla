------------------------- MODULE TransactionStatus -------------------------
(***************************************************************************)
(* The status of a multisig transaction as a function of the answers its   *)
(* signers have given: the pure part of TransactionService                 *)
(* (packages/api/src/modules/transaction/services.ts) and of the request   *)
(* handlers that call it.  A signature is abstracted to whether the vault's *)
(* predicate accepts it; timestamps are left out.                          *)
(***************************************************************************)
EXTENDS Naturals, FiniteSets

CONSTANTS Members,   \* the members of the vault (predicate.members)
          Required   \* SIGNATURES_COUNT of the vault's configurable

ASSUME SignersAssumption ==
    /\ IsFiniteSet(Members)
    /\ Required \in Nat \ {0}

(***************************************************************************)
(* TransactionStatus of the bakosafe package.  "NONE" stands for a row that *)
(* does not exist yet.                                                     *)
(***************************************************************************)
Statuses == {"NONE", "AWAIT_REQUIREMENTS", "PENDING_SENDER", "PROCESS_ON_CHAIN",
             "SUCCESS", "FAILED", "DECLINED", "CANCELED"}

(***************************************************************************)
(* WitnessStatus of the bakosafe package.  "LOST" stands for the answers of *)
(* a row whose resume was replaced by one that has no witnesses (close).   *)
(***************************************************************************)
WitnessStatuses == {"PENDING", "DONE", "REJECTED", "CANCELED", "LOST"}

Witness == [status : WitnessStatuses, signed : BOOLEAN]
Witnesses == [Members -> Witness]

\* The witnesses `create` gives a new row.
PendingWitnesses == [m \in Members |-> [status |-> "PENDING", signed |-> FALSE]]

\* The resume `close` stores has no witnesses left.
LostWitnesses == [m \in Members |-> [status |-> "LOST", signed |-> FALSE]]

Answered(w, s) == {m \in Members : w[m].status = s}

\* The members whose signature extractWitnesses would put in the request.
Signers(w) == {m \in Members : w[m].signed}

-----------------------------------------------------------------------------
(***************************************************************************)
(* validateStatus: the status after an answer, from the old status and the *)
(* new witnesses.  Canceled witnesses count in no total.                   *)
(***************************************************************************)
TotalSigners(w) == Cardinality(Answered(w, "DONE"))
                     + Cardinality(Answered(w, "REJECTED"))
                     + Cardinality(Answered(w, "PENDING"))

\* Mutants: the quorum test off by one; the WitnessStatus for the status.
ValidateStatusOffByOne(status, w) ==
    IF status \in {"SUCCESS", "FAILED", "PROCESS_ON_CHAIN"} THEN status
    ELSE IF Cardinality(Answered(w, "DONE")) + 1 >= Required THEN "PENDING_SENDER"
    ELSE IF TotalSigners(w) - Cardinality(Answered(w, "REJECTED")) < Required
         THEN "DECLINED"
    ELSE "AWAIT_REQUIREMENTS"

ValidateStatusOfWitness(status, w) ==
    IF status \in {"SUCCESS", "FAILED", "PROCESS_ON_CHAIN"} THEN status
    ELSE IF Cardinality(Answered(w, "DONE")) >= Required THEN "PENDING_SENDER"
    ELSE IF TotalSigners(w) - Cardinality(Answered(w, "REJECTED")) < Required
         THEN "DECLINED"
    ELSE "PENDING"

ValidateStatus(status, w) ==
    IF status \in {"SUCCESS", "FAILED", "PROCESS_ON_CHAIN"} THEN status
    ELSE IF Cardinality(Answered(w, "DONE")) >= Required THEN "PENDING_SENDER"
    ELSE IF TotalSigners(w) - Cardinality(Answered(w, "REJECTED")) < Required
         THEN "DECLINED"
    ELSE "AWAIT_REQUIREMENTS"

\* validateSignature: only a pending witness may answer.
ValidateSignature(w, m) == w[m].status = "PENDING"

\* Mutant: a second approval counts, although its signature is dropped.
AnswerApprovedTwice(w, m, answer) ==
    [w EXCEPT ![m] = [status |-> IF answer.approve THEN "DONE" ELSE "REJECTED",
                      signed |-> answer.signed /\ ValidateSignature(w, m)]]

(***************************************************************************)
(* The witnesses after signByID: an answer to a witness that is not pending *)
(* is not refused, it is recorded as a rejection and drops the signature.  *)
(***************************************************************************)
Answer(w, m, answer) ==
    LET valid == ValidateSignature(w, m)
    IN  [w EXCEPT ![m] =
           [status |-> IF answer.approve /\ valid THEN "DONE" ELSE "REJECTED",
            signed |-> answer.signed /\ valid]]

\* The witnesses after cancel: the member's own is canceled, its signature kept.
Withdraw(w, m) == [w EXCEPT ![m].status = "CANCELED"]
=============================================================================
