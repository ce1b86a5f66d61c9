------------------------ MODULE MCTransactionSystem ------------------------
(* TransactionSystem for the transactions of one hash.                     *)
EXTENDS TransactionSystem, TLC

CONSTANTS x

MCRowHash == [r \in Rows |-> x]
MCPayloads == [row : Rows, signers : SUBSET Members]
MCHashOf == [d \in MCPayloads |-> x]
MCSufficient == {d \in MCPayloads : Cardinality(d.signers) >= Required}

\* The bodies of sign requests: signed approval, refusal, approval without a
\* signature (the body is not validated), refusal that carries a signature.
Approval == [approve |-> TRUE, signed |-> TRUE]
Refusal == [approve |-> FALSE, signed |-> FALSE]
BareApproval == [approve |-> TRUE, signed |-> FALSE]
SignedRefusal == [approve |-> FALSE, signed |-> TRUE]

PlainAnswers == {Approval, Refusal}
AnyAnswers == {Approval, Refusal, BareApproval, SignedRefusal}

MemberSymmetry == Permutations(Members)
HandlerSymmetry == Permutations(Handlers)
BothSymmetries == MemberSymmetry \cup HandlerSymmetry
=============================================================================
