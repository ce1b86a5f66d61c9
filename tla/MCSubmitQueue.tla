--------------------------- MODULE MCSubmitQueue ---------------------------
(* SubmitQueue for one transaction hash: a payload with enough signatures  *)
(* and one without.                                                        *)
EXTENDS SubmitQueue

CONSTANTS x, enough, short

MCPayloads == {enough, short}
MCHashOf == [d \in MCPayloads |-> x]
=============================================================================
