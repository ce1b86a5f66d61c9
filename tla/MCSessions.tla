----------------------------- MODULE MCSessions -----------------------------
(* Sessions for two tokens of a user, the first with two ends of terms.    *)
EXTENDS Sessions, TLC

CONSTANTS t1, t2

TwoTokens == {t1, t2}
TwoTerms == (t1 :> 2) @@ (t2 :> 1)
=============================================================================
