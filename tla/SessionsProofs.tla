--------------------------- MODULE SessionsProofs ---------------------------
(***************************************************************************)
(* Proofs about Sessions, for any tokens, requests at the same time, terms *)
(* and failures.                                                           *)
(***************************************************************************)
EXTENDS Sessions, TLAPS

Request == [at : Steps, op : Operations, token : Tokens \cup {Nil}, copy : Nat]

\* Where a sign-in is before its token has a row.
SigningIn == {"revoke", "insert"}

(***************************************************************************)
(* A request is about a token: one that was given a term, unless a sign-in *)
(* is about to give it one.  A change of network saves a term that the     *)
(* token was given.                                                        *)
(***************************************************************************)
Knows(r) ==
    /\ r.at = "idle" => r.token = Nil
    /\ r.at # "idle" => r.token \in Tokens
    /\ r.at # "idle" /\ r.at \notin SigningIn => issued[r.token] > 0
    /\ r.at = "networkSave" => r.copy \in 1..issued[r.token]

RequestsKnow == \A q \in Requests : Knows(request[q])

\* The inductive invariant behind type correctness.
KnownInv == SessionsTypeOK /\ RequestsKnow

\* The cache's part of the type invariant.
CacheOK ==
    /\ session \in [Tokens -> Nat] /\ early \in [Tokens -> BOOLEAN]
    /\ unsettled \subseteq Tokens /\ failures \in Nat

\* The row's part of it, and what the rest of the state adds.
RowOK ==
    /\ row \in [token : Tokens \cup {Nil}, term : Nat]
    /\ row = NoRow \/ (row.token \in Tokens /\ row.term \in 1..issued[row.token])

RestOK ==
    /\ old \in [Tokens -> Nat] /\ past \in [Tokens -> Nat]
    /\ cleaner \in [at : {"wait", "delete", "drop"}, found : SUBSET Tokens]
    /\ closed \subseteq removed /\ removed \subseteq Tokens /\ arrivals \in Nat

\* Nothing of request p but that of q changes, and that becomes new.
Becomes(q, new) ==
    /\ request' \in [Requests -> Request] /\ request'[q] = new
    /\ \A p \in Requests : p # q => request'[p] = request[p]

-----------------------------------------------------------------------------
(***************************************************************************)
(* What the helpers do to the requests and to the cache.                   *)
(***************************************************************************)
LEMMA BoundsType ==
    /\ MaxTerms \in [Tokens -> Nat \ {0}] /\ MaxArrivals \in Nat
    /\ MaxFailures \in Nat /\ Nil \notin Tokens
BY SessionAssumption

\* The type invariant, part by part.
LEMMA TypeParts ==
    SessionsTypeOK <=>
        /\ RowOK /\ CacheOK /\ RestOK
        /\ issued \in [Tokens -> Nat] /\ request \in [Requests -> Request]
BY DEF SessionsTypeOK, CacheOK, RowOK, RestOK, Request

\* The records a request becomes.
LEMMA BecomesType ==
    ASSUME SessionsTypeOK, NEW q \in Requests, NEW new \in Request,
           request' = [request EXCEPT ![q] = new]
    PROVE  Becomes(q, new)
BY DEF SessionsTypeOK, Request, Becomes

\* A request that takes a step of its handler keeps its token, its operation and its copy.
LEMMA GotoType ==
    ASSUME SessionsTypeOK, NEW q \in Requests, NEW step \in Steps, Goto(q, step)
    PROVE  \E new \in Request : /\ Becomes(q, new)
                               /\ new.at = step /\ new.token = request[q].token
                               /\ new.op = request[q].op /\ new.copy = request[q].copy
<1> DEFINE new == [request[q] EXCEPT !.at = step]
<1>1. /\ new \in Request
      /\ new.at = step /\ new.token = request[q].token
      /\ new.op = request[q].op /\ new.copy = request[q].copy
    BY DEF SessionsTypeOK, Request
<1>2. request' = [request EXCEPT ![q] = new]
    BY DEF Goto, SessionsTypeOK
<1> HIDE DEF new
<1>3. Becomes(q, new)
    BY <1>1, <1>2, BecomesType
<1> QED
    BY <1>1, <1>3

\* A request that takes a copy of the row keeps its token and its operation.
LEMMA TakeType ==
    ASSUME SessionsTypeOK, NEW q \in Requests, NEW step \in Steps, NEW term \in Nat,
           Take(q, step, term)
    PROVE  \E new \in Request : /\ Becomes(q, new)
                               /\ new.at = step /\ new.token = request[q].token
                               /\ new.op = request[q].op /\ new.copy = term
<1> DEFINE new == [request[q] EXCEPT !.at = step, !.copy = term]
<1>1. /\ new \in Request
      /\ new.at = step /\ new.token = request[q].token
      /\ new.op = request[q].op /\ new.copy = term
    BY DEF SessionsTypeOK, Request
<1>2. request' = [request EXCEPT ![q] = new]
    BY DEF Take, SessionsTypeOK
<1> HIDE DEF new
<1>3. Becomes(q, new)
    BY <1>1, <1>2, BecomesType
<1> QED
    BY <1>1, <1>3

\* A request that has ended.
LEMMA IdleType ==
    Idle \in Request /\ Idle.at = "idle" /\ Idle.token = Nil /\ Idle.copy = 0
BY DEF Idle, Request, Steps, Operations

\* Ending a request is a move of that request alone.
LEMMA DoneType ==
    ASSUME SessionsTypeOK, NEW q \in Requests, Done(q)
    PROVE  Becomes(q, Idle)
BY IdleType, BecomesType DEF Done

\* The commands of the cache keep its types and reach one token only.
LEMMA StoreType ==
    ASSUME SessionsTypeOK, NEW q \in Requests, NEW t \in Tokens, NEW term \in Nat,
           Store(q, t, term)
    PROVE  CacheOK' /\ \A u \in Tokens : u # t => session'[u] = session[u]
<1>1. CASE Stored(q, t, term)
    <2>1. session' \in [Tokens -> Nat] /\ \A u \in Tokens : u # t => session'[u] = session[u]
        BY <1>1 DEF Stored, SessionsTypeOK
    <2>2. (term > old[t]) \in BOOLEAN
        BY DEF SessionsTypeOK
    <2>3. early' \in [Tokens -> BOOLEAN]
        BY <1>1, <2>2 DEF Stored, SessionsTypeOK
    <2>4. unsettled' \subseteq Tokens /\ failures' \in Nat
        BY <1>1 DEF Stored, SessionsTypeOK
    <2> QED
        BY <2>1, <2>3, <2>4 DEF CacheOK
<1>2. CASE CommandLost({t})
    BY <1>2 DEF CommandLost, Fail, cache, SessionsTypeOK, CacheOK
<1> QED
    BY <1>1, <1>2 DEF Store

\* Only the look-up of a token that was not found stores a copy, and only its own.
LEMMA PutBackType ==
    ASSUME SessionsTypeOK, NEW q \in Requests, request[q].token \in Tokens, PutBack(q)
    PROVE  /\ CacheOK'
           /\ request[q].at # "found" => UNCHANGED session
           /\ \A u \in Tokens : u # request[q].token => session'[u] = session[u]
<1>1. CASE request[q].at = "found"
    <2>1. request[q].copy \in Nat
        BY DEF SessionsTypeOK
    <2>2. Store(q, request[q].token, request[q].copy)
        BY <1>1 DEF PutBack, Is
    <2> QED
        BY <1>1, <2>1, <2>2, StoreType
<1>2. CASE request[q].at # "found"
    BY <1>2 DEF PutBack, Is, cache, SessionsTypeOK, CacheOK
<1> QED
    BY <1>1, <1>2

\* A restart or a lost command removes copies and stores none.
LEMMA DroppedType ==
    ASSUME SessionsTypeOK, NEW S \in SUBSET Tokens, Dropped(S) \/ CommandLost(S)
    PROVE  CacheOK' /\ \A u \in Tokens : session'[u] \in {0, session[u]}
<1>1. CASE Dropped(S)
    BY <1>1 DEF Dropped, SessionsTypeOK, CacheOK
<1>2. CASE CommandLost(S)
    BY <1>2 DEF CommandLost, Fail, cache, SessionsTypeOK, CacheOK
<1> QED
    BY <1>1, <1>2

\* A live term is the one of the row.
LEMMA LiveTermType ==
    ASSUME SessionsTypeOK, NEW t \in Tokens
    PROVE  LiveTerm(t) \in Nat /\ (LiveTerm(t) # 0 => row.token = t)
BY DEF LiveTerm, SessionsTypeOK

-----------------------------------------------------------------------------
(***************************************************************************)
(* Type correctness.                                                       *)
(***************************************************************************)
\* No term is taken back, ...
Renewed == \A t \in Tokens : issued'[t] >= issued[t]

\* ... and a request signs in, goes on with a token that was given one, or is over.
GoesOn(new) ==
    \/ new.at = "idle" /\ new.token = Nil
    \/ /\ new.at # "idle" /\ new.token \in Tokens
       /\ new.at \notin SigningIn => issued'[new.token] > 0
       /\ new.at = "networkSave" => new.copy \in 1..issued'[new.token]

\* A step of this kind keeps the invariant.
LEMMA StepKnown ==
    ASSUME KnownInv, NEW q \in Requests, NEW new \in Request, Becomes(q, new), GoesOn(new),
           RowOK', CacheOK', RestOK', issued' \in [Tokens -> Nat], Renewed
    PROVE  KnownInv'
<1>1. SessionsTypeOK'
    BY DEF Becomes, SessionsTypeOK, CacheOK, RowOK, RestOK, Request
<1>2. issued \in [Tokens -> Nat]
    BY DEF KnownInv, SessionsTypeOK
<1>3. ASSUME NEW p \in Requests
      PROVE  Knows(request[p])'
    <2>1. CASE p = q
        <3>1. request'[p] = new
            BY <2>1 DEF Becomes
        <3> QED
            BY <3>1 DEF GoesOn, Knows, SigningIn
    <2>2. CASE p # q
        <3>1. request'[p] = request[p] /\ Knows(request[p])
            BY <2>2 DEF Becomes, KnownInv, RequestsKnow
        <3>2. request[p].at # "idle" => request[p].token \in Tokens
            BY <3>1 DEF Knows
        <3>3. request[p].copy \in Nat
            BY DEF KnownInv, SessionsTypeOK
        <3>4. request[p].at # "idle" => /\ issued[request[p].token] \in Nat
                                        /\ issued'[request[p].token] \in Nat
                                        /\ issued'[request[p].token] >= issued[request[p].token]
            BY <1>2, <3>2 DEF Renewed
        <3> QED
            BY <3>1, <3>2, <3>3, <3>4 DEF Knows
    <2> QED
        BY <2>1, <2>2
<1> QED
    BY <1>1, <1>3 DEF KnownInv, RequestsKnow

\* Most steps leave the row as it is, or delete it, and give no term.
LEMMA RowKept ==
    ASSUME KnownInv, UNCHANGED issued, row' \in {row, NoRow}
    PROVE  RowOK' /\ issued' \in [Tokens -> Nat] /\ Renewed
<1>1. NoRow \in [token : Tokens \cup {Nil}, term : Nat]
    BY DEF NoRow
<1> QED
    BY <1>1 DEF KnownInv, SessionsTypeOK, RowOK, Renewed

\* A renewal or a sign-in gives the row a term of its token.
LEMMA GrantType ==
    ASSUME SessionsTypeOK, NEW t \in Tokens, Grant(t)
    PROVE  /\ RowOK' /\ issued' \in [Tokens -> Nat] /\ Renewed
           /\ issued'[t] > 0 /\ row'.token = t
<1>1. /\ old[t] \in Nat /\ MaxTerms[t] \in Nat /\ issued \in [Tokens -> Nat]
    BY BoundsType DEF SessionsTypeOK
<1>2. PICK term \in (old[t] + 1)..MaxTerms[t] :
         /\ row' = [token |-> t, term |-> term]
         /\ issued' = [issued EXCEPT ![t] = IF term > issued[t] THEN term ELSE issued[t]]
    BY DEF Grant
<1>3. term \in Nat /\ term > 0
    BY <1>1
<1>4. /\ issued'[t] \in Nat /\ issued'[t] >= term /\ issued'[t] >= issued[t]
      /\ \A u \in Tokens : u # t => issued'[u] = issued[u]
    BY <1>1, <1>2, <1>3
<1>5. issued' \in [Tokens -> Nat]
    BY <1>1, <1>2, <1>3
<1>6. Renewed
    BY <1>1, <1>4 DEF Renewed
<1>7. RowOK'
    BY <1>2, <1>3, <1>4 DEF RowOK
<1> QED
    BY <1>2, <1>3, <1>4, <1>5, <1>6, <1>7

\* A request that has begun, and is not signing in, has a token with a term.
LEMMA HasToken ==
    ASSUME KnownInv, NEW q \in Requests, request[q].at # "idle"
    PROVE  /\ request[q].token \in Tokens
           /\ request[q].at \notin SigningIn => issued[request[q].token] > 0
           /\ request[q].copy \in Nat
BY DEF KnownInv, RequestsKnow, Knows, SessionsTypeOK

\* The steps of a request that is not signing in: it goes on or is over.
LEMMA GotoKnown ==
    ASSUME KnownInv, NEW q \in Requests, request[q].at # "idle", request[q].at \notin SigningIn,
           NEW step \in Steps \ {"idle", "revoke", "insert", "networkSave"},
           Goto(q, step) \/ (\E term \in Nat : Take(q, step, term)),
           UNCHANGED issued, row' \in {row, NoRow}, CacheOK', RestOK'
    PROVE  KnownInv'
<1>1. SessionsTypeOK /\ step \in Steps
    BY DEF KnownInv
<1>2. PICK new \in Request : /\ Becomes(q, new) /\ new.at = step
                             /\ new.token = request[q].token
    <2>1. CASE Goto(q, step)
        BY <1>1, <2>1, GotoType
    <2>2. ASSUME NEW term \in Nat, Take(q, step, term)
          PROVE  \E new \in Request : /\ Becomes(q, new) /\ new.at = step
                                      /\ new.token = request[q].token
        BY <1>1, <2>2, TakeType
    <2> QED
        BY <2>1, <2>2
<1>3. GoesOn(new)
    BY <1>2, HasToken DEF GoesOn, SigningIn
<1>4. RowOK' /\ issued' \in [Tokens -> Nat] /\ Renewed
    BY RowKept
<1> QED
    BY <1>2, <1>3, <1>4, StepKnown

\* The end of a request keeps what is known.
LEMMA DoneKnown ==
    ASSUME KnownInv, NEW q \in Requests, Done(q),
           UNCHANGED issued, row' \in {row, NoRow}, CacheOK', RestOK'
    PROVE  KnownInv'
<1>1. Becomes(q, Idle) /\ Idle \in Request
    BY DoneType, IdleType DEF KnownInv
<1>2. GoesOn(Idle)
    BY IdleType DEF GoesOn
<1> QED
    BY <1>1, <1>2, RowKept, StepKnown

\* What most steps leave alone.
LEMMA RestKept ==
    ASSUME KnownInv, UNCHANGED <<world, cleaner, history>>
    PROVE  RestOK'
BY DEF KnownInv, SessionsTypeOK, RestOK, world, history

\* What leaves the copies alone keeps their types, though a command failed.
LEMMA CacheKept ==
    ASSUME KnownInv, UNCHANGED cache, UNCHANGED failures \/ Fail,
           \E S \in SUBSET Tokens : unsettled' = unsettled \cup S
    PROVE  CacheOK'
BY DEF KnownInv, SessionsTypeOK, CacheOK, cache, Fail

\* What leaves the copies alone keeps their types.
LEMMA CacheAsItIs ==
    ASSUME KnownInv, UNCHANGED <<cache, unsettled, failures>>
    PROVE  CacheOK'
BY DEF KnownInv, SessionsTypeOK, CacheOK, cache

\* Authentication.
LEMMA AuthenticationKnown ==
    ASSUME KnownInv, NEW q \in Requests,
           \/ GetSession(q) \/ FindOnDatabase(q)
           \/ Refuse(q) \/ Accept(q) \/ AcceptAndRenew(q)
    PROVE  KnownInv'
<1> USE DEF SigningIn
<1>t. SessionsTypeOK
    BY DEF KnownInv
<1>s. /\ "hit" \in Steps \ {"idle", "revoke", "insert", "networkSave"}
      /\ "find" \in Steps \ {"idle", "revoke", "insert", "networkSave"}
      /\ "found" \in Steps \ {"idle", "revoke", "insert", "networkSave"}
      /\ "handler" \in Steps \ {"idle", "revoke", "insert", "networkSave"}
      /\ "renewSave" \in Steps \ {"idle", "revoke", "insert", "networkSave"}
    BY DEF Steps
<1>1. CASE GetSession(q)
    <2>1. request[q].at = "get" /\ UNCHANGED issued /\ row' = row /\ RestOK'
        BY <1>1, RestKept DEF GetSession, Is, rows
    <2>2. CacheOK'
        <3>1. UNCHANGED cache /\ unsettled' = unsettled /\ (UNCHANGED failures \/ Fail)
            BY <1>1 DEF GetSession
        <3>2. unsettled' = unsettled \cup {}
            BY <3>1
        <3> QED
            BY <3>1, <3>2, CacheKept
    <2>3. session[request[q].token] \in Nat
        BY <2>1, HasToken DEF KnownInv, SessionsTypeOK
    <2>4. Goto(q, "find") \/ Take(q, "hit", session[request[q].token])
        BY <1>1 DEF GetSession
    <2> QED
        BY <1>s, <2>1, <2>2, <2>3, <2>4, GotoKnown
<1>2. CASE FindOnDatabase(q)
    <2>1. request[q].at = "find" /\ UNCHANGED issued /\ row' = row /\ RestOK' /\ CacheOK'
        BY <1>2, RestKept, CacheAsItIs DEF FindOnDatabase, Is, rows, notes
    <2>2. LiveTerm(request[q].token) \in Nat
        BY <1>t, <2>1, HasToken, LiveTermType
    <2>3. \/ Take(q, "hit", LiveTerm(request[q].token))
          \/ Take(q, "found", LiveTerm(request[q].token))
        BY <1>2 DEF FindOnDatabase
    <2> QED
        BY <1>s, <2>1, <2>2, <2>3, GotoKnown
<1>3. ASSUME Refuse(q) \/ Accept(q) \/ AcceptAndRenew(q)
      PROVE  KnownInv'
    <2>1. /\ request[q].at \in {"hit", "found"} /\ PutBack(q)
          /\ UNCHANGED issued /\ row' = row /\ RestOK'
        BY <1>3, RestKept DEF Refuse, Accept, AcceptAndRenew, HasSession, rows
    <2>2. CacheOK'
        BY <1>t, <2>1, HasToken, PutBackType
    <2>3. Done(q) \/ Take(q, "handler", 0) \/ Take(q, "renewSave", 0)
        BY <1>3 DEF Refuse, Accept, AcceptAndRenew
    <2> QED
        BY <1>s, <2>1, <2>2, <2>3, GotoKnown, DoneKnown
<1> QED
    BY <1>1, <1>2, <1>3

\* Renewal.
LEMMA RenewKnown ==
    ASSUME KnownInv, NEW q \in Requests, Renew(q)
    PROVE  KnownInv'
<1> USE DEF SigningIn
<1>t. SessionsTypeOK
    BY DEF KnownInv
<1>s. /\ "handler" \in Steps \ {"idle", "revoke", "insert", "networkSave"}
      /\ "renewRead" \in Steps \ {"idle", "revoke", "insert", "networkSave"}
      /\ "renewAdd" \in Steps \ {"idle", "revoke", "insert", "networkSave"}
    BY DEF Steps
<1>1. CASE RenewSave(q)
    <2> DEFINE t == request[q].token
    <2>1. request[q].at = "renewSave" /\ RestOK' /\ CacheOK'
        BY <1>1, RestKept, CacheAsItIs DEF RenewSave, Is, notes
    <2>2. t \in Tokens /\ issued[t] > 0
        BY <2>1, HasToken
    <2>3. PICK new \in Request : /\ Becomes(q, new)
                                 /\ new.at = "renewRead" /\ new.token = t
        BY <1>1, <1>s, <1>t, GotoType DEF RenewSave
    <2>4. RowOK' /\ issued' \in [Tokens -> Nat] /\ Renewed
        BY <1>1, <1>t, <2>2, GrantType, RowKept DEF RenewSave, rows
    <2>5. issued[t] \in Nat /\ issued'[t] \in Nat /\ issued'[t] >= issued[t]
        BY <1>t, <2>2, <2>4 DEF SessionsTypeOK, Renewed
    <2>6. GoesOn(new)
        BY <2>2, <2>3, <2>5 DEF GoesOn
    <2> QED
        BY <2>1, <2>3, <2>4, <2>6, StepKnown
<1>2. CASE RenewFails(q)
    <2>1. /\ request[q].at \in {"renewSave", "renewRead"} /\ Goto(q, "handler")
          /\ UNCHANGED issued /\ row' = row /\ RestOK'
        BY <1>2, RestKept DEF RenewFails, rows
    <2>2. CacheOK'
        <3>1. {request[q].token} \in SUBSET Tokens
            BY <2>1, HasToken
        <3> QED
            BY <1>2, <3>1, CacheKept DEF RenewFails
    <2> QED
        BY <1>s, <2>1, <2>2, GotoKnown
<1>3. CASE RenewRead(q)
    <2>1. request[q].at = "renewRead" /\ UNCHANGED issued /\ row' = row /\ RestOK' /\ CacheOK'
        BY <1>3, RestKept, CacheAsItIs DEF RenewRead, Is, rows, notes
    <2>2. LiveTerm(request[q].token) \in Nat
        BY <1>t, <2>1, HasToken, LiveTermType
    <2>3. \/ Take(q, "handler", LiveTerm(request[q].token))
          \/ Take(q, "renewAdd", LiveTerm(request[q].token))
        BY <1>3 DEF RenewRead
    <2> QED
        BY <1>s, <2>1, <2>2, <2>3, GotoKnown
<1>4. CASE RenewAdd(q)
    <2>1. /\ request[q].at = "renewAdd" /\ UNCHANGED issued /\ row' = row /\ RestOK'
          /\ Store(q, request[q].token, request[q].copy)
          /\ Take(q, "handler", 0)
        BY <1>4, RestKept DEF RenewAdd, Is, rows
    <2>2. CacheOK'
        BY <1>t, <2>1, HasToken, StoreType
    <2> QED
        BY <1>s, <2>1, <2>2, GotoKnown
<1> QED
    BY <1>1, <1>2, <1>3, <1>4 DEF Renew

\* The handlers of an accepted request.
LEMMA HandleKnown ==
    ASSUME KnownInv, NEW q \in Requests, Handle(q)
    PROVE  KnownInv'
<1> USE DEF SigningIn
<1>t. SessionsTypeOK
    BY DEF KnownInv
<1>s. /\ "get" \in Steps \ {"idle", "revoke", "insert", "networkSave"}
      /\ "reload" \in Steps \ {"idle", "revoke", "insert", "networkSave"}
      /\ "reloaded" \in Steps \ {"idle", "revoke", "insert", "networkSave"}
      /\ "removeRow" \in Steps \ {"idle", "revoke", "insert", "networkSave"}
      /\ "networkSave" \in Steps /\ {"update", "settings"} \subseteq Operations
    BY DEF Steps, Operations
<1>1. CASE Answer(q)
    BY <1>1, DoneKnown, RestKept, CacheAsItIs DEF Answer, rows, notes
<1>2. ASSUME NEW op \in {"update", "settings"}, UseSession(q, op)
      PROVE  KnownInv'
    <2>1. /\ request[q].at = "handler" /\ UNCHANGED issued /\ row' = row
          /\ RestOK' /\ CacheOK'
        BY <1>2, RestKept, CacheAsItIs DEF UseSession, Is, rows, notes
    <2> DEFINE new == [request[q] EXCEPT !.at = "get", !.op = op]
    <2>2. new \in Request /\ new.at = "get" /\ new.token = request[q].token
        BY <1>t, <1>s DEF SessionsTypeOK, Request
    <2>3. request' = [request EXCEPT ![q] = new]
        BY <1>2, <1>t DEF UseSession, SessionsTypeOK
    <2> HIDE DEF new
    <2>4. Becomes(q, new) /\ GoesOn(new)
        BY <1>t, <2>1, <2>2, <2>3, BecomesType, HasToken DEF GoesOn
    <2>5. RowOK' /\ issued' \in [Tokens -> Nat] /\ Renewed
        BY <2>1, RowKept
    <2> QED
        BY <2>1, <2>2, <2>4, <2>5, StepKnown
<1>3. CASE PutSettings(q)
    <2>1. /\ request[q].at \in {"hit", "found"} /\ Done(q)
          /\ UNCHANGED issued /\ row' = row /\ RestOK'
        BY <1>3, RestKept DEF PutSettings, HasSession, rows
    <2>2. CacheOK'
        BY <1>3, <1>t, <2>1, HasToken, StoreType, CacheAsItIs DEF PutSettings
    <2> QED
        BY <2>1, <2>2, DoneKnown
<1>4. CASE NetworkFind(q)
    <2>1. /\ request[q].at = "handler" /\ UNCHANGED issued /\ row' = row /\ row # NoRow
          /\ RestOK' /\ CacheOK'
        BY <1>4, RestKept, CacheAsItIs DEF NetworkFind, Is, rows, notes
    <2> DEFINE new == [request[q] EXCEPT !.at = "networkSave", !.token = row.token,
                                         !.copy = row.term]
    <2>2. /\ new \in Request /\ new.at = "networkSave" /\ new.token = row.token
          /\ new.copy = row.term
        BY <1>t, <1>s DEF SessionsTypeOK, Request
    <2>3. request' = [request EXCEPT ![q] = new]
        BY <1>4, <1>t DEF NetworkFind, SessionsTypeOK
    <2> HIDE DEF new
    <2>4. /\ row.token \in Tokens /\ row.term \in 1..issued[row.token]
          /\ issued[row.token] \in Nat
        BY <1>t, <2>1 DEF SessionsTypeOK
    <2>5. Becomes(q, new)
        BY <1>t, <2>2, <2>3, BecomesType
    <2>6. GoesOn(new)
        BY <2>1, <2>2, <2>4 DEF GoesOn
    <2>7. RowOK' /\ issued' \in [Tokens -> Nat] /\ Renewed
        BY <2>1, RowKept
    <2> QED
        BY <2>1, <2>2, <2>5, <2>6, <2>7, StepKnown
<1>5. CASE NetworkSave(q)
    <2> DEFINE t == request[q].token
    <2>1. request[q].at = "networkSave" /\ UNCHANGED issued /\ RestOK' /\ CacheOK'
        BY <1>5, RestKept, CacheAsItIs DEF NetworkSave, Is, notes
    <2>2. t \in Tokens /\ issued[t] > 0 /\ request[q].copy \in 1..issued[t]
        BY <2>1, HasToken DEF KnownInv, RequestsKnow, Knows
    <2>3. RowOK' /\ issued' \in [Tokens -> Nat] /\ Renewed
        <3>1. issued \in [Tokens -> Nat]
            BY <1>t DEF SessionsTypeOK
        <3>2. CASE row.token = t
            <4>1. row' = [token |-> t, term |-> request[q].copy]
                BY <1>5, <3>2 DEF NetworkSave
            <4> QED
                BY <2>1, <2>2, <3>1, <4>1 DEF RowOK, Renewed
        <3>3. CASE row.token # t
            <4>1. row' = row
                BY <1>5, <3>3 DEF NetworkSave
            <4> QED
                BY <2>1, <4>1, RowKept
        <3> QED
            BY <3>2, <3>3
    <2>4. \E new \in Request : Becomes(q, new) /\ GoesOn(new)
        <3>1. CASE Done(q)
            BY <1>t, <3>1, DoneType, IdleType DEF GoesOn
        <3>2. CASE request' = [request EXCEPT ![q].at = "get", ![q].op = "update", ![q].copy = 0]
            <4> DEFINE new == [request[q] EXCEPT !.at = "get", !.op = "update", !.copy = 0]
            <4>1. new \in Request /\ new.at = "get" /\ new.token = t
                <5>1. request[q] \in Request
                    BY <1>t DEF SessionsTypeOK, Request
                <5> QED
                    BY <5>1 DEF Request, Steps, Operations
            <4>2. request' = [request EXCEPT ![q] = new]
                <5>1. request \in [Requests -> Request] /\ request[q] \in Request
                    BY <1>t DEF SessionsTypeOK, Request
                <5> QED
                    BY <3>2, <5>1
            <4> HIDE DEF new
            <4> QED
                BY <1>t, <2>1, <2>2, <4>1, <4>2, BecomesType DEF GoesOn
        <3> QED
            BY <1>5, <3>1, <3>2 DEF NetworkSave
    <2> QED
        BY <2>1, <2>3, <2>4, StepKnown
<1>6. CASE UpdateSession(q)
    <2>1. /\ request[q].at \in {"hit", "found"} /\ PutBack(q)
          /\ UNCHANGED issued /\ row' = row /\ RestOK'
        BY <1>6, RestKept DEF UpdateSession, HasSession, rows
    <2>2. CacheOK'
        BY <1>t, <2>1, HasToken, PutBackType
    <2>3. Take(q, "removeRow", 0) \/ Take(q, "reload", 0)
        BY <1>6 DEF UpdateSession
    <2> QED
        BY <1>s, <2>1, <2>2, <2>3, GotoKnown
<1>7. CASE Reload(q)
    <2>1. request[q].at = "reload" /\ UNCHANGED issued /\ row' = row /\ RestOK' /\ CacheOK'
        BY <1>7, RestKept, CacheAsItIs DEF Reload, Is, rows, notes
    <2>2. LiveTerm(request[q].token) \in Nat
        BY <1>t, <2>1, HasToken, LiveTermType
    <2>3. Done(q) \/ Take(q, "reloaded", LiveTerm(request[q].token))
        BY <1>7 DEF Reload
    <2> QED
        BY <1>s, <2>1, <2>2, <2>3, GotoKnown, DoneKnown
<1>8. CASE AddReloaded(q)
    <2>1. /\ request[q].at = "reloaded" /\ UNCHANGED issued /\ row' = row /\ RestOK'
          /\ Store(q, request[q].token, request[q].copy) /\ Done(q)
        BY <1>8, RestKept DEF AddReloaded, Is, rows
    <2>2. CacheOK'
        BY <1>t, <2>1, HasToken, StoreType
    <2> QED
        BY <2>1, <2>2, DoneKnown
<1> QED
    BY <1>1, <1>2, <1>3, <1>4, <1>5, <1>6, <1>7, <1>8 DEF Handle

\* Sign-in and sign-out.
LEMMA SignKnown ==
    ASSUME KnownInv, NEW q \in Requests,
           Revoke(q) \/ Insert(q) \/ SignRead(q) \/ SignAdd(q) \/ RemoveRow(q) \/ RemoveCopy(q)
    PROVE  KnownInv'
<1> USE DEF SigningIn
<1>t. SessionsTypeOK
    BY DEF KnownInv
<1>s. /\ "signRead" \in Steps \ {"idle", "revoke", "insert", "networkSave"}
      /\ "signAdd" \in Steps \ {"idle", "revoke", "insert", "networkSave"}
      /\ "removeCopy" \in Steps \ {"idle", "revoke", "insert", "networkSave"}
      /\ "reload" \in Steps \ {"idle", "revoke", "insert", "networkSave"}
      /\ "insert" \in Steps
    BY DEF Steps
<1>1. CASE Revoke(q)
    <2>1. request[q].at = "revoke" /\ UNCHANGED issued /\ row' = NoRow /\ RestOK' /\ CacheOK'
        BY <1>1, RestKept, CacheAsItIs DEF Revoke, Is, notes
    <2>2. PICK new \in Request : /\ Becomes(q, new) /\ new.at = "insert"
                                 /\ new.token = request[q].token
        BY <1>1, <1>s, <1>t, GotoType DEF Revoke
    <2>3. RowOK' /\ issued' \in [Tokens -> Nat] /\ Renewed
        BY <2>1, RowKept
    <2>4. GoesOn(new)
        BY <2>1, <2>2, HasToken DEF GoesOn
    <2> QED
        BY <2>1, <2>2, <2>3, <2>4, StepKnown
<1>2. CASE Insert(q)
    <2> DEFINE t == request[q].token
    <2>1. request[q].at = "insert" /\ CacheOK'
        BY <1>2, CacheAsItIs DEF Insert, Is
    <2>2. t \in Tokens
        BY <2>1, HasToken
    <2>3. RestOK'
        BY <1>2, <1>t DEF Insert, SessionsTypeOK, RestOK, world, history
    <2>4. CASE Grant(t) /\ Goto(q, "signRead")
        <3>1. PICK new \in Request : /\ Becomes(q, new) /\ new.at = "signRead" /\ new.token = t
            BY <1>s, <1>t, <2>4, GotoType
        <3>2. RowOK' /\ issued' \in [Tokens -> Nat] /\ Renewed /\ issued'[t] > 0
            BY <1>t, <2>2, <2>4, GrantType
        <3>3. GoesOn(new)
            BY <2>2, <3>1, <3>2 DEF GoesOn
        <3> QED
            BY <2>1, <2>3, <3>1, <3>2, <3>3, StepKnown
    <2>5. CASE Done(q) /\ UNCHANGED rows
        BY <2>1, <2>3, <2>5, DoneKnown DEF rows
    <2> QED
        BY <1>2, <2>4, <2>5 DEF Insert
<1>3. CASE SignRead(q)
    <2>1. request[q].at = "signRead" /\ UNCHANGED issued /\ row' = row /\ RestOK' /\ CacheOK'
        BY <1>3, RestKept, CacheAsItIs DEF SignRead, Is, rows, notes
    <2>2. LiveTerm(request[q].token) \in Nat
        BY <1>t, <2>1, HasToken, LiveTermType
    <2>3. Done(q) \/ Take(q, "signAdd", LiveTerm(request[q].token))
        BY <1>3 DEF SignRead
    <2> QED
        BY <1>s, <2>1, <2>2, <2>3, GotoKnown, DoneKnown
<1>4. CASE SignAdd(q)
    <2>1. /\ request[q].at = "signAdd" /\ UNCHANGED issued /\ row' = row /\ RestOK'
          /\ Store(q, request[q].token, request[q].copy) /\ Done(q)
        BY <1>4, RestKept DEF SignAdd, Is, rows
    <2>2. CacheOK'
        BY <1>t, <2>1, HasToken, StoreType
    <2> QED
        BY <2>1, <2>2, DoneKnown
<1>5. CASE RemoveRow(q)
    <2>1. /\ request[q].at = "removeRow" /\ UNCHANGED issued /\ row' \in {row, NoRow}
          /\ CacheOK' /\ Goto(q, "removeCopy")
        BY <1>5, CacheAsItIs DEF RemoveRow, RowWithout, Is
    <2>2. request[q].token \in Tokens
        BY <2>1, HasToken
    <2>3. RestOK'
        BY <1>5, <1>t, <2>2 DEF RemoveRow, SessionsTypeOK, RestOK, world
    <2> QED
        BY <1>s, <2>1, <2>3, GotoKnown
<1>6. CASE RemoveCopy(q)
    <2>1. /\ request[q].at = "removeCopy" /\ UNCHANGED issued /\ row' = row
          /\ Goto(q, "reload") \/ Done(q)
        BY <1>6 DEF RemoveCopy, AfterRemoval, Is, rows
    <2>2. request[q].token \in Tokens
        BY <2>1, HasToken
    <2>3. CacheOK'
        <3>1. {request[q].token} \in SUBSET Tokens
            BY <2>2
        <3> QED
            BY <1>6, <1>t, <3>1, DroppedType DEF RemoveCopy
    <2>4. RestOK'
        BY <1>6, <1>t, <2>2 DEF RemoveCopy, SessionsTypeOK, RestOK, world
    <2> QED
        BY <1>s, <2>1, <2>3, <2>4, GotoKnown, DoneKnown
<1> QED
    BY <1>1, <1>2, <1>3, <1>4, <1>5, <1>6

\* A request that comes.
LEMMA ArriveKnown ==
    ASSUME KnownInv, NEW q \in Requests, Arrive(q)
    PROVE  KnownInv'
<1> USE DEF SigningIn
<1>t. SessionsTypeOK
    BY DEF KnownInv
<1>1. PICK t \in Tokens : Authenticate(q, t) \/ SignIn(q, t) \/ SignOut(q, t)
    BY DEF Arrive
<1>2. /\ request[q].at = "idle" /\ UNCHANGED issued /\ row' = row
      /\ CacheOK' /\ RestOK'
    BY <1>1, <1>t, CacheAsItIs
    DEF Arrive, Authenticate, SignIn, SignOut, Is, rows, notes, history, SessionsTypeOK, RestOK
<1>3. RowOK' /\ issued' \in [Tokens -> Nat] /\ Renewed
    BY <1>2, RowKept
<1>4. ASSUME NEW new \in Request, request' = [request EXCEPT ![q] = new],
             new.token = t, new.at \in {"get", "removeRow"}, issued[t] > 0
      PROVE  KnownInv'
    <2>1. Becomes(q, new) /\ GoesOn(new)
        BY <1>t, <1>2, <1>4, BecomesType DEF GoesOn
    <2> QED
        BY <1>2, <1>3, <2>1, StepKnown
<1>5. CASE Authenticate(q, t)
    <2> DEFINE new == [at |-> "get", op |-> "auth", token |-> t, copy |-> 0]
    <2>1. new \in Request
        BY DEF Request, Steps, Operations
    <2> QED
        BY <1>4, <1>5, <2>1 DEF Authenticate
<1>6. CASE SignOut(q, t)
    <2> DEFINE new == [at |-> "removeRow", op |-> "signOut", token |-> t, copy |-> 0]
    <2>1. new \in Request
        BY DEF Request, Steps, Operations
    <2> QED
        BY <1>4, <1>6, <2>1 DEF SignOut
<1>7. CASE SignIn(q, t)
    <2> DEFINE new == [at |-> "revoke", op |-> "signIn", token |-> t, copy |-> 0]
    <2>1. new \in Request /\ new.at = "revoke" /\ new.token = t
        BY DEF Request, Steps, Operations
    <2>2. request' = [request EXCEPT ![q] = new]
        BY <1>7 DEF SignIn
    <2> HIDE DEF new
    <2>3. Becomes(q, new) /\ GoesOn(new)
        BY <1>t, <2>1, <2>2, BecomesType DEF GoesOn
    <2> QED
        BY <1>2, <1>3, <2>1, <2>3, StepKnown
<1> QED
    BY <1>1, <1>5, <1>6, <1>7

\* The cleaner, time and restarts.
LEMMA ElsewhereKnown ==
    ASSUME KnownInv, Clean \/ Elapse \/ Restart
    PROVE  KnownInv'
<1>t. SessionsTypeOK
    BY DEF KnownInv
<1>1. ASSUME Clean \/ Elapse
      PROVE  UNCHANGED <<request, issued, history, arrivals>> /\ row' \in {row, NoRow}
    <2>1. CASE Clean
        BY <2>1 DEF Clean, CleanerFinds, CleanerDeletes, CleanerDeletesUnseen, CleanerDrops,
                    rows, world, notes
    <2>2. CASE Elapse
        BY <2>2 DEF Elapse, GrowOld, TermEnds, CopyExpires, rows, world, notes
    <2> QED
        BY <1>1, <2>1, <2>2
<1>2. ASSUME UNCHANGED <<request, issued>>, row' \in {row, NoRow}, CacheOK', RestOK'
      PROVE  KnownInv'
    <2>1. RowOK' /\ issued' \in [Tokens -> Nat]
        BY <1>2, RowKept
    <2>2. SessionsTypeOK'
        BY <1>2, <1>t, <2>1 DEF SessionsTypeOK, CacheOK, RowOK, RestOK
    <2> QED
        BY <1>2, <2>2 DEF KnownInv, RequestsKnow, Knows
<1>3. ASSUME Clean
      PROVE  CacheOK' /\ RestOK'
    <2>1. CASE CleanerFinds
        <3>1. CacheOK' /\ UNCHANGED <<old, past, arrivals, history>>
            BY <2>1, CacheAsItIs DEF CleanerFinds, world, notes
        <3>2. {u \in Tokens : Expired(u)} \in SUBSET Tokens
            OBVIOUS
        <3>3. cleaner' \in [at : {"wait", "delete", "drop"}, found : SUBSET Tokens]
            BY <2>1, <3>2 DEF CleanerFinds
        <3> QED
            BY <1>t, <3>1, <3>3 DEF SessionsTypeOK, RestOK, history
    <2>2. CASE CleanerDeletes
        <3>1. CacheOK' /\ UNCHANGED <<old, past, arrivals, history>>
            BY <2>2, CacheAsItIs DEF CleanerDeletes, world, notes
        <3>2. cleaner' \in [at : {"wait", "delete", "drop"}, found : SUBSET Tokens]
            BY <1>t, <2>2 DEF CleanerDeletes, SessionsTypeOK
        <3> QED
            BY <1>t, <3>1, <3>2 DEF SessionsTypeOK, RestOK, history
    <2>3. CASE CleanerDeletesUnseen
        BY <2>3, CacheAsItIs, RestKept DEF CleanerDeletesUnseen, notes
    <2>4. CASE CleanerDrops
        <3>1. cleaner.found \in SUBSET Tokens
            BY <1>t DEF SessionsTypeOK
        <3>2. CacheOK'
            BY <1>t, <2>4, <3>1, DroppedType DEF CleanerDrops
        <3>3. cleaner' = Waits /\ UNCHANGED <<old, past, arrivals, history>>
            BY <2>4 DEF CleanerDrops, world
        <3>4. Waits \in [at : {"wait", "delete", "drop"}, found : SUBSET Tokens]
            BY DEF Waits
        <3> QED
            BY <1>t, <3>2, <3>3, <3>4 DEF SessionsTypeOK, RestOK, history
    <2> QED
        BY <1>3, <2>1, <2>2, <2>3, <2>4 DEF Clean
<1>4. ASSUME Elapse
      PROVE  CacheOK' /\ RestOK'
    <2>1. PICK u \in Tokens : GrowOld(u) \/ TermEnds(u) \/ CopyExpires(u)
        BY <1>4 DEF Elapse
    <2>2. CASE GrowOld(u)
        BY <1>t, <2>2, CacheAsItIs DEF GrowOld, notes, history, SessionsTypeOK, RestOK
    <2>3. CASE TermEnds(u)
        BY <1>t, <2>3, CacheAsItIs DEF TermEnds, notes, history, SessionsTypeOK, RestOK
    <2>4. CASE CopyExpires(u)
        <3>1. {u} \in SUBSET Tokens
            OBVIOUS
        <3> QED
            BY <1>t, <2>4, <3>1, DroppedType, RestKept DEF CopyExpires
    <2> QED
        BY <2>1, <2>2, <2>3, <2>4
<1>5. ASSUME Restart
      PROVE  KnownInv'
    <2>1. /\ request' = [q \in Requests |-> Idle] /\ cleaner' = Waits
          /\ UNCHANGED <<row, issued, cache, world, history>> /\ Fail
        BY <1>5 DEF Restart, rows
    <2>2. CacheOK'
        <3>1. {u \in Tokens : \E q \in Requests : request[q].token = u} \in SUBSET Tokens
            OBVIOUS
        <3> QED
            BY <1>5, <2>1, <3>1, CacheKept DEF Restart
    <2>3. RestOK'
        <3>1. Waits \in [at : {"wait", "delete", "drop"}, found : SUBSET Tokens]
            BY DEF Waits
        <3> QED
            BY <1>t, <2>1, <3>1 DEF SessionsTypeOK, RestOK, world, history
    <2>4. RowOK' /\ issued' \in [Tokens -> Nat]
        BY <2>1, RowKept
    <2>5. \A q \in Requests : request'[q] = Idle
        BY <2>1
    <2>6. request' \in [Requests -> Request]
        BY <2>1, IdleType
    <2>7. SessionsTypeOK'
        BY <2>2, <2>3, <2>4, <2>6 DEF SessionsTypeOK, CacheOK, RowOK, RestOK, Request
    <2>8. RequestsKnow'
        BY <2>5, IdleType DEF RequestsKnow, Knows, SigningIn
    <2> QED
        BY <2>7, <2>8 DEF KnownInv
<1> QED
    BY <1>1, <1>2, <1>3, <1>4, <1>5

\* What is known holds at the start.
LEMMA KnownInit == Init => KnownInv
<1> SUFFICES ASSUME Init PROVE KnownInv
    OBVIOUS
<1>1. request \in [Requests -> Request] /\ \A q \in Requests : request[q] = Idle
    BY IdleType DEF Init
<1>2. SessionsTypeOK
    BY <1>1 DEF Init, SessionsTypeOK, NoRow, Waits, Request
<1>3. RequestsKnow
    BY <1>1, IdleType DEF RequestsKnow, Knows, SigningIn
<1> QED
    BY <1>2, <1>3 DEF KnownInv

\* Every step keeps what is known.
LEMMA KnownNext == KnownInv /\ [Next]_vars => KnownInv'
<1> SUFFICES ASSUME KnownInv, [Next]_vars PROVE KnownInv'
    OBVIOUS
<1>1. ASSUME NEW q \in Requests, Proceed(q)
      PROVE  KnownInv'
    BY <1>1, AuthenticationKnown, RenewKnown, HandleKnown, SignKnown DEF Proceed
<1>2. CASE UNCHANGED vars
    BY <1>2 DEF vars, KnownInv, SessionsTypeOK, RequestsKnow, Knows
<1> QED
    BY <1>1, <1>2, ArriveKnown, ElsewhereKnown DEF Next, RunOn

(***************************************************************************)
(* The types of the sessions: the row is of a token the user signed in     *)
(* with, and of a term it was given, however renewals, changes of network, *)
(* sign-ins and the cleaner cross (user_tokens).                           *)
(***************************************************************************)
THEOREM SessionsTypeCorrect == Spec => []SessionsTypeOK
<1>1. KnownInv => SessionsTypeOK
    BY DEF KnownInv
<1> QED
    BY <1>1, KnownInit, KnownNext, PTL DEF Spec

-----------------------------------------------------------------------------
(***************************************************************************)
(* Signed out tokens stay out.                                             *)
(***************************************************************************)
\* The steps from which a request stores the copy it has read, come what may.
Storing == {"found", "renewAdd", "reloaded", "signAdd"}

\* A request that has still to store a copy of t.  One that found no session
\* stores none.
Carries(r, t) ==
    /\ r.token = t
    /\ r.at \in Storing \/ (r.at = "hit" /\ r.op = "settings" /\ r.copy # 0)

\* A token whose row was removed has none until it signs in again.
RemovedHasNoRow == \A t \in removed : row.token # t

\* A token that was signed out has no copy, and nobody who brings one.
NobodyBringsItBack ==
    \A t \in closed : session[t] = 0 /\ \A q \in Requests : ~Carries(request[q], t)

\* The inductive invariant behind SignedOutIsRefused.
ClosedInv == RemovedHasNoRow /\ NobodyBringsItBack

\* A step of one request, whichever tokens are removed or closed by it.
LEMMA ChangeClosed ==
    ASSUME NEW q \in Requests, NEW new \in Request, Becomes(q, new),
           \A t \in removed' : row'.token # t,
           \A t \in closed' : /\ session'[t] = 0 /\ ~Carries(new, t)
                              /\ \A p \in Requests : p # q => ~Carries(request[p], t)
    PROVE  ClosedInv'
<1>1. RemovedHasNoRow'
    BY DEF RemovedHasNoRow
<1>2. NobodyBringsItBack'
    <2> SUFFICES ASSUME NEW t \in closed'
                 PROVE  session'[t] = 0 /\ \A p \in Requests : ~Carries(request'[p], t)
        BY DEF NobodyBringsItBack, Carries
    <2>1. ASSUME NEW p \in Requests
          PROVE  ~Carries(request'[p], t)
        <3>1. CASE p = q
            BY <3>1 DEF Becomes
        <3>2. CASE p # q
            BY <3>2 DEF Becomes
        <3> QED
            BY <3>1, <3>2
    <2> QED
        BY <2>1
<1> QED
    BY <1>1, <1>2 DEF ClosedInv

\* Nothing of what was removed comes back where no sign-in inserts a row.
LEMMA RemovedKept ==
    ASSUME KnownInv, ClosedInv, row'.token \in {row.token, Nil}, UNCHANGED history
    PROVE  \A t \in removed' : row'.token # t
<1>1. Nil \notin Tokens /\ removed \subseteq Tokens
    BY BoundsType DEF KnownInv, SessionsTypeOK
<1> QED
    BY <1>1 DEF ClosedInv, RemovedHasNoRow, history

\* A step of one request that stores and carries only what is not closed.
LEMMA StepClosed ==
    ASSUME KnownInv, ClosedInv, NEW q \in Requests, NEW new \in Request, Becomes(q, new),
           row'.token \in {row.token, Nil}, UNCHANGED history,
           \A t \in closed : session'[t] = 0 /\ ~Carries(new, t)
    PROVE  ClosedInv'
<1>1. \A t \in removed' : row'.token # t
    BY RemovedKept
<1>2. ASSUME NEW t \in closed'
      PROVE  /\ session'[t] = 0 /\ ~Carries(new, t)
             /\ \A p \in Requests : p # q => ~Carries(request[p], t)
    <2>1. t \in closed
        BY DEF history
    <2> QED
        BY <2>1 DEF ClosedInv, NobodyBringsItBack
<1> QED
    BY <1>1, <1>2, ChangeClosed

\* What a request carries, the row's token, and what has a copy are not closed.
LEMMA NotClosed ==
    ASSUME KnownInv, ClosedInv, NEW t \in Tokens,
           \/ row.token = t \/ session[t] # 0
           \/ \E q \in Requests : Carries(request[q], t)
    PROVE  t \notin closed
BY DEF ClosedInv, RemovedHasNoRow, NobodyBringsItBack, KnownInv, SessionsTypeOK

\* The cache is left alone or stores a copy of a token that is not closed.
LEMMA StoreClosed ==
    ASSUME KnownInv, ClosedInv, NEW q \in Requests, request[q].at # "idle",
           \/ UNCHANGED cache
           \/ PutBack(q)
           \/ /\ Store(q, request[q].token, request[q].copy)
              /\ Carries(request[q], request[q].token)
    PROVE  \A t \in closed : session'[t] = 0
<1> DEFINE u == request[q].token
<1>1. u \in Tokens /\ request[q].copy \in Nat /\ SessionsTypeOK
    BY HasToken DEF KnownInv
<1>2. \A t \in closed : session[t] = 0 /\ t \in Tokens
    BY DEF ClosedInv, NobodyBringsItBack, KnownInv, SessionsTypeOK
<1>3. CASE UNCHANGED cache
    BY <1>2, <1>3 DEF cache
<1>4. CASE PutBack(q)
    <2>1. CASE request[q].at = "found"
        <3>1. u \notin closed
            BY <1>1, <2>1, NotClosed DEF Carries, Storing
        <3> QED
            BY <1>1, <1>2, <1>4, <3>1, PutBackType
    <2>2. CASE request[q].at # "found"
        BY <1>1, <1>2, <1>4, <2>2, PutBackType
    <2> QED
        BY <2>1, <2>2
<1>5. CASE Store(q, u, request[q].copy) /\ Carries(request[q], u)
    <2>1. u \notin closed
        BY <1>1, <1>5, NotClosed
    <2> QED
        BY <1>1, <1>2, <1>5, <2>1, StoreType
<1> QED
    BY <1>3, <1>4, <1>5

\* The common case: the request goes to a step from which it stores nothing, or
\* it carries a token that is not closed.
LEMMA MoveClosed ==
    ASSUME KnownInv, ClosedInv, NEW q \in Requests, NEW step \in Steps,
           Goto(q, step) \/ (\E term \in Nat : Take(q, step, term)),
           step # "hit",
           step \in Storing => request[q].token \notin closed,
           row' \in {row, NoRow}, UNCHANGED history,
           \A t \in closed : session'[t] = 0
    PROVE  ClosedInv'
<1>1. SessionsTypeOK
    BY DEF KnownInv
<1>2. PICK new \in Request : /\ Becomes(q, new) /\ new.at = step
                             /\ new.token = request[q].token
    <2>1. CASE Goto(q, step)
        BY <1>1, <2>1, GotoType
    <2>2. ASSUME NEW term \in Nat, Take(q, step, term)
          PROVE  \E new \in Request : /\ Becomes(q, new) /\ new.at = step
                                      /\ new.token = request[q].token
        BY <1>1, <2>2, TakeType
    <2> QED
        BY <2>1, <2>2
<1>3. \A t \in closed : ~Carries(new, t)
    BY <1>2 DEF Carries
<1>4. row'.token \in {row.token, Nil}
    BY DEF NoRow
<1> QED
    BY <1>2, <1>3, <1>4, StepClosed

\* The end of a request brings no copy of a signed-out token back.
LEMMA OverClosed ==
    ASSUME KnownInv, ClosedInv, NEW q \in Requests, Done(q),
           row' \in {row, NoRow}, UNCHANGED history,
           \A t \in closed : session'[t] = 0
    PROVE  ClosedInv'
<1>1. Becomes(q, Idle) /\ Idle \in Request
    BY DoneType, IdleType DEF KnownInv
<1>2. \A t \in closed : ~Carries(Idle, t)
    BY IdleType DEF Carries, Storing
<1>3. row'.token \in {row.token, Nil}
    BY DEF NoRow
<1> QED
    BY <1>1, <1>2, <1>3, StepClosed

\* Every step of a request.
LEMMA AuthenticationClosed ==
    ASSUME KnownInv, ClosedInv, NEW q \in Requests,
           \/ GetSession(q) \/ FindOnDatabase(q)
           \/ Refuse(q) \/ Accept(q) \/ AcceptAndRenew(q)
    PROVE  ClosedInv'
<1> DEFINE t == request[q].token
<1>t. SessionsTypeOK
    BY DEF KnownInv
<1>s. {"hit", "find", "found", "handler", "renewSave"} \subseteq Steps
    BY DEF Steps
<1>1. CASE GetSession(q)
    <2>1. /\ request[q].at = "get" /\ row' = row
          /\ UNCHANGED <<history, cache>>
        BY <1>1 DEF GetSession, Is, rows
    <2>2. t \in Tokens /\ session[t] \in Nat /\ \A u \in closed : session'[u] = 0
        BY <2>1, <1>t, HasToken, StoreClosed DEF SessionsTypeOK
    <2>3. CASE Goto(q, "find")
        BY <1>s, <2>1, <2>2, <2>3, MoveClosed DEF Storing
    <2>4. CASE session[t] > 0 /\ Take(q, "hit", session[t])
        <3>1. PICK new \in Request : Becomes(q, new) /\ new.at = "hit" /\ new.token = t
            BY <1>s, <1>t, <2>2, <2>4, TakeType
        <3>2. t \notin closed
            BY <2>2, <2>4, NotClosed
        <3> QED
            BY <2>1, <2>2, <3>1, <3>2, StepClosed DEF Carries
    <2> QED
        BY <1>1, <2>3, <2>4 DEF GetSession
<1>2. CASE FindOnDatabase(q)
    <2>1. /\ request[q].at = "find" /\ row' = row
          /\ UNCHANGED <<history, cache>>
        BY <1>2 DEF FindOnDatabase, Is, rows, notes
    <2>2. t \in Tokens /\ \A u \in closed : session'[u] = 0
        BY <2>1, HasToken, StoreClosed
    <2>3. LiveTerm(t) \in Nat /\ (LiveTerm(t) # 0 => t \notin closed)
        BY <1>t, <2>2, LiveTermType, NotClosed
    <2>4. CASE LiveTerm(t) # 0
        <3>1. Take(q, "found", LiveTerm(t))
            BY <1>2, <2>4 DEF FindOnDatabase
        <3> QED
            BY <1>s, <2>1, <2>2, <2>3, <2>4, <3>1, MoveClosed
    <2>5. CASE LiveTerm(t) = 0
        <3>1. Take(q, "hit", 0)
            BY <1>2, <2>5 DEF FindOnDatabase
        <3>2. PICK new \in Request : Becomes(q, new) /\ new.at = "hit" /\ new.copy = 0
            BY <1>s, <1>t, <3>1, TakeType
        <3>3. \A u \in closed : ~Carries(new, u)
            BY <3>2 DEF Carries, Storing
        <3> QED
            BY <2>1, <2>2, <3>2, <3>3, StepClosed
    <2> QED
        BY <2>4, <2>5
<1>3. ASSUME Refuse(q) \/ Accept(q) \/ AcceptAndRenew(q)
      PROVE  ClosedInv'
    <2>1. /\ request[q].at \in {"hit", "found"} /\ row' = row
          /\ UNCHANGED history /\ PutBack(q)
        BY <1>3 DEF Refuse, Accept, AcceptAndRenew, HasSession, rows
    <2>2. \A u \in closed : session'[u] = 0
        BY <2>1, StoreClosed
    <2>3. Done(q) \/ Take(q, "handler", 0) \/ Take(q, "renewSave", 0)
        BY <1>3 DEF Refuse, Accept, AcceptAndRenew
    <2> QED
        BY <1>s, <2>1, <2>2, <2>3, MoveClosed, OverClosed DEF Storing
<1> QED
    BY <1>1, <1>2, <1>3

\* A renewal brings no copy of a signed-out token back.
LEMMA RenewClosed ==
    ASSUME KnownInv, ClosedInv, NEW q \in Requests, Renew(q)
    PROVE  ClosedInv'
<1> DEFINE t == request[q].token
<1>t. SessionsTypeOK
    BY DEF KnownInv
<1>s. {"renewRead", "handler", "renewAdd"} \subseteq Steps
    BY DEF Steps
<1>1. CASE RenewSave(q)
    <2>1. request[q].at = "renewSave" /\ UNCHANGED <<history, cache>>
        BY <1>1 DEF RenewSave, Is, notes
    <2>2. t \in Tokens /\ \A u \in closed : session'[u] = 0
        BY <2>1, HasToken, StoreClosed
    <2>3. row'.token = row.token
        BY <1>1, <1>t, <2>2, GrantType DEF RenewSave, rows
    <2>4. PICK new \in Request : Becomes(q, new) /\ new.at = "renewRead"
        BY <1>s, <1>t, <1>1, GotoType DEF RenewSave
    <2>5. \A u \in closed : ~Carries(new, u)
        BY <2>4 DEF Carries, Storing
    <2> QED
        BY <2>1, <2>2, <2>3, <2>4, <2>5, StepClosed
<1>2. CASE RenewFails(q)
    <2>1. /\ request[q].at # "idle" /\ row' = row
          /\ UNCHANGED <<history, cache>> /\ Goto(q, "handler")
        BY <1>2 DEF RenewFails, rows
    <2>2. \A u \in closed : session'[u] = 0
        BY <2>1, StoreClosed
    <2> QED
        BY <1>s, <2>1, <2>2, MoveClosed DEF Storing
<1>3. CASE RenewRead(q)
    <2>1. /\ request[q].at = "renewRead" /\ row' = row
          /\ UNCHANGED <<history, cache>>
        BY <1>3 DEF RenewRead, Is, rows, notes
    <2>2. t \in Tokens /\ \A u \in closed : session'[u] = 0
        BY <2>1, HasToken, StoreClosed
    <2>3. LiveTerm(t) \in Nat /\ (LiveTerm(t) # 0 => t \notin closed)
        BY <1>t, <2>2, LiveTermType, NotClosed
    <2>4. \/ Take(q, "handler", LiveTerm(t))
          \/ Take(q, "renewAdd", LiveTerm(t)) /\ LiveTerm(t) # 0
        BY <1>3 DEF RenewRead
    <2> QED
        BY <1>s, <2>1, <2>2, <2>3, <2>4, MoveClosed DEF Storing
<1>4. CASE RenewAdd(q)
    <2>1. /\ request[q].at = "renewAdd" /\ row' = row /\ UNCHANGED history
          /\ Store(q, t, request[q].copy) /\ Take(q, "handler", 0)
        BY <1>4 DEF RenewAdd, Is, rows
    <2>2. \A u \in closed : session'[u] = 0
        BY <2>1, StoreClosed DEF Carries, Storing
    <2> QED
        BY <1>s, <2>1, <2>2, MoveClosed DEF Storing
<1> QED
    BY <1>1, <1>2, <1>3, <1>4 DEF Renew

\* Authentication and the handlers bring no copy of a signed-out token back.
LEMMA HandleClosed ==
    ASSUME KnownInv, ClosedInv, NEW q \in Requests, Handle(q)
    PROVE  ClosedInv'
<1> DEFINE t == request[q].token
<1>t. SessionsTypeOK
    BY DEF KnownInv
<1>s. {"get", "reload", "reloaded", "removeRow", "networkSave"} \subseteq Steps
    BY DEF Steps
<1>1. CASE Answer(q)
    <2>1. /\ request[q].at # "idle" /\ row' = row /\ Done(q)
          /\ UNCHANGED <<history, cache>>
        BY <1>1 DEF Answer, Is, rows, notes
    <2> QED
        BY <2>1, StoreClosed, OverClosed
<1>2. ASSUME NEW new \in Request, request' = [request EXCEPT ![q] = new],
             new.at \in {"get", "networkSave"}, request[q].at # "idle",
             row'.token = row.token, UNCHANGED <<history, cache>>
      PROVE  ClosedInv'
    <2>1. Becomes(q, new)
        BY <1>t, <1>2, BecomesType
    <2>2. \A u \in closed : session'[u] = 0 /\ ~Carries(new, u)
        BY <1>2, StoreClosed DEF Carries, Storing
    <2> QED
        BY <1>2, <2>1, <2>2, StepClosed
<1>3. ASSUME NEW op \in {"update", "settings"}, UseSession(q, op)
      PROVE  ClosedInv'
    <2> DEFINE new == [request[q] EXCEPT !.at = "get", !.op = op]
    <2>1. request[q] \in Request /\ op \in Operations
        BY <1>t DEF SessionsTypeOK, Request, Operations
    <2>2. new \in Request /\ new.at = "get"
        BY <2>1 DEF Request, Steps
    <2>3. /\ request' = [request EXCEPT ![q] = new]
          /\ request[q].at # "idle" /\ row' = row /\ UNCHANGED <<history, cache>>
        BY <1>3, <1>t DEF UseSession, Is, rows, notes, SessionsTypeOK
    <2> HIDE DEF new
    <2> QED
        BY <1>2, <2>2, <2>3
<1>4. CASE PutSettings(q)
    <2>1. /\ request[q].at \in {"hit", "found"} /\ request[q].op = "settings" /\ row' = row
          /\ UNCHANGED history /\ Done(q)
          /\ UNCHANGED cache \/ (request[q].copy # 0 /\ Store(q, t, request[q].copy))
        BY <1>4 DEF PutSettings, HasSession, rows
    <2>2. request[q].copy # 0 => Carries(request[q], t)
        BY <2>1 DEF Carries, Storing
    <2>3. \A u \in closed : session'[u] = 0
        BY <2>1, <2>2, StoreClosed
    <2> QED
        BY <2>1, <2>3, OverClosed
<1>5. CASE NetworkFind(q)
    <2> DEFINE new == [request[q] EXCEPT !.at = "networkSave", !.token = row.token,
                                         !.copy = row.term]
    <2>1. request[q] \in Request /\ row.token \in Tokens \cup {Nil} /\ row.term \in Nat
        BY <1>t DEF SessionsTypeOK, Request
    <2>2. new \in Request /\ new.at = "networkSave"
        BY <2>1 DEF Request, Steps
    <2>3. /\ request' = [request EXCEPT ![q] = new]
          /\ request[q].at # "idle" /\ row' = row /\ UNCHANGED <<history, cache>>
        BY <1>5, <1>t DEF NetworkFind, Is, rows, notes, SessionsTypeOK
    <2> HIDE DEF new
    <2> QED
        BY <1>2, <2>2, <2>3
<1>6. CASE NetworkSave(q)
    <2>1. /\ request[q].at # "idle" /\ row'.token = row.token
          /\ UNCHANGED <<history, cache>>
        BY <1>6 DEF NetworkSave, Is, notes
    <2>2. CASE Done(q)
        <3>1. row' = row
            BY <1>6, <2>2, <1>t, IdleType DEF NetworkSave, Done, Is, SessionsTypeOK
        <3> QED
            BY <2>1, <2>2, <3>1, StoreClosed, OverClosed
    <2>3. CASE request' = [request EXCEPT ![q].at = "get", ![q].op = "update", ![q].copy = 0]
        <3> DEFINE new == [request[q] EXCEPT !.at = "get", !.op = "update", !.copy = 0]
        <3>1. request \in [Requests -> Request] /\ request[q] \in Request
            BY <1>t DEF SessionsTypeOK, Request
        <3>2. new \in Request /\ new.at = "get"
            BY <3>1 DEF Request, Steps, Operations
        <3>3. request' = [request EXCEPT ![q] = new]
            BY <2>3, <3>1
        <3> HIDE DEF new
        <3> QED
            BY <1>2, <2>1, <3>2, <3>3
    <2> QED
        BY <1>6, <2>2, <2>3 DEF NetworkSave
<1>7. CASE UpdateSession(q)
    <2>1. /\ request[q].at \in {"hit", "found"} /\ row' = row
          /\ UNCHANGED history /\ PutBack(q)
          /\ Take(q, "removeRow", 0) \/ Take(q, "reload", 0)
        BY <1>7 DEF UpdateSession, HasSession, rows
    <2>2. \A u \in closed : session'[u] = 0
        BY <2>1, StoreClosed
    <2> QED
        BY <1>s, <2>1, <2>2, MoveClosed DEF Storing
<1>8. CASE Reload(q)
    <2>1. /\ request[q].at = "reload" /\ row' = row
          /\ UNCHANGED <<history, cache>>
        BY <1>8 DEF Reload, Is, rows, notes
    <2>2. t \in Tokens /\ \A u \in closed : session'[u] = 0
        BY <2>1, HasToken, StoreClosed
    <2>3. LiveTerm(t) \in Nat /\ (LiveTerm(t) # 0 => t \notin closed)
        BY <1>t, <2>2, LiveTermType, NotClosed
    <2>4. Done(q) \/ (Take(q, "reloaded", LiveTerm(t)) /\ LiveTerm(t) # 0)
        BY <1>8 DEF Reload
    <2> QED
        BY <1>s, <2>1, <2>2, <2>3, <2>4, MoveClosed, OverClosed
<1>9. CASE AddReloaded(q)
    <2>1. /\ request[q].at = "reloaded" /\ row' = row /\ UNCHANGED history
          /\ Store(q, t, request[q].copy) /\ Done(q)
        BY <1>9 DEF AddReloaded, Is, rows
    <2>2. \A u \in closed : session'[u] = 0
        BY <2>1, StoreClosed DEF Carries, Storing
    <2> QED
        BY <2>1, <2>2, OverClosed
<1> QED
    BY <1>1, <1>3, <1>4, <1>5, <1>6, <1>7, <1>8, <1>9 DEF Handle

\* Signing in and out brings no copy of a signed-out token back.
LEMMA SignClosed ==
    ASSUME KnownInv, ClosedInv, NEW q \in Requests,
           Revoke(q) \/ Insert(q) \/ SignRead(q) \/ SignAdd(q) \/ RemoveRow(q) \/ RemoveCopy(q)
    PROVE  ClosedInv'
<1> DEFINE t == request[q].token
<1>t. SessionsTypeOK /\ Nil \notin Tokens
    BY BoundsType DEF KnownInv
<1>s. {"insert", "signRead", "signAdd", "removeCopy", "reload"} \subseteq Steps
    BY DEF Steps
<1>1. CASE Revoke(q)
    <2>1. /\ request[q].at = "revoke" /\ row' = NoRow
          /\ UNCHANGED <<history, cache>> /\ Goto(q, "insert")
        BY <1>1 DEF Revoke, Is, notes
    <2>2. t \in Tokens /\ \A u \in closed : session'[u] = 0
        BY <2>1, HasToken, StoreClosed
    <2> QED
        BY <1>s, <2>1, <2>2, MoveClosed DEF Storing
<1>2. CASE Insert(q)
    <2>1. request[q].at = "insert" /\ UNCHANGED cache
        BY <1>2 DEF Insert, Is
    <2>2. t \in Tokens /\ \A u \in closed : session'[u] = 0
        BY <2>1, HasToken, StoreClosed
    <2>3. CASE Done(q) /\ UNCHANGED <<rows, history>>
        BY <2>2, <2>3, OverClosed DEF rows
    <2>4. CASE /\ Grant(t) /\ Goto(q, "signRead")
               /\ removed' = removed \ {t} /\ closed' = closed \ {t}
        <3>1. PICK new \in Request : Becomes(q, new) /\ new.at = "signRead" /\ new.token = t
            BY <1>s, <1>t, <2>4, GotoType
        <3>2. row'.token = t
            BY <1>t, <2>2, <2>4, GrantType
        <3>3. \A u \in removed' : row'.token # u
            BY <2>4, <3>2
        <3>4. ASSUME NEW u \in closed'
              PROVE  /\ session'[u] = 0 /\ ~Carries(new, u)
                     /\ \A p \in Requests : p # q => ~Carries(request[p], u)
            <4>1. u \in closed
                BY <2>4
            <4>2. ~Carries(new, u)
                BY <3>1 DEF Carries, Storing
            <4> QED
                BY <2>2, <4>1, <4>2 DEF ClosedInv, NobodyBringsItBack
        <3> QED
            BY <3>1, <3>3, <3>4, ChangeClosed
    <2> QED
        BY <1>2, <2>3, <2>4 DEF Insert
<1>3. CASE SignRead(q)
    <2>1. /\ request[q].at = "signRead" /\ row' = row
          /\ UNCHANGED <<history, cache>>
        BY <1>3 DEF SignRead, Is, rows, notes
    <2>2. t \in Tokens /\ \A u \in closed : session'[u] = 0
        BY <2>1, HasToken, StoreClosed
    <2>3. LiveTerm(t) \in Nat /\ (LiveTerm(t) # 0 => t \notin closed)
        BY <1>t, <2>2, LiveTermType, NotClosed
    <2>4. Done(q) \/ (Take(q, "signAdd", LiveTerm(t)) /\ LiveTerm(t) # 0)
        BY <1>3 DEF SignRead
    <2> QED
        BY <1>s, <2>1, <2>2, <2>3, <2>4, MoveClosed, OverClosed
<1>4. CASE SignAdd(q)
    <2>1. /\ request[q].at = "signAdd" /\ row' = row /\ UNCHANGED history
          /\ Store(q, t, request[q].copy) /\ Done(q)
        BY <1>4 DEF SignAdd, Is, rows
    <2>2. \A u \in closed : session'[u] = 0
        BY <2>1, StoreClosed DEF Carries, Storing
    <2> QED
        BY <2>1, <2>2, OverClosed
<1>5. CASE RemoveRow(q)
    <2>1. /\ request[q].at = "removeRow" /\ row' = RowWithout(t) /\ UNCHANGED cache
          /\ removed' = removed \cup {t} /\ closed' = closed /\ Goto(q, "removeCopy")
        BY <1>5 DEF RemoveRow, Is
    <2>2. t \in Tokens /\ \A u \in closed : session'[u] = 0
        BY <2>1, HasToken, StoreClosed
    <2>3. row'.token \in {row.token, Nil} /\ row'.token # t
        BY <1>t, <2>1, <2>2 DEF RowWithout, NoRow
    <2>4. ASSUME NEW u \in removed'
          PROVE  row'.token # u
        <3>1. u = t \/ (u # Nil /\ row.token # u)
            BY <1>t, <2>1 DEF ClosedInv, RemovedHasNoRow, SessionsTypeOK
        <3> QED
            BY <2>3, <3>1
    <2>5. PICK new \in Request : Becomes(q, new) /\ new.at = "removeCopy" /\ new.token = t
        BY <1>s, <1>t, <2>1, GotoType
    <2>6. ASSUME NEW u \in closed'
          PROVE  /\ session'[u] = 0 /\ ~Carries(new, u)
                 /\ \A p \in Requests : p # q => ~Carries(request[p], u)
        <3>1. ~Carries(new, u)
            BY <2>5 DEF Carries, Storing
        <3> QED
            BY <2>1, <2>2, <3>1 DEF ClosedInv, NobodyBringsItBack
    <2> QED
        BY <2>4, <2>5, <2>6, ChangeClosed
<1>6. CASE RemoveCopy(q)
    <2>1. /\ request[q].at = "removeCopy" /\ row' = row /\ removed' = removed
          /\ Goto(q, "reload") \/ Done(q)
        BY <1>6 DEF RemoveCopy, AfterRemoval, Is, rows
    <2>2. t \in Tokens
        BY <2>1, HasToken
    <2>3. {t} \in SUBSET Tokens
        BY <2>2
    <2>4. \A u \in Tokens : session'[u] \in {0, session[u]}
        BY <1>6, <1>t, <2>3, DroppedType DEF RemoveCopy
    <2>5. \A u \in closed : session'[u] = 0 /\ u \in Tokens
        BY <1>t, <2>4 DEF ClosedInv, NobodyBringsItBack, SessionsTypeOK
    <2>6. PICK new \in Request : /\ Becomes(q, new) /\ new.at \in {"idle", "reload"}
        <3>1. CASE Goto(q, "reload")
            BY <1>s, <1>t, <3>1, GotoType
        <3>2. CASE Done(q)
            BY <1>t, <3>2, DoneType, IdleType
        <3> QED
            BY <2>1, <3>1, <3>2
    <2>7. \A u \in removed' : row'.token # u
        BY <2>1 DEF ClosedInv, RemovedHasNoRow
    <2>8. ASSUME NEW u \in closed'
          PROVE  /\ session'[u] = 0 /\ ~Carries(new, u)
                 /\ \A p \in Requests : p # q => ~Carries(request[p], u)
        <3>1. ~Carries(new, u)
            BY <2>6 DEF Carries, Storing
        <3>2. CASE u \in closed
            BY <2>5, <3>1, <3>2 DEF ClosedInv, NobodyBringsItBack
        <3>3. CASE u \notin closed
            <4>1. Dropped({t}) /\ u = t /\ \A p \in Requests : ~Holds(p, t)
                BY <1>6, <3>3 DEF RemoveCopy
            <4>2. session'[u] = 0
                BY <2>2, <4>1 DEF Dropped
            <4>3. \A p \in Requests : ~Carries(request[p], u)
                BY <4>1 DEF Holds, Carries, Storing
            <4> QED
                BY <3>1, <4>2, <4>3
        <3> QED
            BY <3>2, <3>3
    <2> QED
        BY <2>6, <2>7, <2>8, ChangeClosed
<1> QED
    BY <1>1, <1>2, <1>3, <1>4, <1>5, <1>6

\* A request that arrives brings no copy of a signed-out token back.
LEMMA ArriveClosed ==
    ASSUME KnownInv, ClosedInv, NEW q \in Requests, Arrive(q)
    PROVE  ClosedInv'
<1>t. SessionsTypeOK
    BY DEF KnownInv
<1>1. PICK t \in Tokens : Authenticate(q, t) \/ SignIn(q, t) \/ SignOut(q, t)
    BY DEF Arrive
<1>2. row' = row /\ UNCHANGED <<history, session>>
    BY <1>1 DEF Authenticate, SignIn, SignOut, rows, cache, notes
<1>3. \A u \in closed : session'[u] = 0
    BY <1>2 DEF ClosedInv, NobodyBringsItBack
<1>4. \E new \in Request :
         /\ request' = [request EXCEPT ![q] = new] /\ new.token = t
         /\ new.at \in {"get", "removeRow", "revoke"}
    <2>1. CASE Authenticate(q, t)
        <3>1. [at |-> "get", op |-> "auth", token |-> t, copy |-> 0] \in Request
            BY DEF Request, Steps, Operations
        <3> QED
            BY <2>1, <3>1 DEF Authenticate
    <2>2. CASE SignOut(q, t)
        <3>1. [at |-> "removeRow", op |-> "signOut", token |-> t, copy |-> 0] \in Request
            BY DEF Request, Steps, Operations
        <3> QED
            BY <2>2, <3>1 DEF SignOut
    <2>3. CASE SignIn(q, t)
        <3>1. [at |-> "revoke", op |-> "signIn", token |-> t, copy |-> 0] \in Request
            BY DEF Request, Steps, Operations
        <3> QED
            BY <2>3, <3>1 DEF SignIn
    <2> QED
        BY <1>1, <2>1, <2>2, <2>3
<1>5. PICK new \in Request :
         /\ request' = [request EXCEPT ![q] = new] /\ new.token = t
         /\ new.at \in {"get", "removeRow", "revoke"}
    BY <1>4
<1>6. Becomes(q, new)
    BY <1>t, <1>5, BecomesType
<1>7. \A u \in closed : ~Carries(new, u)
    BY <1>5 DEF Carries, Storing
<1> QED
    BY <1>2, <1>3, <1>5, <1>6, <1>7, StepClosed

\* The cleaner deletes rows and copies; time and restarts bring none.
LEMMA ElsewhereClosed ==
    ASSUME KnownInv, ClosedInv, Clean \/ Elapse \/ Restart
    PROVE  ClosedInv'
<1>t. SessionsTypeOK /\ Nil \notin Tokens
    BY BoundsType DEF KnownInv
<1>1. /\ row' \in {row, NoRow} /\ UNCHANGED history
      /\ UNCHANGED request \/ request' = [q \in Requests |-> Idle]
      /\ UNCHANGED cache \/ (\E S \in SUBSET Tokens : Dropped(S) \/ CommandLost(S))
    <2>1. CASE Clean
        <3>1. cleaner.found \in SUBSET Tokens
            BY <1>t DEF SessionsTypeOK
        <3> QED
            BY <2>1, <3>1 DEF Clean, CleanerFinds, CleanerDeletes, CleanerDeletesUnseen,
                              CleanerDrops, rows, world, notes
    <2>2. CASE Elapse
        <3>1. PICK u \in Tokens : GrowOld(u) \/ TermEnds(u) \/ CopyExpires(u)
            BY <2>2 DEF Elapse
        <3>2. {u} \in SUBSET Tokens
            OBVIOUS
        <3> QED
            BY <3>1, <3>2 DEF GrowOld, TermEnds, CopyExpires, rows, world, notes
    <2>3. CASE Restart
        BY <2>3 DEF Restart, rows
    <2> QED
        BY <2>1, <2>2, <2>3
<1>2. \A t \in closed : session'[t] = 0
    <2>1. \A t \in closed : session[t] = 0 /\ t \in Tokens
        BY <1>t DEF ClosedInv, NobodyBringsItBack, SessionsTypeOK
    <2>2. CASE UNCHANGED cache
        BY <2>1, <2>2 DEF cache
    <2>3. ASSUME NEW S \in SUBSET Tokens, Dropped(S) \/ CommandLost(S)
          PROVE  \A t \in closed : session'[t] = 0
        BY <1>t, <2>1, <2>3, DroppedType
    <2> QED
        BY <1>1, <2>2, <2>3
<1>3. ASSUME NEW p \in Requests
      PROVE  request'[p] \in {request[p], Idle}
    BY <1>1
<1>4. RemovedHasNoRow'
    <2>1. row'.token \in {row.token, Nil}
        BY <1>1 DEF NoRow
    <2> QED
        BY <1>1, <2>1, RemovedKept DEF RemovedHasNoRow
<1>5. NobodyBringsItBack'
    <2>1. closed' = closed
        BY <1>1 DEF history
    <2> SUFFICES ASSUME NEW t \in closed
                 PROVE  session'[t] = 0 /\ \A p \in Requests : ~Carries(request'[p], t)
        BY <2>1 DEF NobodyBringsItBack, Carries
    <2>2. \A p \in Requests : ~Carries(request[p], t)
        BY DEF ClosedInv, NobodyBringsItBack
    <2>3. ~Carries(Idle, t)
        BY IdleType DEF Carries, Storing
    <2> QED
        BY <1>2, <1>3, <2>2, <2>3
<1> QED
    BY <1>4, <1>5 DEF ClosedInv

\* Nothing is signed out at the start.
LEMMA ClosedInit == Init => ClosedInv
BY DEF Init, ClosedInv, RemovedHasNoRow, NobodyBringsItBack

\* Every step keeps the signed-out tokens out.
LEMMA ClosedNext == KnownInv /\ ClosedInv /\ [Next]_vars => ClosedInv'
<1> SUFFICES ASSUME KnownInv, ClosedInv, [Next]_vars PROVE ClosedInv'
    OBVIOUS
<1>1. ASSUME NEW q \in Requests, Proceed(q)
      PROVE  ClosedInv'
    BY <1>1, AuthenticationClosed, RenewClosed, HandleClosed, SignClosed DEF Proceed
<1>2. CASE UNCHANGED vars
    BY <1>2 DEF vars, ClosedInv, RemovedHasNoRow, NobodyBringsItBack, Carries
<1> QED
    BY <1>1, <1>2, ArriveClosed, ElsewhereClosed DEF Next, RunOn

(***************************************************************************)
(* Once removeSession has deleted the row and then the copy of a token, no *)
(* request was about to store a copy it had read and no sign-in with the   *)
(* token came between the two, the token stays without both until it signs *)
(* in again: whatever renewals, changes of network, late answers, restarts *)
(* and lost commands cross (removeSession, renewToken, changeNetwork).     *)
(***************************************************************************)
THEOREM SignedOutStaysOut == Spec => []SignedOutIsRefused
<1>1. KnownInv /\ ClosedInv => SignedOutIsRefused
    BY DEF KnownInv, SessionsTypeOK, ClosedInv, RemovedHasNoRow, NobodyBringsItBack, SignedOutIsRefused
<1> QED
    BY <1>1, KnownInit, KnownNext, ClosedInit, ClosedNext, PTL DEF Spec

-----------------------------------------------------------------------------
(***************************************************************************)
(* A renewal is not forgotten.                                             *)
(***************************************************************************)
\* The row of t has not ended, and there is a copy that should be as good.
Live(t) ==
    row.token = t /\ row.term > past[t] /\ session[t] > 0 /\ t \notin unsettled

\* The copy of t ends with the row or later, or is gone before it has ended.
Outlives(t) == session[t] >= row.term \/ (early[t] /\ session[t] > past[t])

\* A request that will read the row of t, whose term is as given, and store a
\* copy of it, or has read it and has the copy to store.
Covers(r, t, term) ==
    /\ r.token = t
    /\ \/ r.at = "renewRead"
       \/ r.at = "signRead"
       \/ r.at \in {"renewAdd", "reloaded", "signAdd"} /\ r.copy >= term
       \/ r.op = "update" /\ r.at \in {"get", "find", "hit", "found", "reload", "removeRow"}

\* The inductive invariant behind LiveTokenIsNotRefused.
RenewalInv ==
    \A t \in Tokens : Live(t) /\ ~Outlives(t)
                        => \E q \in Requests : Covers(request[q], t, row.term)

\* A step of one request: where it leaves a copy that does not outlive the row,
\* there was one before, and the request did not cover it.
LEMMA StepRenewal ==
    ASSUME RenewalInv, NEW q \in Requests, NEW new, Becomes(q, new),
           \A t \in Tokens :
              Live(t)' /\ ~Outlives(t)' /\ ~Covers(new, t, row'.term)
                => /\ Live(t) /\ ~Outlives(t) /\ row' = row
                   /\ ~Covers(request[q], t, row.term)
    PROVE  RenewalInv'
<1> SUFFICES ASSUME NEW t \in Tokens, Live(t)', ~Outlives(t)'
             PROVE  \E p \in Requests : Covers(request'[p], t, row'.term)
    BY DEF RenewalInv, Covers
<1>1. CASE Covers(new, t, row'.term)
    BY <1>1 DEF Becomes
<1>2. CASE ~Covers(new, t, row'.term)
    <2>1. PICK p \in Requests : Covers(request[p], t, row.term)
        BY <1>2 DEF RenewalInv
    <2>2. p # q /\ row' = row
        BY <1>2, <2>1
    <2>3. request'[p] = request[p]
        BY <2>2 DEF Becomes
    <2> QED
        BY <2>1, <2>2, <2>3
<1> QED
    BY <1>1, <1>2

\* A step that leaves row and cache alone: the request goes on covering its
\* token, or the token counts as unsettled, or its row has ended.
LEMMA MoveRenewal ==
    ASSUME RenewalInv, NEW q \in Requests, NEW new, Becomes(q, new),
           row' = row, past' = past, UNCHANGED cache, unsettled \subseteq unsettled',
           \A t \in Tokens : Covers(request[q], t, row.term) /\ Live(t)
              => Covers(new, t, row.term) \/ t \in unsettled'
    PROVE  RenewalInv'
<1>1. ASSUME NEW t \in Tokens, Live(t)', ~Outlives(t)', ~Covers(new, t, row'.term)
      PROVE  /\ Live(t) /\ ~Outlives(t) /\ row' = row
             /\ ~Covers(request[q], t, row.term)
    <2>1. Live(t) /\ ~Outlives(t) /\ t \notin unsettled'
        BY <1>1 DEF Live, Outlives, cache
    <2> QED
        BY <1>1, <2>1
<1> QED
    BY <1>1, StepRenewal

\* A SET leaves a copy that outlives the row, or an unsettled token.
LEMMA StoreRenewal ==
    ASSUME KnownInv, RenewalInv, NEW q \in Requests, NEW new, Becomes(q, new),
           request[q].token \in Tokens, NEW term \in Nat,
           row' = row, past' = past, Store(q, request[q].token, term)
    PROVE  RenewalInv'
<1>1. ASSUME NEW u \in Tokens, u = request[q].token
      PROVE  Live(u)' => Outlives(u)'
    <2>t. /\ session \in [Tokens -> Nat] /\ early \in [Tokens -> BOOLEAN]
          /\ row.term \in Nat /\ old[u] \in Nat /\ past[u] \in Nat
        BY DEF KnownInv, SessionsTypeOK
    <2>1. CASE Stored(q, u, term)
        <3>1. session'[u] = term /\ early'[u] = (term > old[u])
            BY <2>t, <2>1 DEF Stored
        <3>2. CASE term <= past[u] \/ (row.token = u /\ term # row.term /\ term <= old[u])
            BY <2>1, <3>2 DEF Stored, Live
        <3>3. CASE term > past[u] /\ (row.token # u \/ term = row.term \/ term > old[u])
            <4>1. CASE row.token # u
                BY <4>1 DEF Live
            <4>2. CASE term = row.term
                BY <2>t, <3>1, <4>2 DEF Outlives
            <4>3. CASE term > old[u]
                <5>1. early'[u]
                    BY <3>1, <4>3
                <5> QED
                    BY <3>1, <3>3, <5>1 DEF Outlives
            <4> QED
                BY <3>3, <4>1, <4>2, <4>3
        <3> QED
            BY <2>t, <3>2, <3>3
    <2>2. CASE CommandLost({u})
        BY <2>2 DEF CommandLost, Live
    <2> QED
        BY <1>1, <2>1, <2>2 DEF Store
<1>2. ASSUME NEW t \in Tokens, t # request[q].token
      PROVE  /\ session'[t] = session[t] /\ early'[t] = early[t]
             /\ t \in unsettled' <=> t \in unsettled
    <2>1. session \in [Tokens -> Nat] /\ early \in [Tokens -> BOOLEAN]
        BY DEF KnownInv, SessionsTypeOK
    <2>2. CASE Stored(q, request[q].token, term)
        BY <1>2, <2>1, <2>2 DEF Stored
    <2>3. CASE CommandLost({request[q].token})
        BY <1>2, <2>3 DEF CommandLost, cache
    <2> QED
        BY <2>2, <2>3 DEF Store
<1>3. ASSUME NEW t \in Tokens, Live(t)', ~Outlives(t)'
      PROVE  /\ Live(t) /\ ~Outlives(t) /\ ~Covers(request[q], t, row.term)
    <2>1. t # request[q].token
        BY <1>1, <1>3
    <2>2. /\ session'[t] = session[t] /\ early'[t] = early[t]
          /\ t \in unsettled' <=> t \in unsettled
        BY <1>2, <2>1
    <2> QED
        BY <1>3, <2>1, <2>2 DEF Live, Outlives, Covers
<1> QED
    BY <1>3, StepRenewal

\* getSession and what follows it in the same turn.
LEMMA PutBackRenewal ==
    ASSUME KnownInv, RenewalInv, NEW q \in Requests, NEW new, Becomes(q, new),
           request[q].at \in {"hit", "found"},
           row' = row, past' = past, PutBack(q),
           \A t \in Tokens : Covers(request[q], t, row.term) => Covers(new, t, row.term)
    PROVE  RenewalInv'
<1>1. request[q].token \in Tokens /\ request[q].copy \in Nat
    BY HasToken
<1>2. CASE request[q].at = "found"
    BY <1>1, <1>2, StoreRenewal DEF PutBack, Is
<1>3. CASE request[q].at # "found"
    BY <1>3, MoveRenewal DEF PutBack, Is
<1> QED
    BY <1>2, <1>3

\* The records the steps make of a request.
LEMMA MoveTo ==
    ASSUME KnownInv, NEW q \in Requests, NEW step \in Steps, NEW term \in Nat,
           Goto(q, step) \/ Take(q, step, term)
    PROVE  \E new \in Request :
              /\ Becomes(q, new)
              /\ new.at = step /\ new.token = request[q].token /\ new.op = request[q].op
              /\ new.copy \in {term, request[q].copy}
              /\ Take(q, step, term) => new.copy = term
<1>1. SessionsTypeOK
    BY DEF KnownInv
<1>2. CASE Take(q, step, term)
    BY <1>1, <1>2, TakeType
<1>3. CASE Goto(q, step) /\ ~Take(q, step, term)
    BY <1>1, <1>3, GotoType
<1> QED
    BY <1>2, <1>3

\* A live row is what findToken finds.
LEMMA LiveIsFound ==
    ASSUME KnownInv, NEW t \in Tokens, Live(t)
    PROVE  LiveTerm(t) = row.term /\ row.term # 0
BY DEF Live, LiveTerm, KnownInv, SessionsTypeOK

\* Every step of a request.
LEMMA AuthenticationRenewal ==
    ASSUME KnownInv, RenewalInv, NEW q \in Requests,
           \/ GetSession(q) \/ FindOnDatabase(q)
           \/ Refuse(q) \/ Accept(q) \/ AcceptAndRenew(q)
    PROVE  RenewalInv'
<1> DEFINE t == request[q].token
<1>s. {"hit", "find", "found", "handler", "renewSave"} \subseteq Steps
    BY DEF Steps
<1>1. CASE GetSession(q)
    <2>1. /\ request[q].at = "get" /\ row' = row /\ past' = past
          /\ UNCHANGED cache /\ unsettled' = unsettled
        BY <1>1 DEF GetSession, Is, rows, world
    <2>2. session[t] \in Nat
        BY <2>1, HasToken DEF KnownInv, SessionsTypeOK
    <2>3. PICK new \in Request : /\ Becomes(q, new) /\ new.at \in {"hit", "find"}
                                 /\ new.token = t /\ new.op = request[q].op
        BY <1>1, <1>s, <2>2, MoveTo DEF GetSession
    <2> QED
        BY <2>1, <2>3, MoveRenewal DEF Covers
<1>2. CASE FindOnDatabase(q)
    <2>1. /\ request[q].at = "find" /\ row' = row /\ past' = past
          /\ UNCHANGED cache /\ unsettled' = unsettled
        BY <1>2 DEF FindOnDatabase, Is, rows, world, notes
    <2>2. LiveTerm(t) \in Nat
        BY <2>1, HasToken, LiveTermType DEF KnownInv
    <2>3. PICK new \in Request : /\ Becomes(q, new) /\ new.at \in {"hit", "found"}
                                 /\ new.token = t /\ new.op = request[q].op
        BY <1>2, <1>s, <2>2, MoveTo DEF FindOnDatabase
    <2> QED
        BY <2>1, <2>3, MoveRenewal DEF Covers
<1>3. ASSUME Refuse(q) \/ Accept(q) \/ AcceptAndRenew(q)
      PROVE  RenewalInv'
    <2>1. /\ request[q].at \in {"hit", "found"} /\ request[q].op = "auth"
          /\ row' = row /\ past' = past /\ PutBack(q)
        BY <1>3 DEF Refuse, Accept, AcceptAndRenew, HasSession, rows, world
    <2>2. Done(q) \/ Take(q, "handler", 0) \/ Take(q, "renewSave", 0)
        BY <1>3 DEF Refuse, Accept, AcceptAndRenew
    <2>3. PICK new \in Request : Becomes(q, new)
        BY <1>s, <2>2, MoveTo, DoneType, IdleType DEF KnownInv
    <2>4. \A u \in Tokens : ~Covers(request[q], u, row.term)
        BY <2>1 DEF Covers
    <2> QED
        BY <2>1, <2>3, <2>4, PutBackRenewal
<1> QED
    BY <1>1, <1>2, <1>3

\* A renewal leaves the copy of a living row alive.
LEMMA RenewRenewal ==
    ASSUME KnownInv, RenewalInv, NEW q \in Requests, Renew(q)
    PROVE  RenewalInv'
<1> DEFINE t == request[q].token
<1>s. {"renewRead", "handler", "renewAdd"} \subseteq Steps
    BY DEF Steps
<1>1. CASE RenewSave(q)
    <2>1. /\ request[q].at = "renewSave" /\ past' = past
          /\ UNCHANGED cache /\ unsettled' = unsettled
          /\ row.token # t => row' = row
        BY <1>1 DEF RenewSave, Is, rows, world, notes
    <2>t. row.token = t => row'.token = t
        BY <1>1, <2>1, HasToken, GrantType DEF RenewSave, KnownInv
    <2>2. PICK new \in Request : Becomes(q, new) /\ new.at = "renewRead" /\ new.token = t
        BY <1>1, <1>s, MoveTo DEF RenewSave
    <2>3. ASSUME NEW u \in Tokens, Live(u)', ~Outlives(u)', ~Covers(new, u, row'.term)
          PROVE  Live(u) /\ ~Outlives(u) /\ row' = row /\ ~Covers(request[q], u, row.term)
        <3>1. u # t /\ row' = row
            BY <2>1, <2>t, <2>2, <2>3 DEF Covers, Live
        <3> QED
            BY <2>1, <2>3, <3>1 DEF Live, Outlives, Covers, cache
    <2> QED
        BY <2>2, <2>3, StepRenewal
<1>2. CASE RenewFails(q)
    <2>1. /\ row' = row /\ past' = past /\ UNCHANGED cache
          /\ unsettled' = unsettled \cup {t} /\ Goto(q, "handler")
        BY <1>2 DEF RenewFails, rows, world
    <2>2. PICK new \in Request : Becomes(q, new)
        BY <1>s, <2>1, MoveTo
    <2> QED
        BY <2>1, <2>2, MoveRenewal DEF Covers
<1>3. CASE RenewRead(q)
    <2>1. /\ request[q].at = "renewRead" /\ row' = row /\ past' = past
          /\ UNCHANGED cache /\ unsettled' = unsettled
        BY <1>3 DEF RenewRead, Is, rows, world, notes
    <2>2. t \in Tokens /\ LiveTerm(t) \in Nat
        BY <2>1, HasToken, LiveTermType DEF KnownInv
    <2>3. PICK new \in Request :
             /\ Becomes(q, new) /\ new.token = t /\ new.copy = LiveTerm(t)
             /\ new.at = IF LiveTerm(t) = 0 THEN "handler" ELSE "renewAdd"
        BY <1>3, <1>s, <2>2, MoveTo DEF RenewRead
    <2>4. ASSUME NEW u \in Tokens, Covers(request[q], u, row.term), Live(u)
          PROVE  Covers(new, u, row.term)
        <3>1. u = t /\ LiveTerm(t) = row.term /\ row.term # 0
            BY <2>4, LiveIsFound DEF Covers
        <3> QED
            BY <2>2, <2>3, <3>1 DEF Covers
    <2> QED
        BY <2>1, <2>3, <2>4, MoveRenewal
<1>4. CASE RenewAdd(q)
    <2>1. /\ request[q].at = "renewAdd" /\ row' = row /\ past' = past
          /\ Store(q, t, request[q].copy) /\ Take(q, "handler", 0)
        BY <1>4 DEF RenewAdd, Is, rows, world
    <2>2. PICK new \in Request : Becomes(q, new)
        BY <1>s, <2>1, MoveTo
    <2> QED
        BY <2>1, <2>2, HasToken, StoreRenewal
<1> QED
    BY <1>1, <1>2, <1>3, <1>4 DEF Renew

\* Authentication and the handlers leave the copy of a living row alive.
LEMMA HandleRenewal ==
    ASSUME KnownInv, RenewalInv, NEW q \in Requests, Handle(q)
    PROVE  RenewalInv'
<1> DEFINE t == request[q].token
<1>t. SessionsTypeOK /\ request \in [Requests -> Request]
    BY DEF KnownInv, SessionsTypeOK, Request
<1>s. {"get", "reload", "reloaded", "removeRow", "networkSave"} \subseteq Steps
    BY DEF Steps
<1>o. Is(q, "handler") => \A u \in Tokens : ~Covers(request[q], u, row.term)
    BY DEF Is, Covers
<1>1. CASE Answer(q)
    <2>1. /\ row' = row /\ past' = past /\ UNCHANGED cache /\ unsettled' = unsettled
          /\ Becomes(q, Idle)
        BY <1>1, <1>t, DoneType DEF Answer, rows, world, notes
    <2> QED
        BY <1>1, <1>o, <2>1, MoveRenewal DEF Answer
<1>2. ASSUME NEW op \in {"update", "settings"}, UseSession(q, op)
      PROVE  RenewalInv'
    <2>1. [request[q] EXCEPT !.at = "get", !.op = op] \in Request
        BY <1>t DEF Request, Operations, Steps
    <2>2. request' = [request EXCEPT ![q] = [request[q] EXCEPT !.at = "get", !.op = op]]
        BY <1>2, <1>t DEF UseSession
    <2>3. PICK new \in Request : Becomes(q, new)
        BY <1>t, <2>1, <2>2, BecomesType
    <2>4. row' = row /\ past' = past /\ UNCHANGED cache /\ unsettled' = unsettled
        BY <1>2 DEF UseSession, rows, world, notes
    <2> QED
        BY <1>2, <1>o, <2>3, <2>4, MoveRenewal DEF UseSession
<1>3. CASE PutSettings(q)
    <2>1. /\ request[q].at \in {"hit", "found"} /\ request[q].op = "settings"
          /\ row' = row /\ past' = past /\ Becomes(q, Idle)
          /\ \/ UNCHANGED cache /\ unsettled' = unsettled
             \/ Store(q, t, request[q].copy)
        BY <1>3, <1>t, DoneType DEF PutSettings, HasSession, rows, world
    <2>2. \A u \in Tokens : ~Covers(request[q], u, row.term)
        BY <2>1 DEF Covers
    <2>3. t \in Tokens /\ request[q].copy \in Nat
        BY <2>1, HasToken
    <2> QED
        BY <2>1, <2>2, <2>3, MoveRenewal, StoreRenewal
<1>4. CASE NetworkFind(q)
    <2> DEFINE new == [request[q] EXCEPT !.at = "networkSave", !.token = row.token,
                                         !.copy = row.term]
    <2>1. new \in Request
        <3>1. request[q] \in Request /\ row.token \in Tokens \cup {Nil} /\ row.term \in Nat
            BY <1>t DEF SessionsTypeOK
        <3> QED
            BY <3>1 DEF Request, Steps
    <2>2. request' = [request EXCEPT ![q] = new]
        BY <1>4, <1>t DEF NetworkFind
    <2> HIDE DEF new
    <2>3. Becomes(q, new)
        BY <1>t, <2>1, <2>2, BecomesType
    <2>4. row' = row /\ past' = past /\ UNCHANGED cache /\ unsettled' = unsettled
        BY <1>4 DEF NetworkFind, rows, world, notes
    <2> QED
        BY <1>4, <1>o, <2>3, <2>4, MoveRenewal DEF NetworkFind
<1>5. CASE NetworkSave(q)
    <2>1. /\ request[q].at = "networkSave" /\ past' = past
          /\ UNCHANGED cache /\ unsettled' = unsettled
          /\ row.token # t => row' = row
          /\ row.token = t => row'.token = t
        BY <1>5 DEF NetworkSave, Is, world, notes
    <2>2. \E new \in Request :
             /\ Becomes(q, new)
             /\ row.token = t => new.token = t /\ new.at = "get" /\ new.op = "update"
        <3>1. CASE Done(q) /\ row.token # t
            BY <1>t, <3>1, DoneType, IdleType
        <3>2. CASE request' = [request EXCEPT ![q].at = "get", ![q].op = "update", ![q].copy = 0]
            <4> DEFINE new == [request[q] EXCEPT !.at = "get", !.op = "update", !.copy = 0]
            <4>1. new \in Request /\ new.token = t /\ new.at = "get" /\ new.op = "update"
                BY <1>t DEF Request, Steps, Operations
            <4>2. request' = [request EXCEPT ![q] = new]
                BY <1>t, <3>2
            <4> HIDE DEF new
            <4>3. Becomes(q, new)
                BY <1>t, <4>1, <4>2, BecomesType
            <4> QED
                BY <4>1, <4>3
        <3> QED
            BY <1>5, <3>1, <3>2 DEF NetworkSave
    <2>3. PICK new \in Request :
             /\ Becomes(q, new)
             /\ row.token = t => new.token = t /\ new.at = "get" /\ new.op = "update"
        BY <2>2
    <2>4. ASSUME NEW u \in Tokens, Live(u)', ~Outlives(u)', ~Covers(new, u, row'.term)
          PROVE  Live(u) /\ ~Outlives(u) /\ row' = row /\ ~Covers(request[q], u, row.term)
        <3>1. row.token # t /\ row' = row
            BY <2>1, <2>3, <2>4 DEF Covers, Live
        <3> QED
            BY <2>1, <2>4, <3>1 DEF Live, Outlives, Covers, cache
    <2> QED
        BY <2>3, <2>4, StepRenewal
<1>6. CASE UpdateSession(q)
    <2>1. /\ request[q].at \in {"hit", "found"} /\ request[q].op = "update"
          /\ row' = row /\ past' = past /\ PutBack(q)
          /\ Take(q, "removeRow", 0) \/ Take(q, "reload", 0)
        BY <1>6 DEF UpdateSession, HasSession, rows, world
    <2>2. PICK new \in Request : /\ Becomes(q, new) /\ new.at \in {"removeRow", "reload"}
                                 /\ new.token = t /\ new.op = "update"
        BY <1>s, <2>1, MoveTo
    <2>3. \A u \in Tokens : Covers(request[q], u, row.term) => Covers(new, u, row.term)
        BY <2>2 DEF Covers
    <2> QED
        BY <2>1, <2>2, <2>3, PutBackRenewal
<1>7. CASE Reload(q)
    <2>1. /\ request[q].at = "reload" /\ row' = row /\ past' = past
          /\ UNCHANGED cache /\ unsettled' = unsettled
        BY <1>7 DEF Reload, Is, rows, world, notes
    <2>2. t \in Tokens /\ LiveTerm(t) \in Nat
        BY <1>t, <2>1, HasToken, LiveTermType
    <2>3. PICK new \in Request :
             /\ Becomes(q, new)
             /\ LiveTerm(t) # 0 => /\ new.token = t /\ new.copy = LiveTerm(t)
                                   /\ new.at = "reloaded"
        BY <1>7, <1>s, <1>t, <2>2, MoveTo, DoneType, IdleType DEF Reload
    <2>4. ASSUME NEW u \in Tokens, Covers(request[q], u, row.term), Live(u)
          PROVE  Covers(new, u, row.term)
        <3>1. u = t /\ LiveTerm(t) = row.term /\ row.term # 0
            BY <2>4, LiveIsFound DEF Covers
        <3> QED
            BY <2>2, <2>3, <3>1 DEF Covers
    <2> QED
        BY <2>1, <2>3, <2>4, MoveRenewal
<1>8. CASE AddReloaded(q)
    <2>1. /\ request[q].at = "reloaded" /\ row' = row /\ past' = past
          /\ Store(q, t, request[q].copy) /\ Becomes(q, Idle)
        BY <1>8, <1>t, DoneType DEF AddReloaded, Is, rows, world
    <2> QED
        BY <2>1, HasToken, StoreRenewal
<1> QED
    BY <1>1, <1>2, <1>3, <1>4, <1>5, <1>6, <1>7, <1>8 DEF Handle

\* A row that goes leaves no copy to be wrong, and a sign-in brings its copy.
LEMMA SignRenewal ==
    ASSUME KnownInv, RenewalInv, NEW q \in Requests,
           Revoke(q) \/ Insert(q) \/ SignRead(q) \/ SignAdd(q) \/ RemoveRow(q) \/ RemoveCopy(q)
    PROVE  RenewalInv'
<1> DEFINE t == request[q].token
<1>t. SessionsTypeOK /\ Nil \notin Tokens
    BY BoundsType DEF KnownInv
<1>s. {"insert", "signRead", "signAdd", "removeCopy", "reload"} \subseteq Steps
    BY DEF Steps
<1>1. CASE Revoke(q)
    <2>1. row' = NoRow /\ Goto(q, "insert")
        BY <1>1 DEF Revoke
    <2>2. PICK new \in Request : Becomes(q, new)
        BY <1>s, <2>1, MoveTo
    <2>3. \A u \in Tokens : ~Live(u)'
        BY <1>t, <2>1 DEF Live, NoRow
    <2> QED
        BY <2>2, <2>3, StepRenewal
<1>2. CASE Insert(q)
    <2>1. request[q].at = "insert" /\ past' = past /\ UNCHANGED cache /\ unsettled' = unsettled
        BY <1>2 DEF Insert, Is, world
    <2>2. CASE Done(q) /\ row' = row
        <3>1. Becomes(q, Idle)
            BY <1>t, <2>2, DoneType
        <3> QED
            BY <2>1, <2>2, <3>1, MoveRenewal DEF Covers
    <2>3. CASE Grant(t) /\ Goto(q, "signRead")
        <3>1. PICK new \in Request : Becomes(q, new) /\ new.at = "signRead" /\ new.token = t
            BY <1>s, <1>t, <2>3, GotoType
        <3>2. row'.token = t
            BY <1>t, <2>1, <2>3, HasToken, GrantType
        <3>3. \A u \in Tokens : Live(u)' => Covers(new, u, row'.term)
            BY <3>1, <3>2 DEF Live, Covers
        <3> QED
            BY <3>1, <3>3, StepRenewal
    <2> QED
        BY <1>2, <2>2, <2>3 DEF Insert, rows
<1>3. CASE SignRead(q)
    <2>1. /\ request[q].at = "signRead" /\ row' = row /\ past' = past
          /\ UNCHANGED cache /\ unsettled' = unsettled
        BY <1>3 DEF SignRead, Is, rows, world, notes
    <2>2. t \in Tokens /\ LiveTerm(t) \in Nat
        BY <1>t, <2>1, HasToken, LiveTermType
    <2>3. PICK new \in Request :
             /\ Becomes(q, new)
             /\ LiveTerm(t) # 0 => /\ new.token = t /\ new.copy = LiveTerm(t)
                                   /\ new.at = "signAdd"
        BY <1>3, <1>s, <1>t, <2>2, MoveTo, DoneType, IdleType DEF SignRead
    <2>4. ASSUME NEW u \in Tokens, Covers(request[q], u, row.term), Live(u)
          PROVE  Covers(new, u, row.term)
        <3>1. u = t /\ LiveTerm(t) = row.term /\ row.term # 0
            BY <2>4, LiveIsFound DEF Covers
        <3> QED
            BY <2>2, <2>3, <3>1 DEF Covers
    <2> QED
        BY <2>1, <2>3, <2>4, MoveRenewal
<1>4. CASE SignAdd(q)
    <2>1. /\ request[q].at = "signAdd" /\ row' = row /\ past' = past
          /\ Store(q, t, request[q].copy) /\ Becomes(q, Idle)
        BY <1>4, <1>t, DoneType DEF SignAdd, Is, rows, world
    <2> QED
        BY <2>1, HasToken, StoreRenewal
<1>5. CASE RemoveRow(q)
    <2>1. /\ request[q].at = "removeRow" /\ row' = RowWithout(t) /\ past' = past
          /\ UNCHANGED cache /\ unsettled' = unsettled /\ Goto(q, "removeCopy")
        BY <1>5 DEF RemoveRow, Is, world, notes
    <2>2. PICK new \in Request : Becomes(q, new)
        BY <1>s, <2>1, MoveTo
    <2>3. ASSUME NEW u \in Tokens, Live(u)', ~Outlives(u)'
          PROVE  Live(u) /\ ~Outlives(u) /\ row' = row /\ ~Covers(request[q], u, row.term)
        <3>1. row.token # t /\ row' = row /\ row.token = u
            BY <1>t, <2>1, <2>3 DEF RowWithout, NoRow, Live
        <3> QED
            BY <2>1, <2>3, <3>1 DEF Live, Outlives, Covers, cache
    <2> QED
        BY <2>2, <2>3, StepRenewal
<1>6. CASE RemoveCopy(q)
    <2>1. /\ request[q].at = "removeCopy" /\ row' = row /\ past' = past
          /\ Goto(q, "reload") \/ Done(q)
          /\ Dropped({t}) \/ CommandLost({t})
        BY <1>6 DEF RemoveCopy, AfterRemoval, Is, rows, world
    <2>2. PICK new \in Request : Becomes(q, new)
        BY <1>s, <1>t, <2>1, MoveTo, DoneType, IdleType
    <2>3. \A u \in Tokens : ~Covers(request[q], u, row.term)
        BY <2>1 DEF Covers
    <2>4. ASSUME NEW u \in Tokens, Live(u)', ~Outlives(u)'
          PROVE  Live(u) /\ ~Outlives(u)
        <3>1. CASE Dropped({t})
            <4>1. session' = [v \in Tokens |-> IF v = t THEN 0 ELSE session[v]]
                  /\ early' = [v \in Tokens |-> IF v = t THEN FALSE ELSE early[v]]
                  /\ unsettled' = unsettled \ {t}
                BY <3>1 DEF Dropped
            <4>2. u # t
                BY <2>4, <4>1 DEF Live
            <4>3. session'[u] = session[u] /\ early'[u] = early[u] /\ u \notin unsettled
                BY <2>4, <4>1, <4>2 DEF Live
            <4> QED
                BY <2>1, <2>4, <4>3 DEF Live, Outlives
        <3>2. CASE CommandLost({t})
            BY <2>1, <2>4, <3>2 DEF CommandLost, cache, Live, Outlives
        <3> QED
            BY <2>1, <3>1, <3>2
    <2> QED
        BY <2>1, <2>2, <2>3, <2>4, StepRenewal
<1> QED
    BY <1>1, <1>2, <1>3, <1>4, <1>5, <1>6

\* A request that arrives leaves the copy of a living row alive.
LEMMA ArriveRenewal ==
    ASSUME KnownInv, RenewalInv, NEW q \in Requests, Arrive(q)
    PROVE  RenewalInv'
<1>1. PICK t \in Tokens : Authenticate(q, t) \/ SignIn(q, t) \/ SignOut(q, t)
    BY DEF Arrive
<1>2. /\ request[q].at = "idle" /\ row' = row /\ past' = past
      /\ UNCHANGED cache /\ unsettled' = unsettled
    BY <1>1 DEF Authenticate, SignIn, SignOut, Is, rows, notes
<1>3. \E new \in Request : request' = [request EXCEPT ![q] = new]
    <2>1. /\ [at |-> "get", op |-> "auth", token |-> t, copy |-> 0] \in Request
          /\ [at |-> "revoke", op |-> "signIn", token |-> t, copy |-> 0] \in Request
          /\ [at |-> "removeRow", op |-> "signOut", token |-> t, copy |-> 0] \in Request
        BY DEF Request, Steps, Operations
    <2> QED
        BY <1>1, <2>1 DEF Authenticate, SignIn, SignOut
<1>4. PICK new \in Request : Becomes(q, new)
    BY <1>3, BecomesType DEF KnownInv
<1>5. \A u \in Tokens : ~Covers(request[q], u, row.term)
    BY <1>2, BoundsType DEF Covers, KnownInv, RequestsKnow, Knows
<1> QED
    BY <1>2, <1>4, <1>5, MoveRenewal

\* A copy that was stored early is gone when its term ends; a restart leaves the
\* tokens of all requests unsettled.
LEMMA ElsewhereRenewal ==
    ASSUME KnownInv, RenewalInv, Clean \/ Elapse \/ Restart
    PROVE  RenewalInv'
<1>t. SessionsTypeOK /\ Nil \notin Tokens
    BY BoundsType DEF KnownInv
<1>1. ASSUME request' = request,
             \A t \in Tokens : Live(t)' /\ ~Outlives(t)' => Live(t) /\ ~Outlives(t) /\ row' = row
      PROVE  RenewalInv'
    BY <1>1 DEF RenewalInv, Covers
<1>2. CASE Clean
    <2>1. /\ request' = request /\ past' = past /\ row' \in {row, NoRow}
          /\ \/ UNCHANGED cache /\ unsettled' = unsettled
             \/ Dropped(cleaner.found) \/ CommandLost(cleaner.found)
        BY <1>2 DEF Clean, CleanerFinds, CleanerDeletes, CleanerDeletesUnseen, CleanerDrops,
                    rows, world, notes
    <2>2. ASSUME NEW t \in Tokens, Live(t)', ~Outlives(t)'
          PROVE  Live(t) /\ ~Outlives(t) /\ row' = row
        <3>1. row' = row
            BY <1>t, <2>1, <2>2 DEF Live, NoRow
        <3>2. CASE UNCHANGED cache /\ unsettled' = unsettled
            BY <2>1, <2>2, <3>1, <3>2 DEF cache, Live, Outlives
        <3>3. CASE Dropped(cleaner.found)
            BY <1>t, <2>1, <2>2, <3>1, <3>3 DEF Dropped, Live, Outlives, SessionsTypeOK
        <3>4. CASE CommandLost(cleaner.found)
            BY <2>1, <2>2, <3>1, <3>4 DEF CommandLost, cache, Live, Outlives
        <3> QED
            BY <2>1, <3>1, <3>2, <3>3, <3>4
    <2> QED
        BY <1>1, <2>1, <2>2
<1>3. CASE Elapse
    <2>1. PICK u \in Tokens : GrowOld(u) \/ TermEnds(u) \/ CopyExpires(u)
        BY <1>3 DEF Elapse
    <2>2. request' = request /\ row' = row
        BY <2>1 DEF GrowOld, TermEnds, CopyExpires, rows
    <2>3. ASSUME NEW t \in Tokens, Live(t)', ~Outlives(t)'
          PROVE  Live(t) /\ ~Outlives(t)
        <3>1. CASE GrowOld(u)
            BY <2>3, <3>1 DEF GrowOld, rows, cache, notes, Live, Outlives
        <3>2. CASE CopyExpires(u)
            BY <1>t, <2>3, <3>2 DEF CopyExpires, Dropped, rows, world, Live, Outlives, SessionsTypeOK
        <3>3. CASE TermEnds(u)
            <4>1. /\ row' = row /\ session' = session /\ early' = early /\ unsettled' = unsettled
                  /\ past' = [past EXCEPT ![u] = @ + 1]
                  /\ ~(session[u] = past[u] + 1 /\ early[u])
                BY <3>3 DEF TermEnds, rows, cache, notes
            <4>2. row.term \in Nat /\ past \in [Tokens -> Nat] /\ session \in [Tokens -> Nat]
                BY <1>t DEF SessionsTypeOK
            <4>3. past'[t] = past[t] \/ (t = u /\ past'[t] = past[t] + 1)
                BY <4>1, <4>2
            <4>4. Live(t)
                BY <2>3, <4>1, <4>2, <4>3 DEF Live
            <4>5. CASE ~early[t]
                BY <2>3, <4>1, <4>4, <4>5 DEF Outlives
            <4>6. CASE early[t]
                <5>1. session[t] < row.term /\ session[t] <= past'[t]
                    BY <2>3, <4>1, <4>2, <4>3, <4>6 DEF Outlives
                <5>2. session[t] <= past[t]
                    BY <4>1, <4>2, <4>3, <4>6, <5>1
                <5> QED
                    BY <4>2, <4>4, <5>1, <5>2 DEF Outlives
            <4> QED
                BY <4>5, <4>6
        <3> QED
            BY <2>1, <3>1, <3>2, <3>3
    <2> QED
        BY <1>1, <2>2, <2>3
<1>4. CASE Restart
    <2>1. /\ row' = row /\ past' = past /\ UNCHANGED cache
          /\ unsettled' = unsettled \cup {t \in Tokens : \E q \in Requests : request[q].token = t}
        BY <1>4 DEF Restart, rows, world
    <2>2. ASSUME NEW t \in Tokens, Live(t)', ~Outlives(t)'
          PROVE  FALSE
        <3>1. Live(t) /\ ~Outlives(t) /\ \A q \in Requests : request[q].token # t
            BY <2>1, <2>2 DEF cache, Live, Outlives
        <3> QED
            BY <3>1 DEF RenewalInv, Covers
    <2> QED
        BY <2>2 DEF RenewalInv
<1> QED
    BY <1>2, <1>3, <1>4

\* No row lives at the start.
LEMMA RenewalInit == Init => RenewalInv
BY DEF Init, RenewalInv, Live

\* Every step leaves the copy of a living row alive.
LEMMA RenewalNext == KnownInv /\ RenewalInv /\ [Next]_vars => RenewalInv'
<1> SUFFICES ASSUME KnownInv, RenewalInv, [Next]_vars PROVE RenewalInv'
    OBVIOUS
<1>1. ASSUME NEW q \in Requests, Proceed(q)
      PROVE  RenewalInv'
    BY <1>1, AuthenticationRenewal, RenewRenewal, HandleRenewal, SignRenewal DEF Proceed
<1>2. CASE UNCHANGED vars
    BY <1>2 DEF vars, RenewalInv, Live, Outlives, Covers
<1> QED
    BY <1>1, <1>2, ArriveRenewal, ElsewhereRenewal DEF Next, RunOn

(***************************************************************************)
(* A renewal is not forgotten: while the row of a token has not ended and  *)
(* no request is under way for it, the copy that authentication believes   *)
(* has not ended either, however renewals, changes of network and late     *)
(* answers crossed, unless a command failed or an older copy was stored in *)
(* its last 40 minutes (recoverToken, renewToken, updateSession).          *)
(***************************************************************************)
THEOREM RenewalIsNotForgotten == Spec => []LiveTokenIsNotRefused
<1>1. KnownInv /\ RenewalInv => LiveTokenIsNotRefused
    <2> SUFFICES ASSUME KnownInv, RenewalInv, NEW t \in Tokens,
                        row.token = t, row.term > past[t], session[t] > 0,
                        t \notin unsettled, ~Busy(t)
                 PROVE  session[t] > past[t]
        BY DEF LiveTokenIsNotRefused
    <2>1. Outlives(t)
        BY DEF RenewalInv, Live, Covers, Busy
    <2>2. row.term \in Nat /\ past[t] \in Nat /\ session[t] \in Nat
        BY DEF KnownInv, SessionsTypeOK
    <2> QED
        BY <2>1, <2>2 DEF Outlives
<1> QED
    BY <1>1, KnownInit, KnownNext, RenewalInit, RenewalNext, PTL DEF Spec
=============================================================================
