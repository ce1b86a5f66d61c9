------------------------------ MODULE Sessions ------------------------------
(***************************************************************************)
(* The sessions of one user (packages/api: server/storage/session.ts,      *)
(* modules/auth/services.ts, utils/token/utils.ts): the row of user_tokens *)
(* that says which token the user is signed in with and until when, and    *)
(* the copies of it that Redis keeps, which is where requests look first.  *)
(*                                                                         *)
(* Every sign-in and every renewal gives a token a term, expired_at.  The  *)
(* terms of a token are numbered in the order they end, so a term with a   *)
(* larger number ends later; 0 stands for no term.                         *)
(***************************************************************************)
EXTENDS Naturals, FiniteSets

CONSTANTS Tokens,      \* the tokens (signatures) the user signs in with
          Requests,    \* the places of the requests the API serves at the same time
          MaxTerms,    \* bound: token -> the last of the ends its terms have
          MaxArrivals, \* bound: requests
          MaxFailures, \* bound: failures of Redis, the database or the API
          Nil

ASSUME SessionAssumption ==
  /\ MaxTerms \in [Tokens -> Nat \ {0}] /\ MaxArrivals \in Nat /\ MaxFailures \in Nat
  /\ Requests \subseteq Nat /\ Nil \notin Tokens

VARIABLES row,        \* the user's row of user_tokens (user_id is UNIQUE), or no row
          session,    \* token -> the term of the copy in Redis, 0 when there is none
          early,      \* token -> that copy was stored 40 minutes or more before its end
          issued,     \* token -> the term that ends last of those it was given
          old,        \* token -> its terms up to this one have less than 40 minutes left
          past,       \* token -> its terms up to this one have ended
          request,    \* request -> where it is, for which token, with which copy
          cleaner,    \* the job that clears expired tokens every minute
          removed,    \* history: tokens whose row was removed, until they sign in again
          closed,     \* history: those whose copy was then removed and met nobody
          unsettled,  \* history: tokens whose copy was not brought up to date
          arrivals,   \* requests that have come so far
          failures    \* commands and queries that failed, and restarts, so far

rows  == <<row, issued>>
cache == <<session, early>>
world == <<old, past, arrivals>>
history == <<removed, closed>>
notes == <<history, unsettled, failures>>
vars == <<row, session, early, issued, old, past, request, cleaner,
          removed, closed, unsettled, arrivals, failures>>

NoRow == [token |-> Nil, term |-> 0]
Idle  == [at |-> "idle", op |-> "auth", token |-> Nil, copy |-> 0]
Waits == [at |-> "wait", found |-> {}]

Init ==
  /\ row = NoRow
  /\ session = [t \in Tokens |-> 0] /\ early = [t \in Tokens |-> FALSE]
  /\ issued = [t \in Tokens |-> 0]
  /\ old = [t \in Tokens |-> 0] /\ past = [t \in Tokens |-> 0]
  /\ request = [q \in Requests |-> Idle] /\ cleaner = Waits
  /\ removed = {} /\ closed = {} /\ unsettled = {} /\ arrivals = 0 /\ failures = 0

-----------------------------------------------------------------------------
(* What a request can be doing, and the queries and commands it sends.      *)

Is(q, step) == request[q].at = step
Goto(q, step) == request' = [request EXCEPT ![q].at = step]
Take(q, step, term) == request' = [request EXCEPT ![q].at = step, ![q].copy = term]
Done(q) == request' = [request EXCEPT ![q] = Idle]

\* AuthService.findToken: the term of the token's row, unless it has ended.
LiveTerm(t) == IF row.token = t /\ row.term > past[t] THEN row.term ELSE 0

\* Mutant: the row is blanked instead of deleted.
RowBlanked(t) == IF row.token = t THEN [row EXCEPT !.token = Nil] ELSE row

\* A row of t with a new term.  It has 40 minutes or more left; of two requests
\* that give one at the same time, the one that comes last may give the shorter.
Grant(t) ==
  \E term \in (old[t] + 1)..MaxTerms[t] :
    /\ row' = [token |-> t, term |-> term]
    /\ issued' = [issued EXCEPT ![t] = IF term > issued[t] THEN term ELSE issued[t]]

\* DELETE FROM user_tokens WHERE token = t.
RowWithout(t) == IF row.token = t THEN NoRow ELSE row

\* RedisWriteClient.set with its 40 minutes.  What a request read before may be
\* older than the row by now; stored early it is gone again before it has ended.
Stored(q, t, term) ==
  /\ session' = [session EXCEPT ![t] = term]
  /\ early' = [early EXCEPT ![t] = term > old[t]]
  /\ unsettled' = IF \/ row.token = t /\ term # row.term /\ term <= old[t]
                     \/ term <= past[t]
                  THEN unsettled \cup {t} ELSE unsettled \ {t}
  /\ UNCHANGED failures

\* A failure outside of the API: MaxFailures of them.
Fail == failures < MaxFailures /\ failures' = failures + 1

\* An error of Redis that is swallowed: the copies of S stay as they are.
CommandLost(S) == Fail /\ unsettled' = unsettled \cup S /\ UNCHANGED cache

Store(q, t, term) == Stored(q, t, term) \/ CommandLost({t})

\* The copies of S are gone from Redis.
Dropped(S) ==
  /\ session' = [t \in Tokens |-> IF t \in S THEN 0 ELSE session[t]]
  /\ early' = [t \in Tokens |-> IF t \in S THEN FALSE ELSE early[t]]
  /\ unsettled' = unsettled \ S /\ UNCHANGED failures

\* A request that has still to store a copy of t it read before.
Holds(q, t) ==
  /\ request[q].token = t
  /\ \/ request[q].at \in {"found", "renewAdd", "reloaded", "signAdd"}
     \/ request[q].at = "hit" /\ request[q].op = "settings"

-----------------------------------------------------------------------------
(* SessionStorage.getSession, for authentication and for the handlers.      *)

Authenticate(q, t) ==
  /\ Is(q, "idle") /\ issued[t] > 0
  /\ request' = [request EXCEPT ![q] = [at |-> "get", op |-> "auth", token |-> t, copy |-> 0]]
  /\ UNCHANGED <<rows, cache, old, past, cleaner, notes>>

\* RedisReadClient.get: an error is swallowed and reads as a miss.
GetSession(q) ==
  /\ Is(q, "get")
  /\ \/ /\ session[request[q].token] > 0
        /\ Take(q, "hit", session[request[q].token])
        /\ UNCHANGED failures
     \/ /\ Goto(q, "find")
        /\ IF session[request[q].token] > 0 THEN Fail ELSE UNCHANGED failures
  /\ UNCHANGED <<rows, cache, world, cleaner, history, unsettled>>

FindOnDatabase(q) ==
  /\ Is(q, "find")
  /\ LET term == LiveTerm(request[q].token)
     IN Take(q, IF term = 0 THEN "hit" ELSE "found", term)
  /\ UNCHANGED <<rows, cache, world, cleaner, notes>>

\* The SET of a row that was found is sent and not waited for: what follows
\* in the same turn of the event loop is part of the same step.
PutBack(q) ==
  IF Is(q, "found") THEN Store(q, request[q].token, request[q].copy)
  ELSE UNCHANGED <<cache, unsettled, failures>>

HasSession(q, op) == request[q].at \in {"hit", "found"} /\ request[q].op = op

\* TokenUtils.recoverToken: no session or one that has ended is refused.
Refuse(q) ==
  /\ HasSession(q, "auth")
  /\ request[q].copy <= past[request[q].token]
  /\ PutBack(q)
  /\ Done(q)
  /\ UNCHANGED <<rows, world, cleaner, history>>

\* TokenUtils.recoverToken accepts; renewToken leaves the token as it is.
Accept(q) ==
  /\ HasSession(q, "auth")
  /\ request[q].copy > old[request[q].token]
  /\ PutBack(q)
  /\ Take(q, "handler", 0)
  /\ UNCHANGED <<rows, world, cleaner, history>>

\* TokenUtils.recoverToken accepts; fewer than MINUTES_TO_RENEW are left.
AcceptAndRenew(q) ==
  /\ HasSession(q, "auth")
  /\ request[q].copy > past[request[q].token] /\ request[q].copy <= old[request[q].token]
  /\ PutBack(q)
  /\ Take(q, "renewSave", 0)
  /\ UNCHANGED <<rows, world, cleaner, history>>

-----------------------------------------------------------------------------
(* TokenUtils.renewToken.                                                   *)

\* Mutant: the save of a row that is gone inserts it again.
RenewInserts(q) ==
  LET t == request[q].token IN
  /\ Is(q, "renewSave")
  /\ \/ (row.token = t \/ row = NoRow) /\ Grant(t)
     \/ row.token \notin {t, Nil} /\ UNCHANGED rows
  /\ Goto(q, "renewRead")
  /\ UNCHANGED <<cache, world, cleaner, notes>>

\* findOne and save, which bring about what a save of the row as it is now does:
\* a row that is gone by either is not written (the entity was read without its
\* workspace and workspace_id is NOT NULL).
RenewSave(q) ==
  LET t == request[q].token IN
  /\ Is(q, "renewSave")
  /\ \/ row.token = t /\ Grant(t)
     \/ row.token # t /\ UNCHANGED rows
  /\ Goto(q, "renewRead")
  /\ UNCHANGED <<cache, world, cleaner, notes>>

\* An error of either query is caught: the request goes on with its token.
RenewFails(q) ==
  /\ request[q].at \in {"renewSave", "renewRead"} /\ Fail
  /\ Goto(q, "handler")
  /\ unsettled' = unsettled \cup {request[q].token}
  /\ UNCHANGED <<rows, cache, world, cleaner, history>>

\* getTokenBySignature; SET of undefined throws and is swallowed.
RenewRead(q) ==
  /\ Is(q, "renewRead")
  /\ LET term == LiveTerm(request[q].token)
     IN Take(q, IF term = 0 THEN "handler" ELSE "renewAdd", term)
  /\ UNCHANGED <<rows, cache, world, cleaner, notes>>

\* Mutant: the renewed session is not stored.
RenewAddsNothing(q) ==
  /\ Is(q, "renewAdd")
  /\ Take(q, "handler", 0)
  /\ UNCHANGED <<rows, cache, world, cleaner, notes>>

\* SessionStorage.addSession of the renewed session.
RenewAdd(q) ==
  /\ Is(q, "renewAdd")
  /\ Store(q, request[q].token, request[q].copy)
  /\ Take(q, "handler", 0)
  /\ UNCHANGED <<rows, world, cleaner, history>>

Renew(q) == RenewSave(q) \/ RenewFails(q) \/ RenewRead(q) \/ RenewAdd(q)

-----------------------------------------------------------------------------
(* The handlers that touch the session once the request is accepted.        *)

Answer(q) ==
  /\ Is(q, "handler")
  /\ Done(q)
  /\ UNCHANGED <<rows, cache, world, cleaner, notes>>

\* UserController.update and PredicateService.togglePredicateStatus.
UseSession(q, op) ==
  /\ Is(q, "handler")
  /\ request' = [request EXCEPT ![q].at = "get", ![q].op = op]
  /\ UNCHANGED <<rows, cache, world, cleaner, notes>>

\* togglePredicateStatus puts the session it read back with other settings.
PutSettings(q) ==
  /\ HasSession(q, "settings")
  /\ IF request[q].copy = 0 THEN UNCHANGED <<cache, unsettled, failures>>
     ELSE Store(q, request[q].token, request[q].copy)
  /\ Done(q)
  /\ UNCHANGED <<rows, world, cleaner, history>>

\* TokenUtils.changeNetwork: findOne({ user_id }), whatever its token is.
NetworkFind(q) ==
  /\ Is(q, "handler") /\ row # NoRow
  /\ request' = [request EXCEPT ![q].at = "networkSave", ![q].token = row.token,
                                ![q].copy = row.term]
  /\ UNCHANGED <<rows, cache, world, cleaner, notes>>

\* save writes every column that differs from the row as it is now: the term
\* that was read goes over a renewal that came between.
NetworkSave(q) ==
  LET t == request[q].token IN
  /\ Is(q, "networkSave")
  /\ row' = IF row.token = t THEN [token |-> t, term |-> request[q].copy] ELSE row
  /\ \/ request' = [request EXCEPT ![q].at = "get", ![q].op = "update", ![q].copy = 0]
     \/ row.token # t /\ Done(q)
  /\ UNCHANGED <<issued, cache, world, cleaner, notes>>

\* SessionStorage.updateSession: a session that has ended is removed first.
UpdateSession(q) ==
  /\ HasSession(q, "update")
  /\ PutBack(q)
  /\ Take(q, IF request[q].copy > 0 /\ request[q].copy <= past[request[q].token]
             THEN "removeRow" ELSE "reload", 0)
  /\ UNCHANGED <<rows, world, cleaner, history>>

Reload(q) ==
  /\ Is(q, "reload")
  /\ LET term == LiveTerm(request[q].token)
     IN IF term = 0 THEN Done(q) ELSE Take(q, "reloaded", term)
  /\ UNCHANGED <<rows, cache, world, cleaner, notes>>

AddReloaded(q) ==
  /\ Is(q, "reloaded")
  /\ Store(q, request[q].token, request[q].copy)
  /\ Done(q)
  /\ UNCHANGED <<rows, world, cleaner, history>>

Handle(q) ==
  \/ Answer(q) \/ (\E op \in {"update", "settings"} : UseSession(q, op))
  \/ PutSettings(q) \/ NetworkFind(q) \/ NetworkSave(q)
  \/ UpdateSession(q) \/ Reload(q) \/ AddReloaded(q)

-----------------------------------------------------------------------------
(* Sign-in and sign-out.                                                    *)

\* TokenUtils.createAuthToken: a recover code of the user is asked for, and that
\* the signature is of the digest, but not that the digest is of that code nor
\* that the signature was not used before: any token signs in, and again.
SignIn(q, t) ==
  /\ Is(q, "idle")
  /\ request' = [request EXCEPT ![q] = [at |-> "revoke", op |-> "signIn", token |-> t, copy |-> 0]]
  /\ UNCHANGED <<rows, cache, old, past, cleaner, notes>>

\* TokenUtils.revokeToken: the row goes, its copy in Redis stays.
Revoke(q) ==
  /\ Is(q, "revoke")
  /\ row' = NoRow
  /\ Goto(q, "insert")
  /\ UNCHANGED <<issued, cache, world, cleaner, notes>>

\* AuthService.signIn: a second row of the user is refused (UNIQUE).  A token that
\* was signed out is signed in again.
Insert(q) ==
  LET t == request[q].token IN
  /\ Is(q, "insert")
  /\ \/ /\ row = NoRow /\ Grant(t)
        /\ removed' = removed \ {t} /\ closed' = closed \ {t}
        /\ Goto(q, "signRead")
     \/ row # NoRow /\ Done(q) /\ UNCHANGED <<rows, history>>
  /\ UNCHANGED <<cache, world, cleaner, unsettled, failures>>

SignRead(q) ==
  /\ Is(q, "signRead")
  /\ LET term == LiveTerm(request[q].token)
     IN IF term = 0 THEN Done(q) ELSE Take(q, "signAdd", term)
  /\ UNCHANGED <<rows, cache, world, cleaner, notes>>

SignAdd(q) ==
  /\ Is(q, "signAdd")
  /\ Store(q, request[q].token, request[q].copy)
  /\ Done(q)
  /\ UNCHANGED <<rows, world, cleaner, history>>

SignOut(q, t) ==
  /\ Is(q, "idle") /\ issued[t] > 0
  /\ request' = [request EXCEPT ![q] = [at |-> "removeRow", op |-> "signOut", token |-> t, copy |-> 0]]
  /\ UNCHANGED <<rows, cache, old, past, cleaner, notes>>

\* SessionStorage.removeSession: first the row, then the copy.
RemoveRow(q) ==
  /\ Is(q, "removeRow")
  /\ row' = RowWithout(request[q].token)
  /\ removed' = removed \cup {request[q].token}
  /\ Goto(q, "removeCopy")
  /\ UNCHANGED <<issued, cache, world, cleaner, closed, unsettled, failures>>

AfterRemoval(q) == IF request[q].op = "update" THEN Goto(q, "reload") ELSE Done(q)

RemoveCopy(q) ==
  LET t == request[q].token IN
  /\ Is(q, "removeCopy")
  /\ \/ /\ Dropped({t})
        /\ closed' = IF t \in removed /\ ~\E p \in Requests : Holds(p, t)
                        THEN closed \cup {t} ELSE closed
     \/ CommandLost({t}) /\ UNCHANGED closed
  /\ AfterRemoval(q)
  /\ UNCHANGED <<rows, world, cleaner, removed>>

-----------------------------------------------------------------------------
(* SessionStorage.clearExpiredSessions, every minute.                       *)

\* Mutant: a row whose term has just ended is not found.
ExpiredLongAgo(t) == row.token = t /\ row.term < past[t]

Expired(t) == row.token = t /\ row.term <= past[t]

\* findBy({ expired_at <= now }) of a run that finds the row.
CleanerFinds ==
  /\ cleaner.at = "wait" /\ \E t \in Tokens : Expired(t)
  /\ cleaner' = [at |-> "delete", found |-> {t \in Tokens : Expired(t)}]
  /\ UNCHANGED <<rows, cache, world, request, notes>>

\* DELETE WHERE expired_at <= now: what has been renewed since is kept.
CleanerDeletes ==
  /\ cleaner.at = "delete"
  /\ row' = IF \E t \in Tokens : Expired(t) THEN NoRow ELSE row
  /\ cleaner' = [cleaner EXCEPT !.at = "drop"]
  /\ UNCHANGED <<issued, cache, world, request, notes>>

\* A run that found nothing, and whose DELETE meets a row that ended since: its
\* copy stays in Redis.
CleanerDeletesUnseen ==
  /\ cleaner.at = "wait" /\ \E t \in Tokens : Expired(t)
  /\ row' = NoRow
  /\ UNCHANGED <<issued, cache, world, request, cleaner, notes>>

CleanerDrops ==
  /\ cleaner.at = "drop"
  /\ \/ Dropped(cleaner.found)
     \/ CommandLost(cleaner.found)
  /\ cleaner' = Waits
  /\ UNCHANGED <<rows, world, request, history>>

Clean == CleanerFinds \/ CleanerDeletes \/ CleanerDeletesUnseen \/ CleanerDrops

-----------------------------------------------------------------------------
(* Time.  A copy lives 40 minutes and a term is renewed in its last 40, so a *)
(* copy that was stored earlier is gone when its term ends.                  *)

GrowOld(t) ==
  /\ old[t] < issued[t]
  /\ old' = [old EXCEPT ![t] = @ + 1]
  /\ UNCHANGED <<rows, cache, past, arrivals, request, cleaner, notes>>

TermEnds(t) ==
  /\ past[t] < old[t]
  /\ ~(session[t] = past[t] + 1 /\ early[t])
  /\ past' = [past EXCEPT ![t] = @ + 1]
  /\ UNCHANGED <<rows, cache, old, arrivals, request, cleaner, notes>>

CopyExpires(t) ==
  /\ session[t] > 0
  /\ Dropped({t})
  /\ UNCHANGED <<rows, world, request, cleaner, history>>

Elapse == \E t \in Tokens : GrowOld(t) \/ TermEnds(t) \/ CopyExpires(t)

\* The API stops and starts again: what was under way is lost.
Restart ==
  /\ Fail
  /\ request' = [q \in Requests |-> Idle]
  /\ cleaner' = Waits
  /\ unsettled' = unsettled \cup {t \in Tokens : \E q \in Requests : request[q].token = t}
  /\ UNCHANGED <<rows, cache, world, history>>

Proceed(q) ==
  \/ GetSession(q) \/ FindOnDatabase(q)
  \/ Refuse(q) \/ Accept(q) \/ AcceptAndRenew(q)
  \/ Renew(q) \/ Handle(q)
  \/ Revoke(q) \/ Insert(q) \/ SignRead(q) \/ SignAdd(q) \/ RemoveRow(q) \/ RemoveCopy(q)

\* A request takes the first place that is free: which one makes no difference.
Arrive(q) ==
  /\ \A p \in Requests : p < q => ~Is(p, "idle")
  /\ arrivals < MaxArrivals /\ arrivals' = arrivals + 1
  /\ \E t \in Tokens : Authenticate(q, t) \/ SignIn(q, t) \/ SignOut(q, t)

RunOn == (\E q \in Requests : Proceed(q)) \/ Clean \/ Elapse

Next == (\E q \in Requests : Arrive(q)) \/ RunOn \/ Restart

Spec == Init /\ [][Next]_vars

\* The cleaner is started every minute and time passes; a request may hang for ever.
FairSpec == Spec /\ WF_vars(Clean \/ Elapse)

-----------------------------------------------------------------------------
Steps == {"idle", "get", "hit", "find", "found", "handler", "renewSave", "renewRead",
          "renewAdd", "networkSave", "reload", "reloaded", "revoke", "insert",
          "signRead", "signAdd", "removeRow", "removeCopy"}

Operations == {"auth", "update", "settings", "signIn", "signOut"}

(***************************************************************************)
(* Type invariant.  The row, when there is one, is of a term its token was *)
(* given (user_tokens, modules/auth/services.ts).                          *)
(***************************************************************************)
SessionsTypeOK ==
  /\ row \in [token : Tokens \cup {Nil}, term : Nat]
  /\ row = NoRow \/ (row.token \in Tokens /\ row.term \in 1..issued[row.token])
  /\ session \in [Tokens -> Nat] /\ early \in [Tokens -> BOOLEAN]
  /\ issued \in [Tokens -> Nat]
  /\ old \in [Tokens -> Nat] /\ past \in [Tokens -> Nat]
  /\ request \in [Requests -> [at : Steps, op : Operations,
                               token : Tokens \cup {Nil}, copy : Nat]]
  /\ cleaner \in [at : {"wait", "delete", "drop"}, found : SUBSET Tokens]
  /\ closed \subseteq removed /\ removed \subseteq Tokens /\ unsettled \subseteq Tokens
  /\ arrivals \in Nat /\ failures \in Nat

(***************************************************************************)
(* A sign-out lasts until the next sign-in with the token.  Once           *)
(* removeSession has deleted the row of a token and its copy in Redis, and *)
(* no request was then about to store a copy it had read before, neither   *)
(* comes back by anything but a sign-in: not by a renewal that was under   *)
(* way, a change of network or of settings, a late answer of the database, *)
(* nor a restart.  createAuthToken takes a signature that was signed out,  *)
(* so that nothing is said of a token after it has signed in again, nor    *)
(* when a sign-in with it came between the two deletes.                    *)
(***************************************************************************)
SignedOutIsRefused ==
  \A t \in closed : row.token # t /\ session[t] = 0

Busy(t) == \E q \in Requests : request[q].token = t

(***************************************************************************)
(* A renewal is not forgotten.  While the row of a token has not ended, the *)
(* copy in Redis, which recoverToken believes, has not ended either, unless *)
(* a command or query failed or a copy older than the row was stored in the *)
(* last 40 minutes of its term; requests that are under way may still bring *)
(* it up to date.                                                          *)
(***************************************************************************)
LiveTokenIsNotRefused ==
  \A t \in Tokens :
     row.token = t /\ row.term > past[t] /\ session[t] > 0 /\ t \notin unsettled /\ ~Busy(t)
       => session[t] > past[t]

(***************************************************************************)
(* Every session comes to an end: when no more requests come, the row and  *)
(* the copies of all its tokens are gone for good, whichever requests, runs *)
(* of the cleaner and commands of Redis crossed or failed, and although    *)
(* requests under way may hang.                                            *)
(***************************************************************************)
SessionsEnd == <>[](row = NoRow /\ \A t \in Tokens : session[t] = 0)
=============================================================================
