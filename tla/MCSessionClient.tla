-------------------------- MODULE MCSessionClient --------------------------
(* Instances of SessionClient for TLC: one browser.  A history variable     *)
(* tells the behaviours in which the browser has one call at a time and the *)
(* answer of a refresh is not lost on a page that is open: what the client  *)
(* promises there, it does not keep when calls overlap or such an answer    *)
(* gets lost.  Requests, other answers and handlers may fail.               *)
EXTENDS SessionClient

VARIABLE orderly   \* history: so far no two calls overlapped, no such answer was lost

Pending == {r \in Requests : call[r] # "none"}

MCClientInit == ClientInit /\ orderly = TRUE
MCClientNext == /\ ClientNext
                /\ orderly' = (orderly /\ (\A r, s \in Pending' : r = s)
                                       /\ ~\E r \in Requests : call[r] = "refreshing" /\ AnswerLost(r))
MCClientSpec == MCClientInit /\ [][MCClientNext]_<<allVars, orderly>>

\* Handlers that were started and promises that are awaited run on.
MCClientFairSpec == MCClientSpec /\ \A r \in Requests : WF_allVars(Continue(r))

\* "A revoked token being presented again means it was stolen and replayed"
\* (token.service.ts:68): one call at a time, whose refreshes are answered, never presents
\* one of a session its user is still in, though handlers may die and requests get lost.
OrderlyClientNeverReplays == orderly => HonestClientNeverReplays

\* The store of the browser and the table of the server agree: one call at a time,
\* while none is pending, the stored token is the live one of its session (a refresh
\* that failed half-way has cleared it), a session that was signed out of is not stored,
\* and none of its tokens is usable when the server has confirmed the sign-out.
\* (http.ts tryRefresh, frontend/src/api/auth.ts:55-71)
OrderlyStoreAgrees == ClientTypeOK /\ (orderly => StoredTokenIsLive /\ SignOutEndsSession)

=============================================================================
