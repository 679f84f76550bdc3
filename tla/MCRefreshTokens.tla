-------------------------- MODULE MCRefreshTokens --------------------------
(* Instances of RefreshTokens for TLC: accounts and handler slots are model *)
(* values and interchangeable.  A history variable tells the behaviours in  *)
(* which handlers run one at a time and none dies: there the code has to    *)
(* keep promises that it does not keep when handlers overlap.               *)
EXTENDS RefreshTokens, TLC

VARIABLE calm   \* history: so far no two handlers overlapped and none died

InProgress == {r \in Requests : req[r].pc \notin {"idle", "answered"}}
\* A handler takes a step while another one is in progress.
Overlap == \E r \in InProgress, s \in Requests :
              s # r /\ req'[s] # req[s] /\ req[s].pc # "answered"

MCInit == Init /\ calm = TRUE
MCNext == Next /\ calm' = (calm /\ ~Overlap /\ ~\E r \in Requests : Fail(r))
MCSpec == MCInit /\ [][MCNext]_<<vars, calm>>

\* The runs let an answered handler leave its slot before anything else happens: no
\* handler and no property looks at it.
AnswersLeave == (\E r \in Requests : req[r].pc = "answered") => \E r \in Requests : Finish(r)
MCReducedSpec == MCInit /\ [][MCNext /\ AnswersLeave]_<<vars, calm>>

Symmetry == Permutations(Users) \cup Permutations(Requests)

\* Changing the password and deleting the account leave no older session behind:
\* when handlers do not overlap, a live token was obtained with the password in force,
\* of an active account, whenever none is running.  (users.service.ts:27-87)
PasswordChangeEndsSessions ==
    calm /\ InProgress = {} =>
        \A t \in Live : epoch[t] = password[OwnerOf(t)] /\ status[OwnerOf(t)] = "ACTIVE"

\* Handlers that do not overlap implement sessions which are held by one token, move
\* on to a newer one, and once closed never reopen (module Sessions).
ImplementsSessions ==
    /\ AbstractSessions!Init
    /\ [][calm' => [AbstractSessions!Next]_(AbstractSessions!svars)]_<<vars, calm>>

=============================================================================
