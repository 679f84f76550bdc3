------------------------------ MODULE Sessions ------------------------------
(***************************************************************************)
(* What the refresh tokens promise to a signed-in user: a session is       *)
(* opened, is held by exactly one token at a time, moves on to a newer     *)
(* token when it is rotated, and once closed is never held again.          *)
(***************************************************************************)
EXTENDS Naturals

CONSTANT MaxTokens   \* tokens are 1..MaxTokens; a session has its first token's name

VARIABLES
    opened,   \* the sessions that were ever opened
    holder    \* the set of tokens that hold each session: at most one

svars == <<opened, holder>>

Session == 1..MaxTokens

Init ==
    /\ opened = {}
    /\ holder = [f \in Session |-> {}]

Open(f) ==
    /\ f \in Session \ opened
    /\ opened' = opened \cup {f}
    /\ holder' = [holder EXCEPT ![f] = {f}]

Advance(f, old, new) ==
    /\ holder[f] = {old}
    /\ new > old
    /\ holder' = [holder EXCEPT ![f] = {new}]
    /\ UNCHANGED opened

Close(S) ==
    /\ holder' = [f \in Session |-> IF f \in S THEN {} ELSE holder[f]]
    /\ UNCHANGED opened

Next ==
    \/ \E f \in Session : Open(f)
    \/ \E f, old, new \in Session : Advance(f, old, new)
    \/ \E S \in SUBSET opened : Close(S)

Spec == Init /\ [][Next]_svars

=============================================================================
