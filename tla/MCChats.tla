------------------------------ MODULE MCChats ------------------------------
(* Instances of Chats for TLC.  A behaviour is about one of four things    *)
(* that hardly meet and whose product is large: who may speak (deletion,   *)
(* tokens, sockets), blocks and the opening of chats, rooms (with one      *)
(* message), or several messages.                                          *)
EXTENDS Chats, TLC

VARIABLE scope

MCInit == Init /\ scope \in {"accounts", "blocks", "rooms", "messages"}
MCNext ==
    /\ UNCHANGED scope
    /\ scope = "accounts" => UNCHANGED <<blocks, sent, rooms>>
    /\ scope = "blocks" => UNCHANGED <<active, tokens, sent, gateway>>
    /\ scope = "rooms" => UNCHANGED accounts /\ (Len(sent) = 1 => UNCHANGED sent)
    /\ scope = "messages" => UNCHANGED <<accounts, rooms>>
    /\ Next
MCSpec == MCInit /\ [][MCNext]_<<vars, scope>>

Symmetry == Permutations(Users) \cup Permutations(Requests) \cup Permutations(ChatIds)

=============================================================================
