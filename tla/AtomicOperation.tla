-------------------------- MODULE AtomicOperation --------------------------
(***************************************************************************)
(* What an operation on the client files promises (the rules at the top of *)
(* mode/operation.rs), without the steps that keep the promise: it is      *)
(* abandoned only while no file carries it, and it moves the pointer and   *)
(* ends only once every file carries it or has been taken over by the      *)
(* client.                                                                 *)
(***************************************************************************)
CONSTANTS Provider, File, NoPointer

VARIABLES
    pointer,  \* the current provider
    open,     \* an operation has been announced and has not ended
    goal,     \* where it will move the pointer
    left,     \* its files that neither it nor the client has written since
    begun     \* some file carries it

vars == <<pointer, open, goal, left, begun>>

Init ==
    /\ pointer \in Provider
    /\ open = FALSE /\ goal = NoPointer /\ left = {} /\ begun = FALSE

Announce ==
    /\ ~open /\ open' = TRUE
    /\ goal' \in Provider \cup {NoPointer}
    /\ left' \in SUBSET File
    /\ begun' = FALSE
    /\ UNCHANGED pointer

Write(f) ==
    /\ open
    /\ left' = left \ {f}
    /\ begun' = TRUE
    /\ UNCHANGED <<pointer, open, goal>>

ClientWrites(f) ==
    /\ open
    /\ left' = left \ {f}
    /\ UNCHANGED <<pointer, open, goal, begun>>

\* The operation takes the client's new content as its base.
Rebase(f) ==
    /\ open
    /\ left' \in {left \ {f}, left \cup {f}}
    /\ UNCHANGED <<pointer, open, goal, begun>>

MovePointer ==
    /\ open /\ left = {} /\ goal # NoPointer
    /\ pointer' = goal
    /\ UNCHANGED <<open, goal, left, begun>>

Close ==
    /\ open' = FALSE /\ goal' = NoPointer /\ left' = {} /\ begun' = FALSE
    /\ UNCHANGED pointer

End ==
    /\ open /\ left = {}
    /\ goal # NoPointer => pointer = goal
    /\ Close

Abandon ==
    /\ open /\ ~begun
    /\ Close

\* Every file already holds what it should: there is nothing to announce.
Direct ==
    /\ ~open
    /\ pointer' \in Provider
    /\ UNCHANGED <<open, goal, left, begun>>

Next ==
    \/ Announce \/ MovePointer \/ End \/ Abandon \/ Direct
    \/ \E f \in File : Write(f) \/ ClientWrites(f) \/ Rebase(f)

Spec == Init /\ [][Next]_vars
=============================================================================
