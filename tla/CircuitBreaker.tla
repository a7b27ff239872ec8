--------------------------- MODULE CircuitBreaker ---------------------------
(***************************************************************************)
(* What the breakers of a failover queue promise, without their counters,  *)
(* permits and locks.  A closed breaker lets everyone through; a half-open *)
(* one a single request at a time; an open one nobody, until its timeout   *)
(* has run out and everyone from before is back.  Only a request that was  *)
(* let through opens it or earns its closing.                              *)
(***************************************************************************)
EXTENDS Naturals

CONSTANTS Request, Provider, SuccessThreshold

VARIABLES
    state,      \* of each provider's breaker
    due,        \* its timeout ran out since it last opened
    admitted,   \* the requests it let through whose outcome is to be counted
    merit,      \* successes in a row since it half-opened
    asked       \* the resets under way

vars == <<state, due, admitted, merit, asked>>

Init ==
    /\ state = [p \in Provider |-> "Closed"]
    /\ due = [p \in Provider |-> FALSE]
    /\ admitted = [p \in Provider |-> {}]
    /\ merit = [p \in Provider |-> 0]
    /\ asked = [p \in Provider |-> {}]

Enters(p, s) == state' = [state EXCEPT ![p] = s] /\ merit' = [merit EXCEPT ![p] = 0]
Leaves(p, r) == r \in admitted[p] /\ admitted' = [admitted EXCEPT ![p] = @ \ {r}]

Admit(p, r) ==
    /\ state[p] = "Closed" \/ (state[p] = "HalfOpen" /\ admitted[p] = {})
    /\ \A q \in Provider : r \notin admitted[q]
    /\ admitted' = [admitted EXCEPT ![p] = @ \cup {r}]
    /\ UNCHANGED <<state, due, merit, asked>>

\* An outcome that decides nothing.
Leave(p, r) == Leaves(p, r) /\ UNCHANGED <<state, due, merit, asked>>

Succeed(p, r) ==
    /\ state[p] = "HalfOpen" /\ Leaves(p, r)
    /\ merit' = [merit EXCEPT ![p] = @ + 1]
    /\ UNCHANGED <<state, due, asked>>

Fail(p, r) ==
    /\ state[p] = "HalfOpen" /\ r \in admitted[p]
    /\ merit' = [merit EXCEPT ![p] = 0]
    /\ UNCHANGED <<state, due, admitted, asked>>

Close(p) ==
    /\ state[p] = "HalfOpen" /\ merit[p] >= SuccessThreshold
    /\ Enters(p, "Closed")
    /\ UNCHANGED <<due, admitted, asked>>

Trip(p, r) ==
    /\ state[p] # "Open" /\ Leaves(p, r)
    /\ Enters(p, "Open")
    /\ due' = [due EXCEPT ![p] = FALSE]
    /\ UNCHANGED asked

Elapse(p) == due' = [due EXCEPT ![p] = TRUE] /\ UNCHANGED <<state, admitted, merit, asked>>

HalfOpen(p) ==
    /\ state[p] = "Open" /\ due[p] /\ admitted[p] = {}
    /\ Enters(p, "HalfOpen")
    /\ UNCHANGED <<due, admitted, asked>>

Ask(p, r) ==
    /\ asked' = [asked EXCEPT ![p] = @ \cup {r}]
    /\ UNCHANGED <<state, due, admitted, merit>>

Reset(p, r) ==
    /\ r \in asked[p] /\ asked' = [asked EXCEPT ![p] = @ \ {r}]
    /\ Enters(p, "Closed")
    /\ UNCHANGED <<due, admitted>>

Next ==
    \E p \in Provider :
        \/ Close(p) \/ Elapse(p) \/ HalfOpen(p)
        \/ \E r \in Request :
               \/ Admit(p, r) \/ Leave(p, r) \/ Succeed(p, r) \/ Fail(p, r)
               \/ Trip(p, r) \/ Ask(p, r) \/ Reset(p, r)

Spec == Init /\ [][Next]_vars
=============================================================================
