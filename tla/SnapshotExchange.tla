-------------------------- MODULE SnapshotExchange --------------------------
(***************************************************************************)
(* What cloud synchronisation promises, without its transfers: a device's  *)
(* rows and Skills change together, by an edit made on it or by taking     *)
(* over, whole, a snapshot that some device once took of itself.           *)
(***************************************************************************)
EXTENDS Naturals

CONSTANTS Devices

VARIABLES
    state,   \* the versions of the rows and of the Skills of each device
    built,   \* every snapshot that was ever taken
    clock    \* the last version that was created

vars == <<state, built, clock>>

Snapshots == [db : Nat, skills : Nat]

Init ==
    /\ state = [d \in Devices |-> [db |-> 0, skills |-> 0]]
    /\ built \subseteq Snapshots /\ clock \in Nat
    /\ \A s \in built : s.db <= clock /\ s.skills <= clock

\* A fresh version of the rows, and of the Skills with them or not.
Edit(d) ==
    /\ clock' = clock + 1
    /\ \E new \in {state[d].skills, clock + 1} :
           state' = [state EXCEPT ![d] = [db |-> clock + 1, skills |-> new]]
    /\ UNCHANGED built

Build(d) == built' = built \cup {state[d]} /\ UNCHANGED <<state, clock>>

Take(d) ==
    /\ \E s \in built : state' = [state EXCEPT ![d] = s]
    /\ UNCHANGED <<built, clock>>

Next == \E d \in Devices : Edit(d) \/ Build(d) \/ Take(d)

Spec == Init /\ [][Next]_vars
=============================================================================
