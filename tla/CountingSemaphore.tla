-------------------------- MODULE CountingSemaphore --------------------------
(***************************************************************************)
(* What the semaphores of Phase3 promise, whatever they are built from: a  *)
(* semaphore holds units; V adds one, and P takes one as soon as there is  *)
(* one to take.                                                            *)
(***************************************************************************)
EXTENDS Integers

CONSTANT Sems
VARIABLE units

None == -1  \* there is no such semaphore yet

Init == units = [s \in Sems |-> None]

\* SemCreate gives a new semaphore its first units.
Create(s) == /\ units[s] = None /\ units'[s] \in Nat
             /\ units' = [units EXCEPT ![s] = units'[s]]

P(s) == units[s] > 0 /\ units' = [units EXCEPT ![s] = @ - 1]

V(s) == units[s] # None /\ units' = [units EXCEPT ![s] = @ + 1]

Next == \E s \in Sems : P(s) \/ V(s) \/ Create(s)

Spec == Init /\ [][Next]_units
=============================================================================
