----------------------------- MODULE Semaphores -----------------------------
(***************************************************************************)
(* The semaphores of Phase3/phase3.c.  A semaphore is a count, a list of   *)
(* blocked processes and two mailboxes: one of one slot that serves as the *)
(* lock of the first two, one that hands units to blocked processes.       *)
(*                                                                         *)
(* The mailboxes and the kernel are libraries here (external); they are    *)
(* modelled by what phase3.c relies on.  The code between two of their     *)
(* calls that may wait is one action; at[p] is the place of process p in   *)
(* it, on[p] the semaphore it works on.  cur runs; another process of the  *)
(* best priority takes over where cur waits, where the dispatcher is       *)
(* called, outside the kernel, and, with slices, between any two actions.  *)
(***************************************************************************)
EXTENDS Integers, Sequences, FiniteSets, SequencesExt

CONSTANTS
    Procs,       \* entries of ProcTable
    MAXSEMS,
    MAXSLOTS,    \* of phase2.h: MboxCreate refuses more slots
    Values,      \* the values SemCreate is called with
    MaxUnits,    \* bound of the model: no V once the count is this high
    Priorities,
    Uses         \* how the callers may use semaphores

\* "lock": one unit, and V only by the process that has it.  "signal": no unit at
\* first, and one process alone calls V.  "any": no such rule.  "pool": any number
\* of units, and V only by a process that has one.  "calm": no such rule.  In the
\* last two interrupts stay off inside the calls: there are no slices.
AllUses == {"lock", "signal", "any", "pool", "calm"}

ASSUME SemAssumption ==
    /\ Procs \subseteq Nat /\ IsFiniteSet(Procs) /\ MAXSEMS \in Nat \ {0} /\ MAXSLOTS \in Nat \ {0}
    /\ MaxUnits \in Nat
    /\ Values \subseteq Int /\ Priorities \subseteq Int
    /\ Uses \subseteq AllUses

Sems   == 0 .. MAXSEMS - 1
Nobody == -1
NoSem  == -1

\* Mutant: the lock is not waited for.
Unlocked == {}

\* In MboxSend to the lock, asleep in MboxRecv, in MboxSend to privMBoxID, or
\* between these calls.
Locking   == {"P", "P.again", "V", "V.again"}
Locked    == {"P.block", "P.pass", "V.pop", "V.count"}
SemPlaces == Locking \cup Locked \cup
             {"P.take", "P.sleep", "P.got", "V.give", "V.wait", "V.sent"}

VARIABLES
    use,           \* a member of Uses, the same for ever
    value,         \* SemTable[].value; -1: not created
    capacity,      \* the slots of privMBoxID, its startingValue; -1: no such box
    blocked,       \* SemTable[].blockedProcesses: size, head and tail
    nextSibling,   \* ProcTable[].nextSibling, the link of every Queue
    mutex,         \* mutexMBoxID: the process whose message is in it, then those in MboxSend
    tokens,        \* the messages in privMBoxID
    givers, takers,\* the processes in MboxSend and MboxRecv to it
    at, on, prio, cur,
    preemptible,   \* another process as good as cur may run before it goes on
    holders,       \* history: who had a unit at its P, and has not given it back
    result,        \* what the last call of p returned
    crashed        \* NULL was followed

semTable == <<value, capacity, blocked, mutex, tokens, givers, takers>>
ghosts   == <<holders, crashed>>
vars == <<use, semTable, nextSibling, at, on, prio, cur, preemptible, ghosts, result>>

-----------------------------------------------------------------------------
(* Queue_init, Queue_push, Queue_pop *)

EmptyQueue == [size |-> 0, head |-> Nobody, tail |-> Nobody]

\* Mutant: a process pushed onto a list is not counted.
PushUncounted(q, p) == [size |-> q.size, head |-> IF q.size = 0 THEN p ELSE q.head, tail |-> p]

Push(q, p) == [size |-> q.size + 1, head |-> IF q.size = 0 THEN p ELSE q.head, tail |-> p]

\* The links once p is pushed.
Linked(q, p) == IF q.size = 0 THEN nextSibling ELSE [nextSibling EXCEPT ![q.tail] = p]

\* Mutant: a process popped is still counted.
PopCounted(q) == [q EXCEPT !.head = nextSibling[q.head]]

Pop(q) == [q EXCEPT !.size = @ - 1, !.head = nextSibling[q.head]]

-----------------------------------------------------------------------------
(* The scheduler of the kernel (external).  The places that end in a wait for  *)
(* another process: those of this module and those of UserProcs.               *)

Asleep == {"none", "boot", "P.sleep", "V.wait", "start.sleep", "join.sleep",
           "leave.sleep", "quit"}

Ready(p) == /\ at[p] \notin Asleep
            /\ at[p] \in Locking => Head(mutex[on[p]]) = p

\* p is, or becomes, the process that runs.
Runs(p) ==
    /\ ~crashed /\ Ready(p)
    /\ \A q \in Procs : Ready(q) => prio[p] <= prio[q]
    /\ p = cur \/ ~Ready(cur) \/ prio[p] < prio[cur] \/ preemptible
    /\ cur' = p

Slices == use \notin {"pool", "calm"}

\* The action called the dispatcher, or not.
Dispatched(b) == preemptible' = (b \/ Slices)

Goto(p, place) == at' = [at EXCEPT ![p] = place]

\* MboxSend(mutexMBoxID), from the place where it goes on with the lock.
Lock(p, s, place) ==
    /\ Goto(p, place)
    /\ mutex' = [mutex EXCEPT ![s] = Append(@, p)]

\* MboxRecv(mutexMBoxID): the first of those in MboxSend has the lock now.
Unlock(s) == mutex' = [mutex EXCEPT ![s] = Tail(@)]
Contended(s) == Len(mutex[s]) > 1

Return(p, r) ==
    /\ Goto(p, "user") /\ on' = [on EXCEPT ![p] = NoSem]
    /\ result' = [result EXCEPT ![p] = r]
    /\ preemptible' = TRUE

-----------------------------------------------------------------------------
(* sem_create *)

\* Mutant: the first entry is never found.
FreeFromOne == {s \in Sems : s > 0 /\ value[s] = -1}

FreeSems == {s \in Sems : value[s] = -1}

\* Both mailboxes are made; that the first may fail is not looked at.
SemCreate(p, v) ==
    LET s == Min(FreeSems) IN
    /\ at[p] = "user" /\ Runs(p)
    /\ v >= 0 /\ FreeSems # {}
    /\ value' = [value EXCEPT ![s] = v]
    /\ capacity' = [capacity EXCEPT ![s] = IF v <= MAXSLOTS THEN v ELSE -1]
    /\ result' = [result EXCEPT ![p] = s] /\ preemptible' = TRUE
    /\ UNCHANGED <<use, blocked, nextSibling, mutex, tokens, givers, takers, at, on,
                   prio, ghosts>>

SemCreateFails(p, v) ==
    /\ at[p] = "user" /\ Runs(p)
    /\ v < 0 \/ FreeSems = {}
    /\ result' = [result EXCEPT ![p] = -1] /\ preemptible' = TRUE
    /\ UNCHANGED <<use, semTable, nextSibling, at, on, prio, ghosts>>

-----------------------------------------------------------------------------
(* semP_K, for semaphores that were created *)

P(p, s) ==
    /\ at[p] = "user" /\ Runs(p) /\ value[s] >= 0
    /\ Lock(p, s, "P") /\ on' = [on EXCEPT ![p] = s]
    /\ Dispatched(FALSE)
    /\ UNCHANGED <<use, value, capacity, blocked, nextSibling, tokens, givers, takers,
                   prio, ghosts, result>>

\* A look at what the lock protects.
Looks(p, place) ==
    /\ Runs(p) /\ Goto(p, place) /\ Dispatched(FALSE)
    /\ UNCHANGED <<use, semTable, nextSibling, on, prio, ghosts, result>>

PTests(p) == at[p] = "P" /\ Looks(p, IF value[on[p]] = 0 THEN "P.block" ELSE "P.pass")

\* No unit: p goes onto the list and gives the lock back.
PBlocks(p) ==
    LET s == on[p] IN
    /\ at[p] = "P.block" /\ Runs(p)
    /\ blocked' = [blocked EXCEPT ![s] = Push(@, p)]
    /\ nextSibling' = Linked(blocked[s], p)
    /\ Unlock(s) /\ Dispatched(Contended(s))
    /\ Goto(p, "P.take")
    /\ UNCHANGED <<use, value, capacity, tokens, givers, takers, on, prio, ghosts, result>>

\* MboxRecv from privMBoxID when there is something: the message of the first
\* process in MboxSend takes its place, or is handed over.
TakeMessage(s) ==
    IF givers[s] # << >>
    THEN givers' = [givers EXCEPT ![s] = Tail(@)] /\ UNCHANGED tokens
    ELSE tokens' = [tokens EXCEPT ![s] = @ - 1] /\ UNCHANGED givers

Message(s) == tokens[s] > 0 \/ givers[s] # << >>

\* A giver that is rid of its message is out of MboxSend.
Released(s, a) == IF givers[s] = << >> THEN a ELSE [a EXCEPT ![Head(givers[s])] = "V.sent"]

\* A unit is taken; so is a message that is on its way to a blocked process.
PTakes(p) ==
    LET s == on[p]  here == IF Message(s) THEN Released(s, at) ELSE at IN
    /\ at[p] = "P.pass" /\ Runs(p)
    /\ value' = [value EXCEPT ![s] = @ - 1]
    /\ IF Message(s) THEN TakeMessage(s) ELSE UNCHANGED <<tokens, givers>>
    /\ at' = [here EXCEPT ![p] = "user"] /\ on' = [on EXCEPT ![p] = NoSem]
    /\ result' = [result EXCEPT ![p] = 0] /\ preemptible' = TRUE
    /\ Unlock(s)
    /\ holders' = [holders EXCEPT ![s] = @ \cup {p}]
    /\ UNCHANGED <<use, capacity, blocked, nextSibling, takers, prio, crashed>>

\* MboxRecv(privMBoxID); without that box it fails, and P goes on.
PReceives(p) ==
    LET s == on[p] IN
    /\ at[p] = "P.take" /\ Runs(p)
    /\ \/ /\ capacity[s] >= 0 /\ Message(s)
          /\ TakeMessage(s) /\ Dispatched(givers[s] # << >>)
          /\ at' = [Released(s, at) EXCEPT ![p] = "P.got"]
          /\ UNCHANGED takers
       \/ /\ capacity[s] >= 0 /\ ~Message(s)
          /\ takers' = [takers EXCEPT ![s] = Append(@, p)]
          /\ Goto(p, "P.sleep") /\ Dispatched(TRUE)
          /\ UNCHANGED <<tokens, givers>>
       \/ /\ capacity[s] < 0
          /\ Goto(p, "P.got") /\ Dispatched(FALSE)
          /\ UNCHANGED <<tokens, givers, takers>>
    /\ UNCHANGED <<use, value, capacity, blocked, nextSibling, mutex, on, prio, ghosts,
                   result>>

PRelocks(p) ==
    /\ at[p] = "P.got" /\ Runs(p)
    /\ Lock(p, on[p], "P.again") /\ Dispatched(FALSE)
    /\ UNCHANGED <<use, value, capacity, blocked, nextSibling, tokens, givers, takers,
                   on, prio, ghosts, result>>

PReturns(p) ==
    /\ at[p] = "P.again" /\ Runs(p)
    /\ Unlock(on[p]) /\ Return(p, 0)
    /\ holders' = [holders EXCEPT ![on[p]] = @ \cup {p}]
    /\ UNCHANGED <<use, value, capacity, blocked, nextSibling, tokens, givers, takers,
                   prio, crashed>>

-----------------------------------------------------------------------------
(* semV_K *)

V(p, s) ==
    /\ at[p] = "user" /\ Runs(p) /\ value[s] >= 0
    /\ Lock(p, s, "V") /\ on' = [on EXCEPT ![p] = s]
    /\ Dispatched(FALSE)
    /\ holders' = [holders EXCEPT ![s] = @ \ {p}]
    /\ UNCHANGED <<use, value, capacity, blocked, nextSibling, tokens, givers, takers,
                   prio, crashed, result>>

\* The first process on the list is to be woken.
Wanted(s) == blocked[s].size > 0

VTests(p) == at[p] = "V" /\ Looks(p, IF Wanted(on[p]) THEN "V.pop" ELSE "V.count")

VPops(p) ==
    LET s == on[p] IN
    /\ at[p] = "V.pop" /\ Runs(p)
    /\ IF blocked[s].head = Nobody
       THEN crashed' = TRUE /\ UNCHANGED blocked
       ELSE blocked' = [blocked EXCEPT ![s] = Pop(@)] /\ UNCHANGED crashed
    /\ Unlock(s) /\ Dispatched(Contended(s))
    /\ Goto(p, "V.give")
    /\ UNCHANGED <<use, value, capacity, nextSibling, tokens, givers, takers, on, prio,
                   holders, result>>

VCounts(p) ==
    LET s == on[p] IN
    /\ at[p] = "V.count" /\ Runs(p)
    /\ value' = [value EXCEPT ![s] = @ + 1]
    /\ Unlock(s) /\ Return(p, 0)
    /\ UNCHANGED <<use, capacity, blocked, nextSibling, tokens, givers, takers, prio, ghosts>>

\* MboxSend(privMBoxID): to the first process in MboxRecv, into a slot, or wait.
VGives(p) ==
    LET s == on[p]  t == Head(takers[s]) IN
    /\ at[p] = "V.give" /\ Runs(p)
    /\ \/ /\ takers[s] # << >>
          /\ takers' = [takers EXCEPT ![s] = Tail(@)]
          /\ at' = [at EXCEPT ![t] = "P.got", ![p] = "V.sent"]
          /\ Dispatched(TRUE)
          /\ UNCHANGED <<tokens, givers>>
       \/ /\ takers[s] = << >> /\ tokens[s] < capacity[s]
          /\ tokens' = [tokens EXCEPT ![s] = @ + 1]
          /\ Goto(p, "V.sent") /\ Dispatched(FALSE)
          /\ UNCHANGED <<givers, takers>>
       \/ /\ takers[s] = << >> /\ tokens[s] = capacity[s]
          /\ givers' = [givers EXCEPT ![s] = Append(@, p)]
          /\ Goto(p, "V.wait") /\ Dispatched(TRUE)
          /\ UNCHANGED <<tokens, takers>>
       \/ /\ capacity[s] < 0
          /\ Goto(p, "V.sent") /\ Dispatched(FALSE)
          /\ UNCHANGED <<tokens, givers, takers>>
    /\ UNCHANGED <<use, value, capacity, blocked, nextSibling, mutex, on, prio, ghosts,
                   result>>

VRelocks(p) ==
    /\ at[p] = "V.sent" /\ Runs(p)
    /\ Lock(p, on[p], "V.again") /\ Dispatched(FALSE)
    /\ UNCHANGED <<use, value, capacity, blocked, nextSibling, tokens, givers, takers,
                   on, prio, ghosts, result>>

VReturns(p) ==
    /\ at[p] = "V.again" /\ Runs(p)
    /\ Unlock(on[p]) /\ Return(p, 0)
    /\ UNCHANGED <<use, value, capacity, blocked, nextSibling, tokens, givers, takers,
                   prio, ghosts>>

-----------------------------------------------------------------------------

\* The semaphores alone: processes that only call SemCreate, P and V.
Init ==
    /\ use \in Uses
    /\ value = [s \in Sems |-> -1] /\ capacity = [s \in Sems |-> -1]
    /\ blocked = [s \in Sems |-> EmptyQueue]
    /\ nextSibling = [p \in Procs |-> Nobody]
    /\ mutex = [s \in Sems |-> << >>] /\ tokens = [s \in Sems |-> 0]
    /\ givers = [s \in Sems |-> << >>] /\ takers = [s \in Sems |-> << >>]
    /\ at = [p \in Procs |-> "user"] /\ on = [p \in Procs |-> NoSem]
    /\ prio \in [Procs -> Priorities] /\ cur \in Procs /\ preemptible = TRUE
    /\ holders = [s \in Sems |-> {}]
    /\ result = [p \in Procs |-> 0] /\ crashed = FALSE

\* The rules of the use.
MayCreate(v) == (use = "lock" => v = 1) /\ (use = "signal" => v = 0)
MayP(p, s)   == use = "pool" => p \notin holders[s]
MayV(p, s)   == /\ value[s] < MaxUnits
                /\ use \in {"lock", "pool"} => p \in holders[s]
                /\ use = "signal" => p = Min(Procs)

SemCall(p) ==
    \/ \E v \in Values : MayCreate(v) /\ (SemCreate(p, v) \/ SemCreateFails(p, v))
    \/ \E s \in Sems : (MayP(p, s) /\ P(p, s)) \/ (MayV(p, s) /\ V(p, s))

SemStep(p) == \/ PTests(p) \/ PBlocks(p) \/ PTakes(p) \/ PReceives(p) \/ PRelocks(p)
              \/ PReturns(p)
              \/ VTests(p) \/ VPops(p) \/ VCounts(p) \/ VGives(p) \/ VRelocks(p)
              \/ VReturns(p)

Next == \E p \in Procs : SemCall(p) \/ SemStep(p)

Spec == Init /\ [][Next]_vars

-----------------------------------------------------------------------------
(* What the semaphores promise. *)

Placed(s, places) == {p \in Procs : on[p] = s /\ at[p] \in places}

\* The units on their way from a V to a process that it took off the list.
Coming(s) == tokens[s] + Len(givers[s]) + Cardinality(Placed(s, {"V.give"}))

\* A unit is kept by the count, is on its way, or is with the one process whose P
\* took it and whose V has not counted it yet: none is lost and none is made, so
\* that no more processes than units get past P.
WithUnit(s) == holders[s] \cup
               Placed(s, {"P.got", "P.again", "V", "V.pop", "V.count"})

UnitsConserved == use \in {"lock", "pool"} => \A s \in Sems : value[s] >= 0 =>
    value[s] + Coming(s) + Cardinality(WithUnit(s)) = capacity[s]

\* For each process that a V took off the list a unit is on its way: nobody sleeps
\* in P whom no later V would wake, as long as no list has been followed to NULL.
SleepersCounted == ~crashed => \A s \in Sems :
    Cardinality(Placed(s, {"P.take", "P.sleep"})) = blocked[s].size + Coming(s)

\* A semaphore of one unit that each process gives back is a lock.
LockExcludes == use = "lock" => \A s \in Sems : \A p, q \in holders[s] : p = q

\* What a caller may count on: the units in the count and those on their way.
UnitCount == [s \in Sems |-> IF value[s] < 0 THEN -1 ELSE value[s] + Coming(s)]

\* The semaphores are counting semaphores: each V adds a unit, each P takes one.
Units == INSTANCE CountingSemaphore WITH units <- UnitCount
CountsUnits == Units!Spec
=============================================================================
