-------------------------------- MODULE Sleep --------------------------------
(***************************************************************************)
(* sleep and the clock driver of phase4b/phase4.c.  kernSleep puts its     *)
(* process into a heap ordered by the time to wake up, and waits at the    *)
(* mailbox of the process, which has no slots; the driver takes from the   *)
(* top of the heap whom the time has come for, and sends to them.          *)
(*                                                                         *)
(* Time is counted in seconds, and a clock interrupt comes with each.  The *)
(* mailboxes and waitDevice are libraries (external): a message and its    *)
(* receiver meet, and an interrupt nobody waits for is dropped.            *)
(***************************************************************************)
EXTENDS Integers, Sequences, FiniteSets, SequencesExt

CONSTANTS
    Sleepers,    \* the processes
    Watched,     \* of these, whose waking is checked: their names do not matter
    Seconds,     \* what sleep is called with
    MaxTime,     \* bound of the model: nobody sleeps then or beyond
    IntRange     \* half the number of values of an int, counted in seconds

ASSUME SleepAssumption ==
    /\ Watched \subseteq Sleepers /\ "nobody" \notin Sleepers
    /\ Seconds \subseteq Int /\ MaxTime \in Nat /\ IntRange \in Nat \ {0}

VARIABLES
    now,         \* currentTime()
    slHeap,      \* HeapProc[0 .. size - 1], from 1: a process and its wakeTime, as
                 \* the number that was computed, before it became an int
    sleepAt,     \* "user", about to receive from its mailbox ("recv"), or "asleep"
    clockAt,     \* the clock driver: in waitDevice, in its loop, or in MboxSend
    woken        \* the driver's proc, while it sends to it

sleepVars == <<now, slHeap, sleepAt, clockAt, woken>>

NoSleeper == [pid |-> "nobody", wakeTime |-> 0]

\* An int overflows to the other end of its range.
Int32(n) == ((n + IntRange) % (2 * IntRange)) - IntRange

wakeTime(entry) == Int32(entry.wakeTime)

-----------------------------------------------------------------------------
(* The heap.  An entry i of the array is entry i + 1 of the sequence.  Both *)
(* loops move a hole through it: it starts somewhere, as long as there is  *)
(* a next place for it the entry there moves into it, and in the end it is *)
(* filled.  (removeHeap swaps the entries, to the same effect.)            *)

Parent(i) == i \div 2

\* No hole in T leaves T.
StaysIn(T, next) == \A i \in T \cap DOMAIN next : next[i] \in T

\* Where the hole comes to: the least set it stays in.
Path(start, next) ==
    LET places == {start} \cup Range(next) IN
    {j \in places : \A T \in SUBSET places : start \in T /\ StaysIn(T, next) => j \in T}

\* The first n entries of the heap after this, the hole filled with e.
Moved(heap, n, start, next, e) ==
    LET path == Path(start, next) IN
    [j \in 1 .. n |-> IF j \notin path THEN heap[j]
                      ELSE IF j \in DOMAIN next THEN heap[next[j]] ELSE e]

\* Mutant: the new entry stays at the end.
AddLast(heap, entry) == Append(heap, entry)

\* The hole rises from the end past all that are to wake up later.
Rises(heap, entry) ==
    [i \in {k \in 2 .. Len(heap) + 1 : ~(wakeTime(heap[Parent(k)]) <= wakeTime(entry))} |->
        Parent(i)]

addHeap(heap, entry) ==
    Moved(heap, Len(heap) + 1, Len(heap) + 1, Rises(heap, entry), entry)

\* The earlier of the two entries below i, the left one of equals.
Earlier(heap, n, i) ==
    IF 2 * i + 1 <= n /\ wakeTime(heap[2 * i + 1]) < wakeTime(heap[2 * i])
    THEN 2 * i + 1 ELSE 2 * i

\* The hole sinks below all that are to wake up earlier.
Sinks(heap, n, entry) ==
    [i \in {k \in 1 .. n : /\ 2 * k <= n
                           /\ wakeTime(heap[Earlier(heap, n, k)]) < wakeTime(entry)} |->
        Earlier(heap, n, i)]

\* Mutant: the last entry is removed, not the top.
RemoveLast(heap) == Front(heap)

\* The heap without its top: the last entry takes its place, and sinks.
removeHeap(heap) ==
    LET n == Len(heap) - 1 IN Moved(heap, n, 1, Sinks(heap, n, Last(heap)), Last(heap))

-----------------------------------------------------------------------------

SleepInit ==
    /\ now = 0 /\ slHeap = << >> /\ sleepAt = [p \in Sleepers |-> "user"]
    /\ clockAt = "wait" /\ woken = NoSleeper

\* kernSleep up to its MboxRecv.  (A negative argument is refused.)
kernSleep(p, seconds) ==
    /\ sleepAt[p] = "user" /\ seconds >= 0
    /\ now < MaxTime /\ now + seconds <= MaxTime
    /\ slHeap' = addHeap(slHeap, [pid |-> p, wakeTime |-> now + seconds])
    /\ sleepAt' = [sleepAt EXCEPT ![p] = "recv"]
    /\ UNCHANGED <<now, clockAt, woken>>

Receives(p) ==
    /\ sleepAt[p] = "recv" /\ sleepAt' = [sleepAt EXCEPT ![p] = "asleep"]
    /\ UNCHANGED <<now, slHeap, clockAt, woken>>

\* The clock interrupt.  At the bound the time stands still.
Tick ==
    /\ now' = IF now < MaxTime THEN now + 1 ELSE now
    /\ clockAt' = IF clockAt = "wait" THEN "loop" ELSE clockAt
    /\ UNCHANGED <<slHeap, sleepAt, woken>>

\* Mutant: the time to wake up is taken to have come a second early.
DueSoon == slHeap # << >> /\ wakeTime(slHeap[1]) <= now + 1

Due == slHeap # << >> /\ wakeTime(slHeap[1]) <= now

DriverPops ==
    /\ clockAt = "loop" /\ Due
    /\ woken' = slHeap[1] /\ slHeap' = removeHeap(slHeap) /\ clockAt' = "send"
    /\ UNCHANGED <<now, sleepAt>>

\* MboxSend: it waits for the receiver.
DriverSends ==
    /\ clockAt = "send" /\ sleepAt[woken.pid] = "asleep"
    /\ sleepAt' = [sleepAt EXCEPT ![woken.pid] = "user"]
    /\ woken' = NoSleeper /\ clockAt' = "loop"
    /\ UNCHANGED <<now, slHeap>>

\* Mutant: the driver sends to one process only before it waits again.
LeavesLoop == clockAt = "loop" /\ clockAt' = "wait" /\ UNCHANGED <<now, slHeap, sleepAt, woken>>

DriverWaits ==
    /\ clockAt = "loop" /\ ~Due /\ clockAt' = "wait"
    /\ UNCHANGED <<now, slHeap, sleepAt, woken>>

clockDriver == DriverPops \/ DriverSends \/ DriverWaits

SleepNext ==
    \/ \E p \in Sleepers, s \in Seconds : kernSleep(p, s)
    \/ \E p \in Sleepers : Receives(p)
    \/ Tick \/ clockDriver

\* The clock ticks, the driver, which is of the best priority, runs, and who has
\* called addHeap goes on to MboxRecv.
SleepFairness == /\ WF_sleepVars(Tick) /\ WF_sleepVars(clockDriver)
                 /\ WF_sleepVars(\E p \in Sleepers : Receives(p))

SleepSpec == SleepInit /\ [][SleepNext]_sleepVars /\ SleepFairness

-----------------------------------------------------------------------------

HeapPids == {entry.pid : entry \in Range(slHeap)}

\* Who sleeps is in the heap once, or is about to be woken, and nobody else is.
SleepersInHeap ==
    /\ Cardinality(HeapPids) = Len(slHeap) /\ woken.pid \notin HeapPids
    /\ {p \in Sleepers : sleepAt[p] # "user"} =
         HeapPids \cup (IF clockAt = "send" THEN {woken.pid} ELSE {})

\* They are woken in the order of their times: whom the driver has taken is to be
\* woken no later than all who were in the heap with it.
WokenInOrder == [][clockAt' = "send" /\ clockAt = "loop" =>
    \A entry \in Range(slHeap) : woken'.wakeTime <= entry.wakeTime]_sleepVars

\* Nobody is woken before the time that was asked for.
NotWokenEarly == [][\A p \in Sleepers :
    sleepAt[p] = "asleep" /\ sleepAt'[p] = "user" => woken.wakeTime <= now]_sleepVars

\* Everybody is woken.
SleepersWake == \A p \in Watched : sleepAt[p] = "asleep" ~> sleepAt[p] = "user"
=============================================================================
