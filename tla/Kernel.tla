------------------------------- MODULE Kernel -------------------------------
(***************************************************************************)
(* The process kernel, phase1b/phase1.c: the process table, fork1, join,   *)
(* quit, zap, blockMe, unblockProc, the dispatcher, time slicing by the    *)
(* clock interrupt and the sentinel.                                       *)
(*                                                                         *)
(* One CPU runs one process at a time, the one in slot cur.  The code      *)
(* between two places where it lets interrupts in is one action; pc[s]     *)
(* says at which of those places the process of slot s stands.  Every call *)
(* ends by running the dispatcher (action Dispatch) with the status        *)
(* changes it made.  A clock interrupt whose 80 ms slice has expired may   *)
(* strike at the places TickPoints names; which processes call what, with  *)
(* which arguments, is left open.                                          *)
(***************************************************************************)
EXTENDS Integers, Sequences, FiniteSets, SequencesExt

CONSTANTS
    MAXPROC,     \* size of the process table
    MaxPid,      \* bound of the model: no fork1 once nextPID exceeds it
    MaxZaps,     \* bound of the model: no zap once calledZapped is this long
    Priorities,  \* the priority arguments fork1 is called with, bad ones too
    CheckIO,     \* the results of phase2_check_io() that are possible
    TickPoints   \* where a clock interrupt may find the slice used up

Slot         == 0 .. MAXPROC - 1
NoSlot       == -1
NoPid        == -1
InitSlot     == 1
SentinelPid  == 2
SentinelSlot == 2
MainPid      == 3
MainSlot     == 3

Statuses == {"EMPTY", "READY", "RUNNING", "QUIT", "JOINBLOCK", "ZAPBLOCK",
             "SLICED", "BLOCKED"}

\* Where a process stands.  "user": outside the kernel.  "fork": in fork1, slot
\* found, table entry not yet filled.  "scan" and "block": in the loop of join,
\* before and after it looked at the children.  "returned": quit() came back.
\* The others: a call has changed its statuses and is about to dispatch.
Dispatching == {"forked", "joining", "joined", "zapping", "blocking",
                "unblocking", "quitting"}
Points == {"user", "fork", "scan", "block", "returned"} \cup Dispatching

ASSUME SlotAssumption == MAXPROC \in Nat /\ MAXPROC >= 4
ASSUME ModelAssumption ==
    /\ MaxPid \in Nat /\ MaxZaps \in 0 .. MAXPROC
    /\ Priorities \subseteq Int
    /\ CheckIO \subseteq BOOLEAN
    /\ TickPoints \subseteq Points

VARIABLES
    status, pid, priority, parent,
    children,      \* the list children -> nextSibling -> ..., as slots
    isZapped,
    calledZapped,  \* the pids waiting in zap() for this process to quit
    blockReason,   \* whether blockReason is other than 0
    cur,           \* the slot CurrentProc points to
    nextPID,
    pc,
    procIndex,     \* fork1's local: the slot it found
    newPriority,   \* fork1's argument
    masked,        \* CurrentProc runs its own code with interrupts off
    halted         \* "no", or why USLOSS_Halt was called

procVars == <<pid, priority, parent, children, isZapped, calledZapped>>
forkVars == <<procIndex, newPriority>>
vars == <<status, procVars, blockReason, cur, nextPID, pc, forkVars, masked,
          halted>>

TypeOK ==
    /\ status \in [Slot -> Statuses]
    /\ pid \in [Slot -> Int]
    /\ priority \in [Slot -> Int]
    /\ parent \in [Slot -> Slot \cup {NoSlot}]
    /\ children \in [Slot -> Seq(Slot)]
    /\ isZapped \in [Slot -> BOOLEAN]
    /\ calledZapped \in [Slot -> Seq(Int)]
    /\ blockReason \in [Slot -> BOOLEAN]
    /\ cur \in Slot
    /\ nextPID \in Nat
    /\ pc \in [Slot -> Points]
    /\ procIndex \in [Slot -> Slot]
    /\ newPriority \in [Slot -> Int]
    /\ masked \in BOOLEAN
    /\ halted \in {"no", "deadlock", "error", "done"}

\* phase1_init up to its second fork1, whose dispatcher call leaves for
\* testcase_main: init (never dispatched), the sentinel and testcase_main.
Init ==
    LET boot == {InitSlot, SentinelSlot, MainSlot} IN
    /\ status = [s \in Slot |-> IF s = MainSlot THEN "RUNNING"
                                ELSE IF s \in boot THEN "READY" ELSE "EMPTY"]
    /\ pid = [s \in Slot |-> IF s \in boot THEN s ELSE NoPid]
    /\ priority = [s \in Slot |-> CASE s = InitSlot -> 6
                                    [] s = SentinelSlot -> 7
                                    [] s = MainSlot -> 3
                                    [] OTHER -> -1]
    /\ parent = [s \in Slot |-> IF s \in boot \ {InitSlot} THEN InitSlot ELSE NoSlot]
    /\ children = [s \in Slot |-> IF s = InitSlot THEN <<MainSlot, SentinelSlot>>
                                  ELSE <<>>]
    /\ isZapped = [s \in Slot |-> FALSE]
    /\ calledZapped = [s \in Slot |-> <<>>]
    /\ blockReason = [s \in Slot |-> FALSE]
    /\ cur = MainSlot
    /\ nextPID = MainPid + 1
    /\ pc = [s \in Slot |-> "user"]
    /\ procIndex = [s \in Slot |-> 0]
    /\ newPriority = [s \in Slot |-> 0]
    /\ masked = FALSE
    /\ halted = "no"

-----------------------------------------------------------------------------
(* The dispatcher.  Its `index` is a pid, also where it is used as a slot. *)

\* Mutant: the loop starts at 2, as the third one does.
RunnableFromTwo(st) == {s \in Slot : s >= 2 /\ st[s] \in {"READY", "RUNNING"}}

Runnable(st) == {s \in Slot \ {InitSlot} :
                    st[s] \in {"READY", "RUNNING"} /\ priority[s] \in 0 .. 9}

\* Mutant: the first runnable process that is not the sentinel.
FirstRunnable(S) == CHOOSE s \in S : \A o \in S :
              o = SentinelSlot \/ (s # SentinelSlot /\ s <= o)

\* The first loop: the best priority, and of those the lowest slot.
Best(S) == CHOOSE s \in S : \A o \in S :
              priority[s] < priority[o] \/ (priority[s] = priority[o] /\ s <= o)

\* The second loop: from slot `index` up, the last zapped one just as good.
\* (With nothing runnable the loop starts by reading ProcList[-1], whose
\* priority would have to be 10 to matter: that memory holds no such value.)
PreferZapped(st, best) ==
    LET Z == {s \in Runnable(st) : /\ s >= pid[best] /\ isZapped[s]
                                   /\ priority[s] = priority[best]}
    IN  IF Z = {} THEN pid[best] ELSE pid[Max(Z)]

\* Mutant: the process just sliced is not left out.
AllSliced(st, dev) == {s \in Slot : s >= 2 /\ st[s] = "SLICED"}

\* The third loop: instead of the sentinel, the last sliced process, but for the
\* one whose pid is dev.
Sliced(st, dev) == {s \in Slot : s >= 2 /\ st[s] = "SLICED" /\ pid[s] # dev}

PidToRun(st, dev) ==
    IF Runnable(st) = {} THEN NoPid
    ELSE LET index == PreferZapped(st, Best(Runnable(st)))
         IN  IF index = SentinelPid /\ Sliced(st, dev) # {}
             THEN pid[Max(Sliced(st, dev))] ELSE index

\* Mutant: the slot is taken to be the pid.
PidAsSlot(p) == p

\* switchToIndex: the slot of a pid.
IndexTo(p) == p % MAXPROC

\* Mutant: whatever its status, the process that is left becomes READY.
AlwaysReady(st) == "READY"

\* The status of the process that is left.
Preempted(st) == IF st = "RUNNING" THEN "READY" ELSE st

\* dispatcher(dev) and switchToIndex, the statuses being st.
SwitchFrom(st, dev) ==
    LET index == PidToRun(st, dev) IN
    IF index = NoPid
    THEN status' = st /\ cur' = cur
    ELSE /\ cur' = IndexTo(index)
         /\ status' = [[st EXCEPT ![cur] = Preempted(@)]
                           EXCEPT ![IndexTo(index)] = "RUNNING"]

\* The argument each call gives the dispatcher, and where it goes on.
Dev == [forked |-> 3, joining |-> 5, joined |-> 5, zapping |-> 0,
        blocking |-> 6, unblocking |-> 6, quitting |-> 1]

AfterDispatch(at) ==
    CASE at = "joining" -> "scan" [] at = "quitting" -> "returned" [] OTHER -> "user"

At(p) == halted = "no" /\ pc[cur] = p
Goto(p) == pc' = [pc EXCEPT ![cur] = p]
InUser == At("user") /\ cur # SentinelSlot

Halt(why) == /\ halted' = why
             /\ UNCHANGED <<status, procVars, blockReason, cur, nextPID, pc,
                            forkVars, masked>>

\* The dispatcher call at the end of a call.  When it finds nothing to run it
\* returns with interrupts off.
Dispatch ==
    /\ halted = "no" /\ pc[cur] \in Dispatching
    /\ SwitchFrom(status, Dev[pc[cur]])
    /\ Goto(AfterDispatch(pc[cur]))
    /\ masked' = (PidToRun(status, Dev[pc[cur]]) = NoPid)
    /\ UNCHANGED <<procVars, blockReason, nextPID, forkVars, halted>>

-----------------------------------------------------------------------------
(* fork1 *)

\* findNextIndex: the free slots, by their distance from the one nextPID names.
FreeOffsets == {k \in Slot : status[(nextPID + k) % MAXPROC] = "EMPTY"}
FreeIndex   == (nextPID + Min(FreeOffsets)) % MAXPROC

\* Mutant: no pid is skipped for a slot in use.
NothingSkipped == 0

\* The pids skipped: one for each slot in use that was looked at.
Skipped == IF FreeOffsets = {} THEN MAXPROC ELSE Min(FreeOffsets)

\* The checks and findNextIndex, which lets interrupts in when it returns.
ForkFind(p) ==
    /\ InUser /\ nextPID <= MaxPid
    /\ p \in 1 .. 5 /\ FreeOffsets # {}
    /\ nextPID' = nextPID + Skipped
    /\ procIndex' = [procIndex EXCEPT ![cur] = FreeIndex]
    /\ newPriority' = [newPriority EXCEPT ![cur] = p]
    /\ Goto("fork")
    /\ masked' = FALSE
    /\ UNCHANGED <<status, procVars, blockReason, cur, halted>>

\* A bad argument, or a full table.
ForkFail(p) ==
    /\ InUser /\ nextPID <= MaxPid
    /\ \/ p \notin 1 .. 5 /\ nextPID' = nextPID
       \/ p \in 1 .. 5 /\ FreeOffsets = {} /\ nextPID' = nextPID + Skipped
    /\ masked' = FALSE
    /\ UNCHANGED <<status, procVars, blockReason, cur, pc, forkVars, halted>>

\* The new nextSibling of slot s shows in every list s is on.
Relink(list, s, rest) ==
    IF Contains(list, s)
    THEN SubSeq(list, 1, SelectInSeq(list, LAMBDA x : x = s)) \o rest ELSE list

\* The rest of fork1, done with interrupts on, up to its dispatcher call.
ForkFill ==
    LET s == procIndex[cur] IN
    /\ At("fork")
    /\ pid' = [pid EXCEPT ![s] = nextPID]
    /\ status' = [status EXCEPT ![s] = "READY"]
    /\ priority' = [priority EXCEPT ![s] = newPriority[cur]]
    /\ parent' = [parent EXCEPT ![s] = cur]
    /\ children' = [x \in Slot |->
            IF x = cur THEN <<s>> \o children[cur]
            ELSE IF x = s THEN <<>> ELSE Relink(children[x], s, children[cur])]
    /\ nextPID' = nextPID + 1
    /\ pc' = [pc EXCEPT ![s] = "user", ![cur] = "forked"]
    /\ procIndex' = [procIndex EXCEPT ![cur] = 0]
    /\ newPriority' = [newPriority EXCEPT ![cur] = 0]
    /\ UNCHANGED <<isZapped, calledZapped, blockReason, cur, masked, halted>>

-----------------------------------------------------------------------------
(* join *)

\* Mutant: the entry before it is not linked past it, but dropped with it.
UnlinkFromHead(list, i) == SubSeq(list, i + 1, Len(list))

\* The list without its i-th entry.
Unlink(list, i) == RemoveAt(list, i)

QuitChild(s) == status[s] = "QUIT"
Joining == halted = "no" /\ cur # SentinelSlot /\ pc[cur] \in {"user", "scan"}
Dead == SelectInSeq(children[cur], QuitChild)  \* position of the first dead child

\* No children: join returns -2 and leaves interrupts off.
JoinNoChildren ==
    /\ Joining /\ children[cur] = <<>>
    /\ Goto("user")
    /\ masked' = (masked \/ pc[cur] = "user")
    /\ UNCHANGED <<status, procVars, blockReason, cur, nextPID, forkVars, halted>>

\* The first dead child on the list is taken off it and freed (freeProc).
JoinReap ==
    LET c == children[cur][Dead] IN
    /\ Joining /\ Dead # 0
    /\ status' = [status EXCEPT ![c] = "EMPTY", ![cur] = "READY"]
    /\ pid' = [pid EXCEPT ![c] = NoPid]
    /\ priority' = [priority EXCEPT ![c] = -1]
    /\ parent' = [parent EXCEPT ![c] = NoSlot]
    /\ children' = [children EXCEPT ![cur] = Unlink(@, Dead), ![c] = <<>>]
    /\ isZapped' = [isZapped EXCEPT ![c] = FALSE]
    /\ calledZapped' = [calledZapped EXCEPT ![c] = <<>>]
    /\ blockReason' = [blockReason EXCEPT ![c] = FALSE]
    /\ pc' = [pc EXCEPT ![c] = "user", ![cur] = "joined"]
    /\ masked' = FALSE
    /\ UNCHANGED <<cur, nextPID, forkVars, halted>>

\* No dead child.  The first look at the children is made with interrupts off,
\* so that blocking belongs to it; later looks are made with interrupts on.
JoinLook ==
    /\ Joining /\ children[cur] # <<>> /\ Dead = 0
    /\ \/ /\ pc[cur] = "user"
          /\ status' = [status EXCEPT ![cur] = "JOINBLOCK"]
          /\ Goto("joining")
       \/ /\ pc[cur] = "scan"
          /\ Goto("block")
          /\ UNCHANGED status
    /\ masked' = FALSE
    /\ UNCHANGED <<procVars, blockReason, cur, nextPID, forkVars, halted>>

JoinBlock ==
    /\ At("block")
    /\ status' = [status EXCEPT ![cur] = "JOINBLOCK"]
    /\ Goto("joining")
    /\ UNCHANGED <<procVars, blockReason, cur, nextPID, forkVars, masked, halted>>

-----------------------------------------------------------------------------
(* quit, zap, blockMe, unblockProc *)

Zappers(s) == {p % MAXPROC : p \in Range(calledZapped[s])}

\* Mutant: the parent is not woken.
WokenZappers == {s \in Slot : s \in Zappers(cur) /\ status[s] = "ZAPBLOCK"}

\* Mutant: the zappers are not woken.
WokenParent == {s \in Slot : s = parent[cur] /\ status[s] = "JOINBLOCK"}

\* Mutant: the parent is woken whatever it is doing.
WokenAnyParent == {s \in Slot : s = parent[cur] \/ s \in WokenZappers}

\* The slots quit makes READY: a parent in join, and those waiting in zap.
Woken == {s \in Slot : \/ s = parent[cur] /\ status[s] = "JOINBLOCK"
                       \/ s \in Zappers(cur) /\ status[s] = "ZAPBLOCK"}

Quit ==
    /\ InUser /\ children[cur] = <<>>
    /\ status' = [s \in Slot |-> IF s = cur THEN "QUIT"
                                 ELSE IF s \in Woken THEN "READY" ELSE status[s]]
    /\ Goto("quitting")
    /\ masked' = FALSE
    /\ UNCHANGED <<procVars, blockReason, cur, nextPID, forkVars, halted>>

QuitWithChildren == InUser /\ children[cur] # <<>> /\ Halt("error")

\* quit() came back: the start function of the context returns, and USLOSS stops.
QuitReturned == At("returned") /\ Halt("error")

\* testcase_main returns into testMain_trampoline.
MainReturns == InUser /\ pid[cur] = MainPid /\ Halt("done")

ZapTargets == {s \in Slot \ {InitSlot, cur} : status[s] \notin {"EMPTY", "QUIT"}}

Zap(p) ==
    LET t == p % MAXPROC IN
    /\ InUser /\ p > 0 /\ t \in ZapTargets /\ pid[t] = p
    /\ Len(calledZapped[t]) < MaxZaps
    /\ isZapped' = [isZapped EXCEPT ![t] = TRUE]
    /\ calledZapped' = [calledZapped EXCEPT ![t] = Append(@, pid[cur])]
    /\ status' = [status EXCEPT ![cur] = "ZAPBLOCK"]
    /\ Goto("zapping")
    /\ masked' = FALSE
    /\ UNCHANGED <<pid, priority, parent, children, blockReason, cur, nextPID,
                   forkVars, halted>>

\* Itself, init, a dead or a non-existent process.
ZapError(p) ==
    /\ InUser
    /\ \/ p <= 0
       \/ p % MAXPROC \notin ZapTargets
       \/ pid[p % MAXPROC] # p
    /\ Halt("error")

BlockMe ==
    /\ InUser
    /\ blockReason' = [blockReason EXCEPT ![cur] = TRUE]
    /\ status' = [status EXCEPT ![cur] = "BLOCKED"]
    /\ Goto("blocking")
    /\ masked' = FALSE
    /\ UNCHANGED <<procVars, cur, nextPID, forkVars, halted>>

BlockMeError == InUser /\ Halt("error")  \* a reason of 10 or less

Unblock(p) ==
    LET t == p % MAXPROC IN
    /\ InUser /\ blockReason[t]
    /\ blockReason' = [blockReason EXCEPT ![t] = FALSE]
    /\ status' = [status EXCEPT ![t] = "READY"]
    /\ Goto("unblocking")
    /\ masked' = FALSE
    /\ UNCHANGED <<procVars, cur, nextPID, forkVars, halted>>

\* unblockProc returns -2.
UnblockFail(p) ==
    /\ InUser /\ ~blockReason[p % MAXPROC]
    /\ masked' = FALSE
    /\ UNCHANGED <<status, procVars, blockReason, cur, nextPID, pc, forkVars, halted>>

-----------------------------------------------------------------------------
(* Interrupts and the sentinel *)

\* clockHandler with the slice of CurrentProc used up.  The handler runs on the
\* stack of the process, which goes on where it was when it is dispatched again.
TimeSlice ==
    /\ halted = "no" /\ ~masked /\ pc[cur] \in TickPoints
    /\ SwitchFrom([status EXCEPT ![cur] = "SLICED"], pid[cur])
    /\ UNCHANGED <<procVars, blockReason, nextPID, pc, forkVars, masked, halted>>

\* A device handler of a later phase wakes the driver that waits for it: it calls
\* unblockProc on the stack of the process it interrupts.
DeviceInterrupt ==
    /\ At("user") /\ ~masked /\ TRUE \in CheckIO
    /\ \E t \in Slot :
        /\ blockReason[t]
        /\ blockReason' = [blockReason EXCEPT ![t] = FALSE]
        /\ SwitchFrom([status EXCEPT ![t] = "READY"], 6)
    /\ UNCHANGED <<procVars, nextPID, pc, forkVars, masked, halted>>

\* phase2_check_io() says that no I/O is going on: halt; or else WaitInt.
SentinelHalts == At("user") /\ cur = SentinelSlot /\ FALSE \in CheckIO /\ Halt("deadlock")
SentinelWaits == At("user") /\ cur = SentinelSlot /\ TRUE \in CheckIO /\ UNCHANGED vars

Halted == halted # "no" /\ UNCHANGED vars

Next ==
    \/ Dispatch \/ ForkFill
    \/ \E p \in Priorities : ForkFind(p) \/ ForkFail(p)
    \/ JoinNoChildren \/ JoinReap \/ JoinLook \/ JoinBlock
    \/ Quit \/ QuitWithChildren \/ QuitReturned \/ MainReturns
    \/ \E p \in 0 .. nextPID : Zap(p) \/ ZapError(p)
    \/ BlockMe \/ BlockMeError
    \/ \E p \in 1 .. nextPID : Unblock(p) \/ UnblockFail(p)
    \/ TimeSlice \/ DeviceInterrupt \/ SentinelHalts \/ SentinelWaits
    \/ Halted

Spec == Init /\ [][Next]_vars

\* The CPU goes on executing kernel code, and the clock goes on ticking: a slice
\* that is used up ends.  Nothing is assumed of the code of the processes.
KernelStep ==
    \/ Dispatch \/ ForkFill \/ JoinBlock \/ QuitReturned \/ SentinelHalts
    \/ pc[cur] = "scan" /\ (JoinReap \/ JoinLook)

FairSpec == Spec /\ WF_vars(KernelStep) /\ WF_vars(TimeSlice)

-----------------------------------------------------------------------------
(* What the kernel promises. *)

\* The children lists and the parent pointers describe one tree: a process is
\* on the list of its parent, once, and on no other, from fork1 until its join.
FamilyTree ==
    /\ \A p \in Slot : IsInjective(children[p])
    /\ \A p, s \in Slot :
          Contains(children[p], s) <=> status[s] # "EMPTY" /\ parent[s] = p

\* No quit is lost: a parent blocked in join has no child that has quit (quit
\* wakes it, and join looks at its children before it blocks).
NoLostQuit ==
    \A p \in Slot : status[p] = "JOINBLOCK" =>
        \A s \in Slot : parent[s] = p => status[s] # "QUIT"

\* A process waiting in zap waits for one that lives: quit wakes all its zappers.
ZapsLiveTarget ==
    \A z \in Slot : status[z] = "ZAPBLOCK" =>
        \E t \in Slot : /\ status[t] \notin {"EMPTY", "QUIT"}
                        /\ Contains(calledZapped[t], pid[z])

\* zap returns only once its target has quit.
ZapWaits == pc[cur] = "user" =>
    \A t \in Slot : Contains(calledZapped[t], pid[cur]) => status[t] = "QUIT"

\* quit never returns (phase1.h declares it noreturn).
QuitNeverReturns == \A s \in Slot : pc[cur] # "returned"

\* A pid names its slot, and all pids handed out are below nextPID: the lookups
\* by pid % MAXPROC find the process, and no two processes share a pid.
PidsNameSlots == \A s \in Slot : status[s] # "EMPTY" =>
                    pid[s] % MAXPROC = s /\ pid[s] < nextPID

\* While a process runs, none that could run has a better priority.
RunsByPriority == At("user") /\ cur # SentinelSlot =>
    \A s \in Slot \ {InitSlot} :
        status[s] \in {"READY", "SLICED"} => priority[cur] <= priority[s]

\* The sentinel reports a deadlock only when no other process could run.
DeadlockIsReal == halted = "deadlock" =>
    \A s \in Slot \ {InitSlot, SentinelSlot} : status[s] \notin {"READY", "SLICED"}

\* Slicing shares the CPU: a process whose slice was used up runs again, unless
\* the machine halts or a process runs with interrupts off.
TimeSharing == \A s \in Slot :
    status[s] = "SLICED" ~> status[s] = "RUNNING" \/ masked \/ halted # "no"
=============================================================================
