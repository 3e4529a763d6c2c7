------------------------------ MODULE UserProcs ------------------------------
(***************************************************************************)
(* The user processes of Phase3/phase3.c: Spawn with its trampoline, Wait  *)
(* and Terminate, over the table ProcTable that phase3.c keeps beside the  *)
(* kernel's, and beside them the semaphores, whose lists are linked by the *)
(* same field of that table.                                               *)
(*                                                                         *)
(* A process is named by its entry, pid % MAXPROC.  fork1, join and quit   *)
(* are external: the kernel gives a pid whose entry is free, join returns  *)
(* any dead child, and quit halts the machine when there are children.     *)
(* Parent and child both go about the entry of the child, and the mailbox  *)
(* in it has no slots: what is sent when nobody waits is lost.             *)
(***************************************************************************)
EXTENDS Semaphores

CONSTANTS
    MaxPid,      \* bound of the model: no Spawn once nextPid exceeds it
    Funcs,       \* the functions (with their arguments) that are spawned
    Statuses,    \* the statuses given to Terminate
    StackSizes   \* "good", and "small" for one below USLOSS_MIN_STACK

MAXPROC    == Cardinality(Procs)
Boot       == {1, 2, 3}        \* init, the sentinel and testcase_main
Start3     == 4                \* the first user process, forked by testcase_main
NULL       == "NULL"
NoPid      == -1

ASSUME UserAssumption ==
    /\ Procs = 0 .. MAXPROC - 1 /\ MAXPROC > Start3
    /\ MaxPid \in Nat /\ Statuses \subseteq Int
    /\ NULL \notin Funcs /\ StackSizes \subseteq {"good", "small"}

VARIABLES
    pid, parent, exitStatus, nextPid, \* the kernel's
    procPid, startFunc, mailBoxID, childQueue, \* ProcTable[]
    nextBox,     \* the next mailbox to be made
    waitsAt,     \* the mailbox a process waits at in spawn_T
    child,       \* spawn_K's childProc
    func,        \* spawn_K's func
    status,      \* the status the last Wait of p gave
    wanted,      \* history: the function that was to be spawned
    ran          \* history: the function that spawn_T called

kernelVars == <<pid, parent, exitStatus, nextPid>>
tableVars  == <<procPid, startFunc, mailBoxID, childQueue, nextBox>>
callVars   == <<waitsAt, child, func, status, wanted, ran>>
userVars   == <<kernelVars, tableVars, callVars>>
allVars    == <<vars, userVars>>

\* What the calls about processes leave as it is.
KeepSems == UNCHANGED <<use, semTable, holders>>

Children(p) == {c \in Procs : parent[c] = p /\ at[c] # "none"}

UserInit ==
    /\ use \in Uses
    /\ value = [s \in Sems |-> -1] /\ capacity = [s \in Sems |-> -1]
    /\ blocked = [s \in Sems |-> EmptyQueue]
    /\ nextSibling = [p \in Procs |-> Nobody]
    /\ mutex = [s \in Sems |-> << >>] /\ tokens = [s \in Sems |-> 0]
    /\ givers = [s \in Sems |-> << >>] /\ takers = [s \in Sems |-> << >>]
    /\ at = [p \in Procs |-> CASE p = Start3 -> "user" [] p \in Boot -> "boot"
                               [] OTHER -> "none"]
    /\ on = [p \in Procs |-> NoSem]
    /\ prio = [p \in Procs |-> 3] /\ cur = Start3 /\ preemptible = TRUE
    /\ holders = [s \in Sems |-> {}]
    /\ result = [p \in Procs |-> 0] /\ crashed = FALSE
    /\ pid = [p \in Procs |-> IF p \in Boot \cup {Start3} THEN p ELSE NoPid]
    /\ parent = [p \in Procs |-> IF p = Start3 THEN 3 ELSE Nobody]
    /\ exitStatus = [p \in Procs |-> 0] /\ nextPid = Start3 + 1
    /\ procPid = [p \in Procs |-> -1] /\ startFunc = [p \in Procs |-> NULL]
    /\ mailBoxID = [p \in Procs |-> -1] /\ childQueue = [p \in Procs |-> EmptyQueue]
    /\ nextBox = 0
    /\ waitsAt = [p \in Procs |-> -1] /\ child = [p \in Procs |-> Nobody]
    /\ func = [p \in Procs |-> NULL] /\ status = [p \in Procs |-> 0]
    /\ wanted = [p \in Procs |-> NULL] /\ ran = [p \in Procs |-> NULL]

-----------------------------------------------------------------------------
(* spawn_K *)

FreeEntries == {p \in Procs : at[p] = "none"}

\* The pid fork1 gives (external): the next whose entry is free.
NewPid == CHOOSE n \in nextPid .. nextPid + MAXPROC - 1 :
    /\ n % MAXPROC \in FreeEntries
    /\ \A m \in nextPid .. n - 1 : m % MAXPROC \notin FreeEntries

SpawnFork(p, f, pr) ==
    LET c == NewPid % MAXPROC IN
    /\ at[p] = "user" /\ Runs(p)
    /\ pr \in 1 .. 5 /\ FreeEntries # {} /\ nextPid <= MaxPid
    /\ pid' = [pid EXCEPT ![c] = NewPid] /\ nextPid' = NewPid + 1
    /\ parent' = [parent EXCEPT ![c] = p] /\ prio' = [prio EXCEPT ![c] = pr]
    /\ at' = [at EXCEPT ![c] = "start", ![p] = "spawned"]
    /\ child' = [child EXCEPT ![p] = c] /\ func' = [func EXCEPT ![p] = f]
    /\ wanted' = [wanted EXCEPT ![c] = f]
    /\ Dispatched(TRUE)
    /\ KeepSems
    /\ UNCHANGED <<nextSibling, on, crashed, result, exitStatus, tableVars, waitsAt,
                   status, ran>>

SpawnFails(p, pr) ==
    /\ at[p] = "user" /\ Runs(p)
    /\ pr \notin 1 .. 5 \/ FreeEntries = {}
    /\ result' = [result EXCEPT ![p] = -1] /\ preemptible' = TRUE
    /\ KeepSems
    /\ UNCHANGED <<nextSibling, at, on, prio, crashed, userVars>>

\* fork1 returns -2, which spawn_K takes for a pid: ProcTable[-2] is used.
SpawnSmallStack(p) ==
    /\ at[p] = "user" /\ Runs(p)
    /\ crashed' = TRUE /\ preemptible' = TRUE
    /\ KeepSems
    /\ UNCHANGED <<nextSibling, at, on, prio, result, userVars>>

\* The child is put on the list; an entry that was in use before is taken as it is.
SpawnPush(p) ==
    /\ at[p] = "spawned" /\ Runs(p)
    /\ childQueue' = [childQueue EXCEPT ![p] = Push(@, child[p])]
    /\ nextSibling' = Linked(childQueue[p], child[p])
    /\ Goto(p, IF procPid[child[p]] = -1 THEN "spawn.init" ELSE "spawn.fill")
    /\ Dispatched(FALSE)
    /\ KeepSems
    /\ UNCHANGED <<on, prio, crashed, result, kernelVars, procPid, startFunc, mailBoxID,
                   nextBox, callVars>>

\* process_init(pid[c]), called by p.
ProcessInit(p, c) ==
    /\ procPid' = [procPid EXCEPT ![c] = pid[c]]
    /\ startFunc' = [startFunc EXCEPT ![c] = NULL]
    /\ mailBoxID' = [mailBoxID EXCEPT ![c] = nextBox] /\ nextBox' = nextBox + 1
    /\ nextSibling' = [nextSibling EXCEPT ![c] = Nobody]
    /\ childQueue' = [childQueue EXCEPT ![c] = EmptyQueue]
    /\ Dispatched(FALSE)
    /\ KeepSems
    /\ UNCHANGED <<on, prio, crashed, result, kernelVars, callVars>>

SpawnInit(p) ==
    /\ at[p] = "spawn.init" /\ Runs(p)
    /\ Goto(p, "spawn.fill") /\ ProcessInit(p, child[p])

\* Mutant: nothing is sent.
NobodyToWake(c) == FALSE

\* MboxCondSend: the child is woken if it waits at the mailbox by now.
ToWake(c) == at[c] = "start.sleep" /\ waitsAt[c] = mailBoxID[c]

\* Mutant: one field startFunc for all entries.
FilledForAll(p, c) == [q \in Procs |-> func[p]]

Filled(p, c) == [startFunc EXCEPT ![c] = func[p]]

SpawnFill(p) ==
    LET c == child[p]
        waked == IF ToWake(c) THEN [at EXCEPT ![c] = "start.run"] ELSE at
    IN
    /\ at[p] = "spawn.fill" /\ Runs(p)
    /\ startFunc' = Filled(p, c)
    /\ at' = [waked EXCEPT ![p] = "user"]
    /\ result' = [result EXCEPT ![p] = pid[c]] /\ preemptible' = TRUE
    /\ child' = [child EXCEPT ![p] = Nobody] /\ func' = [func EXCEPT ![p] = NULL]
    /\ KeepSems
    /\ UNCHANGED <<nextSibling, on, prio, crashed, kernelVars, procPid, mailBoxID,
                   childQueue, nextBox, waitsAt, status, wanted, ran>>

-----------------------------------------------------------------------------
(* spawn_T *)

StartLooks(c) ==
    /\ at[c] = "start" /\ Runs(c)
    /\ Goto(c, IF procPid[c] = -1 THEN "start.init" ELSE "start.run")
    /\ Dispatched(FALSE)
    /\ KeepSems
    /\ UNCHANGED <<nextSibling, on, prio, crashed, result, userVars>>

StartInit(c) ==
    /\ at[c] = "start.init" /\ Runs(c)
    /\ Goto(c, "start.recv") /\ ProcessInit(c, c)

StartWaits(c) ==
    /\ at[c] = "start.recv" /\ Runs(c)
    /\ Goto(c, "start.sleep") /\ waitsAt' = [waitsAt EXCEPT ![c] = mailBoxID[c]]
    /\ Dispatched(TRUE)
    /\ KeepSems
    /\ UNCHANGED <<nextSibling, on, prio, crashed, result, kernelVars, tableVars, child,
                   func, status, wanted, ran>>

StartRuns(c) ==
    /\ at[c] = "start.run" /\ Runs(c)
    /\ IF startFunc[c] = NULL
       THEN crashed' = TRUE /\ UNCHANGED <<at, ran>>
       ELSE /\ Goto(c, "user") /\ ran' = [ran EXCEPT ![c] = startFunc[c]]
            /\ UNCHANGED crashed
    /\ preemptible' = TRUE
    /\ KeepSems
    /\ UNCHANGED <<nextSibling, on, prio, result, kernelVars, tableVars, waitsAt, child,
                   func, status, wanted>>

-----------------------------------------------------------------------------
(* wait_K and terminate_K *)

DeadChildren(p) == {c \in Children(p) : at[c] = "quit"}

NoneDead(p) == Children(p) # {} /\ DeadChildren(p) = {}

\* A parent that sleeps in join goes on there when a child quits.
Woken(p) == CASE at[p] = "join.sleep" -> "join" [] at[p] = "leave.sleep" -> "leave.join"
              [] OTHER -> at[p]

\* The kernel frees the dead child c; its entry of ProcTable stays as it is.
Reaped(c) == [at EXCEPT ![c] = "none"]

Wait(p) ==
    /\ at[p] = "user" /\ Runs(p)
    /\ Goto(p, "join") /\ Dispatched(FALSE)
    /\ KeepSems
    /\ UNCHANGED <<nextSibling, on, prio, crashed, result, userVars>>

WaitReturns(p) ==
    /\ at[p] = "join" /\ Runs(p)
    /\ \/ \E c \in DeadChildren(p) :
            /\ at' = [Reaped(c) EXCEPT ![p] = "user"]
            /\ pid' = [pid EXCEPT ![c] = NoPid]
            /\ result' = [result EXCEPT ![p] = pid[c]]
            /\ status' = [status EXCEPT ![p] = exitStatus[c]]
       \/ /\ Children(p) = {} /\ Goto(p, "user")
          /\ result' = [result EXCEPT ![p] = -2] /\ UNCHANGED <<pid, status>>
       \/ /\ NoneDead(p) /\ Goto(p, "join.sleep") /\ UNCHANGED <<pid, status, result>>
    /\ preemptible' = TRUE
    /\ KeepSems
    /\ UNCHANGED <<nextSibling, on, prio, crashed, parent, exitStatus, nextPid, tableVars,
                   waitsAt, child, func, wanted, ran>>

Terminate(p, st) ==
    /\ at[p] = "user" /\ Runs(p)
    /\ Goto(p, "leave") /\ exitStatus' = [exitStatus EXCEPT ![p] = st]
    /\ Dispatched(FALSE)
    /\ KeepSems
    /\ UNCHANGED <<nextSibling, on, prio, crashed, result, pid, parent, nextPid,
                   tableVars, callVars>>

OnList(p) == childQueue[p].size > 0

\* One turn of the loop: an entry is popped, then a child is waited for.
TerminatePops(p) ==
    /\ at[p] = "leave" /\ Runs(p) /\ OnList(p)
    /\ IF childQueue[p].head = Nobody
       THEN crashed' = TRUE /\ UNCHANGED childQueue
       ELSE childQueue' = [childQueue EXCEPT ![p] = Pop(@)] /\ UNCHANGED crashed
    /\ Goto(p, "leave.join") /\ Dispatched(FALSE)
    /\ KeepSems
    /\ UNCHANGED <<nextSibling, on, prio, result, kernelVars, procPid, startFunc,
                   mailBoxID, nextBox, callVars>>

TerminateJoins(p) ==
    /\ at[p] = "leave.join" /\ Runs(p)
    /\ \/ \E c \in DeadChildren(p) : /\ at' = [Reaped(c) EXCEPT ![p] = "leave"]
                                     /\ pid' = [pid EXCEPT ![c] = NoPid]
       \/ Children(p) = {} /\ Goto(p, "leave") /\ UNCHANGED pid
       \/ NoneDead(p) /\ Goto(p, "leave.sleep") /\ UNCHANGED pid
    /\ Dispatched(TRUE)
    /\ KeepSems
    /\ UNCHANGED <<nextSibling, on, prio, crashed, result, parent, exitStatus, nextPid,
                   tableVars, callVars>>

Quits(p) ==
    /\ at[p] = "leave" /\ Runs(p) /\ ~OnList(p)
    /\ crashed' = (Children(p) # {})
    /\ at' = [at EXCEPT ![p] = "quit", ![parent[p]] = Woken(parent[p])]
    /\ Dispatched(TRUE)
    /\ wanted' = [wanted EXCEPT ![p] = NULL] /\ ran' = [ran EXCEPT ![p] = NULL]
    /\ KeepSems
    /\ UNCHANGED <<nextSibling, on, prio, result, kernelVars, tableVars, waitsAt, child,
                   func, status>>

\* nullsys, for a number that no call has.
NullSys(p) == Terminate(p, 0)

GetPID(p) ==
    /\ at[p] = "user" /\ Runs(p)
    /\ result' = [result EXCEPT ![p] = pid[p]] /\ preemptible' = TRUE
    /\ KeepSems
    /\ UNCHANGED <<nextSibling, at, on, prio, crashed, userVars>>
-----------------------------------------------------------------------------

SpawnCall(p, f, pr) == SpawnFork(p, f, pr) \/ SpawnFails(p, pr)

UserCall(p) ==
    \/ \E f \in Funcs, pr \in Priorities : SpawnCall(p, f, pr)
    \/ "small" \in StackSizes /\ SpawnSmallStack(p)
    \/ Wait(p) \/ NullSys(p) \/ GetPID(p)
    \/ \E st \in Statuses : Terminate(p, st)
    \/ SemCall(p) /\ UNCHANGED userVars

UserStep(p) ==
    \/ SpawnPush(p) \/ SpawnInit(p) \/ SpawnFill(p)
    \/ StartLooks(p) \/ StartInit(p) \/ StartWaits(p) \/ StartRuns(p)
    \/ WaitReturns(p) \/ TerminatePops(p) \/ TerminateJoins(p) \/ Quits(p)
    \/ SemStep(p) /\ UNCHANGED userVars

UserNext == \E p \in Procs : UserCall(p) \/ UserStep(p)

UserSpec == UserInit /\ [][UserNext]_allVars

-----------------------------------------------------------------------------
(* What Spawn, Wait and Terminate promise. *)

\* A process runs the function it was spawned with, not what its entry held before.
RunsOwnFunction == \A p \in Procs : ran[p] \in {NULL, wanted[p]}

\* No list is followed past its end, no function NULL is called, no entry outside
\* the table is used, and nobody quits while he has children.
NeverCrashes == ~crashed
=============================================================================
