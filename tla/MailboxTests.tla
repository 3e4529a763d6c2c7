----------------------------- MODULE MailboxTests -----------------------------
(***************************************************************************)
(* Mailboxes on the process kernel: Phase2/phase2.c with the library of    *)
(* phase 1, as one machine.  A send or receive that waits is blockMe of    *)
(* Kernel, to wake a process is unblockProc, and the dispatcher decides    *)
(* who goes on.  waitDevice counts in io the processes that wait for a     *)
(* device, and phase2_check_io tells the sentinel.                         *)
(*                                                                         *)
(* The clients are the test programs of Phase2: what each of their C       *)
(* functions calls, with what each call gave and the order in which the    *)
(* processes took turns, as the recorded output shows: testNN.student_out, *)
(* or testNN.out where there is none or (06, 11, 13) it is of another      *)
(* version.  Loops are unrolled, and those that fill the tables shortened  *)
(* with them.  Left out are 25 and 26, which of whose processes of one     *)
(* priority gets which message the records decide otherwise, 28, where the *)
(* model of mailboxes stops, and 29, whose record expects a refusal where  *)
(* the code waits.  The program "free" calls what it likes.                *)
(***************************************************************************)
EXTENDS Mailbox

CONSTANTS
    MAX_MESSAGE,
    Programs,  \* those to be run
    FreePids   \* bound of the model: "free" forks while nextPID is no larger

VARIABLES
    \* The variables of Kernel; kstatus is its status.
    kstatus, pid, priority, parent, children, isZapped, calledZapped, blockReason,
    cur, nextPID, pc, procIndex, newPriority, masked, halted,
    io,       \* how many processes are in waitDevice
    \* The programs.
    program,  \* the name of the program
    func,     \* the C function of each process
    ip,       \* the index of its next call
    result,   \* what its last call returned
    joined,   \* the status its last join gave
    heard,    \* the message it received last
    exit,     \* the argument of its quit
    turns     \* the pids of the processes that ran, in order

kernelVars == <<kstatus, pid, priority, parent, children, isZapped, calledZapped,
                blockReason, cur, nextPID, pc, procIndex, newPriority, masked, halted>>
testVars == <<program, func, ip, result, joined, heard, exit, turns>>
allVars  == <<vars, kernelVars, io, testVars>>

\* phase2_init replaces the clock handler of the kernel by its own, which ends no
\* slice.  Whether I/O is going on is for io to say.
K == INSTANCE Kernel WITH status <- kstatus, MAXPROC <- Cardinality(Procs),
        MaxPid <- 10 * Cardinality(Procs), MaxZaps <- 0, Priorities <- {},
        CheckIO <- BOOLEAN, TickPoints <- {}

-----------------------------------------------------------------------------

NotPrinted == -99
AnyOrder   == << >>

CLOCK == 0
TERM  == 3

Message(n, k) == [id |-> n, size |-> k]
Empty   == Message(0, 0)
There   == Message(1, 12)
Hello(i) == Message(i + 1, 16)
Bye(i)   == Message(i + 21, 13)
From(i)  == Message(i + 41, 17)
Long(i)  == Message(i + 1, 24)
Unheard == Message(NotPrinted, 0)

Op(name, n) == [call |-> name, gives |-> n, quiet |-> FALSE]
At(b, op)   == op @@ [box |-> b]
Hears(k, m, op) == op @@ [bufSize |-> k, hears |-> m.id]

Fork(f, pr)  == Op("fork1", NotPrinted) @@ [f |-> f, prio |-> pr]
Join(n, st)  == Op("join", n) @@ [status |-> st]
Exit(st)     == Op("quit", NotPrinted) @@ [status |-> st]
Return       == Op("return", NotPrinted)
Syscall      == Op("syscall", NotPrinted)
MboxCreate(k, size0, n)   == Op("MboxCreate", n) @@ [geometry |-> <<k, size0>>]
MboxSend(b, m, n)         == At(b, Op("MboxSend", n)) @@ [msg |-> m]
MboxCondSend(b, m, n)     == At(b, Op("MboxCondSend", n)) @@ [msg |-> m]
MboxRecv(b, k, n, m)      == At(b, Hears(k, m, Op("MboxRecv", n)))
MboxCondRecv(b, k, n, m)  == At(b, Hears(k, m, Op("MboxCondRecv", n)))
MboxRelease(b, n)         == At(b, Op("MboxRelease", n))
waitDevice(b)             == At(b, Op("waitDevice", NotPrinted))

\* A call before which nothing is printed.
Quiet(op) == [op EXCEPT !.quiet = TRUE]

\* An operation or a sequence of k of them.
Times(k, op) == [i \in 1 .. k |-> op]
Sends(b, k, m(_), n)  == [i \in 1 .. k |-> MboxSend(b, m(i - 1), n)]
CondSends(b, k, m(_), n) == [i \in 1 .. k |-> MboxCondSend(b, m(i - 1), n)]
Recvs(b, k, m(_)) == [i \in 1 .. k |-> MboxRecv(b, 100, m(i - 1).size, m(i - 1))]
CondRecvs(b, k, m(_)) == [i \in 1 .. k |-> MboxCondRecv(b, 100, m(i - 1).size, m(i - 1))]
ThreeForks(f, pr) == <<Fork(f[1], pr), Fork(f[2], pr), Fork(f[3], pr)>>
XXp2s == <<"XXp2a", "XXp2b", "XXp2c">>

\* A program of start2 alone, and how it ends.
Alone(ops) == [start2 |-> ops \o <<Exit(0)>>, turns |-> <<4>>, ends |-> "done"]

Test00 == Alone(<< >>)
Test01 == Alone(<<MboxCreate(10, 50, 7), MboxCreate(20, 30, 8)>>)

\* MAXMBOX + 3 boxes.
Test02 == Alone([i \in 1 .. MAXMBOX + 3 |->
                   MboxCreate(10, 50, IF i <= MAXMBOX - 7 THEN i + 6 ELSE -1)])

Test03 == Alone(<<MboxCreate(10, 50, 7), MboxSend(7, There, 0), MboxRecv(7, 80, 12, There)>>)

Test04 == [start2 |-> <<MboxCreate(10, 50, 7), Fork("XXp1", 1), Fork("XXp2", 2),
                        Join(5, 3), Join(6, 4), Exit(0)>>,
           XXp1 |-> <<MboxSend(7, There, 0), Exit(3)>>,
           XXp2 |-> <<MboxRecv(7, 100, 12, There), Exit(4)>>,
           turns |-> <<4, 5, 4, 6, 4>>, ends |-> "done"]

Test05 == [start2 |-> <<MboxCreate(10, 50, 7), Fork("XXp1", 2), Fork("XXp2", 1),
                        Join(6, 4), Join(5, 3), Exit(0)>>,
           turns |-> <<4, 6, 5, 6, 4, 5, 4>>] @@ Test04

Test06 == [start2 |-> <<MboxCreate(5, 50, 7), Fork("XXp1", 1), Fork("XXp2", 2),
                        Join(5, 3), Join(6, 4), Exit(0)>>,
           XXp1 |-> Sends(7, 6, Hello, 0) \o <<Exit(3)>>,
           XXp2 |-> Recvs(7, 6, Hello) \o <<Exit(4)>>,
           turns |-> <<4, 5, 6, 5, 4, 6, 4>>, ends |-> "done"]

\* XXp1 fills the box of five slots, XXp2a, XXp2b and XXp2c wait.
Overfull(forks, joins, sent) ==
    [start2 |-> <<MboxCreate(5, 50, 7)>> \o forks \o joins \o <<Exit(0)>>,
     XXp1  |-> Sends(7, 5, Hello, 0) \o <<Exit(3)>>,
     XXp2a |-> <<MboxSend(7, From(0), sent), Exit(4)>>,
     XXp2b |-> <<MboxSend(7, From(1), sent), Exit(4)>>,
     XXp2c |-> <<MboxSend(7, From(2), sent), Exit(4)>>,
     turns |-> AnyOrder, ends |-> "done"]

Test07 == Overfull(<<Fork("XXp1", 1)>> \o ThreeForks(XXp2s, 1) \o <<Fork("XXp3", 2)>>,
                   <<Join(5, 3), Join(6, 4), Join(7, 4), Join(8, 4), Join(9, 5)>>, 0)
          @@ [XXp3 |-> Recvs(7, 5, Hello) \o Recvs(7, 3, From) \o <<Exit(5)>>]

Test08 == Overfull(<<Fork("XXp1", 1)>> \o ThreeForks(XXp2s, 1) \o <<Fork("XXp3", 2)>>,
                   <<Join(5, 3), Join(6, 4), Join(7, 4), Join(8, 4), Join(9, 5)>>, -3)
          @@ [XXp3 |-> <<MboxRelease(7, 0), Exit(5)>>]

\* The forks of test 09: XXp4 quits once the others wait, then XXp3 is forked.
Pausing(status4, prio3, pid3) ==
    <<Fork("XXp4", 2), Join(pid3 - 1, status4), Quiet(Fork("XXp3", prio3))>>

Test09 == [turns |-> <<4, 5, 4, 6, 7, 8, 9, 10, 4, 6, 4, 7, 4, 8, 4>>]
          @@ Overfull(<<Fork("XXp1", 2), Join(5, 3)>> \o ThreeForks(XXp2s, 2)
                        \o Pausing(6, 1, 10),
                      <<Quiet(Join(10, 5)), Join(6, 4), Join(7, 4), Join(8, 4)>>, -3)
          @@ [XXp3 |-> <<MboxRelease(7, 0), Exit(5)>>, XXp4 |-> <<Exit(6)>>]

Test10 == [XXp2a |-> <<MboxCondSend(7, From(0), -2), Exit(4)>>,
           XXp2c |-> <<MboxCondSend(7, From(2), -2), Exit(4)>>,
           XXp3  |-> Recvs(7, 5, Hello) \o <<MboxRecv(7, 100, 17, From(1)), Exit(5)>>,
           turns |-> <<4, 5, 4, 6, 4, 7, 8, 4, 9, 7, 4, 9, 4>>]
          @@ Overfull(<<Fork("XXp1", 1), Fork("XXp2a", 2), Fork("XXp2b", 3),
                        Fork("XXp2c", 4), Fork("XXp3", 5)>>,
                      <<Join(5, 3), Join(6, 4), Join(8, 4), Join(7, 4), Join(9, 5)>>, 0)

\* XXp1 sends eight messages to five slots, twice; XXp3 receives those that arrived.
Twice(k, hellos, byes) ==
    [start2 |-> <<MboxCreate(5, 50, 7), MboxCreate(k, 50, 8), Fork("XXp1", 1),
                  Fork("XXp3", 2), Join(5, 3), Join(6, 4), Exit(0)>>,
     XXp1 |-> CondSends(7, 5, Hello, 0) \o CondSends(7, 3, Hello, -2)
              \o <<Quiet(MboxRecv(8, 0, 0, Empty))>>
              \o CondSends(7, 5, Bye, 0) \o CondSends(7, 3, Bye, -2) \o <<Exit(3)>>,
     XXp3 |-> hellos \o <<MboxSend(8, Empty, 0)>> \o byes \o <<Exit(4)>>,
     turns |-> <<4, 5, 6, 5, 4, 6, 4>>, ends |-> "done"]

\* Until there is none.
UntilNone(m(_)) == CondRecvs(7, 5, m) \o <<MboxCondRecv(7, 100, -2, Unheard)>>

Test11 == Twice(0, Recvs(7, 5, Hello), Recvs(7, 5, Bye))
Test12 == Twice(0, UntilNone(Hello), UntilNone(Bye))
Test43 == Twice(1, UntilNone(Hello), UntilNone(Bye))

Waiting(b, n) == [start2 |-> <<[Fork("XXp1", 2) EXCEPT !.gives = 5], Join(5, 3), Exit(0)>>,
                  XXp1 |-> Times(n, waitDevice(b)) \o <<Exit(3)>>,
                  turns |-> <<4, 5, 4>>, ends |-> "done"]

Test13 == Waiting(CLOCK, 2)
Test14 == Waiting(TERM + 1, 1)

Test15 == Alone(<<MboxCreate(10, 5, 7), MboxSend(7, There, -1)>>)

\* More boxes of k slots than can be full at a time; each send fills the next slot.
Clogging(k, send(_, _)) ==
    Alone([i \in 1 .. MAXSLOTS \div k + 1 |-> MboxCreate(k, 0, i + 6)]
          \o [i \in 1 .. MAXSLOTS |-> send(7 + (i - 1) \div k, 0)]
          \o <<send(7 + MAXSLOTS \div k, -2)>>)

Test16 == LET Send(b, n) == MboxSend(b, Empty, n)     IN Clogging(6, Send)
Test17 == LET Send(b, n) == MboxCondSend(b, Empty, n) IN Clogging(6, Send)

\* All boxes full, but not all slots in use.
Test18 == LET k == 6 IN
    Alone([i \in 1 .. MAXSLOTS \div k |-> MboxCreate(k, 0, i + 6)]
          \o FlattenSeq([i \in 1 .. MAXSLOTS \div k |->
                Times(k, MboxCondSend(i + 6, Empty, 0)) \o <<MboxCondSend(i + 6, Empty, -2)>>]))

\* Three wait at a box without slots that XXp3 releases.
Destroyed(op, last, status4) ==
    [start2 |-> <<MboxCreate(0, 50, 7)>> \o ThreeForks(<<"XXp2", "XXp2", "XXp2">>, 2)
                \o Pausing(status4, 1, 9)
                \o <<Quiet(Join(9, 4)), Join(5, 3), Join(6, 3), Join(7, 3)>> \o last
                \o <<Exit(0)>>,
     XXp2 |-> <<op, Exit(3)>>, XXp3 |-> <<MboxRelease(7, 0), Exit(4)>>,
     XXp4 |-> <<Exit(status4)>>,
     turns |-> (IF op.quiet THEN <<4>> ELSE <<4, 5, 6, 7>>) \o <<8, 9, 4, 5, 4, 6, 4, 7, 4>>,
     ends |-> "done"]

Test19 == Destroyed(MboxSend(7, Empty, -3), << >>, 4)
Test20 == Destroyed(Quiet(MboxRecv(7, 0, -3, Unheard)), << >>, 4)
Test21 == Destroyed(MboxSend(7, Empty, -3), <<MboxCondSend(7, Empty, -1)>>, 5)
Test22 == Destroyed(MboxRecv(7, 0, -3, Unheard), <<MboxCondRecv(7, 20, -1, Unheard)>>, 5)

\* Two messages through a box without slots.
Exchange(pr1, pr2, joins, order) ==
    [start2 |-> <<MboxCreate(0, 50, 7), Fork("XXp1", pr1), Fork("XXp2", pr2)>> \o joins
                \o <<Exit(0)>>,
     XXp1 |-> Times(2, MboxSend(7, Empty, 0)) \o <<Exit(3)>>,
     XXp2 |-> Times(2, MboxRecv(7, 0, 0, Empty)) \o <<Exit(4)>>,
     turns |-> order, ends |-> "done"]

Test23 == Exchange(1, 2, <<Join(5, 3), Join(6, 4)>>, <<4, 5, 6, 5, 6, 5, 4, 6, 4>>)
Test24 == Exchange(2, 1, <<Join(6, 4), Join(5, 3)>>, <<4, 6, 5, 6, 5, 6, 4, 5, 4>>)

\* The boxes that six releases made free are found again, two more are not.
Test27 == Alone([i \in 1 .. MAXMBOX - 7 |-> MboxCreate(10, 50, i + 6)]
                \o [i \in 1 .. 6 |-> MboxRelease(i + 6, 0)]
                \o [i \in 1 .. 6 |-> MboxCreate(10, 50, i + 6)]
                \o Times(2, MboxCreate(10, 50, -1)))

\* Three that wait at a box without slots, all as good as start2; it is released.
Woken3(op, slotSize0, first, second, status3, last) ==
    [start2 |-> <<MboxCreate(0, slotSize0, 7)>> \o ThreeForks(<<"XXp2", "XXp2", "XXp2">>, 1)
                \o <<Fork("XXp3", 2), Join(NotPrinted, first), Join(NotPrinted, first),
                     Join(7, second), Join(8, status3)>> \o last \o <<Exit(0)>>,
     XXp2 |-> <<op, Exit(first)>>, XXp3 |-> <<MboxRelease(7, 0), Exit(status3)>>,
     turns |-> AnyOrder, ends |-> "done"]

Test30 == Woken3(MboxRecv(7, 0, -3, Unheard), 50, 3, 3, 4, <<MboxCondRecv(7, 20, -1, Unheard)>>)
Test31 == Woken3(MboxSend(7, Empty, -3), 50, 3, 3, 4, <<MboxCondSend(7, Empty, -1)>>)
Test46 == Woken3(MboxRecv(7, 0, -3, Unheard), 0, 1, 1, 9, << >>)

\* Processes of three priorities wait at one slot; the last one releases the box.
OneSlot(first, op) ==
    [start2 |-> <<MboxCreate(1, 13, 7), Fork("XXp", 3), Fork("XXp", 2), Fork("XXp", 1),
                  Fork("XXp4", 3), first>> \o Times(4, Quiet(Join(NotPrinted, 3))) \o <<Exit(0)>>,
     XXp |-> <<op, Exit(3)>>, XXp4 |-> <<MboxRelease(7, 0), Exit(3)>>,
     turns |-> AnyOrder, ends |-> "done"]

Test32 == OneSlot(MboxSend(7, There, 0), MboxSend(7, There, -3))
Test33 == OneSlot(MboxRecv(7, 12, -3, Unheard), MboxRecv(7, 12, -3, Unheard))

Test34 == [start2 |-> <<Fork("XXp0", 2), Fork("XXp1", 2), Fork("XXp2", 2), Fork("XXp3", 2)>>
                      \o Times(4, Join(NotPrinted, 3)) \o <<Exit(0)>>,
           XXp0 |-> <<waitDevice(TERM), Exit(3)>>, XXp1 |-> <<waitDevice(TERM + 1), Exit(3)>>,
           XXp2 |-> <<waitDevice(TERM + 2), Exit(3)>>, XXp3 |-> <<waitDevice(TERM + 3), Exit(3)>>,
           turns |-> AnyOrder, ends |-> "done"]

Test35 == Alone(<<MboxCreate(10, 12, 7), MboxSend(7, There, 0), MboxRecv(7, 12, 12, There)>>)
Test36 == Alone(<<MboxCreate(10, 11, 7), MboxSend(7, There, -1)>>)

Test37 == Alone(<<MboxCreate(10, MAX_MESSAGE + 1, -1), MboxCreate(10, -1, -1),
                  MboxCreate(-1, 10, -1), MboxCreate(2, 0, 7), MboxSend(7, Empty, 0),
                  MboxSend(7, Empty, 0), MboxRecv(7, 0, 0, Empty), MboxRecv(7, 80, 0, Empty)>>)

\* System calls 0 and MAXSYSCALLS - 1, which nobody implements, and MAXSYSCALLS.
BadSyscall == [start2 |-> <<Syscall>>, turns |-> <<4>>, ends |-> "error"]

Test38 == BadSyscall
Test39 == BadSyscall
Test40 == BadSyscall

Test41 == Alone(<<MboxCreate(10, 13, 7), MboxSend(7, There, 0), MboxRecv(7, 11, -1, Empty)>>)

\* The record shows the buffer as it was; the code has written past its end by then.
Test42 == [start2 |-> <<MboxCreate(1, 13, 7), Fork("XXp1", 2), MboxRecv(7, 11, -1, Unheard),
                        Join(NotPrinted, NotPrinted), Quiet(Exit(0))>>,
           XXp1 |-> <<MboxSend(7, There, 0), Exit(3)>>,
           turns |-> <<4, 5, 4, 5>>, ends |-> "done"]

\* MAXSLOTS / 2 messages each but for a few, which is what start2 receives.
Test44 == LET few == 4  half == MAXSLOTS \div 2 IN
    [start2 |-> <<MboxCreate(MAXSLOTS - 1, 50, 7), Fork("XXp1", 1), Fork("XXp2", 2),
                  Join(5, 3), Join(6, 3)>> \o CondRecvs(7, few, Long)
                \o CondSends(7, 2 * few - 1, Long, 0) \o CondSends(7, few, Long, -2)
                \o <<Exit(0)>>,
     XXp1 |-> CondSends(7, half, Long, 0) \o <<Exit(3)>>,
     XXp2 |-> CondSends(7, half - few, Long, 0) \o <<Exit(3)>>,
     turns |-> <<4, 5, 4, 6, 4>>, ends |-> "done"]

Test45 == Alone(<<MboxCreate(MAXSLOTS + 1, 50, -1)>>)

Tests == [t00 |-> Test00, t01 |-> Test01, t02 |-> Test02, t03 |-> Test03, t04 |-> Test04,
          t05 |-> Test05, t06 |-> Test06, t07 |-> Test07, t08 |-> Test08, t09 |-> Test09,
          t10 |-> Test10, t11 |-> Test11, t12 |-> Test12, t13 |-> Test13, t14 |-> Test14,
          t15 |-> Test15, t16 |-> Test16, t17 |-> Test17, t18 |-> Test18, t19 |-> Test19,
          t20 |-> Test20, t21 |-> Test21, t22 |-> Test22, t23 |-> Test23, t24 |-> Test24,
          t27 |-> Test27, t30 |-> Test30, t31 |-> Test31, t32 |-> Test32, t33 |-> Test33,
          t34 |-> Test34, t35 |-> Test35, t36 |-> Test36, t37 |-> Test37, t38 |-> Test38,
          t39 |-> Test39, t40 |-> Test40, t41 |-> Test41, t42 |-> Test42, t43 |-> Test43,
          t44 |-> Test44, t45 |-> Test45, t46 |-> Test46]

ASSUME TestAssumption ==
    /\ Programs \subseteq DOMAIN Tests \cup {"free"}
    /\ Procs = 0 .. Cardinality(Procs) - 1 /\ Cardinality(Procs) >= 4
    /\ FreePids < 10 * Cardinality(Procs)
    /\ "switch" \notin Conduct

\* testcase_main: start2 is its only child.
Main == <<Quiet(Fork("start2", 1)), Quiet(Join(4, 0)), Quiet(Return)>>

\* What "free" may call: a box of one slot, and the clock.
FreeOps ==
    {Fork("any", 2), Fork("any", 4), Join(NotPrinted, NotPrinted), Exit(0),
     MboxCreate(1, There.size, 7), MboxSend(7, There, 0), MboxCondSend(7, There, 0),
     MboxRecv(7, There.size, 0, There), waitDevice(CLOCK)}

Recorded  == Tests[program]
Script(p) == IF func[p] = "main" THEN Main ELSE Recorded[func[p]]
NextCall  == Script(cur)[ip[cur]]

TestInit ==
    /\ Init /\ K!Init
    /\ io = 0
    /\ program \in Programs
    /\ func = [p \in Procs |-> "main"] /\ ip = [p \in Procs |-> 1]
    /\ result = [p \in Procs |-> 0] /\ joined = [p \in Procs |-> 0]
    /\ heard = [p \in Procs |-> Empty.id] /\ exit = [p \in Procs |-> 0]
    /\ turns = << >>

-----------------------------------------------------------------------------
(* Phase 2 on the kernel. *)

\* What the kernel does in a step of the mailboxes: it unblocks the process that the
\* step wakes, or blocks the one that calls.
Follows ==
    \/ \E q \in Procs : sleep[q] = "yes" /\ sleep'[q] = "no" /\ K!Unblock(pid[q])
    \/ sleep[cur] = "no" /\ sleep'[cur] = "yes" /\ K!BlockMe
    \/ sleep' = sleep /\ UNCHANGED kernelVars

BadGeometry(g) == g[1] \notin 0 .. MAXSLOTS \/ g[2] \notin 0 .. MAX_MESSAGE

Creates(g) ==
    \/ ~BadGeometry(g) /\ (Create(cur, g) \/ CreateFails(cur))
    \/ /\ BadGeometry(g) /\ ret' = -1
       /\ UNCHANGED <<boxVars, queueVars, slotVars, nextMBoxID, shadows, calls, zapped,
                      got, corrupt>>

SendHelper(op) ==
    \/ SendRefused(op.box, op.msg) \/ Deliver(op.box, op.msg) \/ Store(op.box, op.msg)
    \/ op.call = "MboxSend" /\ SendWait(cur, op.box, op.msg)
    \/ op.call = "MboxCondSend" /\ CondSendFull(op.box, op.msg)

RecvHelper(op) ==
    \/ Rendezvous(cur, op.box)
    \/ RecvSmall(cur, op.box, op.bufSize) \/ RecvSlot(cur, op.box, op.bufSize)
    \/ op.call = "MboxRecv" /\ RecvWait(cur, op.box, op.bufSize)
    \/ op.call = "MboxCondRecv" /\ CondRecvNothing(cur, op.box, op.bufSize)

\* Mutant: waitDevice does not count those that wait.
NotCounted == io

Entered == io + 1

\* A call of phase 2.
MailCall(op) ==
    /\ K!InUser /\ at[cur] = "user"
    /\ \/ op.call = "MboxCreate" /\ Creates(op.geometry) /\ io' = io
       \/ op.call \in {"MboxSend", "MboxCondSend"} /\ SendHelper(op) /\ io' = io
       \/ op.call \in {"MboxRecv", "MboxCondRecv"} /\ RecvHelper(op) /\ io' = io
       \/ op.call = "MboxRelease" /\ Release(cur, op.box) /\ io' = io
       \/ op.call = "waitDevice" /\ RecvWait(cur, op.box, 0) /\ io' = Entered
    /\ Follows

\* What is left of a call once blockMe or unblockProc came back.
MailGoesOn ==
    /\ K!InUser /\ at[cur] # "user"
    /\ SendReturns(cur) \/ RecvReturns(cur) \/ ReleaseStep(cur)
    /\ io' = IF at[cur] = "recv0" /\ box[cur] < IOBoxes THEN io - 1 ELSE io
    /\ Follows

\* The handler of a device sends its status to the driver that waits; when none does,
\* or all slots are in use, nothing changes.
Interrupt(b) ==
    /\ cons[b] # << >>
    /\ K!DeviceInterrupt /\ ~blockReason'[Head(cons[b])]
    /\ Deliver(b, Message(0, IntSize))
    /\ UNCHANGED <<io, testVars>>

\* The sentinel halts once phase2_check_io counts nobody; or else it waits.
KernelGoesOn == K!KernelStep /\ (cur = K!SentinelSlot => io = 0)

Quits == K!Quit \/ K!QuitWithChildren

-----------------------------------------------------------------------------
(* The programs on it. *)

Gives(n) == result' = [result EXCEPT ![cur] = n]

Joined ==
    IF K!JoinReap THEN LET c == children[cur][K!Dead] IN
                       /\ Gives(pid[c]) /\ joined' = [joined EXCEPT ![cur] = exit[c]]
    ELSE UNCHANGED <<result, joined>>

\* What a step of phase 2 hands over: the value it returns, the message it copies.
Returned ==
    /\ result' = IF at'[cur] = "user" THEN [result EXCEPT ![cur] = ret'] ELSE result
    /\ heard' = IF got' = << >> THEN heard ELSE [heard EXCEPT ![got'[1]] = got'[2].id]
    /\ UNCHANGED <<joined, exit>>

KernelCall(op) ==
    /\ at[cur] = "user"
    /\ \/ op.call = "fork1" /\ K!ForkFind(op.prio) /\ UNCHANGED <<result, joined, exit>>
       \/ op.call = "join" /\ (K!JoinReap \/ K!JoinLook) /\ Joined /\ UNCHANGED exit
       \/ /\ op.call = "quit" /\ Quits
          /\ exit' = [exit EXCEPT ![cur] = op.status] /\ UNCHANGED <<result, joined>>
       \/ op.call = "return" /\ K!MainReturns /\ UNCHANGED <<result, joined, exit>>
       \/ /\ op.call = "syscall" /\ K!InUser /\ K!Halt("error")
          /\ UNCHANGED <<result, joined, exit>>
    /\ UNCHANGED <<vars, io, heard>>

Call ==
    /\ K!InUser /\ at[cur] = "user" /\ ip[cur] <= Len(Script(cur))
    /\ KernelCall(NextCall) \/ (MailCall(NextCall) /\ Returned)
    /\ ip' = [ip EXCEPT ![cur] = @ + 1]
    /\ turns' = IF NextCall.quiet \/ (turns # << >> /\ Last(turns) = pid[cur])
                THEN turns ELSE Append(turns, pid[cur])
    /\ UNCHANGED <<program, func>>

Fills ==
    /\ K!ForkFill
    /\ func' = [func EXCEPT ![procIndex[cur]] = Script(cur)[ip[cur] - 1].f]
    /\ ip' = [ip EXCEPT ![procIndex[cur]] = 1]
    /\ Gives(nextPID)
    /\ UNCHANGED <<vars, io, program, joined, heard, exit, turns>>

Within ==
    \/ MailGoesOn /\ Returned /\ UNCHANGED <<program, func, ip, turns>>
    \/ /\ K!At("scan") /\ (K!JoinReap \/ K!JoinLook) /\ Joined
       /\ UNCHANGED <<vars, io, program, func, ip, heard, exit, turns>>
    \/ /\ pc[cur] \notin {"fork", "scan"} /\ KernelGoesOn
       /\ UNCHANGED <<vars, io, testVars>>

TestStep == program # "free" /\ (Call \/ Fills \/ Within)

FreeCall ==
    \E op \in FreeOps :
        \/ MailCall(op) /\ (op.call = "MboxCreate" => nextMBoxID = IOBoxes)
        \/ /\ at[cur] = "user"
           /\ \/ op.call = "fork1" /\ nextPID <= FreePids /\ K!ForkFind(op.prio)
              \/ op.call = "join" /\ (K!JoinNoChildren \/ K!JoinReap \/ K!JoinLook)
              \/ op.call = "quit" /\ Quits
           /\ UNCHANGED <<vars, io>>

FreeStep ==
    /\ program = "free"
    /\ FreeCall \/ MailGoesOn \/ (KernelGoesOn /\ UNCHANGED <<vars, io>>)
    /\ UNCHANGED testVars

TestNext ==
    \/ TestStep \/ FreeStep
    \/ \E b \in 0 .. IOBoxes - 1 : Interrupt(b)
    \/ K!Halted /\ UNCHANGED <<vars, io, testVars>>

\* A program goes on, and the devices interrupt time and again.
TestFairness == /\ WF_allVars(TestStep)
                /\ \A b \in 0 .. IOBoxes - 1 : WF_allVars(Interrupt(b))

TestSpec == TestInit /\ [][TestNext]_allVars /\ TestFairness

-----------------------------------------------------------------------------

\* What each call returned is what the output shows: the number of the box, 0, -1, -2
\* or -3, the size of the message, the pid that join gave; and so are the message that
\* was received and the status of the child.
OutputAsRecorded ==
    \A p \in Procs : program # "free" /\ pc[p] = "user" /\ at[p] = "user" /\ ip[p] > 1 =>
        LET op == Script(p)[ip[p] - 1] IN
        /\ op.gives \in {NotPrinted, result[p]}
        /\ op.call = "join" => op.status \in {NotPrinted, joined[p]}
        /\ "hears" \in DOMAIN op => op.hears \in {NotPrinted, heard[p]}

\* Each program ends as its output does, by the return of testcase_main or by an error,
\* and its processes have taken turns in the order of the lines of the output.
EndsAsRecorded ==
    <>(program = "free" \/ (halted = Recorded.ends /\ Recorded.turns \in {AnyOrder, turns}))

\* The sentinel reports a deadlock only when nothing can wake a process: none could run,
\* and none waits for a device.
NoFalseDeadlock == halted = "deadlock" =>
    \A p \in Procs \ {K!InitSlot, K!SentinelSlot} :
        kstatus[p] # "READY" /\ ~(sleep[p] = "yes" /\ box[p] < IOBoxes)
=============================================================================
