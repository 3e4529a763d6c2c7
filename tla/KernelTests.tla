----------------------------- MODULE KernelTests -----------------------------
(***************************************************************************)
(* The test programs of phase1b as closed clients of Kernel.  A program is *)
(* what each of its C functions calls, with what each call gave, and the   *)
(* order in which its processes took turns, both as the output shows that  *)
(* the repository records: testNN.student_out, or testNN.out where the     *)
(* former is of another version (30, 31, 32, 34, 36).                      *)
(*                                                                         *)
(* Loops are unrolled.  The table is smaller than the kernel's, and the    *)
(* loops that fill it are shortened with it.  Test 18, which spins until   *)
(* the clock strikes, and test 35, whose two records differ, are left out; *)
(* the record of 27 has another order among processes of one priority.     *)
(*                                                                         *)
(* The program "free" calls what it likes, and its slices end anywhere in  *)
(* its code: it is there for the fairness of the scheduler.                *)
(***************************************************************************)
EXTENDS Kernel

CONSTANTS
    Programs,  \* those to be run
    FreePids   \* bound of the model: "free" forks while nextPID is no larger

VARIABLES
    program,  \* the name of the program
    func,     \* the C function of each process
    ip,       \* the index of its next call
    result,   \* what its last call returned
    joined,   \* the status its last join gave
    exit,     \* the argument of its quit
    turns     \* the pids of the processes that ran, in order

testVars == <<program, func, ip, result, joined, exit, turns>>

NotPrinted == -99
AnyOrder   == << >>
OwnPid     == -98  \* getpid()

Fork(f, pr, n) == [call |-> "fork1", f |-> f, prio |-> pr, gives |-> n, quiet |-> FALSE]
SmallStack(f)  == [call |-> "small", f |-> f, gives |-> -2, quiet |-> FALSE]
Join(n, st)    == [call |-> "join", gives |-> n, status |-> st, quiet |-> FALSE]
Exit(st)       == [call |-> "quit", status |-> st, quiet |-> FALSE]
ZapPid(n)      == [call |-> "zap", pid |-> n, quiet |-> FALSE]
IsZapped(n)    == [call |-> "isZapped", gives |-> n, quiet |-> FALSE]
Block          == [call |-> "blockMe", quiet |-> FALSE]
UnblockPid(n)  == [call |-> "unblockProc", pid |-> n, gives |-> 0, quiet |-> FALSE]
UserMode       == [call |-> "usermode", quiet |-> FALSE]
Return         == [call |-> "return", quiet |-> FALSE]

\* A call before which nothing is printed.
Quiet(op) == [op EXCEPT !.quiet = TRUE]

Test00 == [main |-> <<Fork("XXp1", 2, 4), Join(4, 3), Return>>, XXp1 |-> <<Exit(3)>>,
           turns |-> <<3, 4, 3>>, ends |-> "done"]

Test01 == [main |-> <<Fork("XXp1", 2, 4), Fork("XXp2", 5, 5), Join(4, 3), Join(5, 5), Return>>,
           XXp1 |-> <<Exit(3)>>, XXp2 |-> <<Exit(5)>>,
           turns |-> <<3, 4, 3, 5, 3>>, ends |-> "done"]

Test02 == [main |-> <<Fork("XXp1", 2, 4), Join(4, 3), Return>>,
           XXp1 |-> <<Fork("XXp2", 1, 5), Fork("XXp2", 1, 6), Join(6, 5), Join(5, 5), Exit(3)>>,
           XXp2 |-> <<Exit(5)>>,
           turns |-> <<3, 4, 5, 4, 6, 4, 3>>, ends |-> "done"]

\* The pids in order; those whose slots the first processes keep are passed over.
Pids == SelectSeq([i \in 1 .. 4 * MAXPROC |-> i + MainPid],
                  LAMBDA n : n % MAXPROC \notin {InitSlot, SentinelSlot, MainSlot})

\* Three rounds of MAXPROC - 8 children, each of which quits with its pid.
Test03 ==
    LET k == MAXPROC - 8
        Round(r) == [i \in 1 .. k |-> Fork("XXp1", 2, Pids[r * k + i])]
                    \o [i \in 1 .. k |-> LET n == Pids[r * k + k + 1 - i] IN Join(n, n)]
                    \o <<Join(-2, NotPrinted)>>
    IN  [main |-> Round(0) \o Round(1) \o Round(2) \o <<Return>>,
         XXp1 |-> <<Exit(OwnPid)>>,
         turns |-> <<3>> \o FlattenSeq([i \in 1 .. 3 * k |-> <<Pids[i], 3>>]),
         ends |-> "done"]

Test04 ==
    LET Round(n) == [i \in 1 .. 5 |-> Fork("XXp1", 2, n + i)]
                    \o [i \in 1 .. 5 |-> Join(n + 6 - i, n + 6 - i)]
                    \o <<Join(-2, NotPrinted)>>
    IN  [main |-> Round(3) \o Round(8) \o <<Return>>, XXp1 |-> <<Exit(OwnPid)>>,
         turns |-> <<3>> \o FlattenSeq([i \in 1 .. 10 |-> <<3 + i, 3>>]), ends |-> "done"]

Test05 == [main |-> <<Fork("XXp1", 2, 4), Join(4, 3), Return>>,
           XXp1 |-> <<Fork("XXp2", 1, 5), Join(5, 5), Exit(3)>>, XXp2 |-> <<Exit(5)>>,
           turns |-> <<3, 4, 5, 4, 3>>, ends |-> "done"]

Test06 == [main |-> <<Fork("XXp1", 2, 4), Join(4, 3), Return>>,
           XXp1 |-> <<Fork("XXp2", 5, 5), Fork("XXp2", 5, 6), Join(5, 5), Join(6, 5), Exit(3)>>,
           XXp2 |-> <<Exit(5)>>,
           turns |-> <<3, 4, 3, 5, 4, 6, 4, 3>>, ends |-> "done"]

Test07 == [main |-> <<Fork("XXp1", 2, 4), Return>>,
           XXp1 |-> <<Fork("XXp2", 1, 5), Exit(0)>>, XXp2 |-> <<Exit(3)>>,
           turns |-> <<3, 4, 5, 4>>, ends |-> "error"]

Test08 == [main |-> <<UserMode>>, turns |-> <<3>>, ends |-> "error"]

Test09 == [main |-> <<Fork("XXp1", 2, 4)>>, XXp1 |-> <<UserMode>>,
           turns |-> <<3, 4>>, ends |-> "error"]

Test10 == [main |-> <<Fork("XXp1", 2, 4), Join(4, 3), Return>>,
           XXp1 |-> <<Fork("XXp2", 5, 5), Fork("XXp2", 5, 6), ZapPid(5), ZapPid(6),
                      Join(6, 5), Join(5, 5), Exit(3)>>,
           XXp2 |-> <<Exit(5)>>,
           turns |-> <<3, 4, 3, 5, 4, 6, 4, 3>>, ends |-> "done"]

\* The loop that waits until it is zapped is entered when it is.
Test11 == [main |-> <<Fork("XXp1", 5, 4), ZapPid(4), Join(4, 5), Return>>,
           XXp1 |-> <<IsZapped(1), Exit(5)>>,
           turns |-> <<3, 4, 3>>, ends |-> "done"]

Test12 == [main |-> <<Fork("XXp1", 2, 4), Join(NotPrinted, NotPrinted)>>,
           XXp1 |-> <<ZapPid(2)>>,
           turns |-> <<3, 4, 3>>, ends |-> "deadlock"]

Test13 == [main |-> <<Fork("XXp1", 1, 4), Fork("XXp2", 2, 6), Join(6, 5), Join(4, 3), Return>>,
           XXp1 |-> <<Fork("XXp3", 3, 5), Join(5, 5), Exit(3)>>,
           XXp2 |-> <<ZapPid(5), Exit(5)>>, XXp3 |-> <<Exit(5)>>,
           turns |-> <<3, 4, 3, 6, 5, 4, 6, 3>>, ends |-> "done"]

Test14 == [main |-> <<Fork("XXp1", 1, 4), Fork("XXp2", 2, 6), Join(6, 5), Join(4, 3), Return>>,
           XXp1 |-> <<Fork("XXp3", 3, 5), Join(5, 5), Exit(3)>>,
           XXp2 |-> <<ZapPid(4), Exit(5)>>, XXp3 |-> <<Exit(5)>>,
           turns |-> <<3, 4, 3, 6, 3, 5, 4, 6, 3>>, ends |-> "done"]

\* XXp1 zaps XXp3 and joins with it; then XXp2 zaps somebody who is no more.
ZapTwice(second) ==
    [main |-> <<Fork("XXp1", 1, 4), Fork("XXp2", 2, 6)>>,
     XXp1 |-> <<Fork("XXp3", 3, 5), ZapPid(5), Join(5, 5), Exit(3)>>,
     XXp2 |-> <<ZapPid(second)>>, XXp3 |-> <<Exit(5)>>,
     turns |-> <<3, 4, 5, 4, 3, 6>>, ends |-> "error"]

Test15 == ZapTwice(5)
Test16 == ZapTwice(4)

Test17 == [main |-> <<Fork("XXp1", 3, 4), Fork("XXp1", 3, 5), Fork("XXp1", 3, 6),
                      Join(4, 2), Join(5, 2), Join(6, 2), Return>>,
           XXp1 |-> <<Exit(2)>>,
           turns |-> <<3, 4, 3, 5, 3, 6, 3>>, ends |-> "done"]

Test19 == [main |-> <<Fork("XXp2", 2, 4), Join(4, 0), Return>>,
           XXp2 |-> [i \in 1 .. 4 |-> SmallStack("XXp1")] \o <<Exit(0)>>,
           turns |-> <<3, 4, 3>>, ends |-> "done"]

\* All but five of MAXPROC + 2.
Test20 ==
    LET k == MAXPROC - 3 IN
    [main |-> [i \in 1 .. k |-> Quiet(Fork("XXp1", 2, 3 + i))]
              \o [i \in 1 .. 5 |-> Fork("XXp1", 2, -1)]
              \o [i \in 1 .. k |-> Join(NotPrinted, NotPrinted)]
              \o [i \in 1 .. 5 |-> Join(-2, NotPrinted)] \o <<Return>>,
     XXp1 |-> <<Quiet(Exit(2))>>,
     turns |-> <<3>>, ends |-> "done"]

Test21 == [main |-> <<Fork("XXp1", 5, 4), Join(NotPrinted, NotPrinted)>>,
           XXp1 |-> <<ZapPid(4)>>,
           turns |-> <<3, 4>>, ends |-> "error"]

Test22 == [main |-> <<Fork("XXp1", 9, -1), Fork("XXp1", -10, -1), Return>>,
           turns |-> <<3>>, ends |-> "done"]

Test23 == [main |-> <<Fork("XXp1", 5, 4), Quiet(Join(4, NotPrinted)), Return>>,
           XXp1 |-> <<Fork("XXp2", 2, 5), Quiet(Fork("XXp2", 2, 6)), Quiet(Fork("XXp2", 2, 7)),
                      Quiet(UnblockPid(5)), Quiet(UnblockPid(6)), Quiet(UnblockPid(7)),
                      Join(NotPrinted, NotPrinted), Join(NotPrinted, NotPrinted),
                      Join(NotPrinted, NotPrinted), Exit(0)>>,
           XXp2 |-> <<Block, Exit(0)>>,
           turns |-> <<3, 4, 5, 6, 7, 5, 6, 7, 4, 3>>, ends |-> "done"]

\* Three children block and are unblocked; the first is zapped by then, and the third
\* is or is not.
Unblocking(first, zappers, third) ==
    LET XXp2(n) == <<Block, IsZapped(n), Exit(0)>> IN
    [main |-> <<Fork("XXp1", first, 4), Quiet(Join(NotPrinted, NotPrinted))>>,
     XXp1 |-> <<Fork("XXp2a", first - 2, 5), Quiet(Fork("XXp2b", first - 2, 6)),
                Quiet(Fork("XXp2c", first - 2, 7))>> \o zappers
              \o <<UnblockPid(5), Quiet(UnblockPid(6)), Quiet(UnblockPid(7)), Exit(0)>>,
     XXp2a |-> XXp2(1), XXp2b |-> XXp2(0), XXp2c |-> XXp2(third),
     XXp3 |-> <<ZapPid(5), Exit(0)>>, XXp4 |-> <<ZapPid(7), Exit(0)>>,
     ends |-> "error"]

Test24 == Unblocking(5, <<Fork("XXp3", 4, 8)>>, 0)
          @@ [turns |-> <<3, 4, 5, 6, 7, 4, 8, 4, 5, 8, 6, 7, 4>>]

Test25 == Unblocking(3, <<Fork("XXp3", 2, 8), Quiet(Fork("XXp4", 2, 9))>>, 1)
          @@ [turns |-> <<3, 4, 5, 6, 7, 4, 8, 9, 4, 5, 8, 6, 7, 9, 4>>]

Test26 == [main |-> <<Fork("XXp1", 2, 4), Fork("XXp2", 2, 5), Join(5, 2), Join(4, 1),
                      Join(-2, NotPrinted), Return>>,
           XXp1 |-> <<Join(-2, NotPrinted), Exit(1)>>, XXp2 |-> <<Exit(2)>>,
           turns |-> <<3, 4, 3, 5, 3>>, ends |-> "done"]

Test27 == [main |-> <<Fork("XXp1", 3, 4), Fork("XXp2", 3, 5), Fork("XXp3", 3, 6),
                      Join(4, 1), Join(6, 3), Join(5, 2), Return>>,
           XXp1 |-> <<Fork("XXp4", 1, 7), Join(7, 4), Exit(1)>>,
           XXp2 |-> <<ZapPid(6), Exit(2)>>,
           XXp3 |-> <<Fork("XXp4", 1, 8), Fork("XXp4", 2, 9), Join(9, 4), Join(8, 4), Exit(3)>>,
           XXp4 |-> <<Exit(4)>>,
           turns |-> AnyOrder, ends |-> "done"]

\* pid3 is not set when XXp2 zaps it.
Test28 == [main |-> <<Fork("XXp1", 1, 4), Fork("XXp2", 2, 5)>>,
           XXp1 |-> <<Exit(1)>>, XXp2 |-> <<ZapPid(0)>>,
           turns |-> <<3, 4, 3, 5>>, ends |-> "error"]

Test29 == [main |-> <<Fork("XXp1", 1, 4), Fork("XXp2", 2, 6)>>,
           XXp1 |-> <<Fork("XXp3", 2, 5), IsZapped(0), Join(5, 3), IsZapped(0), Exit(1)>>,
           XXp2 |-> <<ZapPid(4)>>, XXp3 |-> <<Exit(3)>>,
           turns |-> <<3, 4, 5, 4, 3, 6>>, ends |-> "error"]

\* XXp1 zaps whom it may not.
BadZap(n) == [main |-> <<Fork("XXp1", 2, 4)>>, XXp1 |-> <<ZapPid(n)>>,
              turns |-> <<3, 4>>, ends |-> "error"]

Test30 == BadZap(0)

Test31 == [main |-> <<Fork("XXp1", 2, 4), ZapPid(3)>>, XXp1 |-> <<Exit(2)>>,
           turns |-> <<3, 4, 3>>, ends |-> "error"]

Test32 == BadZap(1024)

Test33 == [main |-> <<Fork("XXp1", 3, 4), Fork("XXp1", 3, 5), Join(NotPrinted, NotPrinted)>>,
           XXp1 |-> <<ZapPid(204)>>,
           turns |-> <<3, 4>>, ends |-> "error"]

Test34 == [main |-> <<Fork("XXp1", 2, 4), Join(4, 1), Return>>,
           XXp1 |-> <<Fork("XXp2", 5, 5), Fork("XXp3", 4, 6), Join(5, 2), Join(6, 3), Exit(1)>>,
           XXp2 |-> <<Exit(2)>>, XXp3 |-> <<ZapPid(5), Exit(3)>>,
           turns |-> <<3, 4, 3, 6, 5, 4, 6, 4, 3>>, ends |-> "done"]

Test36 == BadZap(InitSlot)

Tests == [t00 |-> Test00, t01 |-> Test01, t02 |-> Test02, t03 |-> Test03, t04 |-> Test04,
          t05 |-> Test05, t06 |-> Test06, t07 |-> Test07, t08 |-> Test08, t09 |-> Test09,
          t10 |-> Test10, t11 |-> Test11, t12 |-> Test12, t13 |-> Test13, t14 |-> Test14,
          t15 |-> Test15, t16 |-> Test16, t17 |-> Test17, t19 |-> Test19, t20 |-> Test20,
          t21 |-> Test21, t22 |-> Test22, t23 |-> Test23, t24 |-> Test24, t25 |-> Test25,
          t26 |-> Test26, t27 |-> Test27, t28 |-> Test28, t29 |-> Test29, t30 |-> Test30,
          t31 |-> Test31, t32 |-> Test32, t33 |-> Test33, t34 |-> Test34, t36 |-> Test36]

ASSUME TestAssumption == Programs \subseteq DOMAIN Tests \cup {"free"}

-----------------------------------------------------------------------------

Recorded  == Tests[program]
Script(s) == Recorded[func[s]]
NextCall  == Script(cur)[ip[cur]]

TestInit ==
    /\ Init
    /\ program \in Programs
    /\ func = [s \in Slot |-> "main"] /\ ip = [s \in Slot |-> 1]
    /\ result = [s \in Slot |-> 0] /\ joined = [s \in Slot |-> 0]
    /\ exit = [s \in Slot |-> 0] /\ turns = << >>

Gives(n) == result' = [result EXCEPT ![cur] = n]

\* join took the child off the list.
Joined ==
    IF JoinReap THEN LET c == children[cur][Dead] IN
                     /\ Gives(pid[c]) /\ joined' = [joined EXCEPT ![cur] = exit[c]]
    ELSE UNCHANGED <<result, joined>>

Performs(op) ==
    \/ /\ op.call = "fork1"
       /\ \/ ForkFind(op.prio) /\ UNCHANGED result
          \/ ForkFail(op.prio) /\ Gives(-1)
       /\ UNCHANGED <<joined, exit>>
    \/ op.call = "small" /\ ForkFail(0) /\ Gives(-2) /\ UNCHANGED <<joined, exit>>
    \/ /\ op.call = "join"
       /\ \/ JoinNoChildren /\ Gives(-2) /\ UNCHANGED joined
          \/ (JoinReap \/ JoinLook) /\ Joined
       /\ UNCHANGED exit
    \/ /\ op.call = "quit" /\ (Quit \/ QuitWithChildren)
       /\ exit' = [exit EXCEPT ![cur] = IF op.status = OwnPid THEN pid[cur] ELSE op.status]
       /\ UNCHANGED <<result, joined>>
    \/ op.call = "zap" /\ (Zap(op.pid) \/ ZapError(op.pid)) /\ UNCHANGED <<result, joined, exit>>
    \/ /\ op.call = "isZapped" /\ InUser /\ Gives(IF isZapped[cur] THEN 1 ELSE 0)
       /\ UNCHANGED <<vars, joined, exit>>
    \/ op.call = "blockMe" /\ BlockMe /\ UNCHANGED <<result, joined, exit>>
    \/ /\ op.call = "unblockProc"
       /\ \/ Unblock(op.pid) /\ Gives(0)
          \/ UnblockFail(op.pid) /\ Gives(-2)
       /\ UNCHANGED <<joined, exit>>
    \/ op.call = "usermode" /\ InUser /\ Halt("error") /\ UNCHANGED <<result, joined, exit>>
    \/ op.call = "return" /\ MainReturns /\ UNCHANGED <<result, joined, exit>>

Call ==
    /\ InUser /\ ip[cur] <= Len(Script(cur)) /\ Performs(NextCall)
    /\ ip' = [ip EXCEPT ![cur] = @ + 1]
    /\ turns' = IF NextCall.quiet \/ (turns # << >> /\ Last(turns) = pid[cur])
                THEN turns ELSE Append(turns, pid[cur])
    /\ UNCHANGED <<program, func>>

\* fork1 gives the child its function.
Fills ==
    /\ ForkFill
    /\ func' = [func EXCEPT ![procIndex[cur]] = Script(cur)[ip[cur] - 1].f]
    /\ ip' = [ip EXCEPT ![procIndex[cur]] = 1]
    /\ Gives(nextPID)
    /\ UNCHANGED <<program, joined, exit, turns>>

\* The steps of the kernel within a call.
Within ==
    \/ /\ Dispatch \/ JoinBlock \/ QuitReturned \/ SentinelHalts \/ Halted
       /\ UNCHANGED testVars
    \/ /\ At("scan") /\ (JoinReap \/ JoinLook) /\ Joined
       /\ UNCHANGED <<program, func, ip, exit, turns>>

TestStep == program # "free" /\ (Call \/ Fills \/ Within)

FreeStep(A) ==
    /\ program = "free" /\ A /\ UNCHANGED testVars
    /\ At("fork")' => nextPID <= FreePids

TestNext == TestStep \/ FreeStep(Next)

\* A program goes on; the CPU goes on executing kernel code, and the clock ticks.
TestFairness == /\ WF_<<vars, testVars>>(TestStep)
                /\ WF_<<vars, testVars>>(FreeStep(KernelStep))
                /\ WF_<<vars, testVars>>(FreeStep(TimeSlice))

TestSpec == TestInit /\ [][TestNext]_<<vars, testVars>> /\ TestFairness

-----------------------------------------------------------------------------

\* What each call returned is what the output shows: the pid of fork1, the pid and the
\* status of join, whether the process was zapped.
OutputAsRecorded == \A s \in Slot : program # "free" /\ pc[s] = "user" /\ ip[s] > 1 =>
    LET op == Script(s)[ip[s] - 1] IN
    /\ "gives" \in DOMAIN op => op.gives \in {NotPrinted, result[s]}
    /\ op.call = "join" => op.status \in {NotPrinted, joined[s]}

\* Each program ends as its output does: by the return of testcase_main, by an error
\* or by the report of a deadlock, and its processes have taken turns in the order of
\* the lines of the output.
EndsAsRecorded ==
    <>(program = "free" \/ (halted = Recorded.ends /\ Recorded.turns \in {AnyOrder, turns}))
=============================================================================
