------------------------------ MODULE UserTests ------------------------------
(***************************************************************************)
(* The test programs of Phase3 as closed clients of UserProcs.  A program  *)
(* is a function from the names of its C functions (one for each argument  *)
(* they are spawned with) to the calls they make, each with what it gave   *)
(* in the output the repository records, testNN.student_out.               *)
(*                                                                         *)
(* Loops are unrolled; the tables are smaller than the kernel's, and the   *)
(* loops over the whole of a table, as well as those that only repeat, are *)
(* shortened with them.  One more program, "free", calls whatever it likes *)
(* about processes, until every entry of the table has been used once.     *)
(***************************************************************************)
EXTENDS UserProcs

CONSTANTS
    Programs,    \* those to be run
    FreePids     \* bound of the model: "free" spawns nothing past this pid

VARIABLES
    program,     \* the name of the program
    ip,          \* the index of the next call of each process
    ids          \* the C variables that hold the numbers of the semaphores

testVars == <<program, ip, ids>>

NotPrinted == -99  \* not printed, or not the same each time

Spawn(f, pr, n) == [call |-> "Spawn", f |-> f, prio |-> pr, gives |-> n]
Wait2(n, st)    == [call |-> "Wait", gives |-> n, status |-> st]
Exit(st)        == [call |-> "Terminate", status |-> st]
SemNew(x, v, n) == [call |-> "SemCreate", sem |-> x, v |-> v, gives |-> n]
SemP(x)         == [call |-> "SemP", sem |-> x, gives |-> 0]
SemV(x)         == [call |-> "SemV", sem |-> x, gives |-> 0]
MyPid(n)        == [call |-> "GetPID", gives |-> n]
Time            == [call |-> "GetTimeofDay", gives |-> NotPrinted]

Times(n, seq) == FlattenSeq([i \in 1 .. n |-> seq])

SEM == "semaphore"

Test00 == [start3 |-> <<Spawn("Child1", 5, 5), Wait2(5, 9), Exit(0)>>,
           Child1 |-> <<Exit(9)>>]

Test01 == [start3 |-> <<Spawn("Child1", 2, 5), Exit(0)>>, Child1 |-> <<Exit(9)>>]

Test02 == [start3 |-> <<Exit(0)>>]

Test03 == [start3 |-> <<Spawn("Child1", 2, 5), Exit(0)>>,
           Child1 |-> <<Spawn("Child2", 1, 6), Exit(9)>>, Child2 |-> <<Exit(7)>>]

Test04 == [start3 |-> <<SemNew("a", 0, 0), SemNew("b", 0, 1), Exit(0)>>]

\* MAXSEMS + 2 of them.
Test05 == [start3 |-> [i \in 1 .. MAXSEMS |-> SemNew(SEM, 0, i - 1)]
                         \o Times(2, <<SemNew("none", 0, -1)>>) \o <<Exit(0)>>]

Test06 == [start3 |-> <<SemNew(SEM, 0, 0), Spawn("Child1", 2, 5), Spawn("Child2", 2, 6),
                        Wait2(NotPrinted, 9), Wait2(NotPrinted, 9), Exit(0)>>,
           Child1 |-> <<SemP(SEM), Exit(9)>>, Child2 |-> <<SemV(SEM), Exit(9)>>]

Test07 ==
    LET Child1 == <<SemP(SEM), Exit(9)>> IN
    [start3 |-> <<SemNew(SEM, 0, 0), Spawn("Child1a", 2, 5), Spawn("Child1b", 2, 6),
                  Spawn("Child1c", 2, 7), Spawn("Child2", 2, 8), Exit(0)>>,
     Child1a |-> Child1, Child1b |-> Child1, Child1c |-> Child1,
     Child2 |-> <<MyPid(8)>> \o Times(3, <<SemV(SEM)>>) \o <<Exit(9)>>]

\* Three children, one after the other, each of which makes some calls.
ThreeChildren(calls) ==
    [start3 |-> <<Spawn("Child1a", 1, 5), Spawn("Child1b", 1, 6), Spawn("Child1c", 1, 7),
                  Wait2(NotPrinted, 9), Wait2(NotPrinted, 9), Wait2(NotPrinted, 9), Exit(0)>>,
     Child1a |-> calls[1] \o <<Exit(9)>>, Child1b |-> calls[2] \o <<Exit(9)>>,
     Child1c |-> calls[3] \o <<Exit(9)>>]

Test10 == ThreeChildren(Times(3, <<Times(3, <<Time>>)>>))
Test11 == ThreeChildren(Times(3, <<Times(3, <<Time>>)>>))
Test12 == ThreeChildren(Times(3, <<Times(6, <<Time>>)>>))
Test13 == ThreeChildren(<<<<MyPid(5)>>, <<MyPid(6)>>, <<MyPid(7)>>>>)

Test14 == [start3 |-> <<Spawn("Child1", 4, 5), Wait2(5, 32), Exit(0)>>,
           Child1 |-> <<Exit(32)>>]

Test15 == [start3 |-> <<Spawn("Child1", 4, NotPrinted), Wait2(NotPrinted, 32), Exit(0)>>,
           Child1 |-> <<Exit(32)>>]

Test17 == [start3 |-> <<Spawn("Child1", 4, 5), Wait2(5, 9), Exit(0)>>,
           Child1 |-> <<Spawn("Child2", 5, 6), Wait2(6, 9),
                        Spawn("Child3", 5, 7), Wait2(7, 10), Exit(9)>>,
           Child2 |-> <<Exit(9)>>, Child3 |-> <<Exit(10)>>]

Test18 == [start3 |-> <<Spawn("Child1", 4, 5), Wait2(5, 9), Exit(0)>>,
           Child1 |-> <<MyPid(5), Spawn("Child2", 2, 6), Wait2(6, 10),
                        Spawn("Child3", 5, 10), Wait2(10, 11), Exit(9)>>,
           Child2 |-> <<MyPid(6), Spawn("Child2a", 5, 7), Spawn("Child2b", 5, 8),
                        Spawn("Child2c", 5, 9), Exit(10)>>,
           Child2a |-> <<Exit(11)>>, Child2b |-> <<Exit(11)>>, Child2c |-> <<Exit(11)>>,
           Child3 |-> <<Exit(11)>>]

Test19 == [start3 |-> <<Time, Time, Time, Exit(0)>>]

\* Which of two dead children Wait finds first is the kernel's affair.
Test20 == [start3 |-> <<SemNew(SEM, 3, 0), SemP(SEM), Spawn("Child1", 2, 5),
                        Spawn("Child2", 3, 6), SemV(SEM), Wait2(NotPrinted, NotPrinted), Wait2(NotPrinted, NotPrinted),
                        Exit(0)>>,
           Child1 |-> Times(5, <<SemP(SEM)>>) \o <<Exit(9)>>,
           Child2 |-> Times(5, <<SemV(SEM)>>) \o <<Exit(10)>>]

\* start3 waits for Child1, which waits for Child2.
Nested(child2) ==
    [start3 |-> <<Spawn("Child1", 4, 5), Wait2(5, 9), Exit(0)>>,
     Child1 |-> <<MyPid(5), Spawn("Child2", 2, 6), Wait2(6, 10), Exit(9)>>,
     Child2 |-> child2,
     Child2a |-> <<Exit(11)>>, Child2b |-> <<Exit(11)>>, Child2c |-> <<Exit(11)>>]

Test21 == Nested(<<MyPid(6), Spawn("Child2a", 5, 7), Spawn("Child2b", 5, 8),
                   Spawn("Child2c", 5, 9), Wait2(NotPrinted, 11), Wait2(NotPrinted, 11), Wait2(NotPrinted, 11),
                   Exit(10)>>)

Test22 == Nested(<<MyPid(6), Spawn("Child2a", 5, 7), Exit(10)>>)

Test23 == Nested(<<MyPid(6), Spawn("Child2a", 5, 7), Spawn("Child2b", 5, 8), Exit(10)>>)

Test24 == Nested(<<MyPid(6), Spawn("Child2a", 5, 7), Spawn("Child2b", 5, 8),
                   Spawn("Child2c", 5, 9), Exit(10)>>)

\* Child2 fills the table but for a few entries (MAXPROC - 10 times in the code).
Test25 ==
    LET n == MAXPROC - 8 IN
    [start3 |-> <<Spawn("Child1", 4, 5), Wait2(5, 9), Exit(0)>>,
     Child1 |-> <<MyPid(5), Spawn("Child2", 2, 6), Wait2(NotPrinted, NotPrinted),
                  Spawn("Child2b", 2, 7 + n), Wait2(7 + n, 50), Exit(9)>>,
     Child2 |-> <<MyPid(6)>> \o [i \in 1 .. n |-> Spawn("Child2a", 3, 6 + i)]
                  \o <<Exit(10)>>,
     Child2a |-> <<MyPid(NotPrinted), Exit(11)>>,
     Child2b |-> <<MyPid(7 + n), Spawn("Child2c", 1, 8 + n), Wait2(NotPrinted, NotPrinted), Exit(50)>>,
     Child2c |-> <<Exit(11)>>]

\* 250 000 times in the code.  Wait finds the children in any order.
Test26 ==
    LET Child(x, n) == <<SemNew(x, 0, NotPrinted)>> \o Times(2, <<SemV(x)>>)
                         \o Times(3, <<SemP(x)>>) \o <<Exit(n)>>
    IN  [start3 |-> <<Spawn("Child1", 4, 5), Spawn("Child2", 4, 6),
                      Spawn("LP_Child", 5, 7), Wait2(NotPrinted, NotPrinted), Wait2(NotPrinted, NotPrinted),
                      Wait2(NotPrinted, NotPrinted), Exit(0)>>,
         Child1 |-> Child("sem1", 1), Child2 |-> Child("sem2", 2),
         LP_Child |-> <<SemV("sem1"), SemV("sem2"), Exit(9)>>]

\* For the first three primes in the place of 25: the worker of the first prime that
\* divides the counter is woken next, until the counter is 5.
Test27 ==
    [start3 |-> <<SemNew("p2", 0, 0), SemNew("p3", 0, 1), SemNew("p5", 0, 2),
                  Spawn("Worker2", 4, 5), Spawn("Worker3", 4, 6), Spawn("Worker5", 4, 7),
                  SemV("p2"), Wait2(NotPrinted, NotPrinted), Wait2(NotPrinted, NotPrinted), Wait2(NotPrinted, NotPrinted),
                  SemP("p2"), SemP("p3"), SemP("p5"), Exit(0)>>,
     Worker2 |-> <<SemP("p2"), SemV("p3"), SemP("p2"), SemV("p5"), SemP("p2"),
                   SemV("p2"), Exit(10)>>,
     Worker3 |-> <<SemP("p3"), SemV("p2"), SemP("p3"), SemV("p3"), Exit(11)>>,
     Worker5 |-> <<SemP("p5"), SemV("p2"), SemV("p3"), SemV("p5"), Exit(12)>>]

Tests == [t00 |-> Test00, t01 |-> Test01, t02 |-> Test02, t03 |-> Test03, t04 |-> Test04,
          t05 |-> Test05, t06 |-> Test06, t07 |-> Test07, t10 |-> Test10, t11 |-> Test11,
          t12 |-> Test12, t13 |-> Test13, t14 |-> Test14, t15 |-> Test15, t17 |-> Test17,
          t18 |-> Test18, t19 |-> Test19, t20 |-> Test20, t21 |-> Test21, t22 |-> Test22,
          t23 |-> Test23, t24 |-> Test24, t25 |-> Test25, t26 |-> Test26, t27 |-> Test27]

ASSUME TestAssumption ==
    /\ Programs \subseteq DOMAIN Tests \cup {"free"}
    /\ FreePids \in 0 .. MAXPROC - 1

-----------------------------------------------------------------------------

\* The calls of the function that p runs.
Script(p) == Tests[program][IF p = Start3 THEN "start3" ELSE ran[p]]

SemVariables == {SEM, "none", "a", "b", "sem1", "sem2", "p2", "p3", "p5"}

TestInit ==
    /\ UserInit
    /\ program \in Programs
    /\ ip = [p \in Procs |-> 1] /\ ids = [x \in SemVariables |-> NoSem]

\* gettimeofday, CPUTime: nothing but the time that passes.
GetTime(p) ==
    /\ at[p] = "user" /\ Runs(p) /\ preemptible' = TRUE
    /\ KeepSems
    /\ UNCHANGED <<nextSibling, at, on, prio, crashed, result, userVars>>

Performs(p, op) ==
    \/ op.call = "Spawn" /\ SpawnCall(p, op.f, op.prio) /\ UNCHANGED ids
    \/ op.call = "Wait" /\ Wait(p) /\ UNCHANGED ids
    \/ op.call = "Terminate" /\ Terminate(p, op.status) /\ UNCHANGED ids
    \/ op.call = "GetPID" /\ GetPID(p) /\ UNCHANGED ids
    \/ op.call = "GetTimeofDay" /\ GetTime(p) /\ UNCHANGED ids
    \/ op.call = "SemP" /\ P(p, ids[op.sem]) /\ UNCHANGED <<ids, userVars>>
    \/ op.call = "SemV" /\ V(p, ids[op.sem]) /\ UNCHANGED <<ids, userVars>>
    \/ /\ op.call = "SemCreate"
       /\ SemCreate(p, op.v) \/ SemCreateFails(p, op.v)
       /\ ids' = [ids EXCEPT ![op.sem] = result'[p]]
       /\ UNCHANGED userVars

ScriptCall(p) ==
    /\ program # "free" /\ at[p] = "user"
    /\ Performs(p, Script(p)[ip[p]])
    /\ ip' = [ip EXCEPT ![p] = @ + 1]

FreeCall(p) ==
    /\ program = "free"
    /\ \/ \E f \in Funcs, pr \in Priorities : nextPid <= FreePids /\ SpawnCall(p, f, pr)
       \/ Wait(p) \/ NullSys(p)
    /\ UNCHANGED <<ip, ids>>

\* spawn_T starts the function from its first call.
TestStep(p) ==
    /\ UserStep(p)
    /\ ip' = IF StartRuns(p) THEN [ip EXCEPT ![p] = 1] ELSE ip
    /\ UNCHANGED ids

Ended == at[Start3] = "quit"

\* Nobody can go on: the sentinel halts the machine.
Stopped == crashed \/ \A p \in Procs : ~Ready(p)

TestNext ==
    /\ \/ \E p \in Procs : ScriptCall(p) \/ FreeCall(p) \/ TestStep(p)
       \/ Stopped /\ UNCHANGED <<allVars, ip, ids>>
    /\ UNCHANGED program

TestSpec == /\ TestInit /\ [][TestNext]_<<allVars, testVars>>
            /\ WF_<<allVars, testVars>>(TestNext)

-----------------------------------------------------------------------------

\* What the last call gave is what the recorded output of the test shows: the pid
\* of Spawn and GetPID, the pid and the status of Wait, the number of a semaphore.
LastCall(p) == Script(p)[ip[p] - 1]

OutputAsRecorded == program # "free" =>
    \A p \in Procs : at[p] = "user" /\ ip[p] > 1 =>
        /\ LastCall(p).gives \in {NotPrinted, result[p]}
        /\ LastCall(p).call = "Wait" => LastCall(p).status \in {NotPrinted, status[p]}

\* Every test program ends: no process of it sleeps for ever in Wait, Terminate,
\* SemP or before its first instruction.
TestsEnd == program # "free" ~> Ended
=============================================================================
