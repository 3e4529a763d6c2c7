---------------------------- MODULE KernelProofs ----------------------------
(***************************************************************************)
(* Theorems about Kernel, for every size of the process table.             *)
(***************************************************************************)
EXTENDS Kernel, SequenceFacts

-----------------------------------------------------------------------------
(* Greatest elements: the loops over the table find what they look for.    *)

\* Max of a non-empty set of slots belongs to it.
LEMMA MaxIn ==
    ASSUME NEW T \in SUBSET Slot, T # {}
    PROVE  Max(T) \in T
<1> DEFINE D == {n \in Nat : \E s \in T : n = MAXPROC - s}
<1>1. \A s \in T : MAXPROC - s \in D
  BY SlotAssumption DEF Slot
<1>2. PICK m \in D : \A n \in D : m <= n
  <2>1. D \in SUBSET Nat /\ D # {}
    BY <1>1
  <2> QED
    BY <2>1, LeastNat
<1>3. PICK x \in T : m = MAXPROC - x
  OBVIOUS
<1>4. \A y \in T : x >= y
  <2>1. TAKE y \in T
  <2>2. MAXPROC - y \in D
    BY <1>1
  <2>3. MAXPROC - x <= MAXPROC - y
    BY <1>2, <1>3, <2>2
  <2> HIDE DEF D
  <2> QED
    BY <2>3, SlotAssumption DEF Slot
<1> QED
  BY <1>3, <1>4 DEF Max

-----------------------------------------------------------------------------
(* What the dispatcher chooses.                                            *)

\* A slot number is its own remainder, and every remainder is a slot number.
LEMMA ModSlot ==
    /\ \A x \in Int : x % MAXPROC \in Slot
    /\ \A s \in Slot : s % MAXPROC = s
BY SlotAssumption DEF Slot

\* The first loop of the dispatcher finds a runnable process if there is one.
LEMMA BestIn ==
    ASSUME TypeOK, NEW st, Runnable(st) # {}
    PROVE  Best(Runnable(st)) \in Runnable(st)
<1> DEFINE R == Runnable(st)
           P == {priority[s] : s \in R}
<1>1. \A s \in R : s \in Nat /\ priority[s] \in Nat
  BY DEF Runnable, Slot
<1>2. PICK m \in P : \A n \in P : m <= n
  <2>1. P \in SUBSET Nat /\ P # {}
    BY <1>1
  <2> QED
    BY <2>1, LeastNat
<1> DEFINE Q == {s \in R : priority[s] = m}
<1>3. PICK q \in Q : \A s \in Q : q <= s
  <2>1. Q \in SUBSET Nat /\ Q # {}
    BY <1>1
  <2> QED
    BY <2>1, LeastNat
<1>4. \A o \in R : priority[q] < priority[o] \/ (priority[q] = priority[o] /\ q <= o)
  <2>1. TAKE o \in R
  <2>2. priority[o] \in Nat /\ priority[q] \in Nat /\ priority[q] = m /\ m <= priority[o]
    BY <1>1, <1>2, <1>3
  <2>3. CASE priority[o] = m
    BY <1>3, <2>2, <2>3
  <2>4. CASE priority[o] # m
    BY <2>2, <2>4
  <2> QED
    BY <2>3, <2>4
<1> QED
  BY <1>3, <1>4 DEF Best

\* The dispatcher chooses the pid of a slot that may run, or none.
LEMMA PidToRunIsPid ==
    ASSUME TypeOK, NEW st, NEW dev, PidToRun(st, dev) # NoPid
    PROVE  \E x \in Slot : /\ st[x] \in {"READY", "RUNNING", "SLICED"}
                           /\ PidToRun(st, dev) = pid[x]
<1>1. Runnable(st) # {}
  BY DEF PidToRun
<1> DEFINE best == Best(Runnable(st))
           index == PreferZapped(st, best)
<1>2. best \in Runnable(st)
  BY <1>1, BestIn
<1>3. \E x \in Runnable(st) : index = pid[x]
  <2> DEFINE Z == {s \in Runnable(st) : /\ s >= pid[best] /\ isZapped[s]
                                        /\ priority[s] = priority[best]}
  <2>1. CASE Z = {}
    BY <1>2, <2>1 DEF PreferZapped
  <2>2. CASE Z # {}
    <3>1. Z \in SUBSET Slot
      BY DEF Runnable
    <3>2. Max(Z) \in Z
      BY <2>2, <3>1, MaxIn
    <3>3. index = pid[Max(Z)]
      BY <2>2 DEF PreferZapped
    <3> QED
      BY <3>2, <3>3
  <2> QED
    BY <2>1, <2>2
<1>4. CASE index = SentinelPid /\ Sliced(st, dev) # {}
  <2>1. Sliced(st, dev) \in SUBSET Slot
    BY DEF Sliced
  <2>2. Max(Sliced(st, dev)) \in Sliced(st, dev)
    BY <1>4, <2>1, MaxIn
  <2>3. PidToRun(st, dev) = pid[Max(Sliced(st, dev))]
    BY <1>1, <1>4 DEF PidToRun
  <2> QED
    BY <2>2, <2>3 DEF Sliced
<1>5. CASE ~(index = SentinelPid /\ Sliced(st, dev) # {})
  <2>1. PidToRun(st, dev) = index
    BY <1>1, <1>5 DEF PidToRun
  <2> QED
    BY <1>3, <2>1 DEF Runnable
<1> QED
  BY <1>4, <1>5

\* Switching keeps the types.
LEMMA SwitchTyped ==
    ASSUME TypeOK, NEW st \in [Slot -> Statuses], NEW dev, SwitchFrom(st, dev)
    PROVE  status' \in [Slot -> Statuses] /\ cur' \in Slot
<1>1. CASE PidToRun(st, dev) = NoPid
  BY <1>1 DEF SwitchFrom, TypeOK
<1>2. CASE PidToRun(st, dev) # NoPid
  <2>1. PidToRun(st, dev) \in Int
    BY <1>2, PidToRunIsPid DEF TypeOK
  <2> DEFINE to == IndexTo(PidToRun(st, dev))
  <2>2. to \in Slot
    BY <2>1, ModSlot DEF IndexTo
  <2>3. /\ cur' = to
        /\ status' = [[st EXCEPT ![cur] = Preempted(@)] EXCEPT ![to] = "RUNNING"]
    BY <1>2 DEF SwitchFrom
  <2>4. \A x \in Statuses : Preempted(x) \in Statuses
    BY DEF Preempted, Statuses
  <2>5. "RUNNING" \in Statuses
    BY DEF Statuses
  <2> HIDE DEF to
  <2> QED
    BY <2>2, <2>3, <2>4, <2>5
<1> QED
  BY <1>1, <1>2

-----------------------------------------------------------------------------
(* Type correctness.                                                       *)

\* The scan for a dead child returns a position on the list, or 0.
LEMMA DeadIsPosition ==
    ASSUME TypeOK, Dead # 0
    PROVE  /\ Dead \in 1 .. Len(children[cur])
           /\ status[children[cur][Dead]] = "QUIT"
<1> DEFINE I == {i \in 1 .. Len(children[cur]) : QuitChild(children[cur][i])}
<1>1. Dead = IF I # {} THEN Min(I) ELSE 0
  BY DEF Dead, SelectInSeq
<1>2. I # {} /\ Dead = Min(I)
  BY <1>1
<1>3. I \in SUBSET Nat
  BY DEF TypeOK
<1>4. Min(I) \in I
  BY <1>2, <1>3, MinIn
<1> QED
  BY <1>2, <1>4 DEF QuitChild

\* When the scan finds none, no child on the list has quit.
LEMMA NoneDead ==
    ASSUME TypeOK, Dead = 0, NEW i \in 1 .. Len(children[cur])
    PROVE  status[children[cur][i]] # "QUIT"
<1> DEFINE I == {j \in 1 .. Len(children[cur]) : QuitChild(children[cur][j])}
<1>1. Dead = IF I # {} THEN Min(I) ELSE 0
  BY DEF Dead, SelectInSeq
<1>2. ASSUME I # {} PROVE FALSE
  <2>1. I \in SUBSET Nat /\ 0 \notin I
    BY DEF TypeOK
  <2>2. Min(I) \in I
    BY <1>2, <2>1, MinIn
  <2> QED
    BY <1>1, <1>2, <2>1, <2>2
<1> QED
  BY <1>2 DEF QuitChild

\* A free slot found by findNextIndex is a free slot.
LEMMA FreeIndexIsFree ==
    ASSUME TypeOK
    PROVE  /\ Skipped \in Nat
           /\ FreeOffsets # {} => /\ FreeIndex \in Slot
                                  /\ status[FreeIndex] = "EMPTY"
                                  /\ FreeIndex = (nextPID + Skipped) % MAXPROC
<1>1. CASE FreeOffsets = {}
  BY <1>1, SlotAssumption DEF Skipped
<1>2. CASE FreeOffsets # {}
  <2>1. FreeOffsets \in SUBSET Nat
    BY DEF FreeOffsets, Slot
  <2>2. Min(FreeOffsets) \in FreeOffsets
    BY <1>2, <2>1, MinIn
  <2>3. Min(FreeOffsets) \in Nat
    BY <2>1, <2>2
  <2>4. (nextPID + Min(FreeOffsets)) \in Int
    BY <2>3 DEF TypeOK
  <2> QED
    BY <1>2, <2>2, <2>3, <2>4, ModSlot DEF FreeOffsets, FreeIndex, Skipped
<1> QED
  BY <1>1, <1>2

\* Taking an entry out of a list, and giving it a new rest, keep a list of slots.
LEMMA ListsTyped ==
    ASSUME NEW list \in Seq(Slot)
    PROVE  /\ \A i \in 1 .. Len(list) : Unlink(list, i) \in Seq(Slot)
           /\ \A s \in Slot, rest \in Seq(Slot) : Relink(list, s, rest) \in Seq(Slot)
<1>1. \A i \in 1 .. Len(list) : Unlink(list, i) \in Seq(Slot)
  BY DEF Unlink, RemoveAt
<1>2. ASSUME NEW s \in Slot, NEW rest \in Seq(Slot), Contains(list, s)
      PROVE  Relink(list, s, rest) \in Seq(Slot)
  <2> DEFINE I == {i \in 1 .. Len(list) : list[i] = s}
  <2>1. SelectInSeq(list, LAMBDA x : x = s) = IF I # {} THEN Min(I) ELSE 0
    BY DEF SelectInSeq
  <2>2. I \in SUBSET Nat /\ I # {}
    BY <1>2 DEF Contains
  <2>3. Min(I) \in I
    BY <2>2, MinIn
  <2>4. SubSeq(list, 1, Min(I)) \in Seq(Slot)
    <3>1. \A k \in 1 .. Len(list) : SubSeq(list, 1, k) \in Seq(Slot)
      OBVIOUS
    <3>2. Min(I) \in 1 .. Len(list)
      BY <2>3
    <3> HIDE DEF I
    <3> QED
      BY <3>1, <3>2
  <2>5. SubSeq(list, 1, Min(I)) \o rest \in Seq(Slot)
    BY <2>4
  <2> QED
    BY <1>2, <2>1, <2>2, <2>5 DEF Relink
<1>3. \A s \in Slot, rest \in Seq(Slot) : Relink(list, s, rest) \in Seq(Slot)
  BY <1>2 DEF Relink
<1> QED
  BY <1>1, <1>3

\* TypeOK holds initially.
LEMMA TypeInit == Init => TypeOK
<1> SUFFICES ASSUME Init PROVE TypeOK
  OBVIOUS
<1> USE SlotAssumption DEF Slot, InitSlot, SentinelSlot, MainSlot, NoSlot, NoPid, MainPid
<1>1. /\ status \in [Slot -> Statuses]
      /\ pid \in [Slot -> Int]
      /\ priority \in [Slot -> Int]
      /\ parent \in [Slot -> Slot \cup {NoSlot}]
  BY DEF Init, Statuses
<1>2. children \in [Slot -> Seq(Slot)]
  <2>1. <<MainSlot, SentinelSlot>> \in Seq(Slot) /\ <<>> \in Seq(Slot)
    OBVIOUS
  <2> QED
    BY <2>1, Zenon DEF Init
<1>3. calledZapped \in [Slot -> Seq(Int)]
  <2>1. <<>> \in Seq(Int)
    OBVIOUS
  <2> QED
    BY <2>1, Zenon DEF Init
<1>4. /\ isZapped = [s \in Slot |-> FALSE]
      /\ blockReason = [s \in Slot |-> FALSE]
      /\ cur = MainSlot
      /\ nextPID = MainPid + 1
      /\ pc = [s \in Slot |-> "user"]
      /\ procIndex = [s \in Slot |-> 0]
      /\ newPriority = [s \in Slot |-> 0]
      /\ masked = FALSE
      /\ halted = "no"
  BY Zenon DEF Init
<1>5. /\ cur \in Slot
      /\ nextPID \in Nat
      /\ halted \in {"no", "deadlock", "error", "done"}
  BY <1>4
<1>7. masked \in BOOLEAN /\ isZapped \in [Slot -> BOOLEAN] /\ blockReason \in [Slot -> BOOLEAN]
  BY <1>4, Zenon
<1>6. /\ pc \in [Slot -> Points]
      /\ procIndex \in [Slot -> Slot]
      /\ newPriority \in [Slot -> Int]
  BY <1>4 DEF Points
<1> QED
  BY <1>1, <1>2, <1>3, <1>5, <1>6, <1>7 DEF TypeOK

\* TypeOK is preserved by every step.
LEMMA TypeStep == TypeOK /\ [Next]_vars => TypeOK'
<1> SUFFICES ASSUME TypeOK, [Next]_vars PROVE TypeOK'
  OBVIOUS
<1> USE DEF procVars, forkVars
<1>1. CASE Dispatch
  <2>1. status' \in [Slot -> Statuses] /\ cur' \in Slot
    BY <1>1, SwitchTyped DEF Dispatch, TypeOK
  <2>2. pc' \in [Slot -> Points]
    BY <1>1 DEF Dispatch, Goto, AfterDispatch, Points, TypeOK
  <2> QED
    BY <1>1, <2>1, <2>2 DEF Dispatch, TypeOK
<1>2. CASE ForkFill
  <2> DEFINE s == procIndex[cur]
  <2>1. s \in Slot /\ cur \in Slot
    BY DEF TypeOK
  <2>2. children' \in [Slot -> Seq(Slot)]
    <3>1. <<s>> \o children[cur] \in Seq(Slot) /\ <<>> \in Seq(Slot)
      BY <2>1 DEF TypeOK
    <3>2. \A x \in Slot : Relink(children[x], s, children[cur]) \in Seq(Slot)
      BY <2>1, ListsTyped DEF TypeOK
    <3>3. children' = [x \in Slot |->
            IF x = cur THEN <<s>> \o children[cur]
            ELSE IF x = s THEN <<>> ELSE Relink(children[x], s, children[cur])]
      BY <1>2 DEF ForkFill
    <3> HIDE DEF s
    <3> QED
      BY <3>1, <3>2, <3>3
  <2>3. /\ status' \in [Slot -> Statuses]
        /\ pid' \in [Slot -> Int]
        /\ priority' \in [Slot -> Int]
        /\ parent' \in [Slot -> Slot \cup {NoSlot}]
        /\ nextPID' \in Nat
    BY <1>2, <2>1 DEF ForkFill, TypeOK, Statuses
  <2>4. /\ pc' \in [Slot -> Points]
        /\ procIndex' \in [Slot -> Slot]
        /\ newPriority' \in [Slot -> Int]
    <3>1. 0 \in Slot /\ {"user", "forked"} \subseteq Points
      BY SlotAssumption DEF Slot, Points, Dispatching
    <3>2. /\ pc' = [pc EXCEPT ![s] = "user", ![cur] = "forked"]
          /\ procIndex' = [procIndex EXCEPT ![cur] = 0]
          /\ newPriority' = [newPriority EXCEPT ![cur] = 0]
      BY <1>2 DEF ForkFill
    <3> HIDE DEF s
    <3>3. pc' \in [Slot -> Points]
      BY <2>1, <3>1, <3>2 DEF TypeOK
    <3>4. procIndex' \in [Slot -> Slot]
      BY <3>1, <3>2 DEF TypeOK
    <3>5. newPriority' \in [Slot -> Int]
      BY <3>2 DEF TypeOK
    <3> QED
      BY <3>3, <3>4, <3>5
  <2> QED
    BY <1>2, <2>2, <2>3, <2>4 DEF ForkFill, TypeOK
<1>3. ASSUME NEW p \in Priorities, ForkFind(p) PROVE TypeOK'
  <2>1. /\ nextPID' \in Nat
        /\ procIndex' \in [Slot -> Slot]
    <3>1. Skipped \in Nat /\ FreeIndex \in Slot
      BY <1>3, FreeIndexIsFree DEF ForkFind
    <3> QED
      BY <1>3, <3>1 DEF ForkFind, TypeOK
  <2>2. pc' \in [Slot -> Points]
    BY <1>3 DEF ForkFind, Goto, Points, TypeOK
  <2>3. newPriority' \in [Slot -> Int]
    BY <1>3 DEF ForkFind, TypeOK
  <2> QED
    BY <1>3, <2>1, <2>2, <2>3 DEF ForkFind, TypeOK
<1>4. ASSUME NEW p \in Priorities, ForkFail(p) PROVE TypeOK'
  <2>1. nextPID' \in Nat
    BY <1>4, FreeIndexIsFree DEF ForkFail, TypeOK
  <2> QED
    BY <1>4, <2>1 DEF ForkFail, TypeOK
<1>5. CASE JoinNoChildren
  BY <1>5 DEF JoinNoChildren, Goto, Points, TypeOK
<1>6. CASE JoinReap
  <2> DEFINE c == children[cur][Dead]
  <2>1. Dead \in 1 .. Len(children[cur]) /\ c \in Slot
    BY <1>6, DeadIsPosition DEF JoinReap, TypeOK
  <2>2. children' \in [Slot -> Seq(Slot)]
    <3>1. Unlink(children[cur], Dead) \in Seq(Slot) /\ <<>> \in Seq(Slot)
      BY <2>1, ListsTyped DEF TypeOK
    <3>2. children' = [children EXCEPT ![cur] = Unlink(@, Dead), ![c] = <<>>]
      BY <1>6 DEF JoinReap
    <3> HIDE DEF c
    <3> QED
      BY <2>1, <3>1, <3>2 DEF TypeOK
  <2>3. /\ status' \in [Slot -> Statuses]
        /\ pid' \in [Slot -> Int]
        /\ priority' \in [Slot -> Int]
        /\ parent' \in [Slot -> Slot \cup {NoSlot}]
        /\ isZapped' \in [Slot -> BOOLEAN]
        /\ calledZapped' \in [Slot -> Seq(Int)]
        /\ blockReason' \in [Slot -> BOOLEAN]
    <3>1. <<>> \in Seq(Int) /\ NoPid \in Int
      BY DEF NoPid
    <3>2. /\ status' = [status EXCEPT ![c] = "EMPTY", ![cur] = "READY"]
          /\ pid' = [pid EXCEPT ![c] = NoPid]
          /\ priority' = [priority EXCEPT ![c] = -1]
          /\ parent' = [parent EXCEPT ![c] = NoSlot]
          /\ isZapped' = [isZapped EXCEPT ![c] = FALSE]
          /\ calledZapped' = [calledZapped EXCEPT ![c] = <<>>]
          /\ blockReason' = [blockReason EXCEPT ![c] = FALSE]
      BY <1>6 DEF JoinReap
    <3> HIDE DEF c
    <3>3. /\ status' \in [Slot -> Statuses]
          /\ parent' \in [Slot -> Slot \cup {NoSlot}]
      BY <2>1, <3>2 DEF TypeOK, Statuses
    <3>4. /\ pid' \in [Slot -> Int]
          /\ priority' \in [Slot -> Int]
      <4>1. -1 \in Int /\ NoPid \in Int
        BY <3>1
      <4>2. pid' \in [Slot -> Int]
        BY <2>1, <4>1, <3>2 DEF TypeOK
      <4>3. priority' \in [Slot -> Int]
        BY <2>1, <4>1, <3>2 DEF TypeOK
      <4> QED
        BY <4>2, <4>3
    <3>5. /\ isZapped' \in [Slot -> BOOLEAN]
          /\ blockReason' \in [Slot -> BOOLEAN]
      BY <2>1, <3>2 DEF TypeOK
    <3>6. calledZapped' \in [Slot -> Seq(Int)]
      BY <2>1, <3>1, <3>2 DEF TypeOK
    <3> QED
      BY <3>3, <3>4, <3>5, <3>6
  <2>4. pc' \in [Slot -> Points]
    BY <1>6, <2>1 DEF JoinReap, TypeOK, Points, Dispatching
  <2> QED
    BY <1>6, <2>2, <2>3, <2>4 DEF JoinReap, TypeOK
<1>7. CASE JoinLook
  BY <1>7 DEF JoinLook, Goto, Points, Dispatching, Statuses, TypeOK
<1>8. CASE JoinBlock
  BY <1>8 DEF JoinBlock, Goto, Points, Dispatching, Statuses, TypeOK
<1>9. CASE Quit
  BY <1>9 DEF Quit, Goto, Points, Dispatching, Statuses, TypeOK
<1>10. CASE QuitWithChildren \/ QuitReturned \/ MainReturns \/ BlockMeError \/ SentinelHalts
  BY <1>10 DEF QuitWithChildren, QuitReturned, MainReturns, BlockMeError, SentinelHalts,
               Halt, TypeOK
<1>11. ASSUME NEW p \in 0 .. nextPID, Zap(p) PROVE TypeOK'
  <2> DEFINE t == p % MAXPROC
  <2>1. t \in Slot
    BY ModSlot DEF TypeOK
  <2>2. /\ isZapped' \in [Slot -> BOOLEAN]
        /\ calledZapped' \in [Slot -> Seq(Int)]
    <3> HIDE DEF t
    <3> QED
      BY <1>11, <2>1 DEF Zap, TypeOK, t
  <2>3. /\ status' \in [Slot -> Statuses]
        /\ pc' \in [Slot -> Points]
    BY <1>11 DEF Zap, Goto, Points, Dispatching, Statuses, TypeOK
  <2> QED
    BY <1>11, <2>2, <2>3 DEF Zap, TypeOK
<1>12. ASSUME NEW p \in 0 .. nextPID, ZapError(p) PROVE TypeOK'
  BY <1>12 DEF ZapError, Halt, TypeOK
<1>13. CASE BlockMe
  BY <1>13 DEF BlockMe, Goto, Points, Dispatching, Statuses, TypeOK
<1>14. ASSUME NEW p \in 1 .. nextPID, Unblock(p) PROVE TypeOK'
  <2> DEFINE t == p % MAXPROC
  <2>1. t \in Slot
    BY ModSlot DEF TypeOK
  <2>2. /\ blockReason' = [blockReason EXCEPT ![t] = FALSE]
        /\ status' = [status EXCEPT ![t] = "READY"]
    BY <1>14 DEF Unblock
  <2>3. pc' \in [Slot -> Points]
    BY <1>14 DEF Unblock, Goto, Points, Dispatching, TypeOK
  <2>4. /\ status' \in [Slot -> Statuses]
        /\ blockReason' \in [Slot -> BOOLEAN]
    <3>1. "READY" \in Statuses
      BY DEF Statuses
    <3> HIDE DEF t
    <3> QED
      BY <2>1, <2>2, <3>1 DEF TypeOK
  <2>5. masked' = FALSE /\ UNCHANGED <<procVars, cur, nextPID, forkVars, halted>>
    BY <1>14 DEF Unblock
  <2> QED
    BY <2>3, <2>4, <2>5 DEF TypeOK
<1>15. ASSUME NEW p \in 1 .. nextPID, UnblockFail(p) PROVE TypeOK'
  BY <1>15 DEF UnblockFail, TypeOK
<1>16. CASE TimeSlice
  <2>1. [status EXCEPT ![cur] = "SLICED"] \in [Slot -> Statuses]
    BY DEF TypeOK, Statuses
  <2>2. status' \in [Slot -> Statuses] /\ cur' \in Slot
    BY <1>16, <2>1, SwitchTyped DEF TimeSlice
  <2> QED
    BY <1>16, <2>2 DEF TimeSlice, TypeOK
<1>17. CASE DeviceInterrupt
  <2>1. PICK t \in Slot :
          /\ blockReason' = [blockReason EXCEPT ![t] = FALSE]
          /\ SwitchFrom([status EXCEPT ![t] = "READY"], 6)
    BY <1>17 DEF DeviceInterrupt
  <2>2. [status EXCEPT ![t] = "READY"] \in [Slot -> Statuses]
    BY DEF TypeOK, Statuses
  <2>3. status' \in [Slot -> Statuses] /\ cur' \in Slot
    BY <2>1, <2>2, SwitchTyped
  <2> QED
    BY <1>17, <2>1, <2>3 DEF DeviceInterrupt, TypeOK
<1>18. CASE SentinelWaits \/ Halted \/ UNCHANGED vars
  BY <1>18 DEF SentinelWaits, Halted, vars, TypeOK
<1> QED
  BY <1>1, <1>2, <1>3, <1>4, <1>5, <1>6, <1>7, <1>8, <1>9, <1>10, <1>11, <1>12, <1>13,
     <1>14, <1>15, <1>16, <1>17, <1>18 DEF Next

\* Every variable of the kernel stays within its type, whatever the size of the
\* table and wherever the clock may tick.
THEOREM TypeCorrect == Spec => []TypeOK
BY TypeInit, TypeStep, PTL DEF Spec

-----------------------------------------------------------------------------
(* Which slots are in use.  A slot found by fork1 stays free until it is   *)
(* filled only because no interrupt is taken in between: hence the         *)
(* assumption "fork" \notin TickPoints.                                    *)

ProcInv ==
    /\ PidsNameSlots
    /\ status[cur] # "EMPTY"
    /\ \A s \in Slot : status[s] = "EMPTY" => ~blockReason[s] /\ parent[s] = NoSlot
    /\ \A s \in Slot : status[s] = "QUIT" => pc[s] \in {"quitting", "returned"}
    /\ \A s \in Slot : pc[s] = "fork" =>
          /\ s = cur
          /\ status[procIndex[s]] = "EMPTY"
          /\ procIndex[s] = nextPID % MAXPROC

\* The dispatcher runs a process that exists, and changes no status but that of
\* the processes it leaves and resumes.
LEMMA SwitchKeeps ==
    ASSUME TypeOK, NEW st \in [Slot -> Statuses], NEW dev, SwitchFrom(st, dev),
           st[cur] # "EMPTY",
           \A s \in Slot : st[s] # "EMPTY" => pid[s] % MAXPROC = s
    PROVE  /\ status'[cur'] # "EMPTY"
           /\ \A s \in Slot : status'[s] = "EMPTY" <=> st[s] = "EMPTY"
           /\ \A s \in Slot : status'[s] \in {"QUIT", "JOINBLOCK"} => status'[s] = st[s]
           /\ \A s \in Slot : /\ status'[s] = "QUIT" <=> st[s] = "QUIT"
                              /\ status'[s] = "ZAPBLOCK" <=> st[s] = "ZAPBLOCK"
<1>1. CASE PidToRun(st, dev) = NoPid
  BY <1>1 DEF SwitchFrom, TypeOK
<1>2. CASE PidToRun(st, dev) # NoPid
  <2>1. PICK x \in Slot : /\ st[x] \in {"READY", "RUNNING", "SLICED"}
                          /\ PidToRun(st, dev) = pid[x]
    BY <1>2, PidToRunIsPid
  <2>2. pid[x] % MAXPROC = x
    BY <2>1
  <2>3. /\ cur' = x
        /\ status' = [[st EXCEPT ![cur] = Preempted(@)] EXCEPT ![x] = "RUNNING"]
    BY <1>2, <2>1, <2>2 DEF SwitchFrom, IndexTo
  <2>4. \A v \in Statuses :
           /\ Preempted(v) = "EMPTY" <=> v = "EMPTY"
           /\ Preempted(v) \in {"QUIT", "JOINBLOCK"} => Preempted(v) = v
           /\ Preempted(v) = "QUIT" <=> v = "QUIT"
           /\ Preempted(v) = "ZAPBLOCK" <=> v = "ZAPBLOCK"
    BY DEF Preempted, Statuses
  <2>5. cur \in Slot
    BY DEF TypeOK
  <2> QED
    BY <2>1, <2>3, <2>4, <2>5
<1> QED
  BY <1>1, <1>2

\* ProcInv holds initially.
LEMMA ProcInit == Init => ProcInv
<1> SUFFICES ASSUME Init PROVE ProcInv
  OBVIOUS
<1> USE DEF InitSlot, SentinelSlot, MainSlot, NoPid, MainPid
<1>1. /\ \A s \in Slot : status[s] # "EMPTY" => s \in {1, 2, 3} /\ pid[s] = s
      /\ \A s \in Slot : status[s] = "EMPTY" => parent[s] = NoSlot
      /\ \A s \in Slot : status[s] # "QUIT"
  BY DEF Init
<1>2. \A s \in Slot : blockReason[s] = FALSE /\ pc[s] = "user"
  BY Zenon DEF Init
<1>3. cur = 3 /\ nextPID = 4 /\ 3 \in Slot
  BY SlotAssumption DEF Init, Slot
<1>4. status[cur] # "EMPTY"
  BY <1>3 DEF Init
<1>5. PidsNameSlots
  BY <1>1, <1>3, ModSlot DEF PidsNameSlots
<1> QED
  BY <1>1, <1>2, <1>4, <1>5 DEF ProcInv

\* ProcInv is preserved by every step, unless fork1 may be sliced between its
\* two halves.
LEMMA ProcStep ==
    ASSUME "fork" \notin TickPoints, TypeOK, ProcInv, [Next]_vars
    PROVE  ProcInv'
<1> USE DEF procVars, forkVars
<1> DEFINE Names(st) == \A s \in Slot : st[s] # "EMPTY" => pid[s] % MAXPROC = s
<1>1. Names(status) /\ cur \in Slot /\ nextPID \in Nat
  BY DEF ProcInv, PidsNameSlots, TypeOK
<1>2. CASE Dispatch
  <2>1. SwitchFrom(status, Dev[pc[cur]]) /\ status \in [Slot -> Statuses]
    BY <1>2 DEF Dispatch, TypeOK
  <2>2. /\ status'[cur'] # "EMPTY"
        /\ \A s \in Slot : status'[s] = "EMPTY" <=> status[s] = "EMPTY"
        /\ \A s \in Slot : status'[s] \in {"QUIT", "JOINBLOCK"} => status'[s] = status[s]
    BY <1>1, <2>1, SwitchKeeps DEF ProcInv
  <2>3. \A s \in Slot : pc[s] # "fork"
    BY <1>2 DEF Dispatch, Dispatching, ProcInv
  <2>4. /\ \A s \in Slot : pc'[s] # "fork"
        /\ \A s \in Slot : pc[s] \in {"quitting", "returned"}
                             => pc'[s] \in {"quitting", "returned"}
    BY <1>2, <2>3 DEF Dispatch, Dispatching, Goto, AfterDispatch, TypeOK
  <2>5. UNCHANGED <<pid, parent, blockReason, nextPID>>
    BY <1>2 DEF Dispatch
  <2> QED
    BY <2>2, <2>4, <2>5 DEF ProcInv, PidsNameSlots
<1>3. CASE ForkFill
  <2> DEFINE n == procIndex[cur]
  <2>1. /\ n \in Slot /\ status[n] = "EMPTY" /\ n = nextPID % MAXPROC /\ n # cur
    BY <1>1, <1>3 DEF ForkFill, At, ProcInv, TypeOK
  <2>2. /\ pid' = [pid EXCEPT ![n] = nextPID]
        /\ status' = [status EXCEPT ![n] = "READY"]
        /\ parent' = [parent EXCEPT ![n] = cur]
        /\ nextPID' = nextPID + 1
        /\ pc' = [pc EXCEPT ![n] = "user", ![cur] = "forked"]
        /\ UNCHANGED <<blockReason, cur>>
    BY <1>3 DEF ForkFill
  <2> HIDE DEF n
  <2>3. PidsNameSlots'
    <3>1. \A s \in Slot : pid[s] \in Int
      BY DEF TypeOK
    <3>2. /\ pid'[n] = nextPID
          /\ \A s \in Slot \ {n} : pid'[s] = pid[s] /\ status'[s] = status[s]
      BY <2>1, <2>2 DEF TypeOK
    <3>3. \A s \in Slot \ {n} : status[s] # "EMPTY" =>
             pid[s] % MAXPROC = s /\ pid[s] < nextPID + 1
      BY <1>1, <3>1 DEF PidsNameSlots, ProcInv
    <3>4. nextPID < nextPID + 1
      BY <1>1
    <3> QED
      BY <2>1, <2>2, <3>2, <3>3, <3>4 DEF PidsNameSlots
  <2>4. \A s \in Slot : pc'[s] # "fork"
    BY <2>1, <2>2 DEF ProcInv, TypeOK
  <2>5. /\ status'[cur'] # "EMPTY"
        /\ \A s \in Slot : status'[s] = "EMPTY" => s # n /\ status[s] = "EMPTY"
        /\ \A s \in Slot : status'[s] = "QUIT" => status[s] = "QUIT" /\ s \notin {n, cur}
    <3>1. status[cur] \notin {"EMPTY", "QUIT"}
      BY <1>1, <1>3 DEF ProcInv, ForkFill, At
    <3>2. status'[n] = "READY" /\ \A s \in Slot \ {n} : status'[s] = status[s]
      BY <2>1, <2>2 DEF TypeOK
    <3> QED
      BY <1>1, <2>1, <2>2, <3>1, <3>2
  <2>6. \A s \in Slot : status'[s] = "EMPTY" => ~blockReason'[s] /\ parent'[s] = NoSlot
    BY <2>2, <2>5 DEF ProcInv, TypeOK
  <2>7. \A s \in Slot : status'[s] = "QUIT" => pc'[s] \in {"quitting", "returned"}
    BY <2>2, <2>5 DEF ProcInv, TypeOK
  <2> QED
    BY <2>3, <2>4, <2>5, <2>6, <2>7 DEF ProcInv
<1>4. ASSUME NEW p \in Priorities, ForkFind(p) PROVE ProcInv'
  <2>1. /\ Skipped \in Nat
        /\ FreeIndex \in Slot /\ status[FreeIndex] = "EMPTY"
        /\ FreeIndex = (nextPID + Skipped) % MAXPROC
    BY <1>4, FreeIndexIsFree DEF ForkFind
  <2>2. /\ nextPID' = nextPID + Skipped
        /\ procIndex' = [procIndex EXCEPT ![cur] = FreeIndex]
        /\ pc' = [pc EXCEPT ![cur] = "fork"]
        /\ UNCHANGED <<status, pid, parent, blockReason, cur>>
        /\ pc[cur] = "user"
    BY <1>4 DEF ForkFind, Goto, InUser, At
  <2>3. PidsNameSlots'
    <3>1. \A s \in Slot : pid[s] \in Int
      BY DEF TypeOK
    <3> QED
      BY <1>1, <2>1, <2>2, <3>1 DEF PidsNameSlots, ProcInv
  <2>4. \A s \in Slot : pc'[s] = "fork" => s = cur
    BY <2>2 DEF ProcInv, TypeOK
  <2>5. procIndex'[cur] = FreeIndex
    BY <1>1, <2>2 DEF TypeOK
  <2>6. \A s \in Slot : status'[s] = "QUIT" => pc'[s] \in {"quitting", "returned"}
    BY <2>2 DEF ProcInv, TypeOK
  <2> QED
    BY <2>1, <2>2, <2>3, <2>4, <2>5, <2>6 DEF ProcInv
<1>5. ASSUME NEW p \in Priorities, ForkFail(p) PROVE ProcInv'
  <2>1. /\ nextPID' \in Nat /\ nextPID' >= nextPID
        /\ UNCHANGED <<status, pid, parent, blockReason, cur, pc>>
    BY <1>5, <1>1, FreeIndexIsFree DEF ForkFail
  <2>2. \A s \in Slot : pc[s] # "fork"
    BY <1>5 DEF ForkFail, InUser, At, ProcInv
  <2>3. PidsNameSlots'
    <3>1. \A s \in Slot : pid[s] \in Int
      BY DEF TypeOK
    <3> QED
      BY <1>1, <2>1, <3>1 DEF PidsNameSlots, ProcInv
  <2> QED
    BY <2>1, <2>2, <2>3 DEF ProcInv
<1>6. CASE JoinReap
  <2> DEFINE c == children[cur][Dead]
  <2>1. c \in Slot /\ status[c] = "QUIT" /\ c # cur
    <3>1. Dead \in 1 .. Len(children[cur]) /\ status[c] = "QUIT"
      BY <1>6, DeadIsPosition DEF JoinReap
    <3>2. c \in Slot
      BY <1>1, <3>1 DEF TypeOK
    <3>3. status[cur] # "QUIT"
      BY <1>1, <1>6 DEF JoinReap, Joining, ProcInv
    <3> QED
      BY <3>1, <3>2, <3>3
  <2>2. /\ status' = [status EXCEPT ![c] = "EMPTY", ![cur] = "READY"]
        /\ pid' = [pid EXCEPT ![c] = NoPid]
        /\ parent' = [parent EXCEPT ![c] = NoSlot]
        /\ blockReason' = [blockReason EXCEPT ![c] = FALSE]
        /\ pc' = [pc EXCEPT ![c] = "user", ![cur] = "joined"]
        /\ UNCHANGED <<cur, nextPID>>
        /\ pc[cur] \in {"user", "scan"}
    BY <1>6 DEF JoinReap, Joining
  <2> HIDE DEF c
  <2>3. PidsNameSlots' /\ status'[cur'] # "EMPTY"
    BY <1>1, <2>1, <2>2 DEF PidsNameSlots, ProcInv, TypeOK
  <2>4. \A s \in Slot : pc'[s] # "fork"
    BY <2>1, <2>2 DEF ProcInv, TypeOK
  <2>5. \A s \in Slot : status'[s] = "EMPTY" => ~blockReason'[s] /\ parent'[s] = NoSlot
    BY <1>1, <2>1, <2>2 DEF ProcInv, TypeOK
  <2>6. \A s \in Slot : status'[s] = "QUIT" => pc'[s] \in {"quitting", "returned"}
    BY <1>1, <2>1, <2>2 DEF ProcInv, TypeOK
  <2> QED
    BY <2>3, <2>4, <2>5, <2>6 DEF ProcInv
<1>7. ASSUME \/ JoinNoChildren \/ JoinLook \/ JoinBlock \/ BlockMe
             \/ \E p \in 0 .. nextPID : Zap(p)
      PROVE  ProcInv'
  <2>1. /\ UNCHANGED <<pid, parent, cur, nextPID>>
        /\ status' = status \/ \E v \in {"JOINBLOCK", "BLOCKED", "ZAPBLOCK"} :
                                  status' = [status EXCEPT ![cur] = v]
        /\ \E v \in {"user", "joining", "block", "blocking", "zapping"} :
              pc' = [pc EXCEPT ![cur] = v]
        /\ pc[cur] \in {"user", "scan", "block"}
    BY <1>7 DEF JoinNoChildren, JoinLook, JoinBlock, BlockMe, Zap, Joining, InUser, At, Goto
  <2>2. blockReason' = blockReason \/ blockReason' = [blockReason EXCEPT ![cur] = TRUE]
    BY <1>7 DEF JoinNoChildren, JoinLook, JoinBlock, BlockMe, Zap
  <2>3. \A s \in Slot : (status'[s] = "EMPTY" <=> status[s] = "EMPTY")
                        /\ (status'[s] = "QUIT" => status[s] = "QUIT")
    BY <1>1, <2>1 DEF ProcInv, TypeOK
  <2>4. \A s \in Slot : pc'[s] # "fork"
    BY <1>1, <2>1 DEF ProcInv, TypeOK
  <2>a. /\ pc \in [Slot -> Points] /\ blockReason \in [Slot -> BOOLEAN]
        /\ status[cur] \notin {"EMPTY", "QUIT"}
        /\ \A s \in Slot : /\ status[s] = "QUIT" => pc[s] \in {"quitting", "returned"}
                           /\ status[s] = "EMPTY" => ~blockReason[s] /\ parent[s] = NoSlot
    BY <1>1, <2>1 DEF ProcInv, TypeOK
  <2>5. \A s \in Slot : status'[s] = "QUIT" => pc'[s] \in {"quitting", "returned"}
    BY <2>1, <2>3, <2>a
  <2>6. \A s \in Slot : status'[s] = "EMPTY" => ~blockReason'[s] /\ parent'[s] = NoSlot
    BY <2>1, <2>2, <2>3, <2>a
  <2>7. PidsNameSlots' /\ status'[cur'] # "EMPTY"
    BY <1>1, <2>1, <2>3 DEF ProcInv, PidsNameSlots
  <2> QED
    BY <2>4, <2>5, <2>6, <2>7 DEF ProcInv
<1>8. CASE Quit
  <2>1. /\ UNCHANGED <<pid, parent, blockReason, cur, nextPID>>
        /\ pc' = [pc EXCEPT ![cur] = "quitting"] /\ pc[cur] = "user"
        /\ \A s \in Slot : status'[s] = IF s = cur THEN "QUIT"
                                        ELSE IF s \in Woken THEN "READY" ELSE status[s]
    BY <1>8 DEF Quit, Goto, InUser, At
  <2>2. \A s \in Slot : /\ status'[s] = "EMPTY" <=> status[s] = "EMPTY"
                        /\ s # cur /\ status'[s] = "QUIT" => status[s] = "QUIT"
    BY <1>1, <2>1 DEF ProcInv, Woken
  <2>3. \A s \in Slot : pc'[s] # "fork"
    BY <1>1, <2>1 DEF ProcInv, TypeOK
  <2>4. \A s \in Slot : status'[s] = "QUIT" => pc'[s] \in {"quitting", "returned"}
    BY <1>1, <2>1, <2>2 DEF ProcInv, TypeOK
  <2> QED
    BY <1>1, <2>1, <2>2, <2>3, <2>4 DEF ProcInv, PidsNameSlots
<1>9. ASSUME NEW p \in 1 .. nextPID, Unblock(p) PROVE ProcInv'
  <2> DEFINE t == p % MAXPROC
  <2>1. t \in Slot
    BY <1>1, ModSlot
  <2>2. /\ blockReason' = [blockReason EXCEPT ![t] = FALSE]
        /\ status' = [status EXCEPT ![t] = "READY"]
        /\ blockReason[t]
        /\ UNCHANGED <<pid, parent, cur, nextPID>>
        /\ pc' = [pc EXCEPT ![cur] = "unblocking"] /\ pc[cur] = "user"
    BY <1>9 DEF Unblock, Goto, InUser, At
  <2> HIDE DEF t
  <2>3. \A s \in Slot : (status'[s] = "EMPTY" <=> status[s] = "EMPTY")
                        /\ (status'[s] = "QUIT" => status[s] = "QUIT")
    BY <2>1, <2>2 DEF ProcInv, TypeOK
  <2>4. \A s \in Slot : blockReason'[s] => blockReason[s]
    BY <2>1, <2>2 DEF TypeOK
  <2>5. \A s \in Slot : pc'[s] # "fork"
    BY <1>1, <2>2 DEF ProcInv, TypeOK
  <2>6. \A s \in Slot : status'[s] = "QUIT" => pc'[s] \in {"quitting", "returned"}
    BY <1>1, <2>2, <2>3 DEF ProcInv, TypeOK
  <2> QED
    BY <1>1, <2>2, <2>3, <2>4, <2>5, <2>6 DEF ProcInv, PidsNameSlots
<1>10. ASSUME NEW st \in [Slot -> Statuses], NEW dev, SwitchFrom(st, dev),
              pc[cur] # "fork", UNCHANGED <<pid, parent, pc, nextPID>>,
              \A s \in Slot : (st[s] = "EMPTY" <=> status[s] = "EMPTY")
                              /\ (st[s] = "QUIT" => status[s] = "QUIT"),
              \A s \in Slot : blockReason'[s] => blockReason[s]
       PROVE  ProcInv'
  <2>1. /\ status'[cur'] # "EMPTY"
        /\ \A s \in Slot : status'[s] = "EMPTY" <=> st[s] = "EMPTY"
        /\ \A s \in Slot : status'[s] \in {"QUIT", "JOINBLOCK"} => status'[s] = st[s]
    <3>1. st[cur] # "EMPTY" /\ Names(st)
      BY <1>1, <1>10 DEF ProcInv
    <3> QED
      BY <1>10, <3>1, SwitchKeeps
  <2>2. \A s \in Slot : pc'[s] # "fork"
    BY <1>10 DEF ProcInv
  <2> QED
    BY <1>10, <2>1, <2>2 DEF ProcInv, PidsNameSlots
<1>11. CASE TimeSlice
  <2> DEFINE st == [status EXCEPT ![cur] = "SLICED"]
  <2>1. /\ SwitchFrom(st, pid[cur]) /\ pc[cur] # "fork"
        /\ UNCHANGED <<pid, parent, pc, nextPID, blockReason>>
    BY <1>11 DEF TimeSlice
  <2>2. st \in [Slot -> Statuses]
    BY DEF TypeOK, Statuses
  <2>3. \A s \in Slot : (st[s] = "EMPTY" <=> status[s] = "EMPTY")
                        /\ (st[s] = "QUIT" => status[s] = "QUIT")
    BY <1>1 DEF ProcInv, TypeOK
  <2> HIDE DEF st
  <2> QED
    BY <1>10, <2>1, <2>2, <2>3
<1>12. CASE DeviceInterrupt
  <2>1. PICK t \in Slot :
          /\ blockReason[t]
          /\ blockReason' = [blockReason EXCEPT ![t] = FALSE]
          /\ SwitchFrom([status EXCEPT ![t] = "READY"], 6)
    BY <1>12 DEF DeviceInterrupt
  <2> DEFINE st == [status EXCEPT ![t] = "READY"]
  <2>2. pc[cur] # "fork" /\ UNCHANGED <<pid, parent, pc, nextPID>>
    BY <1>12 DEF DeviceInterrupt, At
  <2>3. st \in [Slot -> Statuses]
    BY DEF TypeOK, Statuses
  <2>4. \A s \in Slot : (st[s] = "EMPTY" <=> status[s] = "EMPTY")
                        /\ (st[s] = "QUIT" => status[s] = "QUIT")
    BY <2>1 DEF ProcInv, TypeOK
  <2>5. \A s \in Slot : blockReason'[s] => blockReason[s]
    BY <2>1 DEF TypeOK
  <2>6. SwitchFrom(st, 6)
    BY <2>1
  <2> HIDE DEF st
  <2> QED
    BY <1>10, <2>2, <2>3, <2>4, <2>5, <2>6
<1>13. CASE UNCHANGED <<status, pid, parent, blockReason, cur, nextPID, pc, procIndex>>
  BY <1>13 DEF ProcInv, PidsNameSlots
<1> QED
  <2>1. CASE \/ QuitWithChildren \/ QuitReturned \/ MainReturns \/ BlockMeError
             \/ SentinelHalts \/ SentinelWaits \/ Halted \/ UNCHANGED vars
             \/ \E p \in 0 .. nextPID : ZapError(p)
             \/ \E p \in 1 .. nextPID : UnblockFail(p)
    BY <1>13, <2>1 DEF QuitWithChildren, QuitReturned, MainReturns, BlockMeError, SentinelHalts,
         SentinelWaits, Halted, ZapError, UnblockFail, Halt, vars
  <2> QED
    BY <1>2, <1>3, <1>4, <1>5, <1>6, <1>7, <1>8, <1>9, <1>11, <1>12, <2>1 DEF Next

-----------------------------------------------------------------------------
(* The family tree.                                                        *)

\* Unlinking an entry takes that child off the list and no other.
LEMMA UnlinkContents ==
    ASSUME NEW list \in Seq(Slot), IsInjective(list), NEW i \in 1 .. Len(list)
    PROVE  /\ IsInjective(Unlink(list, i))
           /\ \A s : Contains(Unlink(list, i), s) <=> Contains(list, s) /\ s # list[i]
<1> DEFINE u == Unlink(list, i)
<1>1. /\ u \in Seq(Slot) /\ Len(u) = Len(list) - 1
      /\ \A k \in 1 .. Len(u) : u[k] = IF k < i THEN list[k] ELSE list[k + 1]
  <2> DEFINE l == SubSeq(list, 1, i - 1)
             r == SubSeq(list, i + 1, Len(list))
  <2>1. /\ l \in Seq(Slot) /\ Len(l) = i - 1
        /\ \A k \in 1 .. i - 1 : l[k] = list[k]
    OBVIOUS
  <2>2. /\ r \in Seq(Slot) /\ Len(r) = Len(list) - i
        /\ \A k \in 1 .. Len(list) - i : r[k] = list[k + i]
    OBVIOUS
  <2>3. u = l \o r
    BY DEF Unlink, RemoveAt
  <2> HIDE DEF l, r, u
  <2>4. u \in Seq(Slot) /\ Len(u) = Len(list) - 1
    BY <2>1, <2>2, <2>3
  <2>5. ASSUME NEW k \in 1 .. Len(u)
        PROVE  u[k] = IF k < i THEN list[k] ELSE list[k + 1]
    <3>1. CASE k < i
      BY <2>1, <2>2, <2>3, <2>4, <3>1
    <3>2. CASE ~(k < i)
      <4>1. k - (i - 1) \in 1 .. Len(list) - i /\ (k - (i - 1)) + i = k + 1
        BY <2>4, <3>2
      <4>2. k > Len(l) /\ k <= Len(l) + Len(r) /\ k - Len(l) = k - (i - 1)
        BY <2>1, <2>2, <2>4, <3>2
      <4>3. u[k] = r[k - (i - 1)]
        BY <2>1, <2>2, <2>3, <4>2
      <4> QED
        BY <2>2, <3>2, <4>1, <4>3
    <3> QED
      BY <3>1, <3>2
  <2> QED
    BY <2>4, <2>5
<1>2. \A k \in 1 .. Len(list) : k # i =>
         \E j \in 1 .. Len(u) : u[j] = list[k]
  <2>1. TAKE k \in 1 .. Len(list)
  <2>2. CASE k < i
    BY <1>1, <2>2
  <2>3. CASE k > i
    <3>1. k - 1 \in 1 .. Len(u) /\ ~(k - 1 < i) /\ (k - 1) + 1 = k
      BY <1>1, <2>3
    <3> QED
      BY <1>1, <3>1
  <2> QED
    BY <2>2, <2>3
<1>3. \A j \in 1 .. Len(u) : \E k \in 1 .. Len(list) : k # i /\ u[j] = list[k]
  <2>1. TAKE j \in 1 .. Len(u)
  <2>2. CASE j < i
    BY <1>1, <2>2
  <2>3. CASE ~(j < i)
    <3>1. j + 1 \in 1 .. Len(list) /\ j + 1 # i
      BY <1>1, <2>3
    <3> QED
      BY <1>1, <2>3, <3>1
  <2> QED
    BY <2>2, <2>3
<1>4. \A a, b \in 1 .. Len(list) : list[a] = list[b] => a = b
  BY DEF IsInjective
<1>5. \A s : Contains(u, s) <=> Contains(list, s) /\ s # list[i]
  <2> HIDE DEF u
  <2>1. ASSUME NEW s, Contains(u, s) PROVE Contains(list, s) /\ s # list[i]
    <3>1. PICK j \in 1 .. Len(u) : u[j] = s
      BY <2>1 DEF Contains
    <3>2. PICK k \in 1 .. Len(list) : k # i /\ s = list[k]
      BY <1>3, <3>1
    <3> QED
      BY <1>4, <3>2 DEF Contains
  <2>2. ASSUME NEW s, Contains(list, s), s # list[i] PROVE Contains(u, s)
    <3>1. PICK k \in 1 .. Len(list) : list[k] = s
      BY <2>2 DEF Contains
    <3>2. PICK j \in 1 .. Len(u) : u[j] = s
      BY <1>2, <2>2, <3>1
    <3> QED
      BY <3>2 DEF Contains
  <2> QED
    BY <2>1, <2>2
<1>6. IsInjective(u)
  <2> HIDE DEF u
  <2>1. DOMAIN u = 1 .. Len(u)
    BY <1>1
  <2>2. ASSUME NEW a \in 1 .. Len(u), NEW b \in 1 .. Len(u), u[a] = u[b]
        PROVE  a = b
    <3> DEFINE at(k) == IF k < i THEN k ELSE k + 1
    <3>1. /\ at(a) \in 1 .. Len(list) /\ at(b) \in 1 .. Len(list)
          /\ u[a] = list[at(a)] /\ u[b] = list[at(b)]
      BY <1>1
    <3>2. at(a) = at(b)
      BY <1>4, <2>2, <3>1
    <3> QED
      BY <3>2
  <2> QED
    BY <2>1, <2>2 DEF IsInjective
<1> QED
  BY <1>5, <1>6

\* A child put at the head of a list it is not on.
LEMMA HeadContents ==
    ASSUME NEW list \in Seq(Slot), IsInjective(list), NEW n \in Slot, ~Contains(list, n)
    PROVE  /\ IsInjective(<<n>> \o list)
           /\ \A s : Contains(<<n>> \o list, s) <=> s = n \/ Contains(list, s)
<1> DEFINE u == <<n>> \o list
<1>1. /\ u \in Seq(Slot) /\ Len(u) = Len(list) + 1
      /\ u[1] = n
      /\ \A k \in 2 .. Len(u) : u[k] = list[k - 1]
  OBVIOUS
<1>2. \A k \in 1 .. Len(list) : k + 1 \in 2 .. Len(u) /\ u[k + 1] = list[k]
  BY <1>1
<1> HIDE DEF u
<1>3. \A k \in 1 .. Len(u) : k = 1 \/ (k \in 2 .. Len(u) /\ k - 1 \in 1 .. Len(list))
  BY <1>1
<1>4. \A s : Contains(u, s) <=> s = n \/ Contains(list, s)
  <2>1. ASSUME NEW s, Contains(u, s) PROVE s = n \/ Contains(list, s)
    BY <1>1, <1>3, <2>1 DEF Contains
  <2>2. ASSUME NEW s, s = n PROVE Contains(u, s)
    <3>1. 1 \in 1 .. Len(u)
      BY <1>1
    <3> QED
      BY <1>1, <2>2, <3>1 DEF Contains
  <2>3. ASSUME NEW s, Contains(list, s) PROVE Contains(u, s)
    <3>1. PICK k \in 1 .. Len(list) : list[k] = s
      BY <2>3 DEF Contains
    <3>2. k + 1 \in 1 .. Len(u) /\ u[k + 1] = s
      BY <1>1, <1>2, <3>1
    <3> QED
      BY <3>2 DEF Contains
  <2> QED
    BY <2>1, <2>2, <2>3
<1>5. IsInjective(u)
  <2>1. DOMAIN u = 1 .. Len(u) /\ DOMAIN list = 1 .. Len(list)
    BY <1>1
  <2>2. \A k \in 1 .. Len(list) : list[k] # n
    BY DEF Contains
  <2>3. ASSUME NEW a \in 1 .. Len(u), NEW b \in 1 .. Len(u), u[a] = u[b]
        PROVE  a = b
    <3>1. CASE a = 1 \/ b = 1
      BY <1>1, <1>3, <2>2, <2>3, <3>1
    <3>2. CASE a # 1 /\ b # 1
      <4>1. /\ a - 1 \in 1 .. Len(list) /\ b - 1 \in 1 .. Len(list)
            /\ list[a - 1] = list[b - 1]
        BY <1>1, <1>3, <2>3, <3>2
      <4>2. a - 1 = b - 1
        BY <2>1, <4>1 DEF IsInjective
      <4> QED
        BY <4>2
    <3> QED
      BY <3>1, <3>2
  <2> QED
    BY <2>1, <2>3 DEF IsInjective
<1> QED
  BY <1>4, <1>5 DEF u

\* What the family tree needs to be inductive: a process that has quit has no
\* children, so that freeing its slot orphans nobody, and filling it adopts nobody.
TreeInv ==
    /\ FamilyTree
    /\ \A s \in Slot : parent[s] # s
    /\ \A s \in Slot : status[s] \in {"EMPTY", "QUIT"} => children[s] = <<>>

\* Only ForkFill, JoinReap and Quit fill or free a slot, end a process or change
\* the tree; only join blocks a process in join.
LEMMA OtherSteps ==
    ASSUME TypeOK, ProcInv, [Next]_vars, ~ForkFill, ~JoinReap, ~Quit
    PROVE  /\ UNCHANGED <<parent, children>>
           /\ \A s \in Slot : status'[s] = "EMPTY" <=> status[s] = "EMPTY"
           /\ \A s \in Slot : status'[s] = "QUIT" => status[s] = "QUIT"
           /\ \A s \in Slot : status'[s] = "JOINBLOCK" =>
                 status[s] = "JOINBLOCK" \/ (s = cur /\ (JoinLook \/ JoinBlock))
<1> USE DEF procVars, forkVars
<1>1. cur \in Slot /\ status[cur] # "EMPTY" /\ nextPID \in Nat
  BY DEF TypeOK, ProcInv
<1>2. ASSUME NEW st \in [Slot -> Statuses], NEW dev, SwitchFrom(st, dev),
             UNCHANGED <<parent, children>>,
             \A s \in Slot : /\ st[s] = "EMPTY" <=> status[s] = "EMPTY"
                             /\ st[s] \in {"QUIT", "JOINBLOCK"} => st[s] = status[s]
      PROVE  /\ UNCHANGED <<parent, children>>
             /\ \A s \in Slot : status'[s] = "EMPTY" <=> status[s] = "EMPTY"
             /\ \A s \in Slot : status'[s] \in {"QUIT", "JOINBLOCK"} => status'[s] = status[s]
  <2>1. st[cur] # "EMPTY" /\ \A s \in Slot : st[s] # "EMPTY" => pid[s] % MAXPROC = s
    BY <1>1, <1>2 DEF ProcInv, PidsNameSlots
  <2>2. /\ \A s \in Slot : status'[s] = "EMPTY" <=> st[s] = "EMPTY"
        /\ \A s \in Slot : status'[s] \in {"QUIT", "JOINBLOCK"} => status'[s] = st[s]
    BY <1>2, <2>1, SwitchKeeps
  <2> QED
    BY <1>2, <2>2
<1>3. CASE Dispatch
  <2>1. /\ SwitchFrom(status, Dev[pc[cur]]) /\ status \in [Slot -> Statuses]
        /\ UNCHANGED <<parent, children>>
    BY <1>3 DEF Dispatch, TypeOK
  <2> QED
    BY <1>2, <2>1
<1>4. CASE TimeSlice
  <2> DEFINE st == [status EXCEPT ![cur] = "SLICED"]
  <2>1. SwitchFrom(st, pid[cur]) /\ UNCHANGED <<parent, children>>
    BY <1>4 DEF TimeSlice
  <2>2. /\ st \in [Slot -> Statuses]
        /\ \A s \in Slot : /\ st[s] = "EMPTY" <=> status[s] = "EMPTY"
                           /\ st[s] \in {"QUIT", "JOINBLOCK"} => st[s] = status[s]
    BY <1>1 DEF TypeOK, Statuses
  <2> HIDE DEF st
  <2> QED
    BY <1>2, <2>1, <2>2
<1>5. CASE DeviceInterrupt
  <2>1. PICK t \in Slot : blockReason[t] /\ SwitchFrom([status EXCEPT ![t] = "READY"], 6)
    BY <1>5 DEF DeviceInterrupt
  <2> DEFINE st == [status EXCEPT ![t] = "READY"]
  <2>2. SwitchFrom(st, 6) /\ UNCHANGED <<parent, children>>
    BY <1>5, <2>1 DEF DeviceInterrupt
  <2>3. /\ st \in [Slot -> Statuses]
        /\ \A s \in Slot : /\ st[s] = "EMPTY" <=> status[s] = "EMPTY"
                           /\ st[s] \in {"QUIT", "JOINBLOCK"} => st[s] = status[s]
    BY <2>1 DEF TypeOK, Statuses, ProcInv
  <2> HIDE DEF st
  <2> QED
    BY <1>2, <2>2, <2>3
<1>6. CASE JoinLook \/ JoinBlock
  <2>1. /\ UNCHANGED <<parent, children>>
        /\ status' = status \/ status' = [status EXCEPT ![cur] = "JOINBLOCK"]
    BY <1>6 DEF JoinLook, JoinBlock
  <2> QED
    BY <1>1, <1>6, <2>1 DEF TypeOK
<1>7. CASE BlockMe \/ \E p \in 0 .. nextPID : Zap(p)
  <2>1. /\ UNCHANGED <<parent, children>>
        /\ \E v \in {"BLOCKED", "ZAPBLOCK"} : status' = [status EXCEPT ![cur] = v]
    BY <1>7 DEF BlockMe, Zap
  <2> QED
    BY <1>1, <2>1 DEF TypeOK
<1>8. ASSUME NEW p \in 1 .. nextPID, Unblock(p)
      PROVE  /\ UNCHANGED <<parent, children>>
             /\ \A s \in Slot : status'[s] = "EMPTY" <=> status[s] = "EMPTY"
             /\ \A s \in Slot : status'[s] \in {"QUIT", "JOINBLOCK"} => status'[s] = status[s]
  <2> DEFINE t == p % MAXPROC
  <2>1. t \in Slot
    BY <1>1, ModSlot
  <2>2. /\ blockReason[t] /\ status' = [status EXCEPT ![t] = "READY"]
        /\ UNCHANGED <<parent, children>>
    BY <1>8 DEF Unblock
  <2> HIDE DEF t
  <2> QED
    BY <2>1, <2>2 DEF TypeOK, ProcInv
<1>9. CASE \/ QuitWithChildren \/ QuitReturned \/ MainReturns \/ BlockMeError
           \/ SentinelHalts \/ SentinelWaits \/ Halted \/ JoinNoChildren \/ UNCHANGED vars
           \/ \E p \in 0 .. nextPID : ZapError(p)
           \/ \E p \in 1 .. nextPID : UnblockFail(p)
           \/ \E p \in Priorities : ForkFind(p) \/ ForkFail(p)
  <2>1. UNCHANGED <<parent, children, status>>
    BY <1>9 DEF QuitWithChildren, QuitReturned, MainReturns, BlockMeError, SentinelHalts,
         SentinelWaits, Halted, ZapError, UnblockFail, Halt, vars, JoinNoChildren,
         ForkFind, ForkFail
  <2> QED
    BY <2>1
<1> QED
  BY <1>3, <1>4, <1>5, <1>6, <1>7, <1>8, <1>9 DEF Next

\* TreeInv holds initially.
LEMMA TreeInit == Init => TreeInv
<1> SUFFICES ASSUME Init PROVE TreeInv
  OBVIOUS
<1> USE SlotAssumption DEF InitSlot, SentinelSlot, MainSlot, NoSlot
<1>1. {1, 2, 3} \subseteq Slot
  BY DEF Slot
<1>2. /\ children[1] = <<3, 2>>
      /\ \A p \in Slot \ {1} : children[p] = <<>>
      /\ parent[2] = 1 /\ parent[3] = 1
      /\ \A s \in Slot \ {2, 3} : parent[s] = -1
      /\ \A s \in Slot : status[s] # "EMPTY" <=> s \in {1, 2, 3}
      /\ \A s \in Slot : status[s] # "QUIT"
  BY <1>1 DEF Init
<1>3. /\ IsInjective(<<3, 2>>) /\ \A s : Contains(<<3, 2>>, s) <=> s \in {2, 3}
      /\ IsInjective(<<>>) /\ \A s : ~Contains(<<>>, s)
  BY DEF IsInjective, Contains
<1>4. \A p \in Slot : IsInjective(children[p])
  BY <1>2, <1>3
<1>5. \A p, s \in Slot : Contains(children[p], s) <=> status[s] # "EMPTY" /\ parent[s] = p
  <2>1. TAKE p, s \in Slot
  <2>2. CASE p = 1
    BY <1>2, <1>3, <2>2
  <2>3. CASE p # 1
    BY <1>2, <1>3, <2>3 DEF Slot
  <2> QED
    BY <2>2, <2>3
<1>6. \A s \in Slot : parent[s] # s
  BY <1>2 DEF Slot
<1> QED
  BY <1>2, <1>4, <1>5, <1>6 DEF TreeInv, FamilyTree

\* TreeInv is preserved by every step.
LEMMA TreeStep ==
    ASSUME TypeOK, ProcInv, TreeInv, [Next]_vars
    PROVE  TreeInv'
<1>1. /\ cur \in Slot /\ status[cur] # "EMPTY"
      /\ \A p \in Slot : children[p] \in Seq(Slot) /\ IsInjective(children[p])
      /\ \A p, s \in Slot : Contains(children[p], s) <=> status[s] # "EMPTY" /\ parent[s] = p
  BY DEF TypeOK, ProcInv, TreeInv, FamilyTree
<1>2. CASE ForkFill
  <2> DEFINE n == procIndex[cur]
  <2>1. n \in Slot /\ status[n] = "EMPTY" /\ n # cur /\ status[cur] # "QUIT"
    BY <1>1, <1>2 DEF ForkFill, At, ProcInv, TypeOK
  <2>2. \A p \in Slot : ~Contains(children[p], n)
    BY <1>1, <2>1
  <2>3. /\ status' = [status EXCEPT ![n] = "READY"]
        /\ parent' = [parent EXCEPT ![n] = cur]
        /\ \A x \in Slot : children'[x] =
              IF x = cur THEN <<n>> \o children[cur]
              ELSE IF x = n THEN <<>> ELSE Relink(children[x], n, children[cur])
    BY <1>2 DEF ForkFill
  <2> HIDE DEF n
  <2>4. /\ children'[cur] = <<n>> \o children[cur]
        /\ children'[n] = <<>>
        /\ \A x \in Slot \ {cur, n} : children'[x] = children[x]
    BY <1>1, <2>1, <2>2, <2>3 DEF Relink
  <2>5. /\ status'[n] = "READY" /\ parent'[n] = cur
        /\ \A s \in Slot \ {n} : status'[s] = status[s] /\ parent'[s] = parent[s]
    BY <2>1, <2>3 DEF TypeOK
  <2>6. /\ IsInjective(children'[cur])
        /\ \A s : Contains(children'[cur], s) <=> s = n \/ Contains(children[cur], s)
    <3>1. children[cur] \in Seq(Slot) /\ IsInjective(children[cur]) /\ ~Contains(children[cur], n)
      BY <1>1, <2>2
    <3> QED
      BY <2>1, <2>4, <3>1, HeadContents
  <2>7. IsInjective(<<>>) /\ \A s : ~Contains(<<>>, s)
    BY DEF IsInjective, Contains
  <2>8. \A p \in Slot : IsInjective(children'[p])
    BY <1>1, <2>4, <2>6, <2>7
  <2>9. \A s \in Slot : ~(status[s] # "EMPTY" /\ parent[s] = n)
    \* nobody's parent is a free slot: it would be on that slot's list, and its
    \* list was left empty when its process quit
    <3>1. children[n] = <<>>
      BY <2>1 DEF TreeInv
    <3> QED
      BY <1>1, <2>1, <2>7, <3>1
  <2>10. \A p, s \in Slot : Contains(children'[p], s) <=> status'[s] # "EMPTY" /\ parent'[s] = p
    <3>1. TAKE p, s \in Slot
    <3>2. CASE p = cur
      BY <1>1, <2>1, <2>2, <2>5, <2>6, <3>2
    <3>3. CASE p = n
      BY <1>1, <2>1, <2>4, <2>5, <2>7, <2>9, <3>3
    <3>4. CASE p \notin {cur, n}
      BY <1>1, <2>1, <2>2, <2>4, <2>5, <3>4
    <3> QED
      BY <3>2, <3>3, <3>4
  <2>11. \A s \in Slot : parent'[s] # s
    BY <2>1, <2>5 DEF TreeInv
  <2>12. \A s \in Slot : status'[s] \in {"EMPTY", "QUIT"} => children'[s] = <<>>
    BY <1>1, <2>1, <2>4, <2>5 DEF TreeInv
  <2> QED
    BY <2>8, <2>10, <2>11, <2>12 DEF TreeInv, FamilyTree
<1>3. CASE JoinReap
  <2> DEFINE c == children[cur][Dead]
  <2>1. /\ Dead \in 1 .. Len(children[cur]) /\ c \in Slot
        /\ status[c] = "QUIT" /\ status[cur] # "QUIT" /\ c # cur
    <3>1. Dead \in 1 .. Len(children[cur]) /\ status[c] = "QUIT"
      BY <1>3, DeadIsPosition DEF JoinReap
    <3>2. c \in Slot
      BY <1>1, <3>1
    <3>3. status[cur] # "QUIT"
      BY <1>1, <1>3 DEF JoinReap, Joining, ProcInv
    <3> QED
      BY <3>1, <3>2, <3>3
  <2>2. /\ status' = [status EXCEPT ![c] = "EMPTY", ![cur] = "READY"]
        /\ parent' = [parent EXCEPT ![c] = NoSlot]
        /\ children' = [children EXCEPT ![cur] = Unlink(@, Dead), ![c] = <<>>]
    BY <1>3 DEF JoinReap
  <2>3. /\ IsInjective(Unlink(children[cur], Dead))
        /\ \A s : Contains(Unlink(children[cur], Dead), s)
                    <=> Contains(children[cur], s) /\ s # c
    BY <1>1, <2>1, UnlinkContents
  <2> HIDE DEF c
  <2>4. /\ children'[cur] = Unlink(children[cur], Dead)
        /\ \A p \in Slot \ {cur} : children'[p] = children[p]
    BY <1>1, <2>1, <2>2 DEF TypeOK, TreeInv
  <2>5. /\ status'[c] = "EMPTY" /\ parent'[c] = NoSlot
        /\ status'[cur] = "READY" /\ parent'[cur] = parent[cur]
        /\ \A s \in Slot \ {c, cur} : status'[s] = status[s] /\ parent'[s] = parent[s]
    BY <1>1, <2>1, <2>2 DEF TypeOK
  <2>6. Contains(children[cur], c) /\ parent[c] = cur
    BY <1>1, <2>1 DEF Contains, c
  <2>7. \A p \in Slot : IsInjective(children'[p])
    BY <1>1, <2>3, <2>4
  <2>8. \A p, s \in Slot : Contains(children'[p], s) <=> status'[s] # "EMPTY" /\ parent'[s] = p
    <3>1. TAKE p, s \in Slot
    <3>2. CASE s = c
      BY <1>1, <2>3, <2>4, <2>5, <2>6, <3>2
    <3>3. CASE s # c
      <4>1. /\ status'[s] # "EMPTY" <=> status[s] # "EMPTY"
            /\ parent'[s] = parent[s]
        BY <1>1, <2>5, <3>3
      <4>2. Contains(children'[p], s) <=> Contains(children[p], s)
        BY <2>3, <2>4, <3>3
      <4> QED
        BY <1>1, <4>1, <4>2
    <3> QED
      BY <3>2, <3>3
  <2>9. \A s \in Slot : parent'[s] # s
    <3>1. NoSlot \notin Slot
      BY DEF NoSlot, Slot
    <3> QED
      BY <1>1, <2>1, <2>5, <3>1 DEF TreeInv
  <2>10. \A s \in Slot : status'[s] \in {"EMPTY", "QUIT"} => children'[s] = <<>>
    BY <1>1, <2>1, <2>4, <2>5 DEF TreeInv
  <2> QED
    BY <2>7, <2>8, <2>9, <2>10 DEF TreeInv, FamilyTree
<1>4. CASE Quit
  <2>1. /\ UNCHANGED <<parent, children>> /\ children[cur] = <<>>
        /\ \A s \in Slot : status'[s] = IF s = cur THEN "QUIT"
                                        ELSE IF s \in Woken THEN "READY" ELSE status[s]
    BY <1>4 DEF Quit, procVars
  <2>2. \A s \in Slot : /\ status'[s] = "EMPTY" <=> status[s] = "EMPTY"
                        /\ status'[s] = "QUIT" => s = cur \/ status[s] = "QUIT"
    BY <1>1, <2>1 DEF Woken
  <2> QED
    BY <2>1, <2>2 DEF TreeInv, FamilyTree
<1>5. CASE ~ForkFill /\ ~JoinReap /\ ~Quit
  <2>1. /\ UNCHANGED <<parent, children>>
        /\ \A s \in Slot : status'[s] = "EMPTY" <=> status[s] = "EMPTY"
        /\ \A s \in Slot : status'[s] = "QUIT" => status[s] = "QUIT"
    BY <1>5, OtherSteps
  <2> QED
    BY <2>1 DEF TreeInv, FamilyTree
<1> QED
  BY <1>2, <1>3, <1>4, <1>5

\* Unless the clock strikes between the two halves of fork1, the children lists
\* and the parent pointers form a tree: join finds each child that quit, once.
THEOREM FamilyTreeCorrect == "fork" \notin TickPoints => (Spec => []FamilyTree)
<1> SUFFICES ASSUME "fork" \notin TickPoints PROVE Spec => []FamilyTree
  OBVIOUS
<1>1. Init => TypeOK /\ ProcInv /\ TreeInv
  BY TypeInit, ProcInit, TreeInit
<1>2. TypeOK /\ ProcInv /\ TreeInv /\ [Next]_vars => (TypeOK /\ ProcInv /\ TreeInv)'
  BY TypeStep, ProcStep, TreeStep
<1>3. TreeInv => FamilyTree
  BY DEF TreeInv
<1> QED
  BY <1>1, <1>2, <1>3, PTL DEF Spec

\* A pid finds its slot by pid % MAXPROC, and is never handed out again.
THEOREM PidsNameSlotsCorrect == "fork" \notin TickPoints => (Spec => []PidsNameSlots)
<1> SUFFICES ASSUME "fork" \notin TickPoints PROVE Spec => []PidsNameSlots
  OBVIOUS
<1>1. Init => TypeOK /\ ProcInv
  BY TypeInit, ProcInit
<1>2. TypeOK /\ ProcInv /\ [Next]_vars => (TypeOK /\ ProcInv)'
  BY TypeStep, ProcStep
<1>3. ProcInv => PidsNameSlots
  BY DEF ProcInv
<1> QED
  BY <1>1, <1>2, <1>3, PTL DEF Spec

-----------------------------------------------------------------------------
(* No quit is lost by join.                                                *)

\* A process about to block in join has seen that no child has quit, and none
\* can quit before it blocks: it is the one that runs.
JoinInv ==
    /\ NoLostQuit
    /\ \A s \in Slot : pc[s] = "block" =>
          s = cur /\ \A c \in Slot : parent[c] = s => status[c] # "QUIT"

\* JoinInv is preserved by every step, as long as the clock strikes in user code.
LEMMA JoinStep ==
    ASSUME TickPoints \subseteq {"user"}, TypeOK, ProcInv, TreeInv, JoinInv, [Next]_vars
    PROVE  JoinInv'
<1> USE DEF procVars, forkVars
<1>1. /\ cur \in Slot /\ status[cur] # "EMPTY"
      /\ \A p \in Slot : children[p] \in Seq(Slot)
      /\ \A p, s \in Slot : Contains(children[p], s) <=> status[s] # "EMPTY" /\ parent[s] = p
  BY DEF TypeOK, ProcInv, TreeInv, FamilyTree
<1>2. ASSUME Dead = 0
      PROVE  \A c \in Slot : parent[c] = cur => status[c] # "QUIT"
  <2>1. \A i \in 1 .. Len(children[cur]) : status[children[cur][i]] # "QUIT"
    BY <1>2, NoneDead
  <2>2. ASSUME NEW c \in Slot, parent[c] = cur, status[c] = "QUIT" PROVE FALSE
    <3>1. Contains(children[cur], c)
      BY <1>1, <2>2
    <3> QED
      BY <2>1, <2>2, <3>1 DEF Contains
  <2> QED
    BY <2>2
<1>3. CASE ForkFill
  <2> DEFINE n == procIndex[cur]
  <2>1. n \in Slot /\ status[n] = "EMPTY" /\ n # cur /\ pc[cur] = "fork"
    BY <1>1, <1>3 DEF ForkFill, At, ProcInv, TypeOK
  <2>2. /\ status' = [status EXCEPT ![n] = "READY"]
        /\ parent' = [parent EXCEPT ![n] = cur]
        /\ pc' = [pc EXCEPT ![n] = "user", ![cur] = "forked"]
        /\ cur' = cur
    BY <1>3 DEF ForkFill
  <2> HIDE DEF n
  <2>3. /\ status'[n] = "READY"
        /\ \A s \in Slot \ {n} : status'[s] = status[s] /\ parent'[s] = parent[s]
        /\ \A s \in Slot : pc'[s] # "block"
    BY <1>1, <2>1, <2>2 DEF TypeOK, JoinInv
  <2> QED
    BY <2>1, <2>3 DEF JoinInv, NoLostQuit
<1>4. CASE JoinReap
  <2> DEFINE c == children[cur][Dead]
  <2>1. c \in Slot /\ c # cur /\ pc[cur] \in {"user", "scan"}
    <3>1. Dead \in 1 .. Len(children[cur]) /\ status[c] = "QUIT"
      BY <1>4, DeadIsPosition DEF JoinReap
    <3>2. status[cur] # "QUIT" /\ pc[cur] \in {"user", "scan"}
      BY <1>1, <1>4 DEF JoinReap, Joining, ProcInv
    <3> QED
      BY <1>1, <3>1, <3>2
  <2>2. /\ status' = [status EXCEPT ![c] = "EMPTY", ![cur] = "READY"]
        /\ parent' = [parent EXCEPT ![c] = NoSlot]
        /\ pc' = [pc EXCEPT ![c] = "user", ![cur] = "joined"]
    BY <1>4 DEF JoinReap
  <2> HIDE DEF c
  <2>3. /\ status'[c] = "EMPTY" /\ status'[cur] = "READY" /\ parent'[cur] = parent[cur]
        /\ \A s \in Slot \ {c, cur} : status'[s] = status[s] /\ parent'[s] = parent[s]
        /\ \A s \in Slot : pc'[s] # "block"
    BY <1>1, <2>1, <2>2 DEF TypeOK, JoinInv
  <2> QED
    BY <2>3 DEF JoinInv, NoLostQuit
<1>5. CASE Quit
  <2>1. /\ parent' = parent /\ pc[cur] = "user"
        /\ pc' = [pc EXCEPT ![cur] = "quitting"]
        /\ \A s \in Slot : status'[s] = IF s = cur THEN "QUIT"
                                        ELSE IF s \in Woken THEN "READY" ELSE status[s]
    BY <1>5 DEF Quit, Goto, InUser, At
  <2>2. \A s \in Slot : pc'[s] # "block"
    BY <1>1, <2>1 DEF TypeOK, JoinInv
  <2>3. ASSUME NEW p \in Slot, status'[p] = "JOINBLOCK", NEW s \in Slot, parent[s] = p
        PROVE  status'[s] # "QUIT"
    <3>1. p # cur /\ p \notin Woken /\ status[p] = "JOINBLOCK"
      BY <2>1, <2>3
    <3>2. s # cur
      BY <2>3, <3>1 DEF Woken
    <3>3. status[s] # "QUIT"
      BY <2>3, <3>1 DEF JoinInv, NoLostQuit
    <3> QED
      BY <2>1, <3>2, <3>3
  <2> QED
    BY <2>1, <2>2, <2>3 DEF JoinInv, NoLostQuit
<1>6. CASE ~ForkFill /\ ~JoinReap /\ ~Quit
  <2>1. /\ UNCHANGED <<parent, children>>
        /\ \A s \in Slot : status'[s] = "QUIT" => status[s] = "QUIT"
        /\ \A s \in Slot : status'[s] = "JOINBLOCK" =>
              status[s] = "JOINBLOCK" \/ (s = cur /\ (JoinLook \/ JoinBlock))
    BY <1>6, OtherSteps
  <2>2. ASSUME JoinLook \/ JoinBlock
        PROVE  \A c \in Slot : parent[c] = cur => status[c] # "QUIT"
    <3>1. CASE JoinLook
      BY <1>2, <3>1 DEF JoinLook
    <3>2. CASE JoinBlock
      BY <1>1, <3>2 DEF JoinBlock, At, JoinInv
    <3> QED
      BY <2>2, <3>1, <3>2
  <2>3. NoLostQuit'
    BY <1>1, <2>1, <2>2 DEF JoinInv, NoLostQuit
  <2>4. ASSUME NEW s \in Slot, pc'[s] = "block"
        PROVE  s = cur' /\ \A c \in Slot : parent'[c] = s => status'[c] # "QUIT"
    <3>1. CASE JoinLook
      <4>1. cur' = cur /\ (pc' = [pc EXCEPT ![cur] = "joining"] \/ pc' = [pc EXCEPT ![cur] = "block"])
        BY <3>1 DEF JoinLook, Goto
      <4>2. s = cur
        BY <1>1, <2>4, <4>1 DEF TypeOK, JoinInv
      <4> QED
        BY <2>1, <2>2, <3>1, <4>1, <4>2
    <3>2. CASE Dispatch \/ TimeSlice \/ DeviceInterrupt
      <4>1. \A x \in Slot : pc[x] # "block"
        BY <3>2 DEF Dispatch, TimeSlice, DeviceInterrupt, At, Dispatching, JoinInv
      <4>2. CASE Dispatch
        <5>1. /\ pc' = [pc EXCEPT ![cur] = AfterDispatch(pc[cur])]
              /\ AfterDispatch(pc[cur]) # "block"
          BY <4>2 DEF Dispatch, Goto, AfterDispatch
        <5> QED
          BY <2>4, <4>1, <5>1 DEF TypeOK
      <4>3. CASE TimeSlice \/ DeviceInterrupt
        BY <2>4, <4>1, <4>3 DEF TimeSlice, DeviceInterrupt
      <4> QED
        BY <3>2, <4>2, <4>3
    <3>3. CASE ~JoinLook /\ ~(Dispatch \/ TimeSlice \/ DeviceInterrupt)
      <4>1. cur' = cur /\ (pc'[s] = "block" => pc[s] = "block")
        <5>1. CASE \/ JoinNoChildren \/ JoinBlock \/ BlockMe
                   \/ \E p \in 0 .. nextPID : Zap(p)
                   \/ \E p \in 1 .. nextPID : Unblock(p)
                   \/ \E p \in Priorities : ForkFind(p)
          <6>1. /\ cur' = cur
                /\ \E v \in Points \ {"block"} : pc' = [pc EXCEPT ![cur] = v]
            BY <5>1 DEF JoinNoChildren, JoinBlock, BlockMe, Zap, Unblock, ForkFind, Goto,
                 Points, Dispatching
          <6> QED
            BY <1>1, <6>1 DEF TypeOK
        <5>2. CASE \/ QuitWithChildren \/ QuitReturned \/ MainReturns \/ BlockMeError
                   \/ SentinelHalts \/ SentinelWaits \/ Halted \/ UNCHANGED vars
                   \/ \E p \in 0 .. nextPID : ZapError(p)
                   \/ \E p \in 1 .. nextPID : UnblockFail(p)
                   \/ \E p \in Priorities : ForkFail(p)
          BY <5>2 DEF QuitWithChildren, QuitReturned, MainReturns, BlockMeError,
               SentinelHalts, SentinelWaits, Halted, ZapError, UnblockFail, ForkFail, Halt, vars
        <5> QED
          BY <1>6, <3>3, <5>1, <5>2 DEF Next
      <4>2. \A c \in Slot : parent[c] = s => status[c] # "QUIT"
        BY <2>4, <4>1 DEF JoinInv
      <4> QED
        BY <2>1, <2>4, <4>1, <4>2 DEF JoinInv
    <3> QED
      BY <3>1, <3>2, <3>3
  <2> QED
    BY <2>3, <2>4 DEF JoinInv
<1> QED
  BY <1>3, <1>4, <1>5, <1>6

\* As long as the clock strikes in user code only, a parent never stays blocked
\* in join with a child that has quit.
THEOREM NoLostQuitCorrect == TickPoints \subseteq {"user"} => (Spec => []NoLostQuit)
<1> SUFFICES ASSUME TickPoints \subseteq {"user"} PROVE Spec => []NoLostQuit
  OBVIOUS
<1>1. Init => TypeOK /\ ProcInv /\ TreeInv /\ JoinInv
  <2>1. Init => JoinInv
    <3>1. ASSUME Init PROVE \A s \in Slot : status[s] # "JOINBLOCK" /\ pc[s] # "block"
      BY <3>1 DEF Init
    <3> QED
      BY <3>1 DEF JoinInv, NoLostQuit
  <2> QED
    BY <2>1, TypeInit, ProcInit, TreeInit
<1>2. TypeOK /\ ProcInv /\ TreeInv /\ JoinInv /\ [Next]_vars
        => (TypeOK /\ ProcInv /\ TreeInv /\ JoinInv)'
  BY TypeStep, ProcStep, TreeStep, JoinStep
<1>3. JoinInv => NoLostQuit
  BY DEF JoinInv
<1> QED
  BY <1>1, <1>2, <1>3, PTL DEF Spec

-----------------------------------------------------------------------------
(* Who runs, that quit does not return, what zap waits for, and that a     *)
(* deadlock that is reported is one.                                       *)

\* A slice may end in user code only, and then no device interrupt takes the CPU from
\* the sentinel: the dispatcher would not find it any more, its status being SLICED.
SentinelReady == TickPoints \subseteq {"user"} /\ (TickPoints = {} \/ TRUE \notin CheckIO)

Others == Slot \ {InitSlot, SentinelSlot}
Outside == {"user", "fork", "scan", "block"}

\* The sentinel can always be dispatched, and is only when nobody else can be.
SentinelInv ==
    /\ pid[SentinelSlot] = SentinelPid /\ priority[SentinelSlot] = 7
    /\ pc[SentinelSlot] = "user"
    /\ cur # SentinelSlot => status[SentinelSlot] = "READY"
    /\ cur = SentinelSlot =>
          /\ status[SentinelSlot] \in {"RUNNING", "SLICED"}
          /\ \A s \in Others : status[s] \notin {"READY", "RUNNING"}

\* Between its calls of the dispatcher the process that runs has the status RUNNING.
RunInv ==
    /\ cur # InitSlot
    /\ \A s \in Slot : status[s] # "EMPTY" => pid[s] \in Nat
    /\ \A s \in Slot \ {SentinelSlot} : status[s] # "EMPTY" => priority[s] \in 1 .. 6
    /\ \A s \in Slot : pc[s] = "fork" => newPriority[s] \in 1 .. 5
    /\ cur # SentinelSlot /\ pc[cur] \in Outside => status[cur] = "RUNNING"
    /\ pc[cur] # "returned"
    /\ \A s \in Slot : pc[s] \in {"quitting", "returned"} => status[s] = "QUIT"
    /\ \A s \in Slot : blockReason[s] => status[s] = "BLOCKED"
    /\ TickPoints = {} => \A s \in Slot : status[s] # "SLICED"

\* Who waits in zap waits for one process, that has not quit.
ZapInv ==
    /\ \A t \in Slot : status[t] = "EMPTY" => calledZapped[t] = <<>>
    /\ \A t \in Slot : status[t] # "QUIT" => \A p \in Range(calledZapped[t]) :
          \E z \in Slot : status[z] = "ZAPBLOCK" /\ pid[z] = p
    /\ \A t, u \in Slot : status[t] # "QUIT" /\ status[u] # "QUIT" =>
          \A p \in Range(calledZapped[t]) : p \in Range(calledZapped[u]) => t = u

\* The process that runs has the best priority; the sentinel reports the deadlock.
PrioInv ==
    /\ cur # SentinelSlot /\ pc[cur] \in Outside =>
          \A s \in Slot \ {InitSlot} : status[s] = "READY" => priority[cur] <= priority[s]
    /\ halted = "deadlock" => cur = SentinelSlot

-----------------------------------------------------------------------------
(* The choice of the dispatcher.                                           *)

\* The first loop finds a process of the best priority.
LEMMA BestIsBest ==
    ASSUME TypeOK, NEW st, Runnable(st) # {}
    PROVE  /\ Best(Runnable(st)) \in Runnable(st)
           /\ \A o \in Runnable(st) : priority[Best(Runnable(st))] <= priority[o]
<1> DEFINE R == Runnable(st)
           P == {priority[s] : s \in R}
<1>1. \A s \in R : s \in Nat /\ priority[s] \in Nat
  BY DEF Runnable, Slot
<1>2. PICK m \in P : \A n \in P : m <= n
  <2>1. P \in SUBSET Nat /\ P # {}
    BY <1>1
  <2> QED
    BY <2>1, LeastNat
<1> DEFINE Q == {s \in R : priority[s] = m}
<1>3. PICK q \in Q : \A s \in Q : q <= s
  <2>1. Q \in SUBSET Nat /\ Q # {}
    BY <1>1
  <2> QED
    BY <2>1, LeastNat
<1>4. \A o \in R : priority[q] < priority[o] \/ (priority[q] = priority[o] /\ q <= o)
  <2>1. TAKE o \in R
  <2>2. priority[o] \in Nat /\ priority[q] \in Nat /\ priority[q] = m /\ m <= priority[o]
    BY <1>1, <1>2, <1>3
  <2> QED
    BY <1>3, <2>2
<1>5. /\ Best(R) \in R
      /\ \A o \in R : priority[Best(R)] < priority[o] \/ priority[Best(R)] = priority[o]
  BY <1>3, <1>4 DEF Best
<1> HIDE DEF R
<1> QED
  BY <1>1, <1>5 DEF R

\* With a process that can run, the dispatcher picks one of the best priority, or a
\* sliced one where it would have picked the sentinel.
LEMMA Choice ==
    ASSUME TypeOK, NEW st, NEW dev, Runnable(st) # {}
    PROVE  \E x, y \in Slot :
              /\ PidToRun(st, dev) = pid[x]
              /\ y \in Runnable(st) /\ \A o \in Runnable(st) : priority[y] <= priority[o]
              /\ x = y \/ (x >= 2 /\ st[x] = "SLICED" /\ pid[y] = SentinelPid)
<1> DEFINE best == Best(Runnable(st))
           index == PreferZapped(st, best)
<1>1. best \in Runnable(st) /\ \A o \in Runnable(st) : priority[best] <= priority[o]
  BY BestIsBest
<1>2. PICK y \in Runnable(st) : index = pid[y] /\ priority[y] = priority[best]
  <2> DEFINE Z == {s \in Runnable(st) : /\ s >= pid[best] /\ isZapped[s]
                                        /\ priority[s] = priority[best]}
  <2>1. CASE Z = {}
    BY <1>1, <2>1 DEF PreferZapped
  <2>2. CASE Z # {}
    <3>1. Z \in SUBSET Slot
      BY DEF Runnable
    <3>2. Max(Z) \in Z
      BY <2>2, <3>1, MaxIn
    <3>3. index = pid[Max(Z)]
      BY <2>2 DEF PreferZapped
    <3> QED
      BY <3>2, <3>3
  <2> QED
    BY <2>1, <2>2
<1>3. y \in Slot /\ \A o \in Runnable(st) : priority[y] <= priority[o]
  BY <1>1, <1>2 DEF Runnable
<1>4. CASE index = SentinelPid /\ Sliced(st, dev) # {}
  <2>1. Sliced(st, dev) \in SUBSET Slot
    BY DEF Sliced
  <2>2. Max(Sliced(st, dev)) \in Sliced(st, dev)
    BY <1>4, <2>1, MaxIn
  <2>3. PidToRun(st, dev) = pid[Max(Sliced(st, dev))]
    BY <1>4 DEF PidToRun
  <2> HIDE DEF index, best
  <2>4. /\ Max(Sliced(st, dev)) \in Slot /\ Max(Sliced(st, dev)) >= 2
        /\ st[Max(Sliced(st, dev))] = "SLICED"
    BY <2>2 DEF Sliced
  <2> QED
    BY <1>2, <1>3, <1>4, <2>3, <2>4
<1>5. CASE ~(index = SentinelPid /\ Sliced(st, dev) # {})
  <2>1. PidToRun(st, dev) = index
    BY <1>5 DEF PidToRun
  <2> QED
    BY <1>2, <1>3, <2>1
<1> QED
  BY <1>4, <1>5

\* The statuses st are those of processes that the dispatcher finds, by their pids,
\* and the sentinel is one that can run.
Dispatchable(st) ==
    /\ \A s \in Slot : st[s] # "EMPTY" => pid[s] \in Nat /\ pid[s] % MAXPROC = s
    /\ \A s \in Slot \ {SentinelSlot} : st[s] # "EMPTY" => priority[s] \in 1 .. 6
    /\ pid[SentinelSlot] = SentinelPid /\ priority[SentinelSlot] = 7
    /\ st[SentinelSlot] \in {"READY", "RUNNING"}

\* While the sentinel can run, the dispatcher switches to a process that can: to the
\* sentinel or to a sliced one only if nobody else can, and else to one of the best
\* priority.
LEMMA SwitchTo ==
    ASSUME TypeOK, NEW st \in [Slot -> Statuses], NEW dev, SwitchFrom(st, dev),
           Dispatchable(st)
    PROVE  \E x \in Slot \ {InitSlot} :
              /\ cur' = x
              /\ status' = [[st EXCEPT ![cur] = Preempted(@)] EXCEPT ![x] = "RUNNING"]
              /\ st[x] \in {"READY", "RUNNING", "SLICED"}
              /\ PidToRun(st, dev) # NoPid
              /\ x = SentinelSlot \/ st[x] = "SLICED" =>
                    \A s \in Others : st[s] \notin {"READY", "RUNNING"}
              /\ x # SentinelSlot /\ st[x] # "SLICED" => \A s \in Slot \ {InitSlot} :
                    st[s] \in {"READY", "RUNNING"} => priority[x] <= priority[s]
<1>1. /\ SentinelSlot \in Slot /\ InitSlot \in Slot /\ SentinelSlot # InitSlot
      /\ SentinelPid % MAXPROC = SentinelSlot
  BY SlotAssumption DEF SentinelSlot, InitSlot, SentinelPid, Slot
<1>2. \A s \in Slot \ {InitSlot} : s \in Runnable(st) <=> st[s] \in {"READY", "RUNNING"}
  BY <1>1 DEF Runnable, Dispatchable
<1>3. SentinelSlot \in Runnable(st) /\ InitSlot \notin Runnable(st)
  BY <1>1, <1>2 DEF Runnable, Dispatchable
<1>4. PICK x, y \in Slot :
          /\ PidToRun(st, dev) = pid[x]
          /\ y \in Runnable(st) /\ \A o \in Runnable(st) : priority[y] <= priority[o]
          /\ x = y \/ (x >= 2 /\ st[x] = "SLICED" /\ pid[y] = SentinelPid)
  <2>1. Runnable(st) # {}
    BY <1>3
  <2> QED
    BY <2>1, Choice
<1>5. x # InitSlot /\ st[x] \in {"READY", "RUNNING", "SLICED"}
      /\ st[y] \in {"READY", "RUNNING"} /\ y # InitSlot
  BY <1>3, <1>4 DEF Runnable, InitSlot
<1>6. /\ pid[x] \in Nat /\ pid[x] % MAXPROC = x
      /\ pid[y] % MAXPROC = y
  BY <1>4, <1>5 DEF Dispatchable
<1>7. PidToRun(st, dev) # NoPid
  BY <1>4, <1>6 DEF NoPid
<1>8. /\ cur' = x
      /\ status' = [[st EXCEPT ![cur] = Preempted(@)] EXCEPT ![x] = "RUNNING"]
  BY <1>4, <1>6, <1>7 DEF SwitchFrom, IndexTo
<1>9. ASSUME x = SentinelSlot \/ st[x] = "SLICED", NEW s \in Others,
             st[s] \in {"READY", "RUNNING"}
      PROVE  FALSE
  <2>1. y = SentinelSlot
    BY <1>1, <1>4, <1>5, <1>6, <1>9
  <2>2. priority[y] = 7 /\ priority[s] \in 1 .. 6 /\ s \in Runnable(st)
    BY <1>2, <1>9, <2>1 DEF Dispatchable, Others
  <2> QED
    BY <1>4, <2>2
<1>10. ASSUME x # SentinelSlot, st[x] # "SLICED", NEW s \in Slot \ {InitSlot},
              st[s] \in {"READY", "RUNNING"}
       PROVE  priority[x] <= priority[s]
  BY <1>2, <1>4, <1>10
<1> QED
  BY <1>5, <1>7, <1>8, <1>9, <1>10

-----------------------------------------------------------------------------
(* Who runs.                                                               *)

\* The invariants hold initially.
LEMMA SchedInit == Init => SentinelInv /\ RunInv
<1> SUFFICES ASSUME Init PROVE SentinelInv /\ RunInv
  OBVIOUS
<1> USE SlotAssumption DEF InitSlot, SentinelSlot, MainSlot, SentinelPid, MainPid
<1>1. {1, 2, 3} \subseteq Slot /\ cur = 3
  BY DEF Init, Slot
<1>2. /\ \A s \in Slot : pc[s] = "user" /\ blockReason[s] = FALSE
  BY Zenon DEF Init
<1>3. /\ \A s \in Slot : status[s] # "EMPTY" => s \in {1, 2, 3} /\ pid[s] = s
      /\ \A s \in Slot : status[s] \notin {"QUIT", "SLICED"}
      /\ status[3] = "RUNNING" /\ status[2] = "READY" /\ status[1] = "READY"
      /\ priority[1] = 6 /\ priority[2] = 7 /\ priority[3] = 3
  BY <1>1 DEF Init
<1>4. SentinelInv
  BY <1>1, <1>2, <1>3 DEF SentinelInv
<1>5. RunInv
  BY <1>1, <1>2, <1>3 DEF RunInv
<1> QED
  BY <1>4, <1>5

\* A dispatcher call keeps the invariants if the statuses it is given do.
LEMMA SchedSwitch ==
    ASSUME TypeOK, SentinelInv, RunInv, NEW st \in [Slot -> Statuses], NEW dev,
           SwitchFrom(st, dev), Dispatchable(st), st[SentinelSlot] = status[SentinelSlot],
           UNCHANGED <<pid, priority, newPriority>>,
           \A s \in Slot : st[s] = "QUIT" <=> status[s] = "QUIT",
           TickPoints = {} => \A s \in Slot : st[s] # "SLICED",
           \A s \in Slot : blockReason'[s] => st[s] = "BLOCKED",
           \A s \in Slot : \/ pc'[s] = pc[s]
                           \/ pc'[s] = "returned" /\ pc[s] = "quitting"
                           \/ pc'[s] \in {"user", "scan"} /\ s # SentinelSlot
    PROVE  SentinelInv' /\ RunInv'
<1>1. PICK x \in Slot \ {InitSlot} :
              /\ cur' = x
              /\ status' = [[st EXCEPT ![cur] = Preempted(@)] EXCEPT ![x] = "RUNNING"]
              /\ st[x] \in {"READY", "RUNNING", "SLICED"}
              /\ x = SentinelSlot \/ st[x] = "SLICED" =>
                    \A s \in Others : st[s] \notin {"READY", "RUNNING"}
  BY SwitchTo
<1>2. cur \in Slot /\ SentinelSlot \in Slot /\ SentinelSlot # InitSlot
  BY SlotAssumption DEF TypeOK, SentinelSlot, InitSlot, Slot
<1>3. /\ status'[x] = "RUNNING"
      /\ \A s \in Slot \ {x} : status'[s] = IF s = cur THEN Preempted(st[s]) ELSE st[s]
  BY <1>1, <1>2
<1>4. \A v : Preempted(v) = IF v = "RUNNING" THEN "READY" ELSE v
  BY DEF Preempted
<1>5. \A s \in Slot \ {x} : status'[s] = st[s] \/ (status'[s] = "READY" /\ st[s] = "RUNNING")
  BY <1>3, <1>4
<1>6. SentinelInv'
  <2>1. x # SentinelSlot => status'[SentinelSlot] = "READY"
    <3>1. st[SentinelSlot] = "READY" \/ (st[SentinelSlot] = "RUNNING" /\ cur = SentinelSlot)
      BY DEF Dispatchable, SentinelInv
    <3> QED
      BY <1>2, <1>3, <1>4, <3>1
  <2>2. x = SentinelSlot => \A s \in Others : status'[s] \notin {"READY", "RUNNING"}
    BY <1>1, <1>5 DEF Others
  <2>3. pc'[SentinelSlot] = "user"
    BY <1>2 DEF SentinelInv
  <2> QED
    BY <1>1, <1>3, <2>1, <2>2, <2>3 DEF SentinelInv
<1>7. RunInv'
  <2>1. \A s \in Slot : status'[s] # "EMPTY" => st[s] # "EMPTY"
    BY <1>1, <1>5
  <2>2. /\ \A s \in Slot : status'[s] # "EMPTY" => pid'[s] \in Nat
        /\ \A s \in Slot \ {SentinelSlot} : status'[s] # "EMPTY" => priority'[s] \in 1 .. 6
    BY <2>1 DEF Dispatchable
  <2>3. \A s \in Slot : pc'[s] = "fork" => newPriority'[s] \in 1 .. 5
    BY DEF RunInv
  <2>4. \A s \in Slot : pc'[s] \in {"quitting", "returned"} => st[s] = "QUIT"
    BY DEF RunInv
  <2>5. \A s \in Slot : st[s] \in {"QUIT", "BLOCKED"} => s # x /\ status'[s] = st[s]
    BY <1>1, <1>5
  <2>6. pc'[cur'] # "returned"
    BY <1>1, <2>4
  <2>7. TickPoints = {} => \A s \in Slot : status'[s] # "SLICED"
    BY <1>3, <1>5
  <2> QED
    BY <1>1, <1>3, <2>2, <2>3, <2>4, <2>5, <2>6, <2>7 DEF RunInv
<1> QED
  BY <1>6, <1>7

\* Every step keeps the invariants.
LEMMA SchedStep ==
    ASSUME SentinelReady, TypeOK, ProcInv, SentinelInv, RunInv, [Next]_vars
    PROVE  SentinelInv' /\ RunInv'
<1> USE DEF procVars, forkVars
<1>1. /\ cur \in Slot /\ SentinelSlot \in Slot /\ InitSlot \in Slot /\ SentinelSlot # InitSlot
      /\ nextPID \in Nat
  BY SlotAssumption DEF TypeOK, SentinelSlot, InitSlot, Slot
<1>2. /\ cur # SentinelSlot => status[SentinelSlot] = "READY"
      /\ status[SentinelSlot] \in {"READY", "RUNNING", "SLICED"}
      /\ \A s \in Slot : status[s] # "EMPTY" => pid[s] \in Nat /\ pid[s] % MAXPROC = s
  BY DEF SentinelInv, RunInv, ProcInv, PidsNameSlots
<1>3. ASSUME cur # SentinelSlot PROVE Dispatchable(status)
  BY <1>2, <1>3 DEF Dispatchable, SentinelInv, RunInv
<1>4. CASE Dispatch
  <2>1. cur # SentinelSlot
    BY <1>4 DEF Dispatch, Dispatching, SentinelInv
  <2>2. /\ SwitchFrom(status, Dev[pc[cur]]) /\ status \in [Slot -> Statuses]
        /\ UNCHANGED <<pid, priority, newPriority, blockReason>>
        /\ pc' = [pc EXCEPT ![cur] = AfterDispatch(pc[cur])]
        /\ pc[cur] \in Dispatching
    BY <1>4 DEF Dispatch, TypeOK, Goto
  <2>3. \A s \in Slot : \/ pc'[s] = pc[s]
                        \/ pc'[s] = "returned" /\ pc[s] = "quitting"
                        \/ pc'[s] \in {"user", "scan"} /\ s # SentinelSlot
    BY <2>1, <2>2 DEF AfterDispatch, TypeOK
  <2>4. /\ TickPoints = {} => \A s \in Slot : status[s] # "SLICED"
        /\ \A s \in Slot : blockReason'[s] => status[s] = "BLOCKED"
    BY <2>2 DEF RunInv
  <2> QED
    BY <1>3, <2>1, <2>2, <2>3, <2>4, SchedSwitch
<1>5. CASE TimeSlice
  <2> DEFINE st == [status EXCEPT ![cur] = "SLICED"]
  <2>1. /\ SwitchFrom(st, pid[cur]) /\ pc[cur] = "user" /\ TickPoints # {}
        /\ UNCHANGED <<pid, priority, newPriority, blockReason, pc>>
    BY <1>5 DEF TimeSlice, SentinelReady
  <2>2. /\ st \in [Slot -> Statuses] /\ st[cur] = "SLICED"
        /\ \A s \in Slot \ {cur} : st[s] = status[s]
    BY <1>1 DEF TypeOK, Statuses
  <2> HIDE DEF st
  <2>3. CASE cur = SentinelSlot
    <3>1. Runnable(st) = {}
      BY <1>1, <2>2, <2>3 DEF Runnable, SentinelInv, Others
    <3>2. status' = st /\ cur' = cur
      BY <2>1, <3>1 DEF SwitchFrom, PidToRun
    <3>3. SentinelInv'
      BY <2>1, <2>2, <2>3, <3>2 DEF SentinelInv, Others
    <3>4. /\ \A s \in Slot : status'[s] # "EMPTY" => status[s] # "EMPTY"
          /\ \A s \in Slot \ {cur} : status'[s] = status[s]
          /\ status[cur] \notin {"QUIT", "BLOCKED"}
      BY <1>2, <2>2, <2>3, <3>2
    <3>5. RunInv'
      BY <1>1, <2>1, <2>3, <3>2, <3>4 DEF RunInv
    <3> QED
      BY <3>3, <3>5
  <2>4. CASE cur # SentinelSlot
    <3>1. status[cur] = "RUNNING"
      BY <2>1, <2>4 DEF RunInv, Outside
    <3>2. Dispatchable(st) /\ st[SentinelSlot] = status[SentinelSlot]
      BY <1>1, <1>3, <2>2, <2>4, <3>1 DEF Dispatchable
    <3>3. /\ \A s \in Slot : st[s] = "QUIT" <=> status[s] = "QUIT"
          /\ \A s \in Slot : blockReason'[s] => st[s] = "BLOCKED"
      BY <2>1, <2>2, <3>1 DEF RunInv
    <3> QED
      BY <2>1, <2>2, <3>2, <3>3, SchedSwitch
  <2> QED
    BY <2>3, <2>4
<1>6. CASE DeviceInterrupt
  <2>1. PICK t \in Slot :
          /\ blockReason[t]
          /\ blockReason' = [blockReason EXCEPT ![t] = FALSE]
          /\ SwitchFrom([status EXCEPT ![t] = "READY"], 6)
    BY <1>6 DEF DeviceInterrupt
  <2> DEFINE st == [status EXCEPT ![t] = "READY"]
  <2>2. /\ SwitchFrom(st, 6) /\ TickPoints = {}
        /\ UNCHANGED <<pid, priority, newPriority, pc>>
    BY <1>6, <2>1 DEF DeviceInterrupt, SentinelReady
  <2>3. status[t] = "BLOCKED" /\ t # SentinelSlot
    BY <1>2, <2>1 DEF RunInv
  <2>4. /\ st \in [Slot -> Statuses] /\ st[t] = "READY"
        /\ \A s \in Slot \ {t} : st[s] = status[s]
    BY DEF TypeOK, Statuses
  <2> HIDE DEF st
  <2>5. status[SentinelSlot] # "SLICED"
    BY <1>1, <2>2 DEF RunInv
  <2>6. Dispatchable(st) /\ st[SentinelSlot] = status[SentinelSlot]
    BY <1>1, <1>2, <2>3, <2>4, <2>5 DEF Dispatchable, SentinelInv, RunInv
  <2>7. /\ \A s \in Slot : st[s] = "QUIT" <=> status[s] = "QUIT"
        /\ \A s \in Slot : st[s] # "SLICED"
        /\ \A s \in Slot : blockReason'[s] => st[s] = "BLOCKED"
    BY <2>1, <2>2, <2>3, <2>4 DEF RunInv, TypeOK
  <2> QED
    BY <2>2, <2>4, <2>6, <2>7, SchedSwitch
<1>7. CASE ForkFill
  <2> DEFINE n == procIndex[cur]
  <2>1. /\ n \in Slot /\ status[n] = "EMPTY" /\ n # cur /\ n # SentinelSlot
        /\ pc[cur] = "fork" /\ cur # SentinelSlot
    BY <1>1, <1>2, <1>7 DEF ForkFill, At, ProcInv, TypeOK, SentinelInv
  <2>2. /\ pid' = [pid EXCEPT ![n] = nextPID]
        /\ status' = [status EXCEPT ![n] = "READY"]
        /\ priority' = [priority EXCEPT ![n] = newPriority[cur]]
        /\ pc' = [pc EXCEPT ![n] = "user", ![cur] = "forked"]
        /\ newPriority' = [newPriority EXCEPT ![cur] = 0]
        /\ UNCHANGED <<blockReason, cur>>
    BY <1>7 DEF ForkFill
  <2> HIDE DEF n
  <2>3. /\ status'[n] = "READY" /\ pid'[n] \in Nat /\ priority'[n] \in 1 .. 5
        /\ pc'[n] = "user" /\ pc'[cur] = "forked"
        /\ \A s \in Slot \ {n} : /\ status'[s] = status[s] /\ pid'[s] = pid[s]
                                 /\ priority'[s] = priority[s]
        /\ \A s \in Slot \ {n, cur} : pc'[s] = pc[s] /\ newPriority'[s] = newPriority[s]
    <3>1. newPriority[cur] \in 1 .. 5
      BY <1>1, <2>1 DEF RunInv
    <3> QED
      BY <1>1, <2>1, <2>2, <3>1 DEF TypeOK
  <2>4. SentinelInv'
    BY <1>1, <2>1, <2>2, <2>3 DEF SentinelInv
  <2>6. /\ \A s \in Slot : status'[s] # "EMPTY" => pid'[s] \in Nat
        /\ \A s \in Slot \ {SentinelSlot} : status'[s] # "EMPTY" => priority'[s] \in 1 .. 6
    BY <1>1, <2>1, <2>2, <2>3 DEF RunInv
  <2>7. \A s \in Slot : pc'[s] = "fork" => newPriority'[s] \in 1 .. 5
    BY <1>1, <2>1, <2>2, <2>3 DEF RunInv
  <2>8. \A s \in Slot : pc'[s] \in {"quitting", "returned"} => status'[s] = "QUIT"
    BY <1>1, <2>1, <2>2, <2>3 DEF RunInv
  <2>9. /\ TickPoints = {} => \A s \in Slot : status'[s] # "SLICED"
        /\ \A s \in Slot : blockReason'[s] => status'[s] = "BLOCKED"
    BY <1>1, <2>1, <2>2, <2>3 DEF RunInv
  <2>10. RunInv'
    BY <1>1, <2>1, <2>2, <2>3, <2>6, <2>7, <2>8, <2>9 DEF RunInv, Outside
  <2> QED
    BY <2>4, <2>10
<1>8. CASE JoinReap
  <2> DEFINE c == children[cur][Dead]
  <2>1. /\ c \in Slot /\ status[c] = "QUIT" /\ cur # SentinelSlot
        /\ pc[cur] \in {"user", "scan"}
    <3>1. Dead \in 1 .. Len(children[cur]) /\ status[c] = "QUIT"
      BY <1>8, DeadIsPosition DEF JoinReap
    <3>2. c \in Slot
      BY <1>1, <3>1 DEF TypeOK
    <3> QED
      BY <1>8, <3>1, <3>2 DEF JoinReap, Joining
  <2>2. /\ status' = [status EXCEPT ![c] = "EMPTY", ![cur] = "READY"]
        /\ pid' = [pid EXCEPT ![c] = NoPid]
        /\ priority' = [priority EXCEPT ![c] = -1]
        /\ blockReason' = [blockReason EXCEPT ![c] = FALSE]
        /\ pc' = [pc EXCEPT ![c] = "user", ![cur] = "joined"]
        /\ UNCHANGED <<cur, newPriority>>
    BY <1>8 DEF JoinReap
  <2> HIDE DEF c
  <2>3. status[cur] = "RUNNING" /\ c # SentinelSlot /\ c # cur
    BY <1>2, <2>1 DEF RunInv, Outside
  <2>4. /\ status'[c] = "EMPTY" /\ status'[cur] = "READY" /\ ~blockReason'[c]
        /\ pc'[c] = "user" /\ pc'[cur] = "joined"
        /\ cur' = cur /\ newPriority' = newPriority
        /\ pid'[cur] = pid[cur] /\ priority'[cur] = priority[cur]
        /\ blockReason'[cur] = blockReason[cur]
        /\ \A s \in Slot \ {c, cur} :
              /\ status'[s] = status[s] /\ pid'[s] = pid[s] /\ priority'[s] = priority[s]
              /\ blockReason'[s] = blockReason[s] /\ pc'[s] = pc[s]
    BY <1>1, <2>1, <2>2, <2>3 DEF TypeOK
  <2>5. SentinelInv'
    BY <1>1, <2>1, <2>3, <2>4 DEF SentinelInv
  <2>6. /\ \A s \in Slot : status'[s] # "EMPTY" => pid'[s] \in Nat
        /\ \A s \in Slot \ {SentinelSlot} : status'[s] # "EMPTY" => priority'[s] \in 1 .. 6
    BY <1>1, <2>1, <2>3, <2>4 DEF RunInv
  <2>7. \A s \in Slot : pc'[s] = "fork" => newPriority'[s] \in 1 .. 5
    BY <1>1, <2>1, <2>3, <2>4 DEF RunInv
  <2>8. \A s \in Slot : pc'[s] \in {"quitting", "returned"} => status'[s] = "QUIT"
    BY <1>1, <2>1, <2>3, <2>4 DEF RunInv
  <2>9. /\ TickPoints = {} => \A s \in Slot : status'[s] # "SLICED"
        /\ \A s \in Slot : blockReason'[s] => status'[s] = "BLOCKED"
    BY <1>1, <2>1, <2>3, <2>4 DEF RunInv
  <2>10. RunInv'
    BY <1>1, <2>1, <2>3, <2>4, <2>6, <2>7, <2>8, <2>9 DEF RunInv, Outside
  <2> QED
    BY <2>5, <2>10
<1>9. ASSUME \/ JoinNoChildren \/ JoinLook \/ JoinBlock \/ BlockMe
             \/ \E p \in Priorities : ForkFind(p) \/ ForkFail(p)
             \/ \E p \in 0 .. nextPID : Zap(p)
             \/ \E p \in 1 .. nextPID : UnblockFail(p)
      PROVE  SentinelInv' /\ RunInv'
  <2>1. /\ UNCHANGED <<pid, priority, cur>>
        /\ cur # SentinelSlot
    BY <1>9 DEF JoinNoChildren, JoinLook, JoinBlock, BlockMe, Zap, Joining, InUser, At,
         ForkFind, ForkFail, UnblockFail, SentinelInv
  <2>2. pc[cur] \in Outside
    BY <1>9 DEF JoinNoChildren, JoinLook, JoinBlock, BlockMe, Zap, Joining, InUser, At,
         ForkFind, ForkFail, UnblockFail, Outside
  <2>3. \/ /\ status' = status
           /\ \E v \in {"user", "block"} : pc' = [pc EXCEPT ![cur] = v]
           /\ UNCHANGED <<blockReason, newPriority>>
        \/ /\ UNCHANGED <<status, pc, blockReason, newPriority>>
        \/ /\ UNCHANGED <<status, blockReason>>
           /\ pc' = [pc EXCEPT ![cur] = "fork"]
           /\ \E v \in 1 .. 5 : newPriority' = [newPriority EXCEPT ![cur] = v]
        \/ /\ \E v \in {"JOINBLOCK", "ZAPBLOCK"} : status' = [status EXCEPT ![cur] = v]
           /\ \E v \in {"joining", "zapping"} : pc' = [pc EXCEPT ![cur] = v]
           /\ UNCHANGED <<blockReason, newPriority>>
        \/ /\ status' = [status EXCEPT ![cur] = "BLOCKED"]
           /\ pc' = [pc EXCEPT ![cur] = "blocking"]
           /\ blockReason' = [blockReason EXCEPT ![cur] = TRUE]
           /\ newPriority' = newPriority
    BY <1>9 DEF JoinNoChildren, JoinLook, JoinBlock, BlockMe, Zap, ForkFind, ForkFail,
         UnblockFail, Goto
  <2>4. status[cur] = "RUNNING" /\ ~blockReason[cur]
    BY <1>1, <2>1, <2>2 DEF RunInv
  <2>5. SentinelInv'
    <3>1. pc'[SentinelSlot] = pc[SentinelSlot] /\ status'[SentinelSlot] = status[SentinelSlot]
      BY <1>1, <2>1, <2>3 DEF TypeOK
    <3> QED
      BY <2>1, <3>1 DEF SentinelInv
  <2>6. \A s \in Slot \ {cur} : /\ status'[s] = status[s] /\ pc'[s] = pc[s]
                                /\ newPriority'[s] = newPriority[s]
                                /\ blockReason'[s] = blockReason[s]
    BY <1>1, <2>3 DEF TypeOK
  <2>7. /\ status'[cur] \notin {"EMPTY", "SLICED"}
        /\ pc'[cur] \in Outside => status'[cur] = "RUNNING"
        /\ pc'[cur] \notin {"quitting", "returned"}
        /\ blockReason'[cur] => status'[cur] = "BLOCKED"
        /\ pc'[cur] = "fork" => newPriority'[cur] \in 1 .. 5 
    BY <1>1, <2>2, <2>3, <2>4 DEF TypeOK, RunInv, Outside
  <2>8. status[cur] # "EMPTY"
    BY <2>4
  <2>9. RunInv'
    BY <1>1, <2>1, <2>6, <2>7, <2>8 DEF RunInv
  <2> QED
    BY <2>5, <2>9
<1>10. CASE Quit
  <2>1. /\ UNCHANGED <<pid, priority, blockReason, cur, newPriority>>
        /\ pc' = [pc EXCEPT ![cur] = "quitting"] /\ pc[cur] = "user" /\ cur # SentinelSlot
        /\ \A s \in Slot : status'[s] = IF s = cur THEN "QUIT"
                                        ELSE IF s \in Woken THEN "READY" ELSE status[s]
    BY <1>10 DEF Quit, Goto, InUser, At
  <2>2. \A s \in Woken : status[s] \in {"JOINBLOCK", "ZAPBLOCK"}
    BY DEF Woken
  <2>3. status[cur] = "RUNNING"
    BY <2>1 DEF RunInv, Outside
  <2>4. pc'[cur] = "quitting" /\ \A s \in Slot \ {cur} : pc'[s] = pc[s]
    BY <1>1, <2>1 DEF TypeOK
  <2>5. SentinelInv'
    BY <1>1, <1>2, <2>1, <2>2, <2>4 DEF SentinelInv
  <2>6. RunInv'
    BY <1>1, <2>1, <2>2, <2>3, <2>4 DEF RunInv, Outside
  <2> QED
    BY <2>5, <2>6
<1>11. ASSUME NEW p \in 1 .. nextPID, Unblock(p) PROVE SentinelInv' /\ RunInv'
  <2> DEFINE t == p % MAXPROC
  <2>1. t \in Slot
    BY <1>1, ModSlot
  <2>2. /\ blockReason' = [blockReason EXCEPT ![t] = FALSE]
        /\ status' = [status EXCEPT ![t] = "READY"]
        /\ blockReason[t] /\ cur # SentinelSlot /\ pc[cur] = "user"
        /\ UNCHANGED <<pid, priority, cur, newPriority>>
        /\ pc' = [pc EXCEPT ![cur] = "unblocking"]
    BY <1>11 DEF Unblock, Goto, InUser, At
  <2> HIDE DEF t
  <2>3. status[t] = "BLOCKED" /\ t # SentinelSlot
    BY <1>2, <2>1, <2>2 DEF RunInv
  <2>4. /\ status'[t] = "READY" /\ ~blockReason'[t] /\ pc'[cur] = "unblocking"
        /\ \A s \in Slot \ {t} : status'[s] = status[s] /\ blockReason'[s] = blockReason[s]
        /\ \A s \in Slot \ {cur} : pc'[s] = pc[s]
    BY <1>1, <2>1, <2>2 DEF TypeOK
  <2>5. SentinelInv'
    BY <1>1, <2>2, <2>3, <2>4 DEF SentinelInv
  <2>6. status[cur] = "RUNNING"
    BY <2>2 DEF RunInv, Outside
  <2>7. RunInv'
    BY <1>1, <2>1, <2>2, <2>3, <2>4, <2>6 DEF RunInv, Outside
  <2> QED
    BY <2>5, <2>7
<1>12. CASE \/ QuitWithChildren \/ QuitReturned \/ MainReturns \/ BlockMeError
            \/ SentinelHalts \/ SentinelWaits \/ Halted \/ UNCHANGED vars
            \/ \E p \in 0 .. nextPID : ZapError(p)
  <2>1. UNCHANGED <<status, pid, priority, blockReason, cur, pc, newPriority>>
    BY <1>12 DEF QuitWithChildren, QuitReturned, MainReturns, BlockMeError, SentinelHalts,
         SentinelWaits, Halted, ZapError, Halt, vars
  <2> QED
    BY <2>1 DEF SentinelInv, RunInv
<1> QED
  BY <1>4, <1>5, <1>6, <1>7, <1>8, <1>9, <1>10, <1>11, <1>12 DEF Next

\* quit never returns: the sentinel at least can be dispatched.
THEOREM QuitNeverReturnsCorrect == SentinelReady => (Spec => []QuitNeverReturns)
<1> SUFFICES ASSUME SentinelReady PROVE Spec => []QuitNeverReturns
  OBVIOUS
<1> DEFINE Inv == TypeOK /\ ProcInv /\ SentinelInv /\ RunInv
<1>1. Init => Inv
  BY TypeInit, ProcInit, SchedInit
<1>2. Inv /\ [Next]_vars => Inv'
  BY TypeStep, ProcStep, SchedStep DEF SentinelReady
<1>3. Inv => QuitNeverReturns
  BY DEF RunInv, QuitNeverReturns
<1> QED
  BY <1>1, <1>2, <1>3, PTL DEF Spec

-----------------------------------------------------------------------------
(* What zap waits for.                                                     *)

\* The two ways to say that a pid is in a list, and what joins a list at its end.
LEMMA ListedPids ==
    ASSUME NEW list \in Seq(Int)
    PROVE  /\ \A p : Contains(list, p) <=> p \in Range(list)
           /\ \A q \in Int : Range(Append(list, q)) = Range(list) \cup {q}
           /\ Range(list) \subseteq Int
<1>1. Range(list) = {list[i] : i \in 1 .. Len(list)}
  BY DEF Range
<1>2. ASSUME NEW q \in Int PROVE Range(Append(list, q)) = Range(list) \cup {q}
  <2>1. /\ Range(Append(list, q)) = {Append(list, q)[i] : i \in 1 .. Len(list) + 1}
        /\ Len(list) \in Nat
        /\ \A i \in 1 .. Len(list) + 1 :
              Append(list, q)[i] = IF i = Len(list) + 1 THEN q ELSE list[i]
    BY DEF Range
  <2>2. \A i \in 1 .. Len(list) : i \in 1 .. Len(list) + 1 /\ i # Len(list) + 1
    BY <2>1
  <2>3. \A i \in 1 .. Len(list) + 1 : i = Len(list) + 1 \/ i \in 1 .. Len(list)
    BY <2>1
  <2>4. Len(list) + 1 \in 1 .. Len(list) + 1
    BY <2>1
  <2> QED
    BY <1>1, <2>1, <2>2, <2>3, <2>4
<1>3. \A p : Contains(list, p) <=> p \in Range(list)
  BY <1>1 DEF Contains
<1> QED
  BY <1>1, <1>2, <1>3

\* Every step keeps a live target for those who wait in zap: a target that quits wakes
\* all whose pids it holds.
LEMMA ZapTargetStep ==
    ASSUME TypeOK, ProcInv, ZapsLiveTarget, [Next]_vars
    PROVE  ZapsLiveTarget'
<1> USE DEF procVars, forkVars
<1> DEFINE Live(st) == {t \in Slot : st[t] \notin {"EMPTY", "QUIT"}}
<1>1. /\ cur \in Slot /\ nextPID \in Nat /\ status[cur] # "EMPTY"
      /\ \A s \in Slot : status[s] # "EMPTY" => pid[s] % MAXPROC = s
      /\ \A t \in Slot : calledZapped[t] \in Seq(Int)
  BY DEF TypeOK, ProcInv, PidsNameSlots
<1>2. ASSUME \A z \in Slot : status'[z] = "ZAPBLOCK" => status[z] = "ZAPBLOCK" /\ pid'[z] = pid[z],
             \A t \in Live(status) : t \in Live(status') /\ calledZapped'[t] = calledZapped[t]
      PROVE  ZapsLiveTarget'
  BY <1>2 DEF ZapsLiveTarget
<1>3. ASSUME NEW st \in [Slot -> Statuses], NEW dev, SwitchFrom(st, dev),
             UNCHANGED <<pid, calledZapped>>,
             \A s \in Slot : /\ st[s] = "EMPTY" <=> status[s] = "EMPTY"
                             /\ st[s] = "QUIT" => status[s] = "QUIT"
                             /\ st[s] = "ZAPBLOCK" => status[s] = "ZAPBLOCK"
      PROVE  ZapsLiveTarget'
  <2>1. st[cur] # "EMPTY" /\ \A s \in Slot : st[s] # "EMPTY" => pid[s] % MAXPROC = s
    BY <1>1, <1>3
  <2>2. /\ \A s \in Slot : status'[s] = "EMPTY" <=> st[s] = "EMPTY"
        /\ \A s \in Slot : /\ status'[s] = "QUIT" <=> st[s] = "QUIT"
                           /\ status'[s] = "ZAPBLOCK" <=> st[s] = "ZAPBLOCK"
    BY <1>3, <2>1, SwitchKeeps
  <2> QED
    BY <1>2, <1>3, <2>2
<1>4. CASE Dispatch
  <2>1. /\ SwitchFrom(status, Dev[pc[cur]]) /\ status \in [Slot -> Statuses]
        /\ UNCHANGED <<pid, calledZapped>>
    BY <1>4 DEF Dispatch, TypeOK
  <2> QED
    BY <1>3, <2>1
<1>5. CASE TimeSlice
  <2> DEFINE st == [status EXCEPT ![cur] = "SLICED"]
  <2>1. SwitchFrom(st, pid[cur]) /\ UNCHANGED <<pid, calledZapped>>
    BY <1>5 DEF TimeSlice
  <2>2. /\ st \in [Slot -> Statuses]
        /\ \A s \in Slot : /\ st[s] = "EMPTY" <=> status[s] = "EMPTY"
                           /\ st[s] = "QUIT" => status[s] = "QUIT"
                           /\ st[s] = "ZAPBLOCK" => status[s] = "ZAPBLOCK"
    BY <1>1 DEF TypeOK, Statuses
  <2> HIDE DEF st
  <2> QED
    BY <1>3, <2>1, <2>2
<1>6. CASE DeviceInterrupt
  <2>1. PICK t \in Slot : blockReason[t] /\ SwitchFrom([status EXCEPT ![t] = "READY"], 6)
    BY <1>6 DEF DeviceInterrupt
  <2> DEFINE st == [status EXCEPT ![t] = "READY"]
  <2>2. SwitchFrom(st, 6) /\ UNCHANGED <<pid, calledZapped>>
    BY <1>6, <2>1 DEF DeviceInterrupt
  <2>3. /\ st \in [Slot -> Statuses]
        /\ \A s \in Slot : /\ st[s] = "EMPTY" <=> status[s] = "EMPTY"
                           /\ st[s] = "QUIT" => status[s] = "QUIT"
                           /\ st[s] = "ZAPBLOCK" => status[s] = "ZAPBLOCK"
    BY <2>1 DEF TypeOK, Statuses, ProcInv
  <2> HIDE DEF st
  <2> QED
    BY <1>3, <2>2, <2>3
<1>7. CASE ForkFill
  <2> DEFINE n == procIndex[cur]
  <2>1. n \in Slot /\ status[n] = "EMPTY"
    BY <1>1, <1>7 DEF ForkFill, At, ProcInv, TypeOK
  <2>2. /\ pid' = [pid EXCEPT ![n] = nextPID]
        /\ status' = [status EXCEPT ![n] = "READY"]
        /\ calledZapped' = calledZapped
    BY <1>7 DEF ForkFill
  <2> HIDE DEF n
  <2>3. /\ status'[n] = "READY"
        /\ \A s \in Slot \ {n} : status'[s] = status[s] /\ pid'[s] = pid[s]
    BY <2>1, <2>2 DEF TypeOK
  <2> QED
    BY <1>2, <2>1, <2>2, <2>3
<1>8. CASE JoinReap
  <2> DEFINE c == children[cur][Dead]
  <2>1. c \in Slot /\ status[c] = "QUIT" /\ c # cur
    <3>1. Dead \in 1 .. Len(children[cur]) /\ status[c] = "QUIT"
      BY <1>8, DeadIsPosition DEF JoinReap
    <3>2. c \in Slot
      BY <1>1, <3>1 DEF TypeOK
    <3>3. status[cur] # "QUIT"
      BY <1>1, <1>8 DEF JoinReap, Joining, ProcInv
    <3> QED
      BY <3>1, <3>2, <3>3
  <2>2. /\ status' = [status EXCEPT ![c] = "EMPTY", ![cur] = "READY"]
        /\ pid' = [pid EXCEPT ![c] = NoPid]
        /\ calledZapped' = [calledZapped EXCEPT ![c] = <<>>]
    BY <1>8 DEF JoinReap
  <2> HIDE DEF c
  <2>3. /\ status'[c] = "EMPTY" /\ status'[cur] = "READY"
        /\ \A s \in Slot \ {c, cur} : status'[s] = status[s]
        /\ \A s \in Slot \ {c} : pid'[s] = pid[s] /\ calledZapped'[s] = calledZapped[s]
    BY <1>1, <2>1, <2>2 DEF TypeOK
  <2> QED
    BY <1>2, <2>1, <2>3
<1>9. CASE Quit
  <2>1. /\ UNCHANGED <<pid, calledZapped>>
        /\ \A s \in Slot : status'[s] = IF s = cur THEN "QUIT"
                                        ELSE IF s \in Woken THEN "READY" ELSE status[s]
    BY <1>9 DEF Quit
  <2>2. ASSUME NEW z \in Slot, status'[z] = "ZAPBLOCK"
        PROVE  \E t \in Slot : status'[t] \notin {"EMPTY", "QUIT"} /\ Contains(calledZapped[t], pid[z])
    <3>1. status[z] = "ZAPBLOCK" /\ z \notin Woken
      BY <2>1, <2>2
    <3>2. PICK t \in Slot : /\ status[t] \notin {"EMPTY", "QUIT"}
                            /\ Contains(calledZapped[t], pid[z])
      BY <3>1 DEF ZapsLiveTarget
    <3>3. ASSUME t = cur PROVE FALSE
      <4>1. pid[z] \in Range(calledZapped[cur]) /\ pid[z] % MAXPROC = z
        BY <1>1, <3>1, <3>2, <3>3, ListedPids
      <4>2. z \in Woken
        BY <3>1, <4>1 DEF Woken, Zappers
      <4> QED
        BY <3>1, <4>2
    <3>4. status'[t] \notin {"EMPTY", "QUIT"}
      BY <2>1, <3>2, <3>3
    <3> QED
      BY <3>2, <3>4
  <2> QED
    BY <2>1, <2>2 DEF ZapsLiveTarget
<1>10. ASSUME NEW p \in 0 .. nextPID, Zap(p) PROVE ZapsLiveTarget'
  <2> DEFINE t == p % MAXPROC
  <2>1. /\ t \in Slot \ {cur} /\ status[t] \notin {"EMPTY", "QUIT"}
        /\ calledZapped' = [calledZapped EXCEPT ![t] = Append(@, pid[cur])]
        /\ status' = [status EXCEPT ![cur] = "ZAPBLOCK"]
        /\ pid' = pid
    BY <1>10 DEF Zap, ZapTargets
  <2> HIDE DEF t
  <2>2. /\ calledZapped'[t] = Append(calledZapped[t], pid[cur])
        /\ \A s \in Slot \ {t} : calledZapped'[s] = calledZapped[s]
        /\ status'[cur] = "ZAPBLOCK" /\ \A s \in Slot \ {cur} : status'[s] = status[s]
    BY <1>1, <2>1 DEF TypeOK
  <2>3. \A q : Contains(calledZapped[t], q) \/ q = pid[cur] => Contains(calledZapped'[t], q)
    <3>1. pid[cur] \in Int /\ calledZapped[t] \in Seq(Int) /\ calledZapped'[t] \in Seq(Int)
      BY <1>1, <2>1, <2>2 DEF TypeOK
    <3>2. Range(calledZapped'[t]) = Range(calledZapped[t]) \cup {pid[cur]}
      BY <2>2, <3>1, ListedPids
    <3> QED
      BY <3>1, <3>2, ListedPids
  <2>4. ASSUME NEW z \in Slot, status'[z] = "ZAPBLOCK"
        PROVE  \E u \in Slot : status'[u] \notin {"EMPTY", "QUIT"} /\ Contains(calledZapped'[u], pid'[z])
    <3>1. CASE z = cur
      BY <2>1, <2>2, <2>3, <3>1
    <3>2. CASE z # cur
      <4>1. PICK u \in Slot : /\ status[u] \notin {"EMPTY", "QUIT"}
                              /\ Contains(calledZapped[u], pid[z])
        BY <2>2, <2>4, <3>2 DEF ZapsLiveTarget
      <4>2. status'[u] \notin {"EMPTY", "QUIT"} /\ Contains(calledZapped'[u], pid[z])
        BY <2>2, <2>3, <4>1
      <4> QED
        BY <2>1, <4>2
    <3> QED
      BY <3>1, <3>2
  <2> QED
    BY <2>4 DEF ZapsLiveTarget
<1>11. ASSUME NEW p \in 1 .. nextPID, Unblock(p) PROVE ZapsLiveTarget'
  <2> DEFINE t == p % MAXPROC
  <2>1. /\ t \in Slot /\ status' = [status EXCEPT ![t] = "READY"]
        /\ UNCHANGED <<pid, calledZapped>>
    BY <1>1, <1>11, ModSlot DEF Unblock
  <2> HIDE DEF t
  <2>2. status'[t] = "READY" /\ \A s \in Slot \ {t} : status'[s] = status[s]
    BY <2>1 DEF TypeOK
  <2> QED
    BY <1>2, <2>1, <2>2
<1>12. CASE JoinLook \/ JoinBlock \/ BlockMe
  <2>1. /\ UNCHANGED <<pid, calledZapped>>
        /\ \/ status' = status
           \/ \E v \in {"JOINBLOCK", "BLOCKED"} : status' = [status EXCEPT ![cur] = v]
    BY <1>12 DEF JoinLook, JoinBlock, BlockMe
  <2>2. \A s \in Slot : status'[s] = status[s] \/ status'[s] \in {"JOINBLOCK", "BLOCKED"}
    BY <1>1, <2>1 DEF TypeOK
  <2> QED
    BY <1>2, <2>1, <2>2
<1>13. CASE \/ QuitWithChildren \/ QuitReturned \/ MainReturns \/ BlockMeError
            \/ SentinelHalts \/ SentinelWaits \/ Halted \/ JoinNoChildren \/ UNCHANGED vars
            \/ \E p \in 0 .. nextPID : ZapError(p)
            \/ \E p \in 1 .. nextPID : UnblockFail(p)
            \/ \E p \in Priorities : ForkFind(p) \/ ForkFail(p)
  <2>1. UNCHANGED <<status, pid, calledZapped>>
    BY <1>13 DEF QuitWithChildren, QuitReturned, MainReturns, BlockMeError, SentinelHalts,
         SentinelWaits, Halted, ZapError, UnblockFail, Halt, vars, JoinNoChildren,
         ForkFind, ForkFail
  <2> QED
    BY <2>1 DEF ZapsLiveTarget
<1> QED
  BY <1>4, <1>5, <1>6, <1>7, <1>8, <1>9, <1>10, <1>11, <1>12, <1>13 DEF Next

\* Whoever waits in zap waits for a process that lives, unless the clock may strike
\* between the two halves of fork1.
THEOREM ZapsLiveTargetCorrect == "fork" \notin TickPoints => (Spec => []ZapsLiveTarget)
<1> SUFFICES ASSUME "fork" \notin TickPoints PROVE Spec => []ZapsLiveTarget
  OBVIOUS
<1>1. Init => TypeOK /\ ProcInv /\ ZapsLiveTarget
  <2>1. Init => \A s \in Slot : status[s] # "ZAPBLOCK"
    BY DEF Init
  <2> QED
    BY <2>1, TypeInit, ProcInit DEF ZapsLiveTarget
<1>2. TypeOK /\ ProcInv /\ ZapsLiveTarget /\ [Next]_vars => (TypeOK /\ ProcInv /\ ZapsLiveTarget)'
  BY TypeStep, ProcStep, ZapTargetStep
<1> QED
  BY <1>1, <1>2, PTL DEF Spec

\* A pid names one process.
LEMMA OnePid ==
    ASSUME TypeOK, ProcInv, NEW a \in Slot, NEW b \in Slot,
           status[a] # "EMPTY", status[b] # "EMPTY", pid[a] = pid[b]
    PROVE  a = b
BY DEF ProcInv, PidsNameSlots

\* Every step keeps ZapInv: a process that waits in zap is woken by the one process
\* it waits for, and by nobody else.
LEMMA ZapStep ==
    ASSUME SentinelReady, TypeOK, ProcInv, SentinelInv, RunInv, ZapInv, [Next]_vars
    PROVE  ZapInv'
<1> USE DEF procVars, forkVars
<1>1. /\ cur \in Slot /\ nextPID \in Nat
      /\ \A s \in Slot : status[s] # "EMPTY" => pid[s] % MAXPROC = s
      /\ \A t \in Slot : calledZapped[t] \in Seq(Int) /\ pid[t] \in Int
  BY DEF TypeOK, ProcInv, PidsNameSlots
<1>2. pc[cur] \in Outside => status[cur] \in {"RUNNING", "SLICED"}
  BY DEF RunInv, SentinelInv
<1>3. ASSUME calledZapped' = calledZapped,
             \A t \in Slot : /\ status'[t] = "EMPTY" => status[t] = "EMPTY"
                             /\ status[t] = "QUIT" => status'[t] = "QUIT"
                             /\ status[t] = "ZAPBLOCK" => status'[t] = "ZAPBLOCK" /\ pid'[t] = pid[t]
      PROVE  ZapInv'
  <2>1. \A t \in Slot : status'[t] = "EMPTY" => calledZapped'[t] = <<>>
    BY <1>3 DEF ZapInv
  <2>2. ASSUME NEW t \in Slot, status'[t] # "QUIT", NEW p \in Range(calledZapped'[t])
        PROVE  \E z \in Slot : status'[z] = "ZAPBLOCK" /\ pid'[z] = p
    <3>1. status[t] # "QUIT" /\ p \in Range(calledZapped[t])
      BY <1>3, <2>2
    <3>2. PICK z \in Slot : status[z] = "ZAPBLOCK" /\ pid[z] = p
      BY <3>1 DEF ZapInv
    <3> QED
      BY <1>3, <3>2
  <2>3. ASSUME NEW t \in Slot, NEW u \in Slot, status'[t] # "QUIT", status'[u] # "QUIT",
               NEW p \in Range(calledZapped'[t]), p \in Range(calledZapped'[u])
        PROVE  t = u
    <3>1. /\ status[t] # "QUIT" /\ p \in Range(calledZapped[t])
          /\ status[u] # "QUIT" /\ p \in Range(calledZapped[u])
      BY <1>3, <2>3
    <3> QED
      BY <3>1 DEF ZapInv
  <2> QED
    BY <2>1, <2>2, <2>3 DEF ZapInv
<1>4. ASSUME NEW st \in [Slot -> Statuses], NEW dev, SwitchFrom(st, dev),
             UNCHANGED <<pid, calledZapped>>,
             \A s \in Slot : /\ st[s] = "EMPTY" <=> status[s] = "EMPTY"
                             /\ status[s] = "QUIT" => st[s] = "QUIT"
                             /\ status[s] = "ZAPBLOCK" => st[s] = "ZAPBLOCK"
      PROVE  ZapInv'
  <2>1. st[cur] # "EMPTY" /\ \A s \in Slot : st[s] # "EMPTY" => pid[s] % MAXPROC = s
    BY <1>1, <1>4 DEF ProcInv
  <2>2. /\ \A s \in Slot : status'[s] = "EMPTY" <=> st[s] = "EMPTY"
        /\ \A s \in Slot : /\ status'[s] = "QUIT" <=> st[s] = "QUIT"
                           /\ status'[s] = "ZAPBLOCK" <=> st[s] = "ZAPBLOCK"
    BY <1>4, <2>1, SwitchKeeps
  <2> QED
    BY <1>3, <1>4, <2>2
<1>5. CASE Dispatch
  <2>1. /\ SwitchFrom(status, Dev[pc[cur]]) /\ status \in [Slot -> Statuses]
        /\ UNCHANGED <<pid, calledZapped>>
    BY <1>5 DEF Dispatch, TypeOK
  <2> QED
    BY <1>4, <2>1
<1>6. CASE TimeSlice
  <2> DEFINE st == [status EXCEPT ![cur] = "SLICED"]
  <2>1. /\ SwitchFrom(st, pid[cur]) /\ UNCHANGED <<pid, calledZapped>>
        /\ status[cur] \in {"RUNNING", "SLICED"}
    BY <1>2, <1>6 DEF TimeSlice, SentinelReady, Outside
  <2>2. /\ st \in [Slot -> Statuses]
        /\ \A s \in Slot : /\ st[s] = "EMPTY" <=> status[s] = "EMPTY"
                           /\ status[s] = "QUIT" => st[s] = "QUIT"
                           /\ status[s] = "ZAPBLOCK" => st[s] = "ZAPBLOCK"
    BY <1>1, <2>1 DEF TypeOK, Statuses
  <2> HIDE DEF st
  <2> QED
    BY <1>4, <2>1, <2>2
<1>7. CASE DeviceInterrupt
  <2>1. PICK t \in Slot : blockReason[t] /\ SwitchFrom([status EXCEPT ![t] = "READY"], 6)
    BY <1>7 DEF DeviceInterrupt
  <2> DEFINE st == [status EXCEPT ![t] = "READY"]
  <2>2. SwitchFrom(st, 6) /\ UNCHANGED <<pid, calledZapped>> /\ status[t] = "BLOCKED"
    BY <1>7, <2>1 DEF DeviceInterrupt, RunInv
  <2>3. /\ st \in [Slot -> Statuses]
        /\ \A s \in Slot : /\ st[s] = "EMPTY" <=> status[s] = "EMPTY"
                           /\ status[s] = "QUIT" => st[s] = "QUIT"
                           /\ status[s] = "ZAPBLOCK" => st[s] = "ZAPBLOCK"
    BY <2>2 DEF TypeOK, Statuses
  <2> HIDE DEF st
  <2> QED
    BY <1>4, <2>2, <2>3
<1>8. CASE ForkFill
  <2> DEFINE n == procIndex[cur]
  <2>1. n \in Slot /\ status[n] = "EMPTY"
    BY <1>1, <1>8 DEF ForkFill, At, ProcInv, TypeOK
  <2>2. /\ pid' = [pid EXCEPT ![n] = nextPID]
        /\ status' = [status EXCEPT ![n] = "READY"]
        /\ calledZapped' = calledZapped
    BY <1>8 DEF ForkFill
  <2> HIDE DEF n
  <2>3. /\ status'[n] = "READY"
        /\ \A s \in Slot \ {n} : status'[s] = status[s] /\ pid'[s] = pid[s]
    BY <2>1, <2>2 DEF TypeOK
  <2> QED
    BY <1>3, <2>1, <2>2, <2>3
<1>9. CASE JoinReap
  <2> DEFINE c == children[cur][Dead]
  <2>1. c \in Slot /\ status[c] = "QUIT" /\ status[cur] \in {"RUNNING", "SLICED"}
    <3>1. Dead \in 1 .. Len(children[cur]) /\ status[c] = "QUIT"
      BY <1>9, DeadIsPosition DEF JoinReap
    <3>2. c \in Slot
      BY <1>1, <3>1 DEF TypeOK
    <3>3. pc[cur] \in Outside
      BY <1>9 DEF JoinReap, Joining, Outside
    <3> QED
      BY <1>2, <3>1, <3>2, <3>3
  <2>2. /\ status' = [status EXCEPT ![c] = "EMPTY", ![cur] = "READY"]
        /\ pid' = [pid EXCEPT ![c] = NoPid]
        /\ calledZapped' = [calledZapped EXCEPT ![c] = <<>>]
    BY <1>9 DEF JoinReap
  <2> HIDE DEF c
  <2>3. /\ status'[c] = "EMPTY" /\ status'[cur] = "READY"
        /\ \A s \in Slot \ {c, cur} : status'[s] = status[s]
        /\ \A s \in Slot \ {c} : pid'[s] = pid[s] /\ calledZapped'[s] = calledZapped[s]
        /\ calledZapped'[c] = <<>>
    BY <1>1, <2>1, <2>2 DEF TypeOK
  <2>4. Range(<<>>) = {}
    BY DEF Range
  <2>5. \A t \in Slot : status'[t] = "EMPTY" => calledZapped'[t] = <<>>
    BY <2>1, <2>3 DEF ZapInv
  <2>6. \A t \in Slot \ {c} : /\ calledZapped'[t] = calledZapped[t]
                              /\ status'[t] # "QUIT" => status[t] # "QUIT"
    BY <2>1, <2>3
  <2>7. \A z \in Slot : status[z] = "ZAPBLOCK" => status'[z] = "ZAPBLOCK" /\ pid'[z] = pid[z]
    BY <2>1, <2>3
  <2>8. Range(calledZapped'[c]) = {}
    BY <2>3, <2>4
  <2>9. ASSUME NEW t \in Slot, status'[t] # "QUIT", NEW p \in Range(calledZapped'[t])
        PROVE  \E z \in Slot : status'[z] = "ZAPBLOCK" /\ pid'[z] = p
    <3>1. status[t] # "QUIT" /\ p \in Range(calledZapped[t])
      <4>1. t # c
        BY <2>8, <2>9, Zenon
      <4>2. t \in Slot \ {c} /\ status'[t] # "QUIT"
        BY <2>9, <4>1, Zenon
      <4>3. calledZapped'[t] = calledZapped[t] /\ status[t] # "QUIT"
        BY <2>6, <4>2, Zenon
      <4> QED
        BY <2>9, <4>3 DEF Range
    <3>2. PICK z \in Slot : status[z] = "ZAPBLOCK" /\ pid[z] = p
      BY <3>1 DEF ZapInv
    <3> QED
      BY <2>7, <3>2
  <2>10. ASSUME NEW t \in Slot, NEW u \in Slot, status'[t] # "QUIT", status'[u] # "QUIT",
                NEW p \in Range(calledZapped'[t]), p \in Range(calledZapped'[u])
         PROVE  t = u
    <3>1. /\ status[t] # "QUIT" /\ p \in Range(calledZapped[t])
          /\ status[u] # "QUIT" /\ p \in Range(calledZapped[u])
      <4>1. t # c /\ u # c
        BY <2>8, <2>10, Zenon
      <4>2. /\ t \in Slot \ {c} /\ status'[t] # "QUIT"
            /\ u \in Slot \ {c} /\ status'[u] # "QUIT"
        BY <2>10, <4>1, Zenon
      <4>3. /\ calledZapped'[t] = calledZapped[t] /\ status[t] # "QUIT"
            /\ calledZapped'[u] = calledZapped[u] /\ status[u] # "QUIT"
        BY <2>6, <4>2, Zenon
      <4> QED
        BY <2>10, <4>3 DEF Range
    <3> QED
      BY <3>1 DEF ZapInv
  <2> QED
    BY <2>5, <2>9, <2>10 DEF ZapInv
<1>10. CASE Quit
  <2>1. /\ UNCHANGED <<pid, calledZapped>> /\ pc[cur] = "user"
        /\ \A s \in Slot : status'[s] = IF s = cur THEN "QUIT"
                                        ELSE IF s \in Woken THEN "READY" ELSE status[s]
    BY <1>10 DEF Quit, InUser, At
  <2>2. \A s \in Woken : status[s] \in {"JOINBLOCK", "ZAPBLOCK"}
    BY DEF Woken
  <2>3. status[cur] \in {"RUNNING", "SLICED"}
    BY <1>2, <2>1 DEF Outside
  <2>4. \A t \in Slot : /\ status'[t] = "EMPTY" => status[t] = "EMPTY"
                        /\ status'[t] # "QUIT" => status[t] # "QUIT" /\ t # cur
    BY <2>1, <2>2
  <2>5. ASSUME NEW t \in Slot, status'[t] # "QUIT", NEW p \in Range(calledZapped[t])
        PROVE  \E z \in Slot : status'[z] = "ZAPBLOCK" /\ pid[z] = p
    <3>1. PICK z \in Slot : status[z] = "ZAPBLOCK" /\ pid[z] = p
      BY <2>4, <2>5 DEF ZapInv
    <3>2. ASSUME z \in Woken PROVE FALSE
      <4>1. PICK q \in Range(calledZapped[cur]) : q % MAXPROC = z
        BY <3>1, <3>2 DEF Woken, Zappers
      <4>2. PICK y \in Slot : status[y] = "ZAPBLOCK" /\ pid[y] = q
        BY <1>1, <2>3 DEF ZapInv
      <4>3. y = z /\ q = p
        BY <1>1, <3>1, <4>1, <4>2
      <4>4. t = cur
        BY <1>1, <2>3, <2>4, <2>5, <4>3 DEF ZapInv
      <4> QED
        BY <2>4, <2>5, <4>4
    <3> QED
      BY <2>1, <2>3, <3>1, <3>2
  <2>6. \A t, u \in Slot : status'[t] # "QUIT" /\ status'[u] # "QUIT" =>
          \A p \in Range(calledZapped[t]) : p \in Range(calledZapped[u]) => t = u
    BY <2>4 DEF ZapInv
  <2>7. \A t \in Slot : status'[t] = "EMPTY" => calledZapped[t] = <<>>
    BY <2>4 DEF ZapInv
  <2> QED
    BY <2>1, <2>5, <2>6, <2>7 DEF ZapInv
<1>11. ASSUME NEW p \in 0 .. nextPID, Zap(p) PROVE ZapInv'
  <2> DEFINE t == p % MAXPROC
  <2>1. /\ t \in Slot \ {cur} /\ status[t] \notin {"EMPTY", "QUIT"}
        /\ calledZapped' = [calledZapped EXCEPT ![t] = Append(@, pid[cur])]
        /\ status' = [status EXCEPT ![cur] = "ZAPBLOCK"]
        /\ pid' = pid /\ pc[cur] = "user"
    BY <1>11 DEF Zap, ZapTargets, InUser, At
  <2> HIDE DEF t
  <2>2. status[cur] \in {"RUNNING", "SLICED"}
    BY <1>2, <2>1 DEF Outside
  <2>3. /\ Range(calledZapped'[t]) = Range(calledZapped[t]) \cup {pid[cur]}
        /\ \A s \in Slot \ {t} : calledZapped'[s] = calledZapped[s]
        /\ status'[cur] = "ZAPBLOCK" /\ \A s \in Slot \ {cur} : status'[s] = status[s]
    <3>1. /\ calledZapped'[t] = Append(calledZapped[t], pid[cur])
          /\ \A s \in Slot \ {t} : calledZapped'[s] = calledZapped[s]
          /\ status'[cur] = "ZAPBLOCK" /\ \A s \in Slot \ {cur} : status'[s] = status[s]
      BY <1>1, <2>1 DEF TypeOK
    <3> QED
      BY <1>1, <2>1, <3>1, ListedPids
  <2>4. \A s \in Slot : status[s] # "QUIT" => pid[cur] \notin Range(calledZapped[s])
    <3>1. ASSUME NEW s \in Slot, status[s] # "QUIT", pid[cur] \in Range(calledZapped[s])
          PROVE  FALSE
      <4>1. PICK z \in Slot : status[z] = "ZAPBLOCK" /\ pid[z] = pid[cur]
        BY <3>1 DEF ZapInv
      <4>2. z = cur
        BY <1>1, <2>2, <4>1, OnePid
      <4> QED
        BY <2>2, <4>1, <4>2
    <3> QED
      BY <3>1
  <2>5. /\ \A s \in Slot : status'[s] # "QUIT" => status[s] # "QUIT"
        /\ \A s \in Slot : status'[s] = "EMPTY" => status[s] = "EMPTY" /\ s # t
        /\ \A s \in Slot : status[s] = "ZAPBLOCK" => status'[s] = "ZAPBLOCK"
    BY <1>1, <2>1, <2>2, <2>3
  <2>6. \A s \in Slot : status'[s] = "EMPTY" => calledZapped'[s] = <<>>
    BY <2>3, <2>5 DEF ZapInv
  <2>7. \A s \in Slot : status'[s] # "QUIT" => \A q \in Range(calledZapped'[s]) :
          \E z \in Slot : status'[z] = "ZAPBLOCK" /\ pid'[z] = q
    <3>1. ASSUME NEW s \in Slot, status'[s] # "QUIT", NEW q \in Range(calledZapped'[s])
          PROVE  \E z \in Slot : status'[z] = "ZAPBLOCK" /\ pid'[z] = q
      <4>1. CASE q = pid[cur]
        BY <1>1, <2>1, <2>3, <4>1
      <4>2. CASE q # pid[cur]
        <5>1. q \in Range(calledZapped[s]) /\ status[s] # "QUIT"
          BY <2>3, <2>5, <3>1, <4>2
        <5>2. PICK z \in Slot : status[z] = "ZAPBLOCK" /\ pid[z] = q
          BY <5>1 DEF ZapInv
        <5> QED
          BY <2>1, <2>5, <5>2
      <4> QED
        BY <4>1, <4>2
    <3> QED
      BY <3>1
  <2>8. ASSUME NEW s \in Slot, NEW u \in Slot, status'[s] # "QUIT", status'[u] # "QUIT",
               NEW q \in Range(calledZapped'[s]), q \in Range(calledZapped'[u])
        PROVE  s = u
    <3>1. CASE q = pid[cur]
      BY <2>3, <2>4, <2>5, <2>8, <3>1
    <3>2. CASE q # pid[cur]
      BY <2>3, <2>5, <2>8, <3>2 DEF ZapInv
    <3> QED
      BY <3>1, <3>2
  <2>9. \A s, u \in Slot : status'[s] # "QUIT" /\ status'[u] # "QUIT" =>
          \A q \in Range(calledZapped'[s]) : q \in Range(calledZapped'[u]) => s = u
    BY <2>8
  <2> QED
    BY <2>6, <2>7, <2>9 DEF ZapInv
<1>12. ASSUME NEW p \in 1 .. nextPID, Unblock(p) PROVE ZapInv'
  <2> DEFINE t == p % MAXPROC
  <2>1. /\ t \in Slot /\ status' = [status EXCEPT ![t] = "READY"]
        /\ UNCHANGED <<pid, calledZapped>> /\ status[t] = "BLOCKED"
    BY <1>1, <1>12, ModSlot DEF Unblock, RunInv
  <2> HIDE DEF t
  <2>2. status'[t] = "READY" /\ \A s \in Slot \ {t} : status'[s] = status[s]
    BY <2>1 DEF TypeOK
  <2> QED
    BY <1>3, <2>1, <2>2
<1>13. CASE JoinLook \/ JoinBlock \/ BlockMe
  <2>1. /\ UNCHANGED <<pid, calledZapped>> /\ pc[cur] \in Outside
        /\ \/ status' = status
           \/ \E v \in {"JOINBLOCK", "BLOCKED"} : status' = [status EXCEPT ![cur] = v]
    BY <1>13 DEF JoinLook, JoinBlock, BlockMe, Joining, InUser, At, Outside
  <2>2. \A s \in Slot : \/ status'[s] = status[s]
                        \/ /\ status'[s] \in {"JOINBLOCK", "BLOCKED"}
                           /\ status[s] \in {"RUNNING", "SLICED"}
    BY <1>1, <1>2, <2>1 DEF TypeOK
  <2> QED
    BY <1>3, <2>1, <2>2
<1>14. CASE \/ QuitWithChildren \/ QuitReturned \/ MainReturns \/ BlockMeError
            \/ SentinelHalts \/ SentinelWaits \/ Halted \/ JoinNoChildren \/ UNCHANGED vars
            \/ \E p \in 0 .. nextPID : ZapError(p)
            \/ \E p \in 1 .. nextPID : UnblockFail(p)
            \/ \E p \in Priorities : ForkFind(p) \/ ForkFail(p)
  <2>1. UNCHANGED <<status, pid, calledZapped>>
    BY <1>14 DEF QuitWithChildren, QuitReturned, MainReturns, BlockMeError, SentinelHalts,
         SentinelWaits, Halted, ZapError, UnblockFail, Halt, vars, JoinNoChildren,
         ForkFind, ForkFail
  <2> QED
    BY <2>1 DEF ZapInv
<1> QED
  BY <1>5, <1>6, <1>7, <1>8, <1>9, <1>10, <1>11, <1>12, <1>13, <1>14 DEF Next

\* zap comes back only when its target has quit.
THEOREM ZapWaitsCorrect == SentinelReady => (Spec => []ZapWaits)
<1> SUFFICES ASSUME SentinelReady PROVE Spec => []ZapWaits
  OBVIOUS
<1> DEFINE Inv == TypeOK /\ ProcInv /\ SentinelInv /\ RunInv /\ ZapInv
<1>1. Init => Inv
  <2>1. Init => ZapInv
    <3>1. Init => \A s \in Slot : calledZapped[s] = <<>>
      BY Zenon DEF Init
    <3>2. Range(<<>>) = {}
      BY DEF Range
    <3> QED
      BY <3>1, <3>2 DEF ZapInv
  <2> QED
    BY <2>1, TypeInit, ProcInit, SchedInit
<1>2. Inv /\ [Next]_vars => Inv'
  BY TypeStep, ProcStep, SchedStep, ZapStep DEF SentinelReady
<1>3. Inv => ZapWaits
  <2> SUFFICES ASSUME Inv, pc[cur] = "user", NEW t \in Slot,
                      Contains(calledZapped[t], pid[cur]), status[t] # "QUIT"
               PROVE  FALSE
    BY DEF ZapWaits
  <2>1. cur \in Slot /\ status[cur] \in {"RUNNING", "SLICED"}
    BY DEF TypeOK, RunInv, SentinelInv, Outside
  <2>2. pid[cur] \in Range(calledZapped[t])
    BY ListedPids DEF TypeOK
  <2>3. PICK z \in Slot : status[z] = "ZAPBLOCK" /\ pid[z] = pid[cur]
    BY <2>2 DEF ZapInv
  <2>4. z = cur
    BY <2>1, <2>3, OnePid
  <2> QED
    BY <2>1, <2>3, <2>4
<1> QED
  BY <1>1, <1>2, <1>3, PTL DEF Spec

-----------------------------------------------------------------------------
(* Priorities, where no slice ends: every switch is a dispatcher call.     *)

\* A switch leaves the CPU to a process of the best priority.
LEMMA PrioSwitch ==
    ASSUME TickPoints = {}, TypeOK, ProcInv, SentinelInv, RunInv,
           NEW st \in [Slot -> Statuses], NEW dev, SwitchFrom(st, dev), Dispatchable(st),
           \A s \in Slot : st[s] # "SLICED", priority' = priority
    PROVE  cur' # SentinelSlot => \A s \in Slot \ {InitSlot} :
              status'[s] = "READY" => priority'[cur'] <= priority'[s]
<1>1. PICK x \in Slot \ {InitSlot} :
              /\ cur' = x
              /\ status' = [[st EXCEPT ![cur] = Preempted(@)] EXCEPT ![x] = "RUNNING"]
              /\ st[x] \in {"READY", "RUNNING", "SLICED"}
              /\ x # SentinelSlot /\ st[x] # "SLICED" => \A s \in Slot \ {InitSlot} :
                    st[s] \in {"READY", "RUNNING"} => priority[x] <= priority[s]
  BY SwitchTo
<1>2. \A s \in Slot : status'[s] = "READY" => st[s] \in {"READY", "RUNNING"}
  BY <1>1 DEF Preempted, TypeOK
<1> QED
  BY <1>1, <1>2

\* Every step keeps PrioInv.
LEMMA PrioStep ==
    ASSUME TickPoints = {}, TypeOK, ProcInv, SentinelInv, RunInv, PrioInv, [Next]_vars
    PROVE  PrioInv'
<1> USE DEF procVars, forkVars
<1>1. /\ cur \in Slot /\ SentinelSlot \in Slot /\ nextPID \in Nat
      /\ \A s \in Slot : status[s] # "SLICED"
      /\ status[SentinelSlot] \in {"READY", "RUNNING"}
      /\ \A s \in Slot : status[s] # "EMPTY" => pid[s] \in Nat /\ pid[s] % MAXPROC = s
  <2>1. cur \in Slot /\ SentinelSlot \in Slot /\ nextPID \in Nat
    BY SlotAssumption DEF TypeOK, SentinelSlot, Slot
  <2>2. \A s \in Slot : status[s] # "SLICED"
    BY DEF RunInv
  <2>3. status[SentinelSlot] \in {"READY", "RUNNING"}
    BY <2>1, <2>2 DEF SentinelInv
  <2>4. \A s \in Slot : status[s] # "EMPTY" => pid[s] \in Nat /\ pid[s] % MAXPROC = s
    BY DEF RunInv, ProcInv, PidsNameSlots
  <2> QED
    BY <2>1, <2>2, <2>3, <2>4
<1>2. Dispatchable(status)
  BY <1>1 DEF Dispatchable, SentinelInv, RunInv
<1>3. CASE Dispatch
  <2>1. /\ SwitchFrom(status, Dev[pc[cur]]) /\ status \in [Slot -> Statuses]
        /\ priority' = priority /\ halted = "no" /\ halted' = halted
    BY <1>3 DEF Dispatch, TypeOK
  <2> QED
    BY <1>1, <1>2, <2>1, PrioSwitch DEF PrioInv
<1>4. CASE DeviceInterrupt
  <2>1. PICK t \in Slot : blockReason[t] /\ SwitchFrom([status EXCEPT ![t] = "READY"], 6)
    BY <1>4 DEF DeviceInterrupt
  <2> DEFINE st == [status EXCEPT ![t] = "READY"]
  <2>2. /\ SwitchFrom(st, 6) /\ status[t] = "BLOCKED" /\ priority' = priority
        /\ halted = "no" /\ halted' = halted
    BY <1>4, <2>1 DEF DeviceInterrupt, RunInv, At
  <2>3. /\ st \in [Slot -> Statuses] /\ st[t] = "READY"
        /\ \A s \in Slot \ {t} : st[s] = status[s]
    BY DEF TypeOK, Statuses
  <2> HIDE DEF st
  <2>4. Dispatchable(st) /\ \A s \in Slot : st[s] # "SLICED"
    BY <1>1, <1>2, <2>2, <2>3 DEF Dispatchable
  <2> QED
    BY <2>2, <2>3, <2>4, PrioSwitch DEF PrioInv
<1>5. CASE ForkFill \/ JoinReap
  <2>1. pc'[cur'] \notin Outside /\ halted = "no" /\ halted' = halted
    BY <1>1, <1>5 DEF ForkFill, JoinReap, TypeOK, Outside, At, Joining
  <2> QED
    BY <2>1 DEF PrioInv
<1>6. CASE \/ JoinBlock \/ Quit \/ BlockMe \/ (JoinLook /\ pc[cur] = "user")
           \/ \E p \in 0 .. nextPID : Zap(p)
           \/ \E p \in 1 .. nextPID : Unblock(p)
  <2>1. /\ \E v \in Dispatching : pc' = [pc EXCEPT ![cur] = v]
        /\ halted = "no" /\ halted' = halted /\ cur' = cur
    BY <1>6 DEF JoinBlock, Quit, BlockMe, JoinLook, Zap, Unblock, Goto, Dispatching, At,
         InUser, Joining
  <2> QED
    BY <1>1, <2>1 DEF PrioInv, TypeOK, Dispatching, Outside
<1>7. CASE \/ JoinNoChildren \/ (JoinLook /\ pc[cur] = "scan")
           \/ \E p \in Priorities : ForkFind(p) \/ ForkFail(p)
           \/ \E p \in 1 .. nextPID : UnblockFail(p)
  <2>1. UNCHANGED <<status, priority, cur, halted>> /\ halted = "no" /\ pc[cur] \in Outside
    BY <1>7 DEF JoinNoChildren, JoinLook, ForkFind, ForkFail, UnblockFail, Joining, InUser,
         At, Outside
  <2> QED
    BY <2>1 DEF PrioInv
<1>8. CASE \/ QuitWithChildren \/ QuitReturned \/ MainReturns \/ BlockMeError
           \/ SentinelHalts \/ SentinelWaits \/ Halted \/ UNCHANGED vars
           \/ \E p \in 0 .. nextPID : ZapError(p)
  <2>1. /\ UNCHANGED <<status, priority, cur, pc>>
        /\ halted' = "deadlock" => halted = "deadlock" \/ cur = SentinelSlot
    BY <1>8 DEF QuitWithChildren, QuitReturned, MainReturns, BlockMeError, SentinelHalts,
         SentinelWaits, Halted, ZapError, Halt, vars
  <2> QED
    BY <2>1 DEF PrioInv
<1>9. ~TimeSlice
  BY DEF TimeSlice
<1> QED
  <2>1. JoinLook => pc[cur] \in {"user", "scan"}
    BY DEF JoinLook
  <2> QED
    BY <1>3, <1>4, <1>5, <1>6, <1>7, <1>8, <1>9, <2>1 DEF Next

\* PrioInv is an invariant, together with what it rests on.
LEMMA PrioAlways ==
    ASSUME TickPoints = {}
    PROVE  Spec => [](TypeOK /\ SentinelInv /\ RunInv /\ PrioInv)
<1> DEFINE Inv == TypeOK /\ ProcInv /\ SentinelInv /\ RunInv /\ PrioInv
<1>1. Init => Inv
  <2>1. Init => PrioInv
    <3> SUFFICES ASSUME Init PROVE PrioInv
      OBVIOUS
    <3>1. cur = 3 /\ 3 \in Slot /\ halted = "no" /\ priority[3] = 3
      BY SlotAssumption DEF Init, Slot, MainSlot, InitSlot, SentinelSlot
    <3>2. \A s \in Slot : status[s] = "READY" => priority[s] \in {6, 7}
      BY DEF Init, MainSlot, InitSlot, SentinelSlot
    <3> QED
      BY <3>1, <3>2 DEF PrioInv
  <2> QED
    BY <2>1, TypeInit, ProcInit, SchedInit
<1>2. Inv /\ [Next]_vars => Inv'
  BY TypeStep, ProcStep, SchedStep, PrioStep DEF SentinelReady
<1> QED
  BY <1>1, <1>2, PTL DEF Spec

\* Without slices the process that runs has the best priority of those that could.
THEOREM RunsByPriorityCorrect == TickPoints = {} => (Spec => []RunsByPriority)
<1> SUFFICES ASSUME TickPoints = {} PROVE Spec => []RunsByPriority
  OBVIOUS
<1>1. TypeOK /\ SentinelInv /\ RunInv /\ PrioInv => RunsByPriority
  BY DEF RunInv, PrioInv, RunsByPriority, Outside, At
<1> QED
  BY <1>1, PrioAlways, PTL

\* Without slices the sentinel reports a deadlock only where nobody else can run.
THEOREM DeadlockIsRealCorrect == TickPoints = {} => (Spec => []DeadlockIsReal)
<1> SUFFICES ASSUME TickPoints = {} PROVE Spec => []DeadlockIsReal
  OBVIOUS
<1>1. TypeOK /\ SentinelInv /\ RunInv /\ PrioInv => DeadlockIsReal
  BY DEF RunInv, PrioInv, SentinelInv, DeadlockIsReal, Others
<1> QED
  BY <1>1, PrioAlways, PTL
=============================================================================
