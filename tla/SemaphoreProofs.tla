---------------------------- MODULE SemaphoreProofs ----------------------------
(***************************************************************************)
(* Theorems about Semaphores: what the lock of a semaphore protects, and   *)
(* where its units are, for every number of processes and semaphores.      *)
(***************************************************************************)
EXTENDS Semaphores, SequenceFacts, FiniteSetTheorems

Places == {"user"} \cup SemPlaces

SemTypes ==
    /\ use \in Uses
    /\ value \in [Sems -> Nat \cup {-1}] /\ capacity \in [Sems -> Nat \cup {-1}]
    /\ blocked \in [Sems -> [size : Nat, head : Procs \cup {Nobody}, tail : Procs \cup {Nobody}]]
    /\ nextSibling \in [Procs -> Procs \cup {Nobody}]
    /\ mutex \in [Sems -> Seq(Procs)] /\ tokens \in [Sems -> Nat]
    /\ givers \in [Sems -> Seq(Procs)] /\ takers \in [Sems -> Seq(Procs)]
    /\ at \in [Procs -> Places] /\ on \in [Procs -> Sems \cup {NoSem}]
    /\ holders \in [Sems -> SUBSET Procs] /\ crashed \in BOOLEAN

\* A process inside P or V works on a semaphore that was created.
OnInv == \A p \in Procs : /\ on[p] = NoSem <=> at[p] = "user"
                          /\ on[p] # NoSem => value[on[p]] >= 0

\* Who waits for the lock or has it is in its mailbox, once, and who has it is first.
LockOrder ==
    \A s \in Sems :
        /\ IsInjective(mutex[s])
        /\ Range(mutex[s]) = Placed(s, Locking \cup Locked)
        /\ \A p \in Placed(s, Locked) : Head(mutex[s]) = p

\* What a process saw when it had the lock is still so while it has it.
UnderLock ==
    /\ \A s \in Sems : value[s] > 0 => blocked[s].size = 0
    /\ \A p \in Procs :
        /\ at[p] = "P.pass"  => value[on[p]] > 0
        /\ at[p] = "P.block" => value[on[p]] = 0
        /\ at[p] = "V.pop"   => blocked[on[p]].size > 0
        /\ at[p] = "V.count" => blocked[on[p]].size = 0

\* Who waits at privMBoxID sleeps there, and is in one place of one list.
Waiters ==
    \A s \in Sems :
        /\ IsInjective(takers[s]) /\ Range(takers[s]) \subseteq Placed(s, {"P.sleep"})
        /\ IsInjective(givers[s]) /\ Range(givers[s]) \subseteq Placed(s, {"V.wait"})

\* Nothing has happened to a semaphore that was not created.
Fresh ==
    \A s \in Sems : value[s] = -1 =>
        blocked[s].size = 0 /\ tokens[s] = 0 /\ givers[s] = << >> /\ holders[s] = {}

\* Who is to count a unit, or to pass it on, no longer has it.
HandsOver == \A p \in Procs : at[p] \in {"V", "V.pop", "V.count"} => p \notin holders[on[p]]

Shape == SemTypes /\ OnInv /\ LockOrder /\ UnderLock /\ Waiters /\ Fresh /\ HandsOver

\* Each semaphore gets as many slots as it has units.
Fits == \A v \in Values : v <= MAXSLOTS

\* The uses that keep count of the units: locks and signals, and with interrupts off
\* inside the calls all others.
Ruled == use \in {"lock", "signal"} \/ (~Slices /\ Fits)

\* The uses in which only a process that has a unit gives one back.
Owned == use \in {"lock", "pool"}

\* A lock has one slot for a unit on its way; a signal has none, and one process alone
\* sends it.
Rules ==
    /\ use = "lock" => \A s \in Sems : value[s] >= 0 => capacity[s] = 1
    /\ use = "signal" =>
        /\ \A s \in Sems : (value[s] >= 0 => capacity[s] = 0) /\ tokens[s] = 0
        /\ \A p \in Procs : 
            at[p] \in {"V", "V.pop", "V.count", "V.give", "V.wait"} => p = Min(Procs)

\* No unit is in the count while another is on its way: P, which takes what it finds
\* in privMBoxID along with a unit of the count, finds nothing there.
Clear == Ruled => \A s \in Sems : value[s] > 0 => Coming(s) = 0

\* A unit is in one place.
UnitsKept == Owned /\ Ruled => \A s \in Sems : value[s] >= 0 =>
    value[s] + Coming(s) + Cardinality(WithUnit(s)) = capacity[s]

Sleeping(s) == Placed(s, {"P.take", "P.sleep"})
Sleepers == Ruled /\ ~crashed =>
    \A s \in Sems : Cardinality(Sleeping(s)) = blocked[s].size + Coming(s)

\* The places from which P and V go on without a stop when interrupts are off.
InCall == {"P", "P.block", "P.pass", "P.take", "P.again",
           "V", "V.pop", "V.count", "V.give", "V.again"}

\* With interrupts off, who is there is the one that runs, and nothing takes the
\* processor away from it.
Undisturbed == ~Slices => \A p \in Procs : at[p] \in InCall =>
    p = cur /\ ~preemptible /\ \A q \in Procs : Ready(q) => prio[p] <= prio[q]

\* Who sleeps in MboxRecv is in the list of the mailbox.
Queued == \A p \in Procs : at[p] = "P.sleep" => p \in Range(takers[on[p]])

\* With interrupts off, V finds the process it took off the list asleep: no unit waits
\* in a slot or in MboxSend.
HandedOver == ~Slices /\ Fits => \A s \in Sems :
    tokens[s] = 0 /\ givers[s] = << >> /\ (value[s] >= 0 => capacity[s] >= 0)

\* Who asks a pool for a unit has none.
Asking == {"P", "P.block", "P.pass", "P.take", "P.sleep"}
OneEach == use = "pool" => \A p \in Procs : at[p] \in Asking => p \notin holders[on[p]]

Calm == prio \in [Procs -> Int] /\ Undisturbed /\ Queued /\ HandedOver /\ OneEach

SemInv == Shape /\ Calm /\ Rules /\ Clear /\ UnitsKept /\ Sleepers

-----------------------------------------------------------------------------
(* Types.                                                                  *)

\* MboxRecv from privMBoxID: who is rid of its message is the first of those who wait.
LEMMA ReleasedType ==
    ASSUME SemTypes, NEW s \in Sems
    PROVE  /\ Released(s, at) \in [Procs -> Places]
           /\ givers[s] # << >> => Head(givers[s]) \in Procs /\ Tail(givers[s]) \in Seq(Procs)
<1>1. givers[s] \in Seq(Procs) /\ at \in [Procs -> Places]
  BY DEF SemTypes
<1>2. givers[s] # << >> => Head(givers[s]) \in Procs /\ Tail(givers[s]) \in Seq(Procs)
  BY <1>1, TailContents
<1>3. "V.sent" \in Places
  BY DEF Places, SemPlaces
<1> QED
  BY <1>1, <1>2, <1>3 DEF Released

LEMMA TakeMessageType ==
    ASSUME SemTypes, NEW s \in Sems, Message(s), TakeMessage(s)
    PROVE  tokens' \in [Sems -> Nat] /\ givers' \in [Sems -> Seq(Procs)]
<1>1. tokens \in [Sems -> Nat] /\ givers \in [Sems -> Seq(Procs)]
  BY DEF SemTypes
<1>2. CASE givers[s] # << >>
  <2>1. Tail(givers[s]) \in Seq(Procs)
    BY <1>2, ReleasedType
  <2> QED
    BY <1>1, <1>2, <2>1 DEF TakeMessage
<1>3. CASE givers[s] = << >>
  <2>1. tokens[s] > 0 /\ tokens' = [tokens EXCEPT ![s] = @ - 1] /\ givers' = givers
    BY <1>3 DEF TakeMessage, Message
  <2>2. tokens[s] \in Nat
    BY <1>1
  <2>3. tokens[s] - 1 \in Nat
    BY <2>1, <2>2
  <2> QED
    BY <1>1, <2>1, <2>3
<1> QED
  BY <1>2, <1>3

LEMMA SemTypesInit == Init => SemTypes
<1> SUFFICES ASSUME Init PROVE SemTypes
  OBVIOUS
<1>1. EmptyQueue \in [size : Nat, head : Procs \cup {Nobody}, tail : Procs \cup {Nobody}]
  BY DEF EmptyQueue
<1>2. blocked \in [Sems -> [size : Nat, head : Procs \cup {Nobody}, tail : Procs \cup {Nobody}]]
  BY <1>1 DEF Init
<1>3. << >> \in Seq(Procs) /\ "user" \in Places
  BY DEF Places
<1> QED
  BY <1>2, <1>3 DEF Init, SemTypes

LEMMA NewSem ==
    ASSUME SemTypes, FreeSems # {}
    PROVE  Min(FreeSems) \in Sems /\ value[Min(FreeSems)] = -1
<1>1. FreeSems \in SUBSET Nat
  BY SemAssumption DEF FreeSems, Sems
<1> QED
  BY <1>1, MinIn DEF FreeSems

\* A process inside P or V works on a semaphore.
LEMMA OnSem ==
    ASSUME SemTypes, OnInv, NEW p \in Procs, at[p] # "user"
    PROVE  on[p] \in Sems /\ value[on[p]] \in Nat
BY DEF SemTypes, OnInv, NoSem

LEMMA SemTypesStep == SemTypes /\ OnInv /\ LockOrder /\ UnderLock /\ [Next]_vars => SemTypes'
<1> SUFFICES ASSUME SemTypes, OnInv, LockOrder, UnderLock, [Next]_vars PROVE SemTypes'
  OBVIOUS
<1> USE DEF semTable, ghosts, Goto, Lock, Unlock, Return, Looks
<1> DEFINE Queues == [size : Nat, head : Procs \cup {Nobody}, tail : Procs \cup {Nobody}]
<1>a. /\ value \in [Sems -> Nat \cup {-1}] /\ capacity \in [Sems -> Nat \cup {-1}]
      /\ blocked \in [Sems -> Queues] /\ nextSibling \in [Procs -> Procs \cup {Nobody}]
      /\ mutex \in [Sems -> Seq(Procs)] /\ tokens \in [Sems -> Nat]
      /\ givers \in [Sems -> Seq(Procs)] /\ takers \in [Sems -> Seq(Procs)]
      /\ at \in [Procs -> Places] /\ on \in [Procs -> Sems \cup {NoSem}]
      /\ holders \in [Sems -> SUBSET Procs]
  BY DEF SemTypes
<1>h. holders \in [Sems -> SUBSET Procs]
  BY DEF SemTypes
<1>t. tokens \in [Sems -> Nat]
  BY DEF SemTypes
<1>o. at \in [Procs -> Places] /\ on \in [Procs -> Sems \cup {NoSem}]
  BY DEF SemTypes
<1>b. SemPlaces \subseteq Places /\ "user" \in Places
  BY DEF Places
<1>c. ASSUME NEW p \in Procs, at[p] # "user"
      PROVE  on[p] \in Sems /\ value[on[p]] \in Nat
  BY <1>c, OnSem
\* Who runs at a place where the lock is needed has it: it is not empty.
<1>d. ASSUME NEW p \in Procs, at[p] \in Locking \cup Locked
      PROVE  /\ on[p] \in Sems /\ mutex[on[p]] # << >>
             /\ [mutex EXCEPT ![on[p]] = Tail(@)] \in [Sems -> Seq(Procs)]
  <2>1. on[p] \in Sems
    BY <1>c, <1>d DEF Locking, Locked
  <2>2. p \in Range(mutex[on[p]])
    BY <1>d, <2>1 DEF LockOrder, Placed
  <2>3. mutex[on[p]] # << >>
    BY <2>2, EmptyContents
  <2>4. Tail(mutex[on[p]]) \in Seq(Procs)
    BY <1>a, <2>1, <2>3, TailContents
  <2> QED
    BY <1>a, <2>1, <2>3, <2>4
<1>1. ASSUME NEW p \in Procs, NEW v \in Values, SemCreate(p, v) PROVE SemTypes'
  <2> DEFINE s == Min(FreeSems)
  <2>1. s \in Sems /\ v \in Nat
    BY <1>1, NewSem, SemAssumption DEF SemCreate
  <2>2. /\ value' = [value EXCEPT ![s] = v]
        /\ capacity' = [capacity EXCEPT ![s] = IF v <= MAXSLOTS THEN v ELSE -1]
        /\ UNCHANGED <<use, blocked, nextSibling, mutex, tokens, givers, takers, at, on, ghosts>>
    BY <1>1 DEF SemCreate
  <2> HIDE DEF s
  <2>3. value' \in [Sems -> Nat \cup {-1}] /\ capacity' \in [Sems -> Nat \cup {-1}]
    BY <1>a, <2>1, <2>2
  <2> QED
    BY <2>2, <2>3 DEF SemTypes
<1>2. ASSUME NEW p \in Procs, NEW v \in Values, SemCreateFails(p, v) PROVE SemTypes'
  BY <1>2 DEF SemCreateFails, SemTypes
<1>3. ASSUME NEW p \in Procs, NEW s \in Sems, P(p, s) \/ V(p, s) PROVE SemTypes'
  <2>1. Append(mutex[s], p) \in Seq(Procs)
    BY <1>a, AppendContents
  <2>2. mutex' \in [Sems -> Seq(Procs)]
    BY <1>3, <1>a, <2>1 DEF P, V
  <2>3. at' \in [Procs -> Places]
    BY <1>3, <1>a, <1>b DEF P, V, SemPlaces, Locking
  <2>4. on' \in [Procs -> Sems \cup {NoSem}]
    BY <1>3, <1>a DEF P, V
  <2>5. holders' \in [Sems -> SUBSET Procs]
    <3>1. holders' = holders \/ holders' = [holders EXCEPT ![s] = holders[s] \ {p}]
      BY <1>3 DEF P, V
    <3>2. holders[s] \ {p} \in SUBSET Procs
      BY <1>h
    <3> QED
      BY <1>h, <3>1, <3>2
  <2> QED
    BY <1>3, <2>2, <2>3, <2>4, <2>5 DEF P, V, SemTypes
<1>4. ASSUME NEW p \in Procs, PTests(p) \/ VTests(p) PROVE SemTypes'
  <2>1. at' \in [Procs -> Places]
    BY <1>4, <1>a, <1>b DEF PTests, VTests, SemPlaces, Locked
  <2> QED
    BY <1>4, <2>1 DEF PTests, VTests, SemTypes
<1>5. ASSUME NEW p \in Procs, PBlocks(p) PROVE SemTypes'
  <2> DEFINE s == on[p]
  <2>1. s \in Sems /\ mutex' \in [Sems -> Seq(Procs)]
    BY <1>5, <1>d DEF PBlocks, Locked
  <2>2. blocked[s] \in Queues /\ Push(blocked[s], p) \in Queues
    BY <1>a, <2>1 DEF Push
  <2>3. blocked' \in [Sems -> Queues]
    BY <1>5, <1>a, <2>1, <2>2 DEF PBlocks
  <2>4. nextSibling' \in [Procs -> Procs \cup {Nobody}]
    BY <1>5, <1>a DEF PBlocks, Linked
  <2>5. at' \in [Procs -> Places]
    BY <1>5, <1>a, <1>b DEF PBlocks, SemPlaces
  <2> QED
    BY <1>5, <2>1, <2>3, <2>4, <2>5 DEF PBlocks, SemTypes
<1>6. ASSUME NEW p \in Procs, PTakes(p) PROVE SemTypes'
  <2> DEFINE s == on[p]
             here == IF Message(s) THEN Released(s, at) ELSE at
  <2>1. s \in Sems /\ mutex' \in [Sems -> Seq(Procs)] /\ value[s] \in Nat /\ value[s] > 0
    BY <1>6, <1>c, <1>d DEF PTakes, Locked, UnderLock
  <2>2. value' \in [Sems -> Nat \cup {-1}]
    BY <1>6, <1>a, <2>1 DEF PTakes
  <2>3. tokens' \in [Sems -> Nat] /\ givers' \in [Sems -> Seq(Procs)]
    BY <1>6, <1>a, <2>1, TakeMessageType DEF PTakes
  <2>4. here \in [Procs -> Places]
    BY <1>a, <2>1, ReleasedType
  <2>5. at' = [here EXCEPT ![p] = "user"]
    BY <1>6 DEF PTakes
  <2> HIDE DEF here
  <2>6. at' \in [Procs -> Places]
    BY <1>b, <2>4, <2>5
  <2>7. on' \in [Procs -> Sems \cup {NoSem}]
    BY <1>6, <1>a DEF PTakes
  <2>8. holders' \in [Sems -> SUBSET Procs]
    BY <1>6, <1>a DEF PTakes
  <2> QED
    BY <1>6, <2>1, <2>2, <2>3, <2>6, <2>7, <2>8 DEF PTakes, SemTypes
<1>7. ASSUME NEW p \in Procs, PReceives(p) PROVE SemTypes'
  <2> DEFINE s == on[p]
  <2>1. s \in Sems
    BY <1>7, <1>c DEF PReceives
  <2>2. "P.got" \in Places /\ "P.sleep" \in Places
    BY DEF Places, SemPlaces
  <2>3. tokens' \in [Sems -> Nat] /\ givers' \in [Sems -> Seq(Procs)]
    BY <1>7, <1>a, <2>1, TakeMessageType DEF PReceives
  <2>4. Append(takers[s], p) \in Seq(Procs)
    BY <1>a, <2>1, AppendContents
  <2>5. takers' \in [Sems -> Seq(Procs)]
    BY <1>7, <1>a, <2>1, <2>4 DEF PReceives
  <2>6. Released(s, at) \in [Procs -> Places]
    BY <2>1, ReleasedType
  <2>7. \/ at' = [Released(s, at) EXCEPT ![p] = "P.got"]
        \/ at' = [at EXCEPT ![p] = "P.sleep"]
        \/ at' = [at EXCEPT ![p] = "P.got"]
    BY <1>7 DEF PReceives
  <2>8. at' \in [Procs -> Places]
    BY <1>a, <2>2, <2>6, <2>7
  <2> QED
    BY <1>7, <2>3, <2>5, <2>8 DEF PReceives, SemTypes
<1>8. ASSUME NEW p \in Procs, PRelocks(p) \/ VRelocks(p) PROVE SemTypes'
  <2>1. on[p] \in Sems
    BY <1>8, <1>c DEF PRelocks, VRelocks
  <2>2. Append(mutex[on[p]], p) \in Seq(Procs)
    BY <1>a, <2>1, AppendContents
  <2>3. mutex' \in [Sems -> Seq(Procs)]
    BY <1>8, <1>a, <2>2 DEF PRelocks, VRelocks
  <2>4. at' \in [Procs -> Places]
    BY <1>8, <1>a, <1>b DEF PRelocks, VRelocks, SemPlaces, Locking
  <2> QED
    BY <1>8, <2>3, <2>4 DEF PRelocks, VRelocks, SemTypes
<1>9. ASSUME NEW p \in Procs, PReturns(p) \/ VReturns(p) PROVE SemTypes'
  <2>1. on[p] \in Sems /\ mutex' \in [Sems -> Seq(Procs)]
    BY <1>9, <1>d DEF PReturns, VReturns, Locking
  <2>2. /\ at' = [at EXCEPT ![p] = "user"] /\ on' = [on EXCEPT ![p] = NoSem]
        /\ holders' = holders \/ holders' = [holders EXCEPT ![on[p]] = holders[on[p]] \cup {p}]
    BY <1>9 DEF PReturns, VReturns
  <2>3. at' \in [Procs -> Places] /\ on' \in [Procs -> Sems \cup {NoSem}]
    BY <1>o, <1>b, <2>2
  <2>4. holders[on[p]] \cup {p} \in SUBSET Procs
    BY <1>h, <2>1
  <2>5. holders' \in [Sems -> SUBSET Procs]
    BY <1>h, <2>2, <2>4
  <2> QED
    BY <1>9, <2>1, <2>2, <2>3, <2>5 DEF PReturns, VReturns, SemTypes
<1>10. ASSUME NEW p \in Procs, VPops(p) PROVE SemTypes'
  <2> DEFINE s == on[p]
  <2>1. s \in Sems /\ mutex' \in [Sems -> Seq(Procs)] /\ blocked[s].size > 0
    BY <1>10, <1>d DEF VPops, Locked, UnderLock
  <2>2. blocked[s] \in Queues
    BY <1>a, <2>1
  <2>3. blocked[s].head # Nobody => Pop(blocked[s]) \in Queues
    <3>1. ASSUME blocked[s].head # Nobody PROVE nextSibling[blocked[s].head] \in Procs \cup {Nobody}
      BY <1>a, <2>2, <3>1
    <3>2. blocked[s].size - 1 \in Nat
      BY <2>1, <2>2
    <3> QED
      BY <2>2, <3>1, <3>2 DEF Pop
  <2>4. blocked' \in [Sems -> Queues]
    BY <1>10, <1>a, <2>1, <2>3 DEF VPops
  <2>5. at' \in [Procs -> Places]
    BY <1>10, <1>a, <1>b DEF VPops, SemPlaces
  <2>6. crashed' \in BOOLEAN
    BY <1>10 DEF VPops, SemTypes
  <2> QED
    BY <1>10, <2>1, <2>4, <2>5, <2>6 DEF VPops, SemTypes
<1>11. ASSUME NEW p \in Procs, VCounts(p) PROVE SemTypes'
  <2>1. on[p] \in Sems /\ mutex' \in [Sems -> Seq(Procs)] /\ value[on[p]] \in Nat
    BY <1>11, <1>c, <1>d DEF VCounts, Locked
  <2>2. value' \in [Sems -> Nat \cup {-1}]
    BY <1>11, <1>a, <2>1 DEF VCounts
  <2>3. at' \in [Procs -> Places] /\ on' \in [Procs -> Sems \cup {NoSem}]
    BY <1>11, <1>a, <1>b DEF VCounts
  <2> QED
    BY <1>11, <2>1, <2>2, <2>3 DEF VCounts, SemTypes
<1>12. ASSUME NEW p \in Procs, VGives(p) PROVE SemTypes'
  <2> DEFINE s == on[p]
  <2>1. s \in Sems
    BY <1>12, <1>c DEF VGives
  <2>2. {"P.got", "V.sent", "V.wait"} \subseteq Places
    BY DEF Places, SemPlaces
  <2>3. Append(givers[s], p) \in Seq(Procs) /\ (takers[s] # << >> => Tail(takers[s]) \in Seq(Procs))
    BY <1>a, <2>1, AppendContents, TailContents
  <2>4. tokens[s] \in Nat
    BY <1>a, <2>1
  <2>5. at' \in [Procs -> Places]
    BY <1>12, <1>a, <2>2 DEF VGives
  <2>6. tokens' \in [Sems -> Nat]
    <3>1. tokens' = tokens \/ tokens' = [tokens EXCEPT ![s] = tokens[s] + 1]
      BY <1>12 DEF VGives
    <3> QED
      BY <1>t, <2>4, <3>1
  <2>7. givers' \in [Sems -> Seq(Procs)] /\ takers' \in [Sems -> Seq(Procs)]
    <3>1. /\ givers' = givers \/ givers' = [givers EXCEPT ![s] = Append(givers[s], p)]
          /\ takers' = takers \/ (takers[s] # << >> /\ takers' = [takers EXCEPT ![s] = Tail(takers[s])])
      BY <1>12 DEF VGives
    <3>2. givers \in [Sems -> Seq(Procs)] /\ takers \in [Sems -> Seq(Procs)]
      BY <1>a
    <3>3. givers' \in [Sems -> Seq(Procs)]
      BY <2>3, <3>1, <3>2
    <3>4. takers' \in [Sems -> Seq(Procs)]
      BY <2>3, <3>1, <3>2
    <3> QED
      BY <3>3, <3>4
  <2> QED
    BY <1>12, <2>5, <2>6, <2>7 DEF VGives, SemTypes
<1>13. CASE UNCHANGED vars
  BY <1>13 DEF vars, SemTypes
<1> QED
  BY <1>1, <1>2, <1>3, <1>4, <1>5, <1>6, <1>7, <1>8, <1>9, <1>10, <1>11, <1>12, <1>13
     DEF Next, SemCall, SemStep

-----------------------------------------------------------------------------
(* What a step of one process does to the places of the others, and to the *)
(* lock.                                                                   *)

Step(p) == SemCall(p) \/ SemStep(p)
LockPlaces == Locking \cup Locked

\* Who is rid of its message was in MboxSend.
LEMMA ReleasedIs ==
    ASSUME SemTypes, Waiters, NEW s \in Sems
    PROVE  \A q \in Procs :
              \/ Released(s, at)[q] = at[q]
              \/ /\ givers[s] # << >> /\ q = Head(givers[s]) /\ on[q] = s
                 /\ at[q] = "V.wait" /\ Released(s, at)[q] = "V.sent"
<1>1. givers[s] \in Seq(Procs) /\ at \in [Procs -> Places]
  BY DEF SemTypes
<1>2. CASE givers[s] = << >>
  BY <1>2 DEF Released
<1>3. CASE givers[s] # << >>
  <2>1. Head(givers[s]) \in Procs /\ Head(givers[s]) \in Range(givers[s])
    BY <1>1, <1>3, TailContents
  <2>2. on[Head(givers[s])] = s /\ at[Head(givers[s])] = "V.wait"
    BY <2>1 DEF Waiters, Placed
  <2> QED
    BY <1>1, <1>3, <2>1, <2>2 DEF Released
<1> QED
  BY <1>2, <1>3

\* Who is served in MboxRecv was asleep there.
LEMMA ServedIs ==
    ASSUME SemTypes, Waiters, NEW s \in Sems, takers[s] # << >>
    PROVE  Head(takers[s]) \in Procs /\ on[Head(takers[s])] = s /\ at[Head(takers[s])] = "P.sleep"
<1>1. takers[s] \in Seq(Procs)
  BY DEF SemTypes
<1>2. Head(takers[s]) \in Procs /\ Head(takers[s]) \in Range(takers[s])
  BY <1>1, TailContents
<1> QED
  BY <1>2 DEF Waiters, Placed

\* The others stay where they are, unless they get out of a call to privMBoxID.
Served(p, q) ==
    /\ at[p] = "V.give" /\ takers[on[p]] # << >> /\ q = Head(takers[on[p]])
    /\ at[q] = "P.sleep" /\ at'[q] = "P.got"

LEMMA OthersStay ==
    ASSUME SemTypes, OnInv, Waiters, NEW p \in Procs, Step(p)
    PROVE  \A q \in Procs \ {p} :
              /\ on'[q] = on[q]
              /\ \/ at'[q] = at[q]
                 \/ Served(p, q)
                 \/ at[q] = "V.wait" /\ at'[q] = "V.sent"
<1> SUFFICES ASSUME NEW q \in Procs \ {p}
             PROVE  /\ on'[q] = on[q]
                    /\ \/ at'[q] = at[q]
                       \/ Served(p, q)
                       \/ at[q] = "V.wait" /\ at'[q] = "V.sent"
  OBVIOUS
<1> USE DEF Goto, Lock, Return, Looks
<1>a. /\ at \in [Procs -> Places] /\ on \in [Procs -> Sems \cup {NoSem}]
      /\ at[p] # "user" => on[p] \in Sems
  BY OnSem DEF SemTypes
<1>1. CASE \E v \in Values : SemCreate(p, v) \/ SemCreateFails(p, v)
  BY <1>1 DEF SemCreate, SemCreateFails
<1>2. CASE \E s \in Sems : P(p, s) \/ V(p, s)
  BY <1>2, <1>a DEF P, V
<1>3. CASE PTests(p) \/ VTests(p)
  BY <1>3, <1>a DEF PTests, VTests
<1>4. CASE PBlocks(p) \/ VPops(p)
  BY <1>4, <1>a DEF PBlocks, VPops
<1>5. CASE PRelocks(p) \/ VRelocks(p)
  BY <1>5, <1>a DEF PRelocks, VRelocks
<1>6. CASE PReturns(p) \/ VReturns(p) \/ VCounts(p)
  <2>1. at' = [at EXCEPT ![p] = "user"] /\ on' = [on EXCEPT ![p] = NoSem]
    BY <1>6 DEF PReturns, VReturns, VCounts
  <2> QED
    BY <1>a, <2>1
<1>7. CASE PTakes(p)
  <2> DEFINE here == IF Message(on[p]) THEN Released(on[p], at) ELSE at
  <2>1. on[p] \in Sems /\ on' = [on EXCEPT ![p] = NoSem] /\ at' = [here EXCEPT ![p] = "user"]
    BY <1>7, <1>a DEF PTakes
  <2>2. here \in [Procs -> Places]
    BY <1>a, <2>1, ReleasedType
  <2>3. here[q] = at[q] \/ (at[q] = "V.wait" /\ here[q] = "V.sent")
    BY <2>1, ReleasedIs
  <2> HIDE DEF here
  <2> QED
    BY <1>a, <2>1, <2>2, <2>3
<1>8. CASE PReceives(p)
  <2>1. on[p] \in Sems /\ on' = on
    BY <1>8, <1>a DEF PReceives
  <2>2. Released(on[p], at) \in [Procs -> Places]
    BY <2>1, ReleasedType
  <2>3. Released(on[p], at)[q] = at[q] \/ (at[q] = "V.wait" /\ Released(on[p], at)[q] = "V.sent")
    BY <2>1, ReleasedIs
  <2>4. \/ at' = [Released(on[p], at) EXCEPT ![p] = "P.got"]
        \/ at' = [at EXCEPT ![p] = "P.sleep"]
        \/ at' = [at EXCEPT ![p] = "P.got"]
    BY <1>8 DEF PReceives
  <2> QED
    BY <1>a, <2>1, <2>2, <2>3, <2>4
<1>9. CASE VGives(p)
  <2> DEFINE t == Head(takers[on[p]])
  <2>1. on[p] \in Sems /\ on' = on
    BY <1>9, <1>a DEF VGives
  <2>2. \/ takers[on[p]] # << >> /\ at' = [at EXCEPT ![t] = "P.got", ![p] = "V.sent"]
        \/ at' = [at EXCEPT ![p] = "V.sent"]
        \/ at' = [at EXCEPT ![p] = "V.wait"]
    BY <1>9 DEF VGives
  <2>3. takers[on[p]] # << >> => at[t] = "P.sleep"
    BY <2>1, ServedIs
  <2>4. at[p] = "V.give"
    BY <1>9 DEF VGives
  <2> QED
    BY <1>a, <2>1, <2>2, <2>3, <2>4 DEF Served
<1> QED
  BY <1>1, <1>2, <1>3, <1>4, <1>5, <1>6, <1>7, <1>8, <1>9 DEF Step, SemCall, SemStep

\* The mailbox that serves as the lock: p joins it, looks at what the lock protects,
\* leaves it, or has nothing to do with it.
Joins(p, s) ==
    /\ at[p] \notin LockPlaces /\ at'[p] \in Locking /\ on'[p] = s
    /\ at[p] # "user" => on[p] = s
    /\ mutex' = [mutex EXCEPT ![s] = Append(@, p)]
HasFirst(p) == on[p] \in Sems /\ Head(mutex[on[p]]) = p
LooksOn(p) ==
    /\ at[p] \in Locking /\ at'[p] \in Locked /\ HasFirst(p)
    /\ on'[p] = on[p] /\ mutex' = mutex
Leaves(p) ==
    /\ at[p] \in LockPlaces /\ HasFirst(p) /\ at'[p] \notin LockPlaces
    /\ mutex' = [mutex EXCEPT ![on[p]] = Tail(@)]
Elsewhere(p) == at[p] \notin LockPlaces /\ at'[p] \notin LockPlaces /\ mutex' = mutex

LEMMA LockMoves ==
    ASSUME SemTypes, OnInv, LockOrder, NEW p \in Procs, Step(p)
    PROVE  (\E s \in Sems : Joins(p, s)) \/ LooksOn(p) \/ Leaves(p) \/ Elsewhere(p)
<1> USE DEF Goto, Lock, Unlock, Return, Looks
<1>a. /\ at \in [Procs -> Places] /\ on \in [Procs -> Sems \cup {NoSem}]
      /\ at[p] # "user" => on[p] \in Sems
  BY OnSem DEF SemTypes
<1>b. ASSUME at[p] \in Locked PROVE HasFirst(p)
  <2>1. on[p] \in Sems
    BY <1>a, <1>b DEF Locked
  <2>2. p \in Placed(on[p], Locked)
    BY <1>b DEF Placed
  <2> QED
    BY <2>1, <2>2 DEF LockOrder, HasFirst
<1>c. ASSUME at[p] \in Locking, Runs(p) PROVE HasFirst(p)
  BY <1>a, <1>c DEF Locking, HasFirst, Runs, Ready
<1>d. "user" \notin LockPlaces
  BY DEF LockPlaces, Locking, Locked
<1>1. CASE \E v \in Values : SemCreate(p, v) \/ SemCreateFails(p, v)
  BY <1>1, <1>d DEF SemCreate, SemCreateFails, Elsewhere, semTable
<1>2. ASSUME NEW s \in Sems, P(p, s) \/ V(p, s) PROVE Joins(p, s)
  <2>1. /\ at[p] = "user" /\ (at' = [at EXCEPT ![p] = "P"] \/ at' = [at EXCEPT ![p] = "V"])
        /\ on' = [on EXCEPT ![p] = s] /\ mutex' = [mutex EXCEPT ![s] = Append(@, p)]
    BY <1>2 DEF P, V
  <2>2. at'[p] \in Locking /\ on'[p] = s
    BY <1>a, <2>1 DEF Locking
  <2> QED
    BY <1>d, <2>1, <2>2 DEF Joins
<1>3. CASE PTests(p) \/ VTests(p)
  <2>1. at[p] \in Locking /\ at'[p] \in Locked
    BY <1>3, <1>a DEF PTests, VTests, Locking, Locked
  <2>2. HasFirst(p)
    BY <1>3, <1>c, <2>1 DEF PTests, VTests
  <2> QED
    BY <1>3, <2>1, <2>2 DEF PTests, VTests, LooksOn, semTable
<1>4. CASE PBlocks(p) \/ VPops(p)
  <2>1. at[p] \in Locked /\ at'[p] \notin LockPlaces
    BY <1>4, <1>a DEF PBlocks, VPops, LockPlaces, Locking, Locked
  <2>2. HasFirst(p)
    BY <1>b, <2>1
  <2> QED
    BY <1>4, <2>1, <2>2 DEF PBlocks, VPops, Leaves, LockPlaces
<1>5. CASE PRelocks(p) \/ VRelocks(p)
  <2>1. at[p] \notin LockPlaces /\ at'[p] \in Locking
    BY <1>5, <1>a DEF PRelocks, VRelocks, LockPlaces, Locking, Locked
  <2>2. on[p] \in Sems /\ on' = on
    BY <1>5, <1>a DEF PRelocks, VRelocks
  <2> QED
    BY <1>5, <2>1, <2>2 DEF PRelocks, VRelocks, Joins
<1>6. CASE PReturns(p) \/ VReturns(p)
  <2>1. at[p] \in Locking /\ at'[p] \notin LockPlaces
    BY <1>6, <1>a, <1>d DEF PReturns, VReturns, Locking
  <2>2. HasFirst(p)
    BY <1>6, <1>c, <2>1 DEF PReturns, VReturns
  <2> QED
    BY <1>6, <2>1, <2>2 DEF PReturns, VReturns, Leaves, LockPlaces
<1>7. CASE VCounts(p)
  <2>1. at[p] \in Locked /\ at'[p] \notin LockPlaces
    BY <1>7, <1>a, <1>d DEF VCounts, Locked
  <2>2. HasFirst(p)
    BY <1>b, <2>1
  <2> QED
    BY <1>7, <2>1, <2>2 DEF VCounts, Leaves, LockPlaces
<1>8. CASE PTakes(p)
  <2> DEFINE here == IF Message(on[p]) THEN Released(on[p], at) ELSE at
  <2>1. at[p] \in Locked /\ at' = [here EXCEPT ![p] = "user"]
    BY <1>8 DEF PTakes, Locked
  <2>2. on[p] \in Sems /\ HasFirst(p)
    BY <1>b, <2>1 DEF HasFirst
  <2>3. here \in [Procs -> Places]
    BY <1>a, <2>2, ReleasedType
  <2> HIDE DEF here
  <2>4. at'[p] = "user"
    BY <2>1, <2>3
  <2> QED
    BY <1>8, <1>d, <2>1, <2>2, <2>4 DEF PTakes, Leaves, LockPlaces
<1>9. CASE PReceives(p)
  <2>1. at[p] = "P.take" /\ on[p] \in Sems /\ mutex' = mutex
    BY <1>9, <1>a DEF PReceives
  <2>2. Released(on[p], at) \in [Procs -> Places]
    BY <2>1, ReleasedType
  <2>3. \/ at' = [Released(on[p], at) EXCEPT ![p] = "P.got"]
        \/ at' = [at EXCEPT ![p] = "P.sleep"]
        \/ at' = [at EXCEPT ![p] = "P.got"]
    BY <1>9 DEF PReceives
  <2>4. at'[p] \in {"P.got", "P.sleep"}
    BY <1>a, <2>2, <2>3
  <2> QED
    BY <2>1, <2>4 DEF Elsewhere, LockPlaces, Locking, Locked
<1>10. CASE VGives(p)
  <2>1. at[p] = "V.give" /\ mutex' = mutex
    BY <1>10 DEF VGives
  <2>2. \/ at' = [at EXCEPT ![Head(takers[on[p]])] = "P.got", ![p] = "V.sent"]
        \/ at' = [at EXCEPT ![p] = "V.sent"]
        \/ at' = [at EXCEPT ![p] = "V.wait"]
    BY <1>10 DEF VGives
  <2>3. at'[p] \in {"V.sent", "V.wait"}
    BY <1>a, <2>2
  <2> QED
    BY <2>1, <2>3 DEF Elsewhere, LockPlaces, Locking, Locked
<1> QED
  BY <1>1, <1>2, <1>3, <1>4, <1>5, <1>6, <1>7, <1>8, <1>9, <1>10 DEF Step, SemCall, SemStep

-----------------------------------------------------------------------------
(* The lock has one owner, and what it protects stays as it was seen.      *)

\* What changes of the count and of the list, changes under the lock.
LEMMA Protected ==
    ASSUME SemTypes, OnInv, Fresh, NEW p \in Procs, Step(p)
    PROVE  \A r \in Sems :
              \/ value'[r] = value[r] /\ blocked'[r].size = blocked[r].size
              \/ r = on[p] /\ at[p] \in Locked
              \/ value[r] = -1 /\ value'[r] \in Nat /\ blocked'[r].size = 0
<1> SUFFICES ASSUME NEW r \in Sems
             PROVE  \/ value'[r] = value[r] /\ blocked'[r].size = blocked[r].size
                    \/ r = on[p] /\ at[p] \in Locked
                    \/ value[r] = -1 /\ value'[r] \in Nat /\ blocked'[r].size = 0
  OBVIOUS
<1>a. value \in [Sems -> Nat \cup {-1}] /\ DOMAIN blocked = Sems
  BY DEF SemTypes
<1> USE DEF semTable, Looks
<1>1. ASSUME NEW v \in Values, SemCreate(p, v)
      PROVE  \/ value'[r] = value[r] /\ blocked' = blocked
             \/ value[r] = -1 /\ value'[r] \in Nat /\ blocked' = blocked
  <2> DEFINE s == Min(FreeSems)
  <2>1. s \in Sems /\ value[s] = -1 /\ v \in Nat
    BY <1>1, NewSem, SemAssumption DEF SemCreate
  <2>2. value' = [value EXCEPT ![s] = v] /\ blocked' = blocked
    BY <1>1 DEF SemCreate
  <2> HIDE DEF s
  <2> QED
    BY <1>a, <2>1, <2>2
<1>2. CASE \E v \in Values : SemCreate(p, v)
  BY <1>1, <1>2 DEF Fresh
<1>3. CASE PBlocks(p) \/ PTakes(p) \/ VPops(p) \/ VCounts(p)
  <2>1. at[p] \in Locked
    BY <1>3 DEF PBlocks, PTakes, VPops, VCounts, Locked
  <2>2. r # on[p] => value'[r] = value[r] /\ blocked'[r] = blocked[r]
    BY <1>3, <1>a DEF PBlocks, PTakes, VPops, VCounts
  <2> QED
    BY <2>1, <2>2
<1>4. CASE \/ (\E v \in Values : SemCreateFails(p, v)) \/ (\E s \in Sems : P(p, s) \/ V(p, s))
           \/ PTests(p) \/ PReceives(p) \/ PRelocks(p) \/ PReturns(p)
           \/ VTests(p) \/ VGives(p) \/ VRelocks(p) \/ VReturns(p)
  BY <1>4 DEF SemCreateFails, P, V, PTests, PReceives, PRelocks, PReturns, VTests, VGives,
              VRelocks, VReturns
<1> QED
  BY <1>2, <1>3, <1>4 DEF Step, SemCall, SemStep

\* Where the mover itself is.
LEMMA MoverOn ==
    ASSUME SemTypes, OnInv, NEW p \in Procs, Step(p)
    PROVE  /\ on'[p] = NoSem <=> at'[p] = "user"
           /\ on'[p] # NoSem => /\ on'[p] \in Sems /\ value[on'[p]] \in Nat
                                /\ on'[p] = on[p] \/ at[p] = "user"
<1> USE DEF Goto, Lock, Unlock, Return, Looks, semTable
<1>a. /\ at \in [Procs -> Places] /\ on \in [Procs -> Sems \cup {NoSem}]
      /\ at[p] # "user" => on[p] \in Sems /\ value[on[p]] \in Nat
      /\ value \in [Sems -> Nat \cup {-1}] /\ NoSem \notin Sems
  <2>1. at[p] # "user" => on[p] \in Sems /\ value[on[p]] \in Nat
    BY OnSem
  <2>2. NoSem \notin Sems
    BY DEF NoSem, Sems
  <2> QED
    BY <2>1, <2>2 DEF SemTypes
<1>1. CASE \E v \in Values : SemCreate(p, v) \/ SemCreateFails(p, v)
  BY <1>1, <1>a DEF SemCreate, SemCreateFails, OnInv
<1>2. CASE \E s \in Sems : P(p, s) \/ V(p, s)
  <2>1. PICK s \in Sems : P(p, s) \/ V(p, s)
    BY <1>2
  <2>2. /\ at[p] = "user" /\ value[s] >= 0 /\ on' = [on EXCEPT ![p] = s]
        /\ at' = [at EXCEPT ![p] = "P"] \/ at' = [at EXCEPT ![p] = "V"]
    BY <2>1 DEF P, V
  <2>3. on'[p] = s /\ at'[p] # "user"
    BY <1>a, <2>2
  <2> QED
    BY <1>a, <2>2, <2>3
<1>3. CASE PTests(p) \/ VTests(p)
  BY <1>3, <1>a DEF PTests, VTests
<1>4. CASE PBlocks(p) \/ VPops(p) \/ PRelocks(p) \/ VRelocks(p)
  BY <1>4, <1>a DEF PBlocks, VPops, PRelocks, VRelocks
<1>5. CASE PReturns(p) \/ VReturns(p) \/ VCounts(p)
  <2>1. at' = [at EXCEPT ![p] = "user"] /\ on' = [on EXCEPT ![p] = NoSem]
    BY <1>5 DEF PReturns, VReturns, VCounts
  <2> QED
    BY <1>a, <2>1
<1>6. CASE PTakes(p)
  <2> DEFINE here == IF Message(on[p]) THEN Released(on[p], at) ELSE at
  <2>1. on[p] \in Sems /\ on' = [on EXCEPT ![p] = NoSem] /\ at' = [here EXCEPT ![p] = "user"]
    BY <1>6, <1>a DEF PTakes
  <2>2. here \in [Procs -> Places]
    BY <1>a, <2>1, ReleasedType
  <2> HIDE DEF here
  <2> QED
    BY <1>a, <2>1, <2>2
<1>7. CASE PReceives(p)
  <2>1. on[p] \in Sems /\ value[on[p]] \in Nat /\ on' = on
    BY <1>7, <1>a DEF PReceives
  <2>2. Released(on[p], at) \in [Procs -> Places]
    BY <2>1, ReleasedType
  <2>3. \/ at' = [Released(on[p], at) EXCEPT ![p] = "P.got"]
        \/ at' = [at EXCEPT ![p] = "P.sleep"]
        \/ at' = [at EXCEPT ![p] = "P.got"]
    BY <1>7 DEF PReceives
  <2>4. at'[p] \in {"P.got", "P.sleep"}
    BY <1>a, <2>2, <2>3
  <2> QED
    BY <1>a, <2>1, <2>4
<1>8. CASE VGives(p)
  <2>1. on[p] \in Sems /\ value[on[p]] \in Nat /\ on' = on
    BY <1>8, <1>a DEF VGives
  <2>2. \/ at' = [at EXCEPT ![Head(takers[on[p]])] = "P.got", ![p] = "V.sent"]
        \/ at' = [at EXCEPT ![p] = "V.sent"]
        \/ at' = [at EXCEPT ![p] = "V.wait"]
    BY <1>8 DEF VGives
  <2>3. at'[p] \in {"V.sent", "V.wait"}
    BY <1>a, <2>2
  <2> QED
    BY <1>a, <2>1, <2>3
<1> QED
  BY <1>1, <1>2, <1>3, <1>4, <1>5, <1>6, <1>7, <1>8 DEF Step, SemCall, SemStep

\* A semaphore that was created stays, and P never takes a unit that is not there.
LEMMA CreatedStay ==
    ASSUME SemTypes, SemTypes', OnInv, Fresh, UnderLock, NEW p \in Procs, Step(p)
    PROVE  \A r \in Sems : value[r] >= 0 => value'[r] >= 0
<1> SUFFICES ASSUME NEW r \in Sems, value[r] >= 0 PROVE value'[r] >= 0
  OBVIOUS
<1>1. value[r] \in Nat /\ value'[r] \in Nat \cup {-1}
  BY DEF SemTypes
<1>2. CASE value'[r] = value[r]
  BY <1>1, <1>2
<1>3. CASE r = on[p] /\ at[p] \in Locked
  <2>1. PBlocks(p) \/ VPops(p) => value' = value
    BY DEF PBlocks, VPops
  <2>2. value'[r] = value[r] \/ value'[r] = value[r] + 1 
        \/ (value'[r] = value[r] - 1 /\ value[r] > 0)
    <3>1. PTakes(p) => value'[r] = value[r] - 1 /\ value[r] > 0
      BY <1>3 DEF PTakes, UnderLock, SemTypes
    <3>2. VCounts(p) => value'[r] = value[r] + 1
      BY <1>3 DEF VCounts, SemTypes
    <3>3. PBlocks(p) \/ VPops(p) \/ PTakes(p) \/ VCounts(p)
      BY <1>3 DEF Step, SemCall, SemStep, SemCreate, SemCreateFails, P, V, PTests, PReceives,
            PRelocks, PReturns, VTests, VGives, VRelocks, VReturns, Locked
    <3> QED
      BY <2>1, <3>1, <3>2, <3>3
  <2> QED
    BY <1>1, <2>2
<1> QED
  BY <1>1, <1>2, <1>3, Protected

LEMMA OnStep ==
    ASSUME SemTypes, SemTypes', OnInv, Waiters, Fresh, UnderLock, NEW p \in Procs, Step(p)
    PROVE  OnInv'
<1>1. \A r \in Sems : value[r] >= 0 => value'[r] >= 0
  BY CreatedStay
<1>2. ASSUME NEW q \in Procs \ {p}
      PROVE  (on'[q] = NoSem <=> at'[q] = "user") /\ (on'[q] # NoSem => value'[on'[q]] >= 0)
  <2>1. /\ on'[q] = on[q] /\ (on[q] = NoSem <=> at[q] = "user")
        /\ at'[q] = "user" <=> at[q] = "user"
    BY OthersStay DEF OnInv, Served
  <2>2. on[q] # NoSem => on[q] \in Sems /\ value[on[q]] >= 0
    BY DEF OnInv, SemTypes
  <2> QED
    BY <1>1, <2>1, <2>2
<1>3. (on'[p] = NoSem <=> at'[p] = "user") /\ (on'[p] # NoSem => value'[on'[p]] >= 0)
  BY <1>1, MoverOn
<1> QED
  BY <1>2, <1>3 DEF OnInv

LEMMA LockOrderStep ==
    ASSUME SemTypes, SemTypes', OnInv, LockOrder, Waiters, NEW p \in Procs, Step(p)
    PROVE  LockOrder'
<1> SUFFICES ASSUME NEW r \in Sems
             PROVE  /\ IsInjective(mutex'[r])
                    /\ Range(mutex'[r]) = Placed(r, LockPlaces)'
                    /\ \A q \in Placed(r, Locked)' : Head(mutex'[r]) = q
  BY DEF LockOrder, LockPlaces
<1>a. mutex \in [Sems -> Seq(Procs)] /\ mutex[r] \in Seq(Procs)
  BY DEF SemTypes
<1>b. /\ IsInjective(mutex[r])
      /\ \A q \in Procs : q \in Range(mutex[r]) <=> on[q] = r /\ at[q] \in LockPlaces
      /\ \A q \in Procs : on[q] = r /\ at[q] \in Locked => Head(mutex[r]) = q
      /\ Range(mutex[r]) \subseteq Procs
  BY DEF LockOrder, Placed, LockPlaces
<1>c. \A q \in Procs \ {p} : /\ on'[q] = on[q]
                             /\ at'[q] \in LockPlaces <=> at[q] \in LockPlaces
                             /\ at'[q] \in Locked <=> at[q] \in Locked
  BY OthersStay DEF LockPlaces, Locking, Locked, Served
<1>d. Locking \cap Locked = {} /\ LockPlaces = Locking \cup Locked
  BY DEF LockPlaces, Locking, Locked
<1>e. "user" \notin LockPlaces /\ NoSem \notin Sems
  BY DEF LockPlaces, Locking, Locked, NoSem, Sems
\* It is enough to say who is in the mailbox, process by process.
<1>f. ASSUME /\ IsInjective(mutex'[r]) /\ Range(mutex'[r]) \subseteq Procs
             /\ \A q \in Procs : q \in Range(mutex'[r]) <=> on'[q] = r /\ at'[q] \in LockPlaces
             /\ \A q \in Procs : on'[q] = r /\ at'[q] \in Locked => Head(mutex'[r]) = q
      PROVE  /\ IsInjective(mutex'[r])
             /\ Range(mutex'[r]) = Placed(r, LockPlaces)'
             /\ \A q \in Placed(r, Locked)' : Head(mutex'[r]) = q
  BY <1>f DEF Placed
<1>1. ASSUME NEW s \in Sems, Joins(p, s), s = r
      PROVE  /\ IsInjective(mutex'[r]) /\ Range(mutex'[r]) \subseteq Procs
             /\ \A q \in Procs : q \in Range(mutex'[r]) <=> on'[q] = r /\ at'[q] \in LockPlaces
             /\ \A q \in Procs : on'[q] = r /\ at'[q] \in Locked => Head(mutex'[r]) = q
  <2>1. mutex'[r] = Append(mutex[r], p) /\ at[p] \notin LockPlaces /\ at'[p] \in Locking /\ on'[p] = r
    BY <1>1, <1>a DEF Joins
  <2>2. p \notin Range(mutex[r])
    BY <1>b, <2>1
  <2>3. /\ IsInjective(mutex'[r]) /\ Range(mutex'[r]) = Range(mutex[r]) \cup {p}
        /\ Head(mutex'[r]) = IF mutex[r] = << >> THEN p ELSE Head(mutex[r])
    BY <1>a, <1>b, <2>1, <2>2, AppendContents
  <2>4. ASSUME NEW q \in Procs, on'[q] = r, at'[q] \in Locked PROVE Head(mutex'[r]) = q
    <3>1. q # p
      BY <1>d, <2>1, <2>4
    <3>2. on[q] = r /\ at[q] \in Locked
      BY <1>c, <2>4, <3>1
    <3>3. q \in Range(mutex[r]) /\ Head(mutex[r]) = q
      BY <1>b, <1>d, <3>2
    <3>4. mutex[r] # << >>
      BY <3>3, EmptyContents
    <3> QED
      BY <2>3, <3>3, <3>4
  <2>5. \A q \in Procs : q \in Range(mutex'[r]) <=> on'[q] = r /\ at'[q] \in LockPlaces
    BY <1>b, <1>c, <1>d, <2>1, <2>3
  <2> QED
    BY <1>b, <2>3, <2>4, <2>5
\* Another semaphore keeps its mailbox, and its processes their places.
<1>2. ASSUME mutex'[r] = mutex[r], 
             on'[p] = r /\ at'[p] \in LockPlaces <=> on[p] = r /\ at[p] \in LockPlaces,
             on'[p] = r /\ at'[p] \in Locked => Head(mutex[r]) = p
      PROVE  /\ IsInjective(mutex'[r]) /\ Range(mutex'[r]) \subseteq Procs
             /\ \A q \in Procs : q \in Range(mutex'[r]) <=> on'[q] = r /\ at'[q] \in LockPlaces
             /\ \A q \in Procs : on'[q] = r /\ at'[q] \in Locked => Head(mutex'[r]) = q
  BY <1>b, <1>c, <1>2
<1>3. ASSUME Leaves(p), on[p] = r
      PROVE  /\ IsInjective(mutex'[r]) /\ Range(mutex'[r]) \subseteq Procs
             /\ \A q \in Procs : q \in Range(mutex'[r]) <=> on'[q] = r /\ at'[q] \in LockPlaces
             /\ \A q \in Procs : on'[q] = r /\ at'[q] \in Locked => Head(mutex'[r]) = q
  <2>1. /\ mutex'[r] = Tail(mutex[r]) /\ at[p] \in LockPlaces /\ at'[p] \notin LockPlaces
        /\ Head(mutex[r]) = p /\ p \in Range(mutex[r])
    BY <1>3, <1>a, <1>b DEF Leaves, HasFirst
  <2>2. mutex[r] # << >>
    BY <2>1, EmptyContents
  <2>3. /\ IsInjective(mutex'[r]) /\ p \notin Range(mutex'[r])
        /\ Range(mutex[r]) = Range(mutex'[r]) \cup {p}
    BY <1>a, <1>b, <2>1, <2>2, TailContents
  <2>4. ~\E q \in Procs : on'[q] = r /\ at'[q] \in Locked
    <3> SUFFICES ASSUME NEW q \in Procs, on'[q] = r, at'[q] \in Locked PROVE FALSE
      OBVIOUS
    <3>1. q # p
      BY <1>d, <2>1
    <3>2. Head(mutex[r]) = q
      BY <1>b, <1>c, <3>1
    <3> QED
      BY <2>1, <3>1, <3>2
  <2>5. \A q \in Procs : q \in Range(mutex'[r]) <=> on'[q] = r /\ at'[q] \in LockPlaces
    BY <1>b, <1>c, <2>1, <2>3
  <2> QED
    BY <1>b, <2>3, <2>4, <2>5
<1>4. CASE \E s \in Sems : Joins(p, s)
  <2>1. PICK s \in Sems : Joins(p, s)
    BY <1>4
  <2>2. CASE s = r
    BY <1>f, <1>1, <2>1, <2>2
  <2>3. CASE s # r
    <3>1. mutex'[r] = mutex[r] /\ on'[p] # r /\ ~(on[p] = r /\ at[p] \in LockPlaces)
      BY <1>a, <2>1, <2>3 DEF Joins
    <3> QED
      BY <1>2, <1>f, <3>1
  <2> QED
    BY <2>2, <2>3
<1>5. CASE LooksOn(p)
  <2>1. /\ mutex'[r] = mutex[r] /\ on'[p] = on[p] /\ Head(mutex[on[p]]) = p
        /\ at[p] \in LockPlaces /\ at'[p] \in LockPlaces
    BY <1>5, <1>d DEF LooksOn, HasFirst
  <2> QED
    BY <1>2, <1>f, <2>1
<1>6. CASE Leaves(p)
  <2>1. CASE on[p] = r
    BY <1>3, <1>6, <1>f, <2>1
  <2>2. CASE on[p] # r
    <3>1. mutex'[r] = mutex[r] /\ at'[p] \notin LockPlaces
      BY <1>6, <1>a, <2>2 DEF Leaves
    <3> QED
      BY <1>2, <1>d, <1>f, <2>2, <3>1
  <2> QED
    BY <2>1, <2>2
<1>7. CASE Elsewhere(p)
  <2>1. mutex'[r] = mutex[r] /\ at[p] \notin LockPlaces /\ at'[p] \notin LockPlaces
    BY <1>7 DEF Elsewhere
  <2> QED
    BY <1>2, <1>d, <1>f, <2>1
<1> QED
  BY <1>4, <1>5, <1>6, <1>7, LockMoves

LEMMA UnderLockStep ==
    ASSUME SemTypes, SemTypes', OnInv, LockOrder, UnderLock, Waiters, Fresh, 
           NEW p \in Procs, Step(p)
    PROVE  UnderLock'
<1> USE DEF semTable, Goto, Lock, Unlock, Return, Looks
<1>a. /\ value \in [Sems -> Nat \cup {-1}] /\ at \in [Procs -> Places]
      /\ on \in [Procs -> Sems \cup {NoSem}]
      /\ at[p] # "user" => on[p] \in Sems /\ value[on[p]] \in Nat
  BY OnSem DEF SemTypes
<1>b. \A r \in Sems : blocked[r].size \in Nat /\ blocked'[r].size \in Nat
  BY DEF SemTypes
\* A process that stays with the lock saw what still is.
<1>1. ASSUME NEW q \in Procs, at'[q] \in Locked, at'[q] = at[q], on'[q] = on[q], q # p
      PROVE  on[q] \in Sems /\ value'[on[q]] = value[on[q]] /\ blocked'[on[q]].size = blocked[on[q]].size
  <2>1. on[q] \in Sems /\ value[on[q]] \in Nat
    BY <1>1, OnSem DEF Locked
  <2>2. Head(mutex[on[q]]) = q
    BY <1>1, <2>1 DEF LockOrder, Placed
  <2>3. ~(on[q] = on[p] /\ at[p] \in Locked)
    <3> SUFFICES ASSUME on[q] = on[p], at[p] \in Locked PROVE FALSE
      OBVIOUS
    <3>1. Head(mutex[on[q]]) = p
      BY <2>1 DEF LockOrder, Placed
    <3> QED
      BY <1>1, <2>2, <3>1
  <2> QED
    BY <2>1, <2>3, Protected
<1> DEFINE Saw(q) == /\ at[q] = "P.pass"  => value[on[q]] > 0
                     /\ at[q] = "P.block" => value[on[q]] = 0
                     /\ at[q] = "V.pop"   => blocked[on[q]].size > 0
                     /\ at[q] = "V.count" => blocked[on[q]].size = 0
<1>2. ASSUME NEW q \in Procs \ {p} PROVE Saw(q)'
  <2>1. CASE at'[q] \in Locked
    <3>1. at'[q] = at[q] /\ on'[q] = on[q]
      BY <2>1, OthersStay DEF Locked, Served
    <3>2. Saw(q)
      BY DEF UnderLock
    <3> QED
      BY <1>1, <2>1, <3>1, <3>2
  <2>2. CASE at'[q] \notin Locked
    BY <2>2 DEF Locked
  <2> QED
    BY <2>1, <2>2
<1>3. Saw(p)'
  <2>1. CASE at'[p] \notin Locked
    BY <2>1 DEF Locked
  <2>2. CASE at'[p] \in Locked
    <3>1. LooksOn(p)
      BY <2>2, LockMoves DEF Joins, Leaves, Elsewhere, LockPlaces, Locking, Locked
    <3>2. PTests(p) \/ VTests(p)
      <4>1. at[p] \in Locking
        BY <3>1 DEF LooksOn
      <4>2. ~PReturns(p) /\ ~VReturns(p)
        <5> SUFFICES ASSUME PReturns(p) \/ VReturns(p) PROVE FALSE
          OBVIOUS
        <5>1. at' = [at EXCEPT ![p] = "user"]
          BY DEF PReturns, VReturns
        <5> QED
          BY <1>a, <2>2, <5>1 DEF Locked
      <4> QED
        BY <4>1, <4>2 DEF Step, SemCall, SemStep, SemCreate, SemCreateFails, P, V, PBlocks, PTakes,
              PReceives, PRelocks, VPops, VCounts, VGives, VRelocks, Locking
    <3>3. on[p] \in Sems /\ value[on[p]] \in Nat /\ blocked[on[p]].size \in Nat
      BY <1>a, <1>b, <3>1 DEF LooksOn, HasFirst, Locking
    <3>4. CASE PTests(p)
      BY <1>a, <3>3, <3>4 DEF PTests
    <3>5. CASE VTests(p)
      BY <1>a, <3>3, <3>5 DEF VTests, Wanted
    <3> QED
      BY <3>2, <3>4, <3>5
  <2> QED
    BY <2>1, <2>2
<1>4. ASSUME NEW r \in Sems, value'[r] > 0 PROVE blocked'[r].size = 0
  <2>1. value[r] > 0 => blocked[r].size = 0
    BY DEF UnderLock
  <2>2. CASE r = on[p] /\ at[p] \in Locked
    <3>1. PBlocks(p) \/ PTakes(p) \/ VPops(p) \/ VCounts(p)
      BY <2>2 DEF Step, SemCall, SemStep, SemCreate, SemCreateFails, P, V, PTests, PReceives,
            PRelocks, PReturns, VTests, VGives, VRelocks, VReturns, Locked
    <3>2. ~PBlocks(p)
      BY <1>4, <2>2 DEF PBlocks, UnderLock
    <3>3. ~VPops(p)
      <4> SUFFICES ASSUME VPops(p) PROVE FALSE
        OBVIOUS
      <4>1. blocked[r].size > 0 /\ value'[r] = value[r]
        BY <2>2 DEF VPops, UnderLock
      <4> QED
        BY <1>4, <1>b, <2>1, <4>1
    <3>4. CASE PTakes(p)
      BY <2>1, <2>2, <3>4 DEF PTakes, UnderLock
    <3>5. CASE VCounts(p)
      BY <2>2, <3>5 DEF VCounts, UnderLock
    <3> QED
      BY <3>1, <3>2, <3>3, <3>4, <3>5
  <2> QED
    BY <1>4, <2>1, <2>2, Protected
<1> QED
  BY <1>2, <1>3, <1>4 DEF UnderLock

-----------------------------------------------------------------------------
(* The lists of privMBoxID.                                                *)

\* What a step does to p, when nobody else moves.
Alone(p) == \A q \in Procs \ {p} : at'[q] = at[q] /\ on'[q] = on[q]

LEMMA WaitersAlone ==
    ASSUME SemTypes, Waiters, NEW p \in Procs, Alone(p), at[p] \notin {"P.sleep", "V.wait"},
           UNCHANGED <<givers, takers>>
    PROVE  Waiters'
BY DEF SemTypes, Waiters, Alone, Placed

\* The first giver is out of MboxSend when its message is taken.
LEMMA GiversStep ==
    ASSUME SemTypes, Waiters, NEW p \in Procs, NEW s \in Sems, at[p] # "V.wait",
           TakeMessage(s),
           \A q \in Procs \ {p} : at'[q] = Released(s, at)[q] /\ on'[q] = on[q]
    PROVE  \A r \in Sems : IsInjective(givers'[r]) /\ Range(givers'[r]) \subseteq Placed(r, {"V.wait"})'
<1> SUFFICES ASSUME NEW r \in Sems
             PROVE  IsInjective(givers'[r]) /\ Range(givers'[r]) \subseteq Placed(r, {"V.wait"})'
  OBVIOUS
<1>a. givers \in [Sems -> Seq(Procs)] /\ givers[s] \in Seq(Procs)
  BY DEF SemTypes
<1>b. IsInjective(givers[r]) /\ Range(givers[r]) \subseteq Procs
      /\ \A q \in Range(givers[r]) : on[q] = r /\ at[q] = "V.wait"
  BY DEF Waiters, Placed
<1>1. CASE givers'[r] = givers[r] /\ (givers[s] = << >> \/ r # s)
  <2>1. \A q \in Range(givers[r]) : at'[q] = "V.wait" /\ on'[q] = r
    BY <1>b, <1>1, ReleasedIs DEF Released
  <2> QED
    BY <1>b, <1>1, <2>1 DEF Placed
<1>2. CASE r = s /\ givers[s] # << >> /\ givers'[r] = Tail(givers[s])
  <2>1. /\ IsInjective(givers'[r]) /\ Head(givers[r]) \notin Range(givers'[r])
        /\ Range(givers'[r]) \subseteq Range(givers[r])
    BY <1>a, <1>b, <1>2, TailContents
  <2>2. \A q \in Range(givers'[r]) : at'[q] = "V.wait" /\ on'[q] = r
    BY <1>b, <1>2, <2>1, ReleasedIs
  <2> QED
    BY <1>b, <2>1, <2>2 DEF Placed
<1> QED
  BY <1>a, <1>1, <1>2 DEF TakeMessage

LEMMA WaitersStep ==
    ASSUME SemTypes, OnInv, Waiters, NEW p \in Procs, Step(p)
    PROVE  Waiters'
<1> USE DEF semTable, Goto, Lock, Unlock, Return, Looks
<1>a. /\ at \in [Procs -> Places] /\ on \in [Procs -> Sems \cup {NoSem}]
      /\ givers \in [Sems -> Seq(Procs)] /\ takers \in [Sems -> Seq(Procs)]
      /\ at[p] # "user" => on[p] \in Sems
  BY OnSem DEF SemTypes
\* The two halves of Waiters.
<1> DEFINE Giving == \A r \in Sems : IsInjective(givers[r]) /\ Range(givers[r]) \subseteq Placed(r, {"V.wait"})
           Taking == \A r \in Sems : IsInjective(takers[r]) /\ Range(takers[r]) \subseteq Placed(r, {"P.sleep"})
<1>b. Giving' /\ Taking' => Waiters'
  BY DEF Waiters
<1>c. \A r \in Sems : /\ IsInjective(takers[r]) /\ IsInjective(givers[r])
                      /\ Range(takers[r]) \subseteq Procs /\ Range(givers[r]) \subseteq Procs
                      /\ \A q \in Range(takers[r]) : on[q] = r /\ at[q] = "P.sleep"
                      /\ \A q \in Range(givers[r]) : on[q] = r /\ at[q] = "V.wait"
  BY DEF Waiters, Placed
<1>1. CASE \/ (\E v \in Values : SemCreate(p, v) \/ SemCreateFails(p, v))
           \/ (\E s \in Sems : P(p, s) \/ V(p, s))
           \/ PTests(p) \/ PBlocks(p) \/ PRelocks(p) \/ PReturns(p)
           \/ VTests(p) \/ VPops(p) \/ VCounts(p) \/ VRelocks(p) \/ VReturns(p)
  <2>1. UNCHANGED <<givers, takers>> /\ at[p] \notin {"P.sleep", "V.wait"}
    BY <1>1 DEF SemCreate, SemCreateFails, P, V, PTests, PBlocks, PRelocks, PReturns, VTests, VPops,
                VCounts, VRelocks, VReturns, Locking
  <2>2. (\E x \in Places : at' = [at EXCEPT ![p] = x]) \/ at' = at
    BY <1>1 DEF SemCreate, SemCreateFails, P, V, PTests, PBlocks, PRelocks, PReturns, VTests, VPops,
                VCounts, VRelocks, VReturns, Places, SemPlaces, Locking, Locked
  <2>3. Alone(p)
    BY <1>a, <2>2, OthersStay DEF Alone, Served
  <2> QED
    BY <2>1, <2>3, WaitersAlone
<1>2. CASE PTakes(p)
  <2> DEFINE here == IF Message(on[p]) THEN Released(on[p], at) ELSE at
  <2>1. /\ on[p] \in Sems /\ on' = [on EXCEPT ![p] = NoSem] /\ at' = [here EXCEPT ![p] = "user"]
        /\ takers' = takers /\ at[p] = "P.pass"
    BY <1>2, <1>a DEF PTakes
  <2>2. here \in [Procs -> Places]
    BY <1>a, <2>1, ReleasedType
  <2>3. \A q \in Procs \ {p} : at'[q] = here[q] /\ on'[q] = on[q]
    <3> HIDE DEF here
    <3> QED
      BY <1>a, <2>1, <2>2
  <2>4. \A q \in Procs \ {p} : here[q] = at[q] \/ at[q] = "V.wait"
    BY <2>1, ReleasedIs
  <2>5. Taking'
    <3>1. \A r \in Sems : \A q \in Range(takers'[r]) : on'[q] = r /\ at'[q] = "P.sleep"
      BY <1>c, <2>1, <2>3, <2>4
    <3> QED
      BY <1>c, <2>1, <3>1 DEF Placed
  <2>6. CASE Message(on[p])
    <3>1. TakeMessage(on[p])
      BY <1>2, <2>6 DEF PTakes
    <3>2. Giving'
      BY <2>1, <2>3, <2>6, <3>1, GiversStep
    <3> QED
      BY <1>b, <2>5, <3>2
  <2>7. CASE ~Message(on[p])
    <3>1. givers' = givers
      BY <1>2, <2>7 DEF PTakes
    <3>2. Alone(p)
      BY <2>3, <2>7 DEF Alone
    <3> QED
      BY <2>1, <3>1, <3>2, WaitersAlone
  <2> QED
    BY <2>6, <2>7
<1>3. CASE PReceives(p)
  <2> DEFINE s == on[p]
  <2>1. s \in Sems /\ on' = on /\ at[p] = "P.take"
    BY <1>3, <1>a DEF PReceives
  <2>2. CASE TakeMessage(s) /\ takers' = takers /\ at' = [Released(s, at) EXCEPT ![p] = "P.got"]
    <3>1. Released(s, at) \in [Procs -> Places]
      BY <2>1, ReleasedType
    <3>2. \A q \in Procs \ {p} : at'[q] = Released(s, at)[q] /\ on'[q] = on[q]
      BY <2>1, <2>2, <3>1
    <3>3. Giving'
      BY <2>1, <2>2, <3>2, GiversStep
    <3>4. \A q \in Procs \ {p} : at'[q] = at[q] \/ at[q] = "V.wait"
      BY <2>1, <3>2, ReleasedIs
    <3>5. \A r \in Sems : \A q \in Range(takers'[r]) : on'[q] = r /\ at'[q] = "P.sleep"
      BY <1>c, <2>1, <2>2, <3>4
    <3>6. Taking'
      BY <1>c, <2>2, <3>5 DEF Placed
    <3> QED
      BY <1>b, <3>3, <3>6
  <2>3. CASE /\ takers' = [takers EXCEPT ![s] = Append(@, p)] /\ at' = [at EXCEPT ![p] = "P.sleep"]
             /\ givers' = givers
    <3>1. Alone(p) /\ at'[p] = "P.sleep" /\ on'[p] = s
      BY <1>a, <2>1, <2>3 DEF Alone
    <3>2. Giving'
      <4>1. \A r \in Sems : \A q \in Range(givers'[r]) : on'[q] = r /\ at'[q] = "V.wait"
        BY <1>c, <2>1, <2>3, <3>1 DEF Alone
      <4> QED
        BY <1>c, <2>3, <4>1 DEF Placed
    <3>3. p \notin Range(takers[s]) /\ takers[s] \in Seq(Procs)
      BY <1>a, <1>c, <2>1
    <3>4. takers'[s] = Append(takers[s], p) /\ \A r \in Sems \ {s} : takers'[r] = takers[r]
      BY <1>a, <2>1, <2>3
    <3>5. IsInjective(takers'[s]) /\ Range(takers'[s]) = Range(takers[s]) \cup {p}
      BY <1>c, <2>1, <3>3, <3>4, AppendContents
    <3>6. \A r \in Sems : \A q \in Range(takers[r]) : on'[q] = r /\ at'[q] = "P.sleep"
      BY <1>c, <2>1, <3>1 DEF Alone
    <3>7. \A r \in Sems : IsInjective(takers'[r]) /\ Range(takers'[r]) \subseteq Placed(r, {"P.sleep"})'
      <4> SUFFICES ASSUME NEW r \in Sems
                   PROVE  IsInjective(takers'[r]) /\ Range(takers'[r]) \subseteq Placed(r, {"P.sleep"})'
        OBVIOUS
      <4>1. CASE r = s
        BY <1>c, <3>1, <3>5, <3>6, <4>1 DEF Placed
      <4>2. CASE r # s
        BY <1>c, <3>4, <3>6, <4>2 DEF Placed
      <4> QED
        BY <4>1, <4>2
    <3> QED
      BY <1>b, <3>2, <3>7
  <2>4. CASE at' = [at EXCEPT ![p] = "P.got"] /\ UNCHANGED <<givers, takers>>
    <3>1. Alone(p)
      BY <1>a, <2>1, <2>4 DEF Alone
    <3> QED
      BY <2>1, <2>4, <3>1, WaitersAlone
  <2> QED
    BY <1>3, <2>2, <2>3, <2>4 DEF PReceives
<1>4. CASE VGives(p)
  <2> DEFINE s == on[p]
             t == Head(takers[s])
  <2>1. s \in Sems /\ on' = on /\ at[p] = "V.give"
    BY <1>4, <1>a DEF VGives
  <2>2. CASE /\ takers[s] # << >> /\ takers' = [takers EXCEPT ![s] = Tail(@)]
             /\ at' = [at EXCEPT ![t] = "P.got", ![p] = "V.sent"] /\ givers' = givers
    <3>1. t \in Procs /\ at[t] = "P.sleep" /\ t # p
      BY <2>1, <2>2, ServedIs
    <3> HIDE DEF t
    <3>2. \A q \in Procs \ {p, t} : at'[q] = at[q]
      BY <1>a, <2>2, <3>1
    <3>3. Giving'
      <4>1. ASSUME NEW r \in Sems, NEW q \in Range(givers'[r]) PROVE on'[q] = r /\ at'[q] = "V.wait"
        <5>1. q \in Procs /\ on[q] = r /\ at[q] = "V.wait"
          BY <1>c, <2>2
        <5> QED
          BY <2>1, <3>1, <3>2, <5>1
      <4> QED
        BY <1>c, <2>2, <4>1 DEF Placed
    <3>4. takers'[s] = Tail(takers[s]) /\ \A r \in Sems \ {s} : takers'[r] = takers[r]
      BY <1>a, <2>1, <2>2
    <3>5. /\ IsInjective(takers'[s]) /\ t \notin Range(takers'[s])
          /\ Range(takers'[s]) \subseteq Range(takers[s])
      BY <1>a, <1>c, <2>1, <2>2, <3>4, TailContents DEF t
    <3>6. \A r \in Sems : \A q \in Range(takers'[r]) : on'[q] = r /\ at'[q] = "P.sleep"
      <4> SUFFICES ASSUME NEW r \in Sems, NEW q \in Range(takers'[r])
                   PROVE  on'[q] = r /\ at'[q] = "P.sleep"
        OBVIOUS
      <4>1. q \in Range(takers[r]) /\ (r = s => q # t)
        BY <3>4, <3>5
      <4>2. q \in Procs /\ on[q] = r /\ at[q] = "P.sleep"
        BY <1>c, <4>1
      <4>3. on[t] = s
        BY <2>1, <2>2, ServedIs DEF t
      <4> QED
        BY <2>1, <3>2, <4>1, <4>2, <4>3
    <3>7. Taking'
      <4> SUFFICES ASSUME NEW r \in Sems
                   PROVE  IsInjective(takers'[r]) /\ Range(takers'[r]) \subseteq Placed(r, {"P.sleep"})'
        OBVIOUS
      <4>1. IsInjective(takers'[r]) /\ Range(takers'[r]) \subseteq Procs
        BY <1>c, <3>4, <3>5
      <4> QED
        BY <3>6, <4>1 DEF Placed
    <3> QED
      BY <1>b, <3>3, <3>7
  <2>3. CASE at' = [at EXCEPT ![p] = "V.sent"] /\ UNCHANGED <<givers, takers>>
    <3>1. Alone(p)
      BY <1>a, <2>1, <2>3 DEF Alone
    <3> QED
      BY <2>1, <2>3, <3>1, WaitersAlone
  <2>4. CASE /\ givers' = [givers EXCEPT ![s] = Append(@, p)] /\ at' = [at EXCEPT ![p] = "V.wait"]
             /\ takers' = takers
    <3>1. Alone(p) /\ at'[p] = "V.wait" /\ on'[p] = s
      BY <1>a, <2>1, <2>4 DEF Alone
    <3>2. Taking'
      <4>1. \A r \in Sems : \A q \in Range(takers'[r]) : on'[q] = r /\ at'[q] = "P.sleep"
        BY <1>c, <2>1, <2>4, <3>1 DEF Alone
      <4> QED
        BY <1>c, <2>4, <4>1 DEF Placed
    <3>3. p \notin Range(givers[s]) /\ givers[s] \in Seq(Procs)
      BY <1>a, <1>c, <2>1
    <3>4. givers'[s] = Append(givers[s], p) /\ \A r \in Sems \ {s} : givers'[r] = givers[r]
      BY <1>a, <2>1, <2>4
    <3>5. IsInjective(givers'[s]) /\ Range(givers'[s]) = Range(givers[s]) \cup {p}
      BY <1>c, <2>1, <3>3, <3>4, AppendContents
    <3>6. \A r \in Sems : \A q \in Range(givers[r]) : on'[q] = r /\ at'[q] = "V.wait"
      BY <1>c, <2>1, <3>1 DEF Alone
    <3>7. \A r \in Sems : IsInjective(givers'[r]) /\ Range(givers'[r]) \subseteq Placed(r, {"V.wait"})'
      <4> SUFFICES ASSUME NEW r \in Sems
                   PROVE  IsInjective(givers'[r]) /\ Range(givers'[r]) \subseteq Placed(r, {"V.wait"})'
        OBVIOUS
      <4>1. CASE r = s
        BY <1>c, <3>1, <3>5, <3>6, <4>1 DEF Placed
      <4>2. CASE r # s
        BY <1>c, <3>4, <3>6, <4>2 DEF Placed
      <4> QED
        BY <4>1, <4>2
    <3> QED
      BY <1>b, <3>2, <3>7
  <2> QED
    BY <1>4, <2>2, <2>3, <2>4 DEF VGives
<1> QED
  BY <1>1, <1>2, <1>3, <1>4 DEF Step, SemCall, SemStep

-----------------------------------------------------------------------------
(* A semaphore before SemCreate, and who has had a unit.                   *)

\* Nothing happens at privMBoxID of a semaphore that p is not at.
LEMMA BoxStays ==
    ASSUME SemTypes, OnInv, NEW p \in Procs, Step(p)
    PROVE  \A r \in Sems \ {on[p]} : tokens'[r] = tokens[r] /\ givers'[r] = givers[r]
<1> SUFFICES ASSUME NEW r \in Sems \ {on[p]} PROVE tokens'[r] = tokens[r] /\ givers'[r] = givers[r]
  OBVIOUS
<1> USE DEF semTable, Looks
<1>a. tokens \in [Sems -> Nat] /\ givers \in [Sems -> Seq(Procs)]
  BY DEF SemTypes
<1>1. CASE PTakes(p) \/ PReceives(p)
  <2>1. TakeMessage(on[p]) \/ UNCHANGED <<tokens, givers>>
    BY <1>1 DEF PTakes, PReceives
  <2> QED
    BY <1>a, <2>1 DEF TakeMessage
<1>2. CASE VGives(p)
  BY <1>2, <1>a DEF VGives
<1>3. CASE \/ (\E v \in Values : SemCreate(p, v) \/ SemCreateFails(p, v))
           \/ (\E s \in Sems : P(p, s) \/ V(p, s))
           \/ PTests(p) \/ PBlocks(p) \/ PRelocks(p) \/ PReturns(p)
           \/ VTests(p) \/ VPops(p) \/ VCounts(p) \/ VRelocks(p) \/ VReturns(p)
  BY <1>3 DEF SemCreate, SemCreateFails, P, V, PTests, PBlocks, PRelocks, PReturns, VTests, VPops,
              VCounts, VRelocks, VReturns
<1> QED
  BY <1>1, <1>2, <1>3 DEF Step, SemCall, SemStep

\* A step changes what its own process has, at a semaphore that was created.
LEMMA HoldersStay ==
    ASSUME SemTypes, OnInv, NEW p \in Procs, Step(p)
    PROVE  /\ \A r \in Sems : value[r] = -1 => holders'[r] = holders[r]
           /\ \A r \in Sems : \A q \in Procs \ {p} : q \in holders'[r] <=> q \in holders[r]
<1> USE DEF semTable, ghosts, Looks
<1>a. /\ holders \in [Sems -> SUBSET Procs]
      /\ at[p] # "user" => on[p] \in Sems /\ value[on[p]] \in Nat
  BY OnSem DEF SemTypes
<1>1. CASE PTakes(p) \/ PReturns(p)
  <2>1. on[p] \in Sems /\ value[on[p]] \in Nat
        /\ holders' = [holders EXCEPT ![on[p]] = holders[on[p]] \cup {p}]
    BY <1>1, <1>a DEF PTakes, PReturns, Locking
  <2> QED
    BY <1>a, <2>1
<1>2. ASSUME NEW s \in Sems, V(p, s)
      PROVE  value[s] >= 0 /\ holders' = [holders EXCEPT ![s] = holders[s] \ {p}]
  BY <1>2 DEF V
<1>3. CASE \E s \in Sems : V(p, s)
  <2>1. PICK s \in Sems : V(p, s)
    BY <1>3
  <2> QED
    BY <1>a, <1>2, <2>1
<1>4. CASE \/ (\E v \in Values : SemCreate(p, v) \/ SemCreateFails(p, v))
           \/ (\E s \in Sems : P(p, s))
           \/ PTests(p) \/ PBlocks(p) \/ PRelocks(p) \/ PReceives(p)
           \/ VTests(p) \/ VPops(p) \/ VGives(p) \/ VCounts(p) \/ VRelocks(p) \/ VReturns(p)
  BY <1>4 DEF SemCreate, SemCreateFails, P, PTests, PBlocks, PRelocks, PReceives, VTests, VPops,
              VGives, VCounts, VRelocks, VReturns
<1> QED
  BY <1>1, <1>3, <1>4 DEF Step, SemCall, SemStep

LEMMA FreshStep ==
    ASSUME SemTypes, SemTypes', OnInv, Fresh, NEW p \in Procs, Step(p),
           \A r \in Sems : value[r] >= 0 => value'[r] >= 0
    PROVE  Fresh'
<1> SUFFICES ASSUME NEW r \in Sems, value'[r] = -1
             PROVE  blocked'[r].size = 0 /\ tokens'[r] = 0 /\ givers'[r] = << >> /\ holders'[r] = {}
  BY DEF Fresh
<1>1. value[r] = -1
  BY DEF SemTypes
<1>2. blocked[r].size = 0 /\ tokens[r] = 0 /\ givers[r] = << >> /\ holders[r] = {}
  BY <1>1 DEF Fresh
<1>3. r # on[p]
  <2>1. on[p] \in Sems => value[on[p]] >= 0
    BY DEF OnInv, NoSem, Sems
  <2> QED
    BY <1>1, <2>1
<1> QED
  BY <1>1, <1>2, <1>3, Protected, BoxStays, HoldersStay

LEMMA HandsOverStep ==
    ASSUME SemTypes, OnInv, LockOrder, Waiters, HandsOver, NEW p \in Procs, Step(p)
    PROVE  HandsOver'
<1> DEFINE Handing == {"V", "V.pop", "V.count"}
<1>a. at \in [Procs -> Places] /\ on \in [Procs -> Sems \cup {NoSem}]
      /\ holders \in [Sems -> SUBSET Procs]
  BY DEF SemTypes
<1>1. ASSUME NEW q \in Procs \ {p}, at'[q] \in Handing PROVE q \notin holders'[on'[q]]
  <2>1. at'[q] = at[q] /\ on'[q] = on[q]
    BY <1>1, OthersStay DEF Served
  <2>2. on[q] \in Sems /\ q \notin holders[on[q]]
    BY <1>1, <2>1, OnSem DEF HandsOver
  <2> QED
    BY <2>1, <2>2, HoldersStay
<1>2. ASSUME at'[p] \in Handing PROVE p \notin holders'[on'[p]]
  <2>1. CASE LooksOn(p)
    <3>1. at'[p] \in {"V.pop", "V.count"} /\ on'[p] = on[p] /\ at[p] \in Locking
      BY <1>2, <2>1 DEF LooksOn, Locked
    <3>2. VTests(p)
      <4>1. ~PReturns(p) /\ ~VReturns(p)
        <5> SUFFICES ASSUME PReturns(p) \/ VReturns(p) PROVE FALSE
          OBVIOUS
        <5>1. at' = [at EXCEPT ![p] = "user"]
          BY DEF PReturns, VReturns, Return, Goto
        <5> QED
          BY <1>a, <3>1, <5>1
      <4>2. ~PTests(p)
        BY <1>a, <3>1 DEF PTests, Looks, Goto
      <4> QED
        BY <3>1, <4>1, <4>2 DEF Step, SemCall, SemStep, SemCreate, SemCreateFails, P, V, PBlocks, PTakes,
              PReceives, PRelocks, VPops, VCounts, VGives, VRelocks, Locking
    <3> QED
      BY <3>1, <3>2 DEF VTests, Looks, ghosts, HandsOver
  <2>2. ASSUME NEW s \in Sems, Joins(p, s) PROVE p \notin holders'[on'[p]]
    <3>1. at'[p] = "V" /\ on'[p] = s /\ at[p] \notin LockPlaces
      BY <1>2, <2>2 DEF Joins, Locking
    <3>2. ~PRelocks(p) /\ ~VRelocks(p)
      BY <1>a, <3>1 DEF PRelocks, VRelocks, Lock, Goto
    <3>3. \A r \in Sems : ~P(p, r)
      BY <1>a, <3>1 DEF P, Lock, Goto
    <3>4. at[p] = "user"
      <4>1. CASE at[p] # "user"
        <5>1. PReceives(p) \/ VGives(p)
          BY <3>1, <3>2, <4>1 DEF Step, SemCall, SemStep, SemCreate, SemCreateFails, P, V, PTests, PBlocks,
            PTakes, PReturns, VTests, VPops, VCounts, VReturns, LockPlaces, Locking, Locked
        <5>2. mutex' = mutex
          BY <5>1 DEF PReceives, VGives
        <5>3. mutex[s] \in Seq(Procs) /\ mutex'[s] = Append(mutex[s], p)
          BY <2>2 DEF Joins, SemTypes
        <5>4. Len(Append(mutex[s], p)) = Len(mutex[s]) + 1 /\ Len(mutex[s]) \in Nat
          BY <5>3, AppendContents
        <5> QED
          BY <5>2, <5>3, <5>4
      <4> QED
        BY <4>1
    <3>5. ~\E v \in Values : SemCreate(p, v) \/ SemCreateFails(p, v)
      BY <3>1, <3>4 DEF SemCreate, SemCreateFails
    <3>6. PICK r \in Sems : V(p, r)
      BY <3>3, <3>4, <3>5 DEF Step, SemCall, SemStep, PTests, PBlocks, PTakes, PReceives, PRelocks,
            PReturns, VTests, VPops, VCounts, VGives, VRelocks, VReturns, Locking, Locked
    <3>7. on'[p] = r /\ holders'[r] = holders[r] \ {p}
      BY <1>a, <3>6 DEF V
    <3> QED
      BY <3>7
  <2>3. ~Leaves(p) /\ ~Elsewhere(p)
    BY <1>2 DEF Leaves, Elsewhere, LockPlaces, Locking, Locked
  <2> QED
    BY <2>1, <2>2, <2>3, LockMoves
<1> QED
  BY <1>1, <1>2 DEF HandsOver

LEMMA ShapeInit == Init => Shape
<1> SUFFICES ASSUME Init PROVE Shape
  OBVIOUS
<1>1. \A s \in Sems : value[s] = -1 /\ mutex[s] = << >> /\ takers[s] = << >> /\ givers[s] = << >>
                      /\ tokens[s] = 0 /\ blocked[s].size = 0 /\ holders[s] = {}
  BY DEF Init, EmptyQueue
<1>2. \A p \in Procs : at[p] = "user" /\ on[p] = NoSem
  BY DEF Init
<1>3. \A s \in Sems, X \in SUBSET SemPlaces : Placed(s, X) = {}
  BY <1>2 DEF Placed, SemPlaces, Locking, Locked
<1>4. Locking \cup Locked \in SUBSET SemPlaces /\ Locked \in SUBSET SemPlaces
      /\ {"P.sleep"} \in SUBSET SemPlaces /\ {"V.wait"} \in SUBSET SemPlaces
  BY DEF SemPlaces
<1>5. OnInv /\ UnderLock /\ Fresh /\ HandsOver
  BY <1>1, <1>2 DEF OnInv, UnderLock, Fresh, HandsOver
<1>6. LockOrder /\ Waiters
  BY <1>1, <1>3, <1>4, EmptyContents DEF LockOrder, Waiters
<1> QED
  BY <1>5, <1>6, SemTypesInit DEF Shape

LEMMA ShapeStep == Shape /\ [Next]_vars => Shape'
<1> SUFFICES ASSUME Shape, [Next]_vars PROVE Shape'
  OBVIOUS
<1> USE DEF Shape
<1>1. SemTypes'
  BY SemTypesStep
<1>2. ASSUME NEW p \in Procs, Step(p) PROVE Shape'
  <2>1. OnInv'
    BY <1>1, <1>2, OnStep
  <2>2. LockOrder' /\ UnderLock' /\ Waiters' /\ HandsOver'
    BY <1>1, <1>2, LockOrderStep, UnderLockStep, WaitersStep, HandsOverStep
  <2>3. \A r \in Sems : value[r] >= 0 => value'[r] >= 0
    BY <1>1, <1>2, CreatedStay
  <2>4. Fresh'
    BY <1>1, <1>2, <2>3, FreshStep
  <2> QED
    BY <1>1, <2>1, <2>2, <2>4
<1>3. CASE UNCHANGED vars
  BY <1>1, <1>3 DEF vars, semTable, ghosts, OnInv, LockOrder, UnderLock, Waiters, Fresh, HandsOver, Placed
<1> QED
  BY <1>2, <1>3 DEF Next, Step

-----------------------------------------------------------------------------
(* The units.                                                              *)

\* Whether p counts.
One(b) == IF b THEN 1 ELSE 0

LEMMA CountStep ==
    ASSUME NEW A \in SUBSET Procs, NEW B \in SUBSET Procs, NEW p \in Procs,
           \A q \in Procs \ {p} : q \in B <=> q \in A
    PROVE  /\ IsFiniteSet(A) /\ Cardinality(A) \in Nat /\ Cardinality(B) \in Nat
           /\ Cardinality(B) = Cardinality(A) + One(p \in B) - One(p \in A)
<1>1. IsFiniteSet(A) /\ IsFiniteSet(B)
  BY SemAssumption, FS_Subset
<1>2. Cardinality(A) \in Nat /\ Cardinality(B) \in Nat
  BY <1>1, FS_CardinalityType
<1>3. CASE p \in A <=> p \in B
  <2>1. A = B
    BY <1>3
  <2> QED
    BY <1>1, <1>2, <2>1 DEF One
<1>4. CASE p \in B /\ p \notin A
  <2>1. B = A \cup {p}
    BY <1>4
  <2>2. Cardinality(B) = Cardinality(A) + 1
    BY <1>1, <1>4, <2>1, FS_AddElement
  <2> QED
    BY <1>1, <1>2, <1>4, <2>2 DEF One
<1>5. CASE p \in A /\ p \notin B
  <2>1. B = A \ {p}
    BY <1>5
  <2>2. Cardinality(B) = Cardinality(A) - 1
    BY <1>1, <1>5, <2>1, FS_RemoveElement
  <2> QED
    BY <1>1, <1>2, <1>5, <2>2 DEF One
<1> QED
  BY <1>3, <1>4, <1>5

Giving(s) == Placed(s, {"V.give"})

LEMMA Tallies ==
    ASSUME SemTypes, NEW s \in Sems
    PROVE  /\ Giving(s) \subseteq Procs /\ Cardinality(Giving(s)) \in Nat
           /\ Sleeping(s) \subseteq Procs /\ Cardinality(Sleeping(s)) \in Nat
           /\ WithUnit(s) \subseteq Procs /\ Cardinality(WithUnit(s)) \in Nat
           /\ tokens[s] \in Nat /\ Len(givers[s]) \in Nat
           /\ Coming(s) = tokens[s] + Len(givers[s]) + Cardinality(Giving(s))
           /\ Coming(s) \in Nat
           /\ Coming(s) = 0 => tokens[s] = 0 /\ givers[s] = << >> /\ Giving(s) = {} /\ ~Message(s)
           /\ Cardinality(WithUnit(s)) = 0 => WithUnit(s) = {}
<1>1. Giving(s) \subseteq Procs /\ Sleeping(s) \subseteq Procs /\ WithUnit(s) \subseteq Procs
  BY DEF Giving, Sleeping, WithUnit, Placed, SemTypes
<1>2. IsFiniteSet(Giving(s)) /\ IsFiniteSet(Sleeping(s)) /\ IsFiniteSet(WithUnit(s))
  BY <1>1, SemAssumption, FS_Subset
<1>3. Cardinality(Giving(s)) \in Nat /\ Cardinality(Sleeping(s)) \in Nat /\ Cardinality(WithUnit(s)) \in Nat
  BY <1>2, FS_CardinalityType
<1>4. (Cardinality(Giving(s)) = 0 => Giving(s) = {}) /\ (Cardinality(WithUnit(s)) = 0 => WithUnit(s) = {})
  BY <1>2, FS_EmptySet
<1>5. tokens[s] \in Nat /\ givers[s] \in Seq(Procs) /\ Len(givers[s]) \in Nat
      /\ (Len(givers[s]) = 0 => givers[s] = << >>)
  BY DEF SemTypes
<1>6. Coming(s) = tokens[s] + Len(givers[s]) + Cardinality(Giving(s))
  BY DEF Coming, Giving
<1> QED
  BY <1>1, <1>3, <1>4, <1>5, <1>6 DEF Message

LEMMA TalliesPrime ==
    ASSUME SemTypes', NEW s \in Sems
    PROVE  /\ Giving(s)' \subseteq Procs /\ Cardinality(Giving(s)') \in Nat
           /\ Sleeping(s)' \subseteq Procs /\ Cardinality(Sleeping(s)') \in Nat
           /\ WithUnit(s)' \subseteq Procs /\ Cardinality(WithUnit(s)') \in Nat
           /\ tokens'[s] \in Nat /\ Len(givers'[s]) \in Nat
           /\ Coming(s)' = tokens'[s] + Len(givers'[s]) + Cardinality(Giving(s)')
           /\ Coming(s)' \in Nat
<1>1. Giving(s)' \subseteq Procs /\ Sleeping(s)' \subseteq Procs /\ WithUnit(s)' \subseteq Procs
  BY DEF Giving, Sleeping, WithUnit, Placed, SemTypes
<1>2. IsFiniteSet(Giving(s)') /\ IsFiniteSet(Sleeping(s)') /\ IsFiniteSet(WithUnit(s)')
  BY <1>1, SemAssumption, FS_Subset
<1>3. Cardinality(Giving(s)') \in Nat /\ Cardinality(Sleeping(s)') \in Nat /\ Cardinality(WithUnit(s)') \in Nat
  BY <1>2, FS_CardinalityType
<1>5. tokens'[s] \in Nat /\ givers'[s] \in Seq(Procs) /\ Len(givers'[s]) \in Nat
  BY DEF SemTypes
<1>6. Coming(s)' = tokens'[s] + Len(givers'[s]) + Cardinality(Giving(s)')
  BY DEF Coming, Giving
<1> QED
  BY <1>1, <1>3, <1>5, <1>6

\* Where a process counts.
InSleeping(p, s) == on[p] = s /\ at[p] \in {"P.take", "P.sleep"}
InGiving(p, s)   == on[p] = s /\ at[p] = "V.give"
InWith(p, s)     == \/ p \in holders[s]
                    \/ on[p] = s /\ at[p] \in {"P.got", "P.again", "V", "V.pop", "V.count"}

\* Unless a process is served in MboxRecv, p alone moves from one count to another.
LEMMA TallyStep ==
    ASSUME SemTypes, SemTypes', OnInv, Waiters, NEW p \in Procs, Step(p),
           at[p] = "V.give" => takers[on[p]] = << >>, NEW r \in Sems
    PROVE  /\ Cardinality(Sleeping(r)') =
                Cardinality(Sleeping(r)) + One(InSleeping(p, r)') - One(InSleeping(p, r))
           /\ Cardinality(Giving(r)') =
                Cardinality(Giving(r)) + One(InGiving(p, r)') - One(InGiving(p, r))
           /\ Cardinality(WithUnit(r)') =
                Cardinality(WithUnit(r)) + One(InWith(p, r)') - One(InWith(p, r))
<1>1. \A q \in Procs \ {p} : /\ on'[q] = on[q]
                             /\ at'[q] = at[q] \/ (at[q] = "V.wait" /\ at'[q] = "V.sent")
                             /\ q \in holders'[r] <=> q \in holders[r]
  BY OthersStay, HoldersStay DEF Served
<1>2. /\ Sleeping(r) \in SUBSET Procs /\ Sleeping(r)' \in SUBSET Procs
      /\ Giving(r) \in SUBSET Procs /\ Giving(r)' \in SUBSET Procs
      /\ WithUnit(r) \in SUBSET Procs /\ WithUnit(r)' \in SUBSET Procs
  BY Tallies, TalliesPrime
<1>3. \A q \in Procs : /\ q \in Sleeping(r) <=> InSleeping(q, r)
                       /\ q \in Giving(r) <=> InGiving(q, r)
                       /\ q \in WithUnit(r) <=> InWith(q, r)
  BY DEF Sleeping, Giving, WithUnit, Placed, InSleeping, InGiving, InWith
<1>4. \A q \in Procs : /\ q \in Sleeping(r)' <=> InSleeping(q, r)'
                       /\ q \in Giving(r)' <=> InGiving(q, r)'
                       /\ q \in WithUnit(r)' <=> InWith(q, r)'
  BY DEF Sleeping, Giving, WithUnit, Placed, InSleeping, InGiving, InWith
<1>5. \A q \in Procs \ {p} : /\ InSleeping(q, r)' <=> InSleeping(q, r)
                             /\ InGiving(q, r)' <=> InGiving(q, r)
                             /\ InWith(q, r)' <=> InWith(q, r)
  BY <1>1 DEF InSleeping, InGiving, InWith
<1>6. Cardinality(Sleeping(r)') = Cardinality(Sleeping(r)) + One(p \in Sleeping(r)') - One(p \in Sleeping(r))
  BY <1>2, <1>3, <1>4, <1>5, CountStep
<1>7. Cardinality(Giving(r)') = Cardinality(Giving(r)) + One(p \in Giving(r)') - One(p \in Giving(r))
  BY <1>2, <1>3, <1>4, <1>5, CountStep
<1>8. Cardinality(WithUnit(r)') = Cardinality(WithUnit(r)) + One(p \in WithUnit(r)') - One(p \in WithUnit(r))
  BY <1>2, <1>3, <1>4, <1>5, CountStep
<1> QED
  BY <1>3, <1>4, <1>6, <1>7, <1>8 DEF One

\* What a step adds to the count of a semaphore, to the units on their way, to its
\* list, to the processes asleep in P and to those that have a unit.
Adds(r, counted, coming, listed, asleep, with) ==
    /\ value'[r] = value[r] + counted
    /\ Coming(r)' = Coming(r) + coming
    /\ blocked'[r].size = blocked[r].size + listed
    /\ Cardinality(Sleeping(r)') = Cardinality(Sleeping(r)) + asleep
    /\ Owned /\ value[r] >= 0 =>
            Cardinality(WithUnit(r)') = Cardinality(WithUnit(r)) + with

Creates(r) ==
    /\ value[r] = -1 /\ value'[r] \in Nat /\ Coming(r) = 0 /\ Coming(r)' = 0
    /\ Owned => capacity'[r] = value'[r]
    /\ blocked'[r].size = blocked[r].size
    /\ Cardinality(Sleeping(r)') = Cardinality(Sleeping(r)) /\ Cardinality(WithUnit(r)') = 0
Blocks(r)   == value[r] = 0 /\ Adds(r, 0, 0, 1, 1, 0)
Takes(r)    == value[r] > 0 /\ Adds(r, -1, 0, 0, 0, 1)
Receives(r) == value[r] = 0 /\ Coming(r) > 0 /\ Adds(r, 0, -1, 0, -1, 1)
Counts(r)   == value[r] >= 0 /\ Coming(r) = 0 /\ Adds(r, 1, 0, 0, 0, -1)
Pops(r) ==
    /\ value[r] = 0
    /\ Adds(r, 0, 1, -1, 0, -1) \/ (crashed' /\ Adds(r, 0, 1, 0, 0, -1))
Quiet(r) == Adds(r, 0, 0, 0, 0, 0)

\* A step that leaves p where it counts changes nothing.
LEMMA QuietStep ==
    ASSUME SemTypes, SemTypes', OnInv, Waiters, NEW p \in Procs, Step(p),
           at[p] = "V.give" => takers[on[p]] = << >>, NEW r \in Sems,
           value'[r] = value[r], blocked'[r].size = blocked[r].size,
           tokens'[r] = tokens[r], givers'[r] = givers[r],
           InSleeping(p, r)' <=> InSleeping(p, r), InGiving(p, r)' <=> InGiving(p, r),
           Owned => (InWith(p, r)' <=> InWith(p, r))
    PROVE  Quiet(r)
<1>a. value[r] \in Int /\ blocked[r].size \in Int
  BY DEF SemTypes
<1>b. /\ Cardinality(Sleeping(r)) \in Nat /\ Cardinality(Giving(r)) \in Nat
      /\ Cardinality(WithUnit(r)) \in Nat
      /\ tokens[r] \in Nat /\ Len(givers[r]) \in Nat
      /\ Coming(r) = tokens[r] + Len(givers[r]) + Cardinality(Giving(r))
  BY Tallies
<1>c. Coming(r)' = tokens'[r] + Len(givers'[r]) + Cardinality(Giving(r)')
  BY TalliesPrime
<1>1. /\ Cardinality(Sleeping(r)) \in Nat /\ Cardinality(Giving(r)) \in Nat
      /\ Cardinality(WithUnit(r)) \in Nat
      /\ tokens[r] \in Nat /\ Len(givers[r]) \in Nat /\ value[r] \in Int /\ blocked[r].size \in Int
      /\ Coming(r) = tokens[r] + Len(givers[r]) + Cardinality(Giving(r))
      /\ Coming(r)' = tokens'[r] + Len(givers'[r]) + Cardinality(Giving(r)')
  BY <1>a, <1>b, <1>c
<1>2. /\ Cardinality(Sleeping(r)') =
           Cardinality(Sleeping(r)) + One(InSleeping(p, r)') - One(InSleeping(p, r))
      /\ Cardinality(Giving(r)') =
           Cardinality(Giving(r)) + One(InGiving(p, r)') - One(InGiving(p, r))
      /\ Cardinality(WithUnit(r)') =
           Cardinality(WithUnit(r)) + One(InWith(p, r)') - One(InWith(p, r))
  BY TallyStep
<1>3. /\ One(InSleeping(p, r)') = One(InSleeping(p, r)) /\ One(InSleeping(p, r)) \in {0, 1}
      /\ One(InGiving(p, r)') = One(InGiving(p, r)) /\ One(InGiving(p, r)) \in {0, 1}
      /\ Owned => One(InWith(p, r)') = One(InWith(p, r))
      /\ One(InWith(p, r)) \in {0, 1}
  BY Zenon DEF One
<1>4. Cardinality(Sleeping(r)') = Cardinality(Sleeping(r)) + 0
  BY <1>1, <1>2, <1>3
<1>5. Cardinality(Giving(r)') = Cardinality(Giving(r))
  BY <1>1, <1>2, <1>3
<1>6. Owned => Cardinality(WithUnit(r)') = Cardinality(WithUnit(r)) + 0
  BY <1>1, <1>2, <1>3
<1>7. /\ value'[r] = value[r] + 0 /\ blocked'[r].size = blocked[r].size + 0
      /\ Coming(r)' = Coming(r) + 0
  BY <1>1, <1>5
<1> QED
  BY <1>4, <1>6, <1>7, Zenon DEF Quiet, Adds

\* A semaphore that p is not at, before or after the step, is left alone.
LEMMA OtherSems ==
    ASSUME Shape, SemTypes', NEW p \in Procs, SemStep(p), NEW r \in Sems, r # on[p],
           at[p] = "V.give" => takers[on[p]] = << >>
    PROVE  Quiet(r)
<1> USE DEF Shape
<1>1. Step(p) /\ at[p] # "user"
  BY DEF Step, SemStep, PTests, PBlocks, PTakes, PReceives, PRelocks, PReturns, VTests, VPops,
         VCounts, VGives, VRelocks, VReturns
<1>2. on'[p] # r
  BY <1>1, MoverOn DEF NoSem, Sems
<1>3. value'[r] = value[r] /\ blocked'[r].size = blocked[r].size
  <2>1. value' = value \/ value' = [value EXCEPT ![on[p]] = value'[on[p]]]
    BY DEF SemStep, PTests, PBlocks, PTakes, PReceives, PRelocks, PReturns, VTests, VPops,
           VCounts, VGives, VRelocks, VReturns, Looks, semTable, SemTypes
  <2>2. blocked' = blocked \/ blocked' = [blocked EXCEPT ![on[p]] = blocked'[on[p]]]
    BY DEF SemStep, PTests, PBlocks, PTakes, PReceives, PRelocks, PReturns, VTests, VPops,
           VCounts, VGives, VRelocks, VReturns, Looks, semTable, SemTypes
  <2> QED
    BY <2>1, <2>2 DEF SemTypes
<1>4. tokens'[r] = tokens[r] /\ givers'[r] = givers[r]
  BY <1>1, BoxStays
<1>5. holders'[r] = holders[r]
  BY DEF SemStep, PTests, PBlocks, PTakes, PReceives, PRelocks, PReturns, VTests, VPops,
         VCounts, VGives, VRelocks, VReturns, Looks, semTable, ghosts, SemTypes
<1>6. /\ InSleeping(p, r)' <=> InSleeping(p, r) 
      /\ InGiving(p, r)' <=> InGiving(p, r)
      /\ InWith(p, r)' <=> InWith(p, r)
  BY <1>2, <1>5 DEF InSleeping, InGiving, InWith
<1> QED
  BY <1>1, <1>3, <1>4, <1>6, QuietStep

\* SemCreate.
LEMMA CreateMoves ==
    ASSUME Shape, SemTypes', Ruled, NEW p \in Procs, NEW v \in Values, MayCreate(v),
           SemCreate(p, v), NEW r \in Sems
    PROVE  (r = Min(FreeSems) => Creates(r)) /\ (r # Min(FreeSems) => Quiet(r))
<1> USE DEF Shape
<1> DEFINE s == Min(FreeSems)
<1>1. Step(p) /\ at[p] = "user"
  BY DEF Step, SemCall, SemCreate
<1>2. s \in Sems /\ value[s] = -1 /\ v \in Nat
  BY NewSem, SemAssumption DEF SemCreate
<1>3. /\ value' = [value EXCEPT ![s] = v]
      /\ capacity' = [capacity EXCEPT ![s] = IF v <= MAXSLOTS THEN v ELSE -1]
      /\ UNCHANGED <<blocked, tokens, givers, at, on, holders>>
  BY DEF SemCreate, ghosts
<1>4. /\ InSleeping(p, r)' <=> InSleeping(p, r) 
      /\ InGiving(p, r)' <=> InGiving(p, r)
      /\ InWith(p, r)' <=> InWith(p, r)
  BY <1>3 DEF InSleeping, InGiving, InWith
<1> HIDE DEF s
<1>5. ASSUME r # s PROVE Quiet(r)
  <2>1. value'[r] = value[r]
    BY <1>2, <1>3, <1>5 DEF SemTypes
  <2> QED
    BY <1>1, <1>3, <1>4, <2>1, QuietStep
<1>6. ASSUME r = s PROVE Creates(r)
  <2>1. value[r] = -1 /\ value'[r] = v
    BY <1>2, <1>3, <1>6 DEF SemTypes
  <2>2. tokens[r] = 0 /\ givers[r] = << >> /\ holders[r] = {}
    BY <2>1 DEF Fresh
  <2>3. \A q \in Procs : on[q] # r
    BY <2>1 DEF OnInv, NoSem, Sems
  <2>4. Giving(r) = {} /\ Giving(r)' = {} /\ WithUnit(r)' = {} /\ Sleeping(r)' = Sleeping(r)
    BY <1>3, <2>2, <2>3 DEF Giving, WithUnit, Placed, Sleeping
  <2>5. Cardinality(Giving(r)) = 0 /\ Cardinality(Giving(r)') = 0 /\ Cardinality(WithUnit(r)') = 0
    BY <2>4, FS_EmptySet
  <2>6. Coming(r) = 0 /\ Coming(r)' = 0
    BY <1>3, <2>2, <2>5, Tallies, TalliesPrime
  <2>7. Owned => capacity'[r] = value'[r]
    <3>1. Owned => v <= MAXSLOTS
      BY SemAssumption DEF MayCreate, Owned, Ruled, Fits
    <3> QED
      BY <1>2, <1>3, <1>6, <2>1, <3>1 DEF SemTypes
  <2> QED
    BY <1>2, <1>3, <2>1, <2>4, <2>5, <2>6, <2>7 DEF Creates
<1> QED
  BY <1>5, <1>6 DEF s

\* P and V until they wait for the lock.
LEMMA CallMoves ==
    ASSUME Shape, SemTypes', NEW p \in Procs, NEW s \in Sems, 
           P(p, s) \/ (MayV(p, s) /\ V(p, s)), NEW r \in Sems, Step(p)
    PROVE  Quiet(r)
<1> USE DEF Shape
<1>a. at \in [Procs -> Places] /\ on \in [Procs -> Sems \cup {NoSem}]
      /\ holders \in [Sems -> SUBSET Procs] /\ NoSem \notin Sems
  BY DEF SemTypes, NoSem, Sems
<1>1. /\ at[p] = "user" /\ on'[p] = s /\ UNCHANGED <<value, blocked, tokens, givers>>
      /\ at'[p] = "P" \/ at'[p] = "V"
  BY <1>a DEF P, V, Lock, Goto
<1>2. on[p] = NoSem
  BY <1>1 DEF OnInv
<1>3. ~InSleeping(p, r) /\ ~InGiving(p, r)
  BY <1>a, <1>2 DEF InSleeping, InGiving
<1>4. ~InSleeping(p, r)' /\ ~InGiving(p, r)'
  BY <1>1 DEF InSleeping, InGiving
<1>5. CASE P(p, s)
  <2>1. at'[p] = "P" /\ holders' = holders
    BY <1>a, <1>5 DEF P, Lock, Goto, ghosts
  <2>2. InWith(p, r)' <=> InWith(p, r)
    BY <1>a, <1>2, <2>1 DEF InWith
  <2> QED
    BY <1>1, <1>3, <1>4, <2>2, QuietStep
<1>6. CASE MayV(p, s) /\ V(p, s)
  <2>1. at'[p] = "V" /\ holders' = [holders EXCEPT ![s] = holders[s] \ {p}]
    BY <1>a, <1>6 DEF V, Lock, Goto
  <2>2. Owned => p \in holders[s]
    BY <1>6 DEF MayV, Owned
  <2>3. Owned => (InWith(p, r)' <=> InWith(p, r))
    <3>1. CASE r = s
      BY <1>1, <2>1, <2>2, <3>1 DEF InWith
    <3>2. CASE r # s
      BY <1>a, <1>1, <1>2, <2>1, <3>2 DEF InWith
    <3> QED
      BY <3>1, <3>2
  <2> QED
    BY <1>1, <1>3, <1>4, <2>3, QuietStep
<1> QED
  BY <1>5, <1>6

\* The steps that only look, or wait for the lock, or return.
LEMMA PlainMoves ==
    ASSUME Shape, SemTypes', NEW p \in Procs, 
           PTests(p) \/ PRelocks(p) \/ PReturns(p) \/ VTests(p) \/ VRelocks(p) \/ VReturns(p),
           NEW s \in Sems, s = on[p]
    PROVE  Quiet(s)
<1> USE DEF Shape, Looks, Goto, Lock, Return, semTable, ghosts
<1>1. Step(p) /\ at[p] # "user" /\ at[p] # "V.give"
  BY DEF Step, SemStep, PTests, PRelocks, PReturns, VTests, VRelocks, VReturns
<1>2. s \in Sems
  BY <1>1, OnSem
<1>a. at \in [Procs -> Places] /\ on \in [Procs -> Sems \cup {NoSem}]
      /\ holders \in [Sems -> SUBSET Procs] /\ NoSem \notin Sems
  BY DEF SemTypes, NoSem, Sems
<1>3. UNCHANGED <<value, blocked, tokens, givers>>
  BY DEF PTests, PRelocks, PReturns, VTests, VRelocks, VReturns
<1>4. CASE PTests(p)
  <2>1. at[p] = "P" /\ at'[p] \in {"P.block", "P.pass"} /\ on' = on /\ holders' = holders
    BY <1>a, <1>4 DEF PTests
  <2> QED
    BY <1>1, <1>2, <1>3, <2>1, QuietStep DEF InSleeping, InGiving, InWith
<1>5. CASE PRelocks(p)
  <2>1. at[p] = "P.got" /\ at'[p] = "P.again" /\ on' = on /\ holders' = holders
    BY <1>a, <1>5 DEF PRelocks
  <2> QED
    BY <1>1, <1>2, <1>3, <2>1, QuietStep DEF InSleeping, InGiving, InWith
<1>6. CASE PReturns(p)
  <2>1. at[p] = "P.again" /\ at'[p] = "user" /\ on'[p] = NoSem /\ p \in holders'[s]
    BY <1>a, <1>2, <1>6 DEF PReturns
  <2> QED
    BY <1>1, <1>2, <1>3, <1>a, <2>1, QuietStep DEF InSleeping, InGiving, InWith
<1>7. CASE VTests(p)
  <2>1. at[p] = "V" /\ at'[p] \in {"V.pop", "V.count"} /\ on' = on /\ holders' = holders
    BY <1>a, <1>7 DEF VTests
  <2> QED
    BY <1>1, <1>2, <1>3, <2>1, QuietStep DEF InSleeping, InGiving, InWith
<1>8. CASE VRelocks(p) \/ VReturns(p)
  <2>1. at[p] \in {"V.sent", "V.again"} /\ at'[p] \in {"V.again", "user"} /\ holders' = holders
    BY <1>a, <1>8 DEF VRelocks, VReturns
  <2> QED
    BY <1>1, <1>2, <1>3, <2>1, QuietStep DEF InSleeping, InGiving, InWith
<1> QED
  BY <1>4, <1>5, <1>6, <1>7, <1>8

\* Sums, for what comes.
LEMMA Sums ==
    /\ \A n \in Int : n + 0 = n /\ n - 1 = n + -1
    /\ \A n \in Nat : n + 0 = n /\ n - 1 = n + -1
OBVIOUS

\* What is known of a semaphore in the middle of a call, to add up the counts.
LEMMA Totals ==
    ASSUME SemTypes, SemTypes', NEW s \in Sems
    PROVE  /\ value[s] \in Int /\ blocked[s].size \in Nat
           /\ tokens[s] \in Nat /\ Len(givers[s]) \in Nat
           /\ Cardinality(Sleeping(s)) \in Nat /\ Cardinality(Giving(s)) \in Nat
           /\ Cardinality(WithUnit(s)) \in Nat /\ Coming(s) \in Nat
           /\ Coming(s) = tokens[s] + Len(givers[s]) + Cardinality(Giving(s))
           /\ tokens'[s] \in Nat /\ Len(givers'[s]) \in Nat /\ Cardinality(Giving(s)') \in Nat
           /\ Coming(s)' = tokens'[s] + Len(givers'[s]) + Cardinality(Giving(s)')
<1>1. value[s] \in Int /\ blocked[s].size \in Nat
  BY DEF SemTypes
<1>2. /\ tokens[s] \in Nat /\ Len(givers[s]) \in Nat
      /\ Cardinality(Sleeping(s)) \in Nat /\ Cardinality(Giving(s)) \in Nat
      /\ Cardinality(WithUnit(s)) \in Nat /\ Coming(s) \in Nat
      /\ Coming(s) = tokens[s] + Len(givers[s]) + Cardinality(Giving(s))
  BY Tallies
<1>3. /\ tokens'[s] \in Nat /\ Len(givers'[s]) \in Nat /\ Cardinality(Giving(s)') \in Nat
      /\ Coming(s)' = tokens'[s] + Len(givers'[s]) + Cardinality(Giving(s)')
  BY TalliesPrime
<1> QED
  BY <1>1, <1>2, <1>3

\* With a unit in the count or on its way, nobody has the unit of a lock.
LEMMA UnitElsewhere ==
    ASSUME Shape, Rules, UnitsKept, use = "lock", NEW s \in Sems, value[s] \in Nat
    PROVE  /\ value[s] > 0 \/ Coming(s) > 0 => Cardinality(WithUnit(s)) = 0 /\ WithUnit(s) = {}
           /\ WithUnit(s) # {} => Coming(s) = 0
<1>1. /\ Coming(s) \in Nat /\ Cardinality(WithUnit(s)) \in Nat
      /\ Cardinality(WithUnit(s)) = 0 => WithUnit(s) = {}
  BY Tallies DEF Shape
<1>2. value[s] + Coming(s) + Cardinality(WithUnit(s)) = 1
  BY DEF UnitsKept, Owned, Ruled, Rules
<1> QED
  BY <1>1, <1>2

\* Who is about to get a unit that only its owner gives back has none yet.
LEMMA NotYet ==
    ASSUME Shape, Rules, OneEach, UnitsKept, Owned, NEW s \in Sems, value[s] \in Nat,
           value[s] > 0 \/ Coming(s) > 0, NEW p \in Procs, on[p] = s, at[p] \in Asking \ {"P"}
    PROVE  ~InWith(p, s)
<1>1. CASE use = "lock"
  <2>1. WithUnit(s) = {}
    BY <1>1, UnitElsewhere
  <2> QED
    BY <2>1 DEF InWith, WithUnit, Placed
<1>2. CASE use = "pool"
  BY <1>2 DEF OneEach, Asking, InWith
<1> QED
  BY <1>1, <1>2 DEF Owned

LEMMA BlockMoves ==
    ASSUME Shape, SemTypes', NEW p \in Procs, PBlocks(p), NEW s \in Sems, s = on[p]
    PROVE  Blocks(s)
<1> USE DEF Shape
<1>1. Step(p) /\ at[p] = "P.block"
  BY DEF Step, SemStep, PBlocks
<1>2. s \in Sems /\ value[s] = 0
  BY <1>1, OnSem DEF UnderLock
<1>3. /\ at'[p] = "P.take" /\ on' = on /\ holders' = holders /\ UNCHANGED <<value, tokens, givers>>
      /\ blocked'[s].size = blocked[s].size + 1
  BY <1>2 DEF PBlocks, Goto, ghosts, Push, SemTypes
<1>4. /\ InSleeping(p, s)' /\ ~InSleeping(p, s) /\ ~InGiving(p, s)' /\ ~InGiving(p, s)
      /\ InWith(p, s)' <=> InWith(p, s)
  BY <1>1, <1>3 DEF InSleeping, InGiving, InWith
<1>5. /\ Cardinality(Sleeping(s)') = Cardinality(Sleeping(s)) + One(InSleeping(p, s)') - One(InSleeping(p, s))
      /\ Cardinality(Giving(s)') = Cardinality(Giving(s)) + One(InGiving(p, s)') - One(InGiving(p, s))
      /\ Cardinality(WithUnit(s)') = Cardinality(WithUnit(s)) + One(InWith(p, s)') - One(InWith(p, s))
  BY <1>1, <1>2, TallyStep
<1> QED
  BY <1>2, <1>3, <1>4, <1>5, Totals DEF One, Blocks, Adds

LEMMA TakeMoves ==
    ASSUME Shape, SemTypes', OneEach, Rules, Clear, UnitsKept, Ruled,
           NEW p \in Procs, PTakes(p), NEW s \in Sems, s = on[p]
    PROVE  Takes(s)
<1> USE DEF Shape
<1>1. Step(p) /\ at[p] = "P.pass"
  BY DEF Step, SemStep, PTakes
<1>2. s \in Sems /\ value[s] \in Nat /\ value[s] > 0
  BY <1>1, OnSem DEF UnderLock
<1>3. Coming(s) = 0 /\ ~Message(s)
  BY <1>2, Tallies DEF Clear
<1>4. /\ at'[p] = "user" /\ on'[p] = NoSem /\ p \in holders'[s] /\ UNCHANGED <<blocked, tokens, givers>>
      /\ value'[s] = value[s] - 1
  BY <1>2, <1>3 DEF PTakes, SemTypes
<1>5. /\ ~InSleeping(p, s)' /\ ~InSleeping(p, s) /\ ~InGiving(p, s)' /\ ~InGiving(p, s)
      /\ InWith(p, s)'
  BY <1>1, <1>2, <1>4 DEF InSleeping, InGiving, InWith
<1>6. Owned => ~InWith(p, s)
  BY <1>1, <1>2, NotYet DEF Asking
<1>7. /\ Cardinality(Sleeping(s)') = Cardinality(Sleeping(s)) + One(InSleeping(p, s)') - One(InSleeping(p, s))
      /\ Cardinality(Giving(s)') = Cardinality(Giving(s)) + One(InGiving(p, s)') - One(InGiving(p, s))
      /\ Cardinality(WithUnit(s)') = Cardinality(WithUnit(s)) + One(InWith(p, s)') - One(InWith(p, s))
  BY <1>1, <1>2, TallyStep
<1> QED
  BY <1>2, <1>4, <1>5, <1>6, <1>7, Totals DEF One, Takes, Adds

\* The mailbox for the units is there.
LEMMA HasBox ==
    ASSUME SemTypes, Calm, Rules, Ruled, NEW s \in Sems, value[s] \in Nat
    PROVE  capacity[s] >= 0 /\ ~(capacity[s] < 0)
<1>a. value[s] >= 0 /\ capacity[s] \in Int
  BY DEF SemTypes
<1>1. CASE use = "lock"
  BY <1>a, <1>1 DEF Rules
<1>2. CASE use = "signal"
  BY <1>a, <1>2 DEF Rules
<1>3. CASE ~Slices /\ Fits
  <2>1. capacity[s] >= 0
    BY <1>a, <1>3 DEF Calm, HandedOver
  <2> QED
    BY <1>a, <2>1
<1> QED
  BY <1>1, <1>2, <1>3 DEF Ruled

\* A message taken from privMBoxID: p has the unit now that was on its way.
LEMMA ReceiveMoves ==
    ASSUME Shape, SemTypes', Calm, Rules, Clear, UnitsKept, Ruled,
           NEW p \in Procs, PReceives(p), NEW s \in Sems, s = on[p]
    PROVE  Quiet(s) \/ Receives(s)
<1> USE DEF Shape
<1>1. Step(p) /\ at[p] = "P.take" /\ on' = on /\ holders' = holders /\ UNCHANGED <<value, blocked>>
  BY DEF Step, SemStep, PReceives, ghosts
<1>2. s \in Sems /\ value[s] \in Nat
  BY <1>1, OnSem
<1>3. capacity[s] >= 0 /\ ~(capacity[s] < 0)
  BY <1>2, HasBox
<1>4. CASE Message(s)
  <2>1. TakeMessage(s) /\ at' = [Released(s, at) EXCEPT ![p] = "P.got"]
    BY <1>3, <1>4 DEF PReceives
  <2>2. at'[p] = "P.got"
    BY <1>2, <2>1, ReleasedType
  <2>3. Coming(s) > 0 /\ tokens'[s] + Len(givers'[s]) = tokens[s] + Len(givers[s]) - 1
    <3>1. givers[s] \in Seq(Procs) /\ tokens[s] \in Nat /\ Cardinality(Giving(s)) \in Nat
          /\ Coming(s) = tokens[s] + Len(givers[s]) + Cardinality(Giving(s))
      BY <1>2, Tallies DEF SemTypes
    <3>2. CASE givers[s] # << >>
      <4>1. Len(Tail(givers[s])) = Len(givers[s]) - 1 /\ Len(Tail(givers[s])) \in Nat
        BY <3>1, <3>2, TailContents
      <4>2. tokens' = tokens /\ givers'[s] = Tail(givers[s])
        BY <1>2, <2>1, <3>2 DEF TakeMessage, SemTypes
      <4> QED
        BY <3>1, <4>1, <4>2
    <3>3. CASE givers[s] = << >>
      <4>1. tokens[s] > 0 /\ givers' = givers /\ tokens'[s] = tokens[s] - 1
        BY <1>2, <1>4, <2>1, <3>3 DEF TakeMessage, Message, SemTypes
      <4>2. Len(givers[s]) \in Nat /\ Len(givers'[s]) = Len(givers[s])
        BY <3>1, <4>1
      <4>3. \A a, b \in Nat : (a - 1) + b = a + b - 1
        OBVIOUS
      <4>4. tokens'[s] + Len(givers'[s]) = (tokens[s] - 1) + Len(givers[s])
        BY <4>1, <4>2
      <4>5. tokens[s] \in Nat /\ Len(givers[s]) \in Nat
        BY <3>1, <4>2
      <4>6. tokens'[s] + Len(givers'[s]) = tokens[s] + Len(givers[s]) - 1
        BY <4>3, <4>4, <4>5
      <4>7. Coming(s) > 0
        BY <3>1, <4>1, <4>2
      <4> QED
        BY <4>6, <4>7
    <3> QED
      BY <3>2, <3>3
  <2>4. value[s] = 0
    BY <1>2, <2>3 DEF Clear
  <2>5. /\ ~InSleeping(p, s)' /\ InSleeping(p, s) /\ ~InGiving(p, s)' /\ ~InGiving(p, s)
        /\ InWith(p, s)'
    BY <1>1, <2>2 DEF InSleeping, InGiving, InWith
  <2>6. Owned => ~InWith(p, s)
    BY <1>1, <1>2, <2>3, NotYet DEF Asking, Calm
  <2>7. /\ Cardinality(Sleeping(s)') = Cardinality(Sleeping(s)) + One(InSleeping(p, s)') - One(InSleeping(p, s))
        /\ Cardinality(Giving(s)') = Cardinality(Giving(s)) + One(InGiving(p, s)') - One(InGiving(p, s))
        /\ Cardinality(WithUnit(s)') = Cardinality(WithUnit(s)) + One(InWith(p, s)') - One(InWith(p, s))
    BY <1>1, <1>2, TallyStep
  <2> HIDE DEF Shape
  <2>8. /\ Cardinality(Sleeping(s)) \in Nat /\ Cardinality(Giving(s)) \in Nat
        /\ Cardinality(WithUnit(s)) \in Nat /\ tokens[s] \in Nat /\ Len(givers[s]) \in Nat
        /\ Coming(s) = tokens[s] + Len(givers[s]) + Cardinality(Giving(s))
        /\ Coming(s)' = tokens'[s] + Len(givers'[s]) + Cardinality(Giving(s)')
        /\ value[s] \in Int /\ blocked[s].size \in Nat
    <3>1. SemTypes
      BY DEF Shape
    <3>2. /\ Cardinality(Sleeping(s)) \in Nat /\ Cardinality(WithUnit(s)) \in Nat
          /\ value[s] \in Int /\ blocked[s].size \in Nat
      BY <3>1, Totals
    <3>3. /\ Cardinality(Giving(s)) \in Nat /\ tokens[s] \in Nat /\ Len(givers[s]) \in Nat
          /\ Coming(s) = tokens[s] + Len(givers[s]) + Cardinality(Giving(s))
      BY <3>1, Totals
    <3>4. Coming(s)' = tokens'[s] + Len(givers'[s]) + Cardinality(Giving(s)')
      BY <3>1, Totals
    <3> QED
      BY <3>2, <3>3, <3>4
  <2>9. /\ Cardinality(Sleeping(s)') = Cardinality(Sleeping(s)) - 1
        /\ Cardinality(Giving(s)') = Cardinality(Giving(s))
        /\ Owned => Cardinality(WithUnit(s)') = Cardinality(WithUnit(s)) + 1
    <3>1. /\ One(InSleeping(p, s)') = 0 /\ One(InSleeping(p, s)) = 1
          /\ One(InGiving(p, s)') = 0 /\ One(InGiving(p, s)) = 0 /\ One(InWith(p, s)') = 1
      BY <2>5, Zenon DEF One
    <3>2. Owned => One(InWith(p, s)) = 0
      BY <2>6, Zenon DEF One
    <3>3. Cardinality(Sleeping(s)') = Cardinality(Sleeping(s)) - 1
      BY <2>7, <2>8, <3>1
    <3>4. Cardinality(Giving(s)') = Cardinality(Giving(s))
      BY <2>7, <2>8, <3>1
    <3>5. Owned => Cardinality(WithUnit(s)') = Cardinality(WithUnit(s)) + 1
      BY <2>7, <2>8, <3>1, <3>2
    <3> QED
      BY <3>3, <3>4, <3>5
  <2>10. Coming(s)' = Coming(s) - 1
    <3>1. tokens'[s] \in Nat /\ Len(givers'[s]) \in Nat
      BY <1>2, Totals DEF Shape
    <3>2. Coming(s)' = tokens'[s] + Len(givers'[s]) + Cardinality(Giving(s))
      BY <2>8, <2>9, Zenon
    <3>3. tokens'[s] + Len(givers'[s]) = tokens[s] + Len(givers[s]) - 1
      BY <2>3, Zenon
    <3>4. PICK a, b, c, d, e \in Nat :
              /\ a = tokens[s] /\ b = Len(givers[s]) /\ c = Cardinality(Giving(s))
              /\ d = tokens'[s] /\ e = Len(givers'[s])
      BY <2>8, <3>1, Zenon
    <3>5. Coming(s) = a + b + c /\ Coming(s)' = d + e + c /\ d + e = a + b - 1
      BY <2>8, <3>2, <3>3, <3>4, Zenon
    <3>6. d + e = a + b - 1 => d + e + c = (a + b + c) - 1
      OBVIOUS
    <3> QED
      BY <3>5, <3>6, Zenon
  <2>11. value'[s] = value[s] + 0 /\ blocked'[s].size = blocked[s].size + 0
    BY <1>1, <2>8
  <2>12. Coming(s)' = Coming(s) + -1
    BY <2>8, <2>10
  <2>13. Adds(s, 0, -1, 0, -1, 1)
    BY <2>8, <2>9, <2>11, <2>12 DEF Adds
  <2> QED
    BY <2>3, <2>4, <2>13 DEF Receives
<1>5. CASE ~Message(s)
  <2>1. at' = [at EXCEPT ![p] = "P.sleep"] /\ UNCHANGED <<tokens, givers>>
    BY <1>3, <1>5 DEF PReceives, Goto
  <2>2. at'[p] = "P.sleep"
    BY <2>1 DEF SemTypes
  <2> QED
    BY <1>1, <1>2, <2>1, <2>2, QuietStep DEF InSleeping, InGiving, InWith
<1> QED
  BY <1>4, <1>5

LEMMA PopMoves ==
    ASSUME Shape, SemTypes', NEW p \in Procs, VPops(p), NEW s \in Sems, s = on[p]
    PROVE  Pops(s)
<1> USE DEF Shape
<1>1. Step(p) /\ at[p] = "V.pop"
  BY DEF Step, SemStep, VPops
<1>2. s \in Sems /\ value[s] \in Nat /\ blocked[s].size \in Nat /\ blocked[s].size > 0
  BY <1>1, OnSem DEF UnderLock, SemTypes
<1>3. value[s] = 0
  BY <1>2 DEF UnderLock
<1>a. /\ at' = [at EXCEPT ![p] = "V.give"] /\ on' = on /\ holders' = holders
      /\ UNCHANGED <<value, tokens, givers>>
      /\ (blocked' = [blocked EXCEPT ![s] = Pop(@)]) \/ (crashed' /\ blocked' = blocked)
  BY DEF VPops, Goto
<1>b. Pop(blocked[s]).size = blocked[s].size - 1
  BY <1>2 DEF Pop, SemTypes
<1>c. blocked'[s].size = blocked[s].size - 1 \/ (crashed' /\ blocked'[s].size = blocked[s].size)
  BY <1>2, <1>a, <1>b DEF SemTypes
<1>4. /\ at'[p] = "V.give" /\ on' = on /\ holders' = holders /\ UNCHANGED <<value, tokens, givers>>
      /\ blocked'[s].size = blocked[s].size - 1 \/ (crashed' /\ blocked'[s].size = blocked[s].size)
  BY <1>a, <1>c DEF SemTypes
<1>5. /\ ~InSleeping(p, s)' /\ ~InSleeping(p, s) /\ InGiving(p, s)' /\ ~InGiving(p, s)
      /\ ~InWith(p, s)' /\ InWith(p, s)
  BY <1>1, <1>4 DEF InSleeping, InGiving, InWith, HandsOver
<1>6. /\ Cardinality(Sleeping(s)') = Cardinality(Sleeping(s)) + One(InSleeping(p, s)') - One(InSleeping(p, s))
      /\ Cardinality(Giving(s)') = Cardinality(Giving(s)) + One(InGiving(p, s)') - One(InGiving(p, s))
      /\ Cardinality(WithUnit(s)') = Cardinality(WithUnit(s)) + One(InWith(p, s)') - One(InWith(p, s))
  BY <1>1, <1>2, TallyStep
<1>7. /\ Cardinality(Sleeping(s)) \in Nat /\ Cardinality(Giving(s)) \in Nat
      /\ Cardinality(WithUnit(s)) \in Nat /\ tokens[s] \in Nat /\ Len(givers[s]) \in Nat
      /\ Coming(s) = tokens[s] + Len(givers[s]) + Cardinality(Giving(s))
      /\ Coming(s)' = tokens'[s] + Len(givers'[s]) + Cardinality(Giving(s)')
  BY <1>2, Totals
<1>d. /\ One(InSleeping(p, s)') = 0 /\ One(InSleeping(p, s)) = 0 /\ One(InGiving(p, s)') = 1
       /\ One(InGiving(p, s)) = 0 /\ One(InWith(p, s)') = 0 /\ One(InWith(p, s)) = 1
  BY <1>5, Zenon DEF One
<1> HIDE DEF Shape
<1>8. Cardinality(Sleeping(s)') = Cardinality(Sleeping(s))
  BY <1>6, <1>7, <1>d
<1>e. Cardinality(Giving(s)') = Cardinality(Giving(s)) + 1
  BY <1>6, <1>7, <1>d
<1>f. Cardinality(WithUnit(s)') = Cardinality(WithUnit(s)) - 1
  BY <1>6, <1>7, <1>d
<1>g. tokens'[s] = tokens[s] /\ givers'[s] = givers[s]
  BY <1>4
<1>9. Coming(s)' = Coming(s) + 1
  <2>1. Coming(s)' = tokens[s] + Len(givers[s]) + Cardinality(Giving(s)')
    BY <1>7, <1>g, Zenon
  <2>2. PICK a, b, c \in Nat :
            a = tokens[s] /\ b = Len(givers[s]) /\ c = Cardinality(Giving(s))
    BY <1>7, Zenon
  <2>3. Coming(s) = a + b + c /\ Coming(s)' = a + b + (c + 1)
    BY <1>7, <1>e, <2>1, <2>2, Zenon
  <2>4. a + b + (c + 1) = (a + b + c) + 1
    OBVIOUS
  <2> QED
    BY <2>3, <2>4, Zenon
<1>h. /\ value'[s] = value[s] + 0 /\ Cardinality(Sleeping(s)') = Cardinality(Sleeping(s)) + 0
      /\ Cardinality(WithUnit(s)') = Cardinality(WithUnit(s)) + -1
      /\ blocked[s].size + 0 = blocked[s].size /\ blocked[s].size - 1 = blocked[s].size + -1
  BY <1>2, <1>4, <1>7, <1>8, <1>f, Sums, Zenon
<1>i. Adds(s, 0, 1, -1, 0, -1) \/ (crashed' /\ Adds(s, 0, 1, 0, 0, -1))
  BY <1>4, <1>9, <1>h DEF Adds
<1> QED
  BY <1>3, <1>i DEF Pops

\* Only when no unit is on its way does V add to the count.
LEMMA CountMoves ==
    ASSUME Shape, SemTypes', Calm, Rules, UnitsKept, Ruled,
           NEW p \in Procs, VCounts(p), NEW s \in Sems, s = on[p]
    PROVE  Counts(s)
<1> USE DEF Shape
<1>1. Step(p) /\ at[p] = "V.count"
  BY DEF Step, SemStep, VCounts
<1>2. s \in Sems /\ value[s] \in Nat
  BY <1>1, OnSem
<1>3. /\ at'[p] = "user" /\ on'[p] = NoSem /\ holders' = holders /\ UNCHANGED <<blocked, tokens, givers>>
      /\ value'[s] = value[s] + 1
  BY <1>2 DEF VCounts, Return, Goto, ghosts, SemTypes
<1>4. /\ ~InSleeping(p, s)' /\ ~InSleeping(p, s) /\ ~InGiving(p, s)' /\ ~InGiving(p, s)
      /\ ~InWith(p, s)' /\ InWith(p, s)
  BY <1>1, <1>2, <1>3 DEF InSleeping, InGiving, InWith, HandsOver, NoSem, Sems
<1>5. Coming(s) = 0
  <2>1. CASE use = "lock"
    <3>1. p \in WithUnit(s)
      BY <1>1 DEF WithUnit, Placed
    <3> QED
      BY <1>2, <2>1, <3>1, UnitElsewhere
  <2>2. CASE use = "signal"
    <3>1. tokens[s] = 0 /\ p = Min(Procs)
      BY <1>1, <1>2, <2>2 DEF Rules
    <3>2. \A q \in Procs : at[q] \in {"V.give", "V.wait"} => q = p
      BY <2>2, <3>1 DEF Rules
    <3>3. Giving(s) = {} /\ Range(givers[s]) = {}
      BY <1>1, <1>2, <3>2 DEF Giving, Placed, Waiters
    <3>4. Cardinality(Giving(s)) = 0
      BY <3>3, FS_EmptySet
    <3>5. givers[s] = << >>
      <4>1. givers[s] \in Seq(Procs)
        BY <1>2 DEF SemTypes
      <4> QED
        BY <3>3, <4>1, TailContents
    <3> QED
      BY <1>2, <3>1, <3>4, <3>5, Tallies
  <2>3. CASE ~Slices /\ Fits
    <3>1. \A q \in Procs : at[q] \in InCall => q = p
      BY <1>1, <2>3 DEF Calm, Undisturbed, InCall
    <3>2. Giving(s) = {}
      BY <1>1, <3>1 DEF Giving, Placed, InCall
    <3>3. Cardinality(Giving(s)) = 0 /\ tokens[s] = 0 /\ Len(givers[s]) = 0
      BY <1>2, <2>3, <3>2, FS_EmptySet DEF Calm, HandedOver
    <3> QED
      BY <1>2, <3>3, Tallies
  <2> QED
    BY <2>1, <2>2, <2>3 DEF Ruled
<1>6. /\ Cardinality(Sleeping(s)') = Cardinality(Sleeping(s)) + One(InSleeping(p, s)') - One(InSleeping(p, s))
      /\ Cardinality(Giving(s)') = Cardinality(Giving(s)) + One(InGiving(p, s)') - One(InGiving(p, s))
      /\ Cardinality(WithUnit(s)') = Cardinality(WithUnit(s)) + One(InWith(p, s)') - One(InWith(p, s))
  BY <1>1, <1>2, TallyStep
<1> QED
  BY <1>2, <1>3, <1>4, <1>5, <1>6, Totals DEF One, Counts, Adds

\* A unit handed to the first process asleep in MboxRecv.
LEMMA ServeMoves ==
    ASSUME Shape, SemTypes', Calm, Rules, Clear, UnitsKept, Ruled, NEW p \in Procs, VGives(p),
           NEW s \in Sems, s = on[p], takers[s] # << >>
    PROVE  Receives(s) /\ \A r \in Sems \ {s} : Quiet(r)
<1>1. at[p] = "V.give" /\ s \in Sems /\ value[s] \in Nat
  BY OnSem DEF VGives, Shape
<1>2. PICK t \in Procs : t = Head(takers[s]) /\ on[t] = s /\ at[t] = "P.sleep" /\ t # p
  BY <1>1, ServedIs DEF Shape
<1>3. /\ at' = [at EXCEPT ![t] = "P.got", ![p] = "V.sent"]
      /\ UNCHANGED <<on, holders, value, blocked, tokens, givers>>
  <2>1. ~(capacity[s] < 0)
    BY <1>1, HasBox DEF Shape
  <2> QED
    BY <1>2, <2>1 DEF VGives, ghosts, Goto
<1>4. at \in [Procs -> Places]
  BY DEF Shape, SemTypes
<1>5. at'[t] = "P.got" /\ at'[p] = "V.sent" /\ \A q \in Procs \ {p, t} : at'[q] = at[q]
  BY <1>2, <1>3, <1>4
<1>6. ASSUME NEW r \in Sems
      PROVE  /\ Cardinality(Sleeping(r)') = Cardinality(Sleeping(r)) + One(InSleeping(t, r)') - One(InSleeping(t, r))
             /\ Cardinality(Giving(r)') = Cardinality(Giving(r)) + One(InGiving(p, r)') - One(InGiving(p, r))
             /\ Cardinality(WithUnit(r)') = Cardinality(WithUnit(r)) + One(InWith(t, r)') - One(InWith(t, r))
  <2>1. /\ Sleeping(r) \in SUBSET Procs /\ Sleeping(r)' \in SUBSET Procs
        /\ Giving(r) \in SUBSET Procs /\ Giving(r)' \in SUBSET Procs
        /\ WithUnit(r) \in SUBSET Procs /\ WithUnit(r)' \in SUBSET Procs
    BY Tallies, TalliesPrime DEF Shape
  <2>2. \A q \in Procs : /\ q \in Sleeping(r) <=> InSleeping(q, r)
                         /\ q \in Giving(r) <=> InGiving(q, r)
                         /\ q \in WithUnit(r) <=> InWith(q, r)
    BY DEF Sleeping, Giving, WithUnit, Placed, InSleeping, InGiving, InWith
  <2>3. \A q \in Procs : /\ q \in Sleeping(r)' <=> InSleeping(q, r)'
                         /\ q \in Giving(r)' <=> InGiving(q, r)'
                         /\ q \in WithUnit(r)' <=> InWith(q, r)'
    BY DEF Sleeping, Giving, WithUnit, Placed, InSleeping, InGiving, InWith
  <2>4. /\ \A q \in Procs \ {t} : InSleeping(q, r)' <=> InSleeping(q, r)
        /\ \A q \in Procs \ {p} : InGiving(q, r)' <=> InGiving(q, r)
        /\ \A q \in Procs \ {t} : InWith(q, r)' <=> InWith(q, r)
    BY <1>1, <1>2, <1>3, <1>5 DEF InSleeping, InGiving, InWith
  <2>5. Cardinality(Sleeping(r)') = Cardinality(Sleeping(r)) + One(t \in Sleeping(r)') - One(t \in Sleeping(r))
    BY <1>2, <2>1, <2>2, <2>3, <2>4, CountStep
  <2>6. Cardinality(Giving(r)') = Cardinality(Giving(r)) + One(p \in Giving(r)') - One(p \in Giving(r))
    BY <2>1, <2>2, <2>3, <2>4, CountStep
  <2>7. Cardinality(WithUnit(r)') = Cardinality(WithUnit(r)) + One(t \in WithUnit(r)') - One(t \in WithUnit(r))
    BY <1>2, <2>1, <2>2, <2>3, <2>4, CountStep
  <2> QED
    BY <1>2, <2>2, <2>3, <2>5, <2>6, <2>7 DEF One
<1>7. ASSUME NEW r \in Sems
      PROVE  /\ value[r] \in Int /\ blocked[r].size \in Nat
             /\ Cardinality(Sleeping(r)) \in Nat /\ Cardinality(Giving(r)) \in Nat
             /\ Cardinality(WithUnit(r)) \in Nat /\ tokens[r] \in Nat /\ Len(givers[r]) \in Nat
             /\ Coming(r) = tokens[r] + Len(givers[r]) + Cardinality(Giving(r))
             /\ Coming(r)' = tokens[r] + Len(givers[r]) + Cardinality(Giving(r)')
             /\ value'[r] = value[r] /\ blocked'[r].size = blocked[r].size
  BY <1>3, Totals DEF Shape
<1>8. ASSUME NEW r \in Sems \ {s} PROVE Quiet(r)
  <2>1. /\ ~InSleeping(t, r) /\ ~InSleeping(t, r)' /\ ~InGiving(p, r) /\ ~InGiving(p, r)'
        /\ InWith(t, r)' <=> InWith(t, r)
    BY <1>2, <1>3 DEF InSleeping, InGiving, InWith
  <2>2. /\ One(InSleeping(t, r)') = 0 /\ One(InSleeping(t, r)) = 0 /\ One(InGiving(p, r)') = 0
        /\ One(InGiving(p, r)) = 0 /\ One(InWith(t, r)') = One(InWith(t, r))
        /\ One(InWith(t, r)) \in {0, 1}
    BY <2>1, Zenon DEF One
  <2>3. /\ Cardinality(Sleeping(r)') = Cardinality(Sleeping(r)) + 0
        /\ Cardinality(Giving(r)') = Cardinality(Giving(r))
        /\ Cardinality(WithUnit(r)') = Cardinality(WithUnit(r)) + 0
    BY <1>6, <1>7, <2>2
  <2>4. /\ value'[r] = value[r] + 0 /\ blocked'[r].size = blocked[r].size + 0
        /\ Coming(r)' = Coming(r) + 0
    BY <1>7, <2>3
  <2> QED
    BY <2>3, <2>4, Zenon DEF Quiet, Adds
<1>9. Receives(s)
  <2>1. p \in Giving(s)
    BY <1>1 DEF Giving, Placed
  <2>2. Coming(s) > 0 /\ Coming(s) \in Nat
    <3>1. Coming(s) # 0 /\ Coming(s) \in Nat
      BY <2>1, Tallies DEF Shape
    <3> QED
      BY <3>1
  <2>3. value[s] = 0
    BY <1>1, <2>2 DEF Clear
  <2>4. Owned => ~InWith(t, s)
    BY <1>1, <1>2, <2>2, NotYet DEF Asking, Calm
  <2>5. /\ InSleeping(t, s) /\ ~InSleeping(t, s)' /\ InGiving(p, s) /\ ~InGiving(p, s)'
        /\ InWith(t, s)'
    BY <1>1, <1>2, <1>3, <1>5 DEF InSleeping, InGiving, InWith
  <2>6. /\ Cardinality(Sleeping(s)') = Cardinality(Sleeping(s)) - 1
        /\ Cardinality(Giving(s)') = Cardinality(Giving(s)) - 1
        /\ Owned => Cardinality(WithUnit(s)') = Cardinality(WithUnit(s)) + 1
    BY <1>6, <1>7, <2>4, <2>5 DEF One
  <2>7. /\ Cardinality(Giving(s)) \in Nat /\ tokens[s] \in Nat /\ Len(givers[s]) \in Nat
        /\ Coming(s) = tokens[s] + Len(givers[s]) + Cardinality(Giving(s))
        /\ Coming(s)' = tokens[s] + Len(givers[s]) + Cardinality(Giving(s)')
    BY <1>7
  <2>8. Coming(s)' = Coming(s) - 1
    <3>1. PICK a, b, c \in Nat :
              a = tokens[s] /\ b = Len(givers[s]) /\ c = Cardinality(Giving(s))
      BY <2>7, Zenon
    <3>2. Coming(s) = a + b + c /\ Coming(s)' = a + b + (c - 1)
      BY <2>6, <2>7, <3>1, Zenon
    <3>3. a + b + (c - 1) = (a + b + c) - 1
      OBVIOUS
    <3> QED
      BY <3>2, <3>3, Zenon
  <2>9. /\ value'[s] = value[s] + 0 /\ blocked'[s].size = blocked[s].size + 0
        /\ Coming(s)' = Coming(s) + -1
        /\ Cardinality(Sleeping(s)') = Cardinality(Sleeping(s)) + -1
    BY <1>7, <2>2, <2>6, <2>8, Sums, Zenon
  <2>10. Adds(s, 0, -1, 0, -1, 1)
    BY <2>6, <2>9, Zenon DEF Adds
  <2> QED
    BY <2>2, <2>3, <2>10, Zenon DEF Receives
<1> QED
  BY <1>8, <1>9

\* A unit left in the slot, or with p that waits for the slot: it is still on its way.
LEMMA SendMoves ==
    ASSUME Shape, SemTypes', Calm, Rules, Ruled, NEW p \in Procs, VGives(p),
           NEW s \in Sems, s = on[p], takers[s] = << >>
    PROVE  Quiet(s)
<1>1. Step(p) /\ at[p] = "V.give" /\ value[s] \in Nat /\ ~(capacity[s] < 0)
  <2>1. at[p] = "V.give" /\ value[s] \in Nat
    BY OnSem DEF VGives, Shape
  <2>2. ~(capacity[s] < 0)
    BY <2>1, HasBox DEF Shape
  <2> QED
    BY <2>1, <2>2 DEF Step, SemStep
<1>2. /\ \/ tokens' = [tokens EXCEPT ![s] = @ + 1] /\ at' = [at EXCEPT ![p] = "V.sent"] /\ givers' = givers
         \/ givers' = [givers EXCEPT ![s] = Append(@, p)] /\ at' = [at EXCEPT ![p] = "V.wait"] /\ tokens' = tokens
      /\ UNCHANGED <<on, holders, value, blocked>>
  BY <1>1 DEF VGives, ghosts, Goto
<1>3. at'[p] \in {"V.sent", "V.wait"} /\ tokens'[s] + Len(givers'[s]) = (tokens[s] + Len(givers[s])) + 1
  <2>1. givers[s] \in Seq(Procs) /\ Len(givers[s]) \in Nat /\ Len(Append(givers[s], p)) = Len(givers[s]) + 1
    BY AppendContents DEF Shape, SemTypes
  <2>2. at \in [Procs -> Places] /\ tokens \in [Sems -> Nat] /\ givers \in [Sems -> Seq(Procs)]
    BY DEF Shape, SemTypes
  <2>3. at'[p] \in {"V.sent", "V.wait"}
    BY <1>2, <2>2
  <2>4. CASE tokens' = [tokens EXCEPT ![s] = @ + 1] /\ givers' = givers
    <3>1. tokens'[s] = tokens[s] + 1 /\ givers'[s] = givers[s] /\ tokens[s] \in Nat
      BY <2>2, <2>4
    <3> QED
      BY <2>1, <2>3, <3>1
  <2>5. CASE givers' = [givers EXCEPT ![s] = Append(@, p)] /\ tokens' = tokens
    <3>1. givers'[s] = Append(givers[s], p) /\ tokens'[s] = tokens[s] /\ tokens[s] \in Nat
      BY <2>2, <2>5
    <3> QED
      BY <2>1, <2>3, <3>1
  <2> QED
    BY <1>2, <2>4, <2>5
<1>4. /\ ~InSleeping(p, s) /\ ~InSleeping(p, s)' /\ InGiving(p, s) /\ ~InGiving(p, s)'
      /\ InWith(p, s)' <=> InWith(p, s)
  BY <1>1, <1>2, <1>3 DEF InSleeping, InGiving, InWith
<1>5. /\ Cardinality(Sleeping(s)') = Cardinality(Sleeping(s)) + One(InSleeping(p, s)') - One(InSleeping(p, s))
      /\ Cardinality(Giving(s)') = Cardinality(Giving(s)) + One(InGiving(p, s)') - One(InGiving(p, s))
      /\ Cardinality(WithUnit(s)') = Cardinality(WithUnit(s)) + One(InWith(p, s)') - One(InWith(p, s))
  BY <1>1, TallyStep DEF Shape
<1>6. /\ value[s] \in Int /\ blocked[s].size \in Nat
      /\ Cardinality(Sleeping(s)) \in Nat /\ Cardinality(Giving(s)) \in Nat
      /\ Cardinality(WithUnit(s)) \in Nat /\ tokens[s] \in Nat /\ Len(givers[s]) \in Nat
      /\ Coming(s) = tokens[s] + Len(givers[s]) + Cardinality(Giving(s))
      /\ tokens'[s] \in Nat /\ Len(givers'[s]) \in Nat /\ Coming(s) \in Nat
      /\ Coming(s)' = tokens'[s] + Len(givers'[s]) + Cardinality(Giving(s)')
  BY Totals DEF Shape
<1>d. /\ One(InSleeping(p, s)') = 0 /\ One(InSleeping(p, s)) = 0 /\ One(InGiving(p, s)') = 0
      /\ One(InGiving(p, s)) = 1 /\ One(InWith(p, s)') = One(InWith(p, s)) /\ One(InWith(p, s)) \in {0, 1}
  BY <1>4, Zenon DEF One
<1>7. /\ Cardinality(Sleeping(s)') = Cardinality(Sleeping(s))
      /\ Cardinality(Giving(s)') = Cardinality(Giving(s)) - 1
      /\ Cardinality(WithUnit(s)') = Cardinality(WithUnit(s))
  <2>1. Cardinality(Sleeping(s)') = Cardinality(Sleeping(s))
    BY <1>5, <1>6, <1>d
  <2>2. Cardinality(Giving(s)') = Cardinality(Giving(s)) - 1
    BY <1>5, <1>6, <1>d
  <2>3. Cardinality(WithUnit(s)') = Cardinality(WithUnit(s))
    BY <1>5, <1>6, <1>d
  <2> QED
    BY <2>1, <2>2, <2>3
<1>8. Coming(s)' = Coming(s)
  <2>1. /\ tokens[s] \in Nat /\ Len(givers[s]) \in Nat /\ Cardinality(Giving(s)) \in Nat
        /\ tokens'[s] \in Nat /\ Len(givers'[s]) \in Nat
        /\ Coming(s) = tokens[s] + Len(givers[s]) + Cardinality(Giving(s))
        /\ Coming(s)' = tokens'[s] + Len(givers'[s]) + Cardinality(Giving(s)')
    BY <1>6
  <2>2. Cardinality(Giving(s)') = Cardinality(Giving(s)) - 1
    BY <1>7
  <2>3. tokens'[s] + Len(givers'[s]) = (tokens[s] + Len(givers[s])) + 1
    BY <1>3
  <2>4. PICK a \in Nat, b \in Nat, c \in Nat, d \in Nat, e \in Nat :
            a = tokens[s] /\ b = Len(givers[s]) /\ c = Cardinality(Giving(s))
            /\ d = tokens'[s] /\ e = Len(givers'[s])
    BY <2>1, Zenon
  <2>5. Coming(s) = a + b + c
    BY <2>1, <2>4, Zenon
  <2>6. Coming(s)' = d + e + (c - 1)
    BY <2>1, <2>2, <2>4, Zenon
  <2>7. d + e = (a + b) + 1
    BY <2>3, <2>4, Zenon
  <2>8. d + e + (c - 1) = a + b + c
    BY <2>7
  <2> QED
    BY <2>5, <2>6, <2>8, Zenon
<1>9. value'[s] = value[s] /\ blocked'[s].size = blocked[s].size
  BY <1>2
<1>10. /\ value'[s] = value[s] + 0 /\ Coming(s)' = Coming(s) + 0
       /\ blocked'[s].size = blocked[s].size + 0
  BY <1>6, <1>8, <1>9, Sums, Zenon
<1>11. /\ Cardinality(Sleeping(s)') = Cardinality(Sleeping(s)) + 0
       /\ Cardinality(WithUnit(s)') = Cardinality(WithUnit(s)) + 0
  BY <1>6, <1>7, Sums, Zenon
<1> QED
  BY <1>10, <1>11, Zenon DEF Quiet, Adds

\* Every step moves units at one semaphore at most.
Moves(s) == Quiet(s) \/ Creates(s) \/ Blocks(s) \/ Takes(s) \/ Receives(s) \/ Pops(s) \/ Counts(s)
OneMoves == \E s \in Sems : Moves(s) /\ \A r \in Sems \ {s} : Quiet(r)

LEMMA UnitMoves ==
    ASSUME Shape, SemTypes', Calm, Rules, Clear, UnitsKept, Ruled, NEW p \in Procs, Step(p)
    PROVE  OneMoves
<1>1. CASE \E v \in Values : MayCreate(v) /\ SemCreate(p, v)
  <2>1. PICK v \in Values : MayCreate(v) /\ SemCreate(p, v)
    BY <1>1
  <2>2. PICK s \in Sems : s = Min(FreeSems)
    BY <2>1, NewSem DEF Shape, SemCreate
  <2>3. Creates(s)
    BY <2>1, <2>2, CreateMoves
  <2>4. \A r \in Sems \ {s} : Quiet(r)
    BY <2>1, <2>2, CreateMoves
  <2> QED
    BY <2>3, <2>4 DEF OneMoves, Moves
<1>2. CASE \E v \in Values : SemCreateFails(p, v)
  <2>1. UNCHANGED <<value, blocked, tokens, givers, at, on, holders>> /\ at[p] = "user"
    BY <1>2 DEF SemCreateFails, semTable, ghosts
  <2>2. \A r \in Sems : Quiet(r)
    BY <2>1, QuietStep DEF Shape, InSleeping, InGiving, InWith
  <2>3. 0 \in Sems
    BY SemAssumption DEF Sems
  <2> QED
    BY <2>2, <2>3 DEF OneMoves, Moves
<1>3. CASE \E s \in Sems : (MayP(p, s) /\ P(p, s)) \/ (MayV(p, s) /\ V(p, s))
  <2>1. PICK s \in Sems : P(p, s) \/ (MayV(p, s) /\ V(p, s))
    BY <1>3
  <2>2. \A r \in Sems : Quiet(r)
    BY <2>1, CallMoves
  <2> QED
    BY <2>2 DEF OneMoves, Moves
<1>4. CASE SemStep(p)
  <2>1. at[p] # "user"
    BY <1>4 DEF SemStep, PTests, PBlocks, PTakes, PReceives, PRelocks, PReturns, VTests, VPops,
         VCounts, VGives, VRelocks, VReturns
  <2>2. PICK s \in Sems : s = on[p]
    BY <2>1, OnSem DEF Shape
  <2>3. CASE at[p] = "V.give" /\ takers[s] # << >>
    <3>1. VGives(p)
      BY <1>4, <2>3 DEF SemStep, PTests, PBlocks, PTakes, PReceives, PRelocks, PReturns, VTests, VPops,
         VCounts, VRelocks, VReturns
    <3>2. Receives(s) /\ \A r \in Sems \ {s} : Quiet(r)
      BY <2>2, <2>3, <3>1, ServeMoves
    <3> QED
      BY <3>2 DEF OneMoves, Moves
  <2>4. CASE at[p] = "V.give" => takers[s] = << >>
    <3>1. \A r \in Sems \ {s} : Quiet(r)
      BY <1>4, <2>2, <2>4, OtherSems
    <3>2. Moves(s)
      <4>1. CASE PBlocks(p)
        BY <2>2, <4>1, BlockMoves DEF Moves
      <4>2. CASE PTakes(p)
        BY <2>2, <4>2, TakeMoves DEF Moves, Calm
      <4>3. CASE PReceives(p)
        BY <2>2, <4>3, ReceiveMoves DEF Moves
      <4>4. CASE VPops(p)
        BY <2>2, <4>4, PopMoves DEF Moves
      <4>5. CASE VCounts(p)
        BY <2>2, <4>5, CountMoves DEF Moves
      <4>6. CASE VGives(p)
        <5>1. takers[s] = << >>
          BY <2>4, <4>6 DEF VGives
        <5> QED
          BY <2>2, <4>6, <5>1, SendMoves DEF Moves
      <4>7. CASE PTests(p) \/ PRelocks(p) \/ PReturns(p) \/ VTests(p) \/ VRelocks(p) \/ VReturns(p)
        BY <2>2, <4>7, PlainMoves DEF Moves
      <4> QED
        BY <1>4, <4>1, <4>2, <4>3, <4>4, <4>5, <4>6, <4>7 DEF SemStep
    <3> QED
      BY <3>1, <3>2 DEF OneMoves
  <2> QED
    BY <2>3, <2>4
<1> QED
  BY <1>1, <1>2, <1>3, <1>4 DEF Step, SemCall

-----------------------------------------------------------------------------
(* With interrupts off, the calls are not disturbed.                       *)

LEMMA StepRuns ==
    ASSUME NEW p \in Procs, Step(p)
    PROVE  Runs(p) /\ prio' = prio
BY DEF Step, SemCall, SemStep, SemCreate, SemCreateFails, P, V, PTests, PBlocks, PTakes, PReceives,
       PRelocks, PReturns, VTests, VPops, VCounts, VGives, VRelocks, VReturns, Looks

\* The places where the calls to privMBoxID lead to.
LEMMA BoxPlaces ==
    ASSUME SemTypes, OnInv, NEW p \in Procs
    PROVE  /\ PTakes(p) => at'[p] = "user"
           /\ PReceives(p) => at'[p] \in {"P.got", "P.sleep"}
           /\ VGives(p) => at'[p] \in {"V.sent", "V.wait"}
<1>a. at \in [Procs -> Places]
  BY DEF SemTypes
<1>1. ASSUME PTakes(p) PROVE at'[p] = "user"
  <2>1. on[p] \in Sems
    BY <1>1, OnSem DEF PTakes
  <2>2. PICK here \in [Procs -> Places] : at' = [here EXCEPT ![p] = "user"]
    BY <1>a, <1>1, <2>1, ReleasedType DEF PTakes
  <2> QED
    BY <2>2
<1>2. ASSUME PReceives(p) PROVE at'[p] \in {"P.got", "P.sleep"}
  <2>1. on[p] \in Sems
    BY <1>2, OnSem DEF PReceives
  <2>2. Released(on[p], at) \in [Procs -> Places]
    BY <2>1, ReleasedType
  <2>3. \/ at' = [Released(on[p], at) EXCEPT ![p] = "P.got"]
        \/ at' = [at EXCEPT ![p] = "P.sleep"]
        \/ at' = [at EXCEPT ![p] = "P.got"]
    BY <1>2 DEF PReceives, Goto
  <2> QED
    BY <1>a, <2>2, <2>3
<1>3. ASSUME VGives(p) PROVE at'[p] \in {"V.sent", "V.wait"}
  <2>1. \/ at' = [at EXCEPT ![Head(takers[on[p]])] = "P.got", ![p] = "V.sent"]
        \/ at' = [at EXCEPT ![p] = "V.sent"]
        \/ at' = [at EXCEPT ![p] = "V.wait"]
    BY <1>3 DEF VGives, Goto
  <2> QED
    BY <1>a, <2>1
<1> QED
  BY <1>1, <1>2, <1>3

\* Who is in a call is ready, and alone in the mailbox that is its lock.
LEMMA InCallReady ==
    ASSUME Shape, Undisturbed, ~Slices, NEW c \in Procs, at[c] \in InCall
    PROVE  /\ c = cur /\ Ready(c) /\ \A q \in Procs : at[q] \in InCall => q = c
           /\ at[c] \in LockPlaces => ~Contended(on[c])
<1>1. c = cur /\ \A q \in Procs : at[q] \in InCall => q = c
  BY DEF Undisturbed
<1>2. ASSUME at[c] \in LockPlaces PROVE Head(mutex[on[c]]) = c /\ ~Contended(on[c])
  <2> DEFINE m == mutex[on[c]]
  <2>1. on[c] \in Sems
    BY <1>2, OnSem DEF Shape, LockPlaces, Locking, Locked
  <2>2. m \in Seq(Procs) /\ IsInjective(m) /\ Range(m) = Placed(on[c], LockPlaces)
    BY <2>1 DEF Shape, SemTypes, LockOrder, LockPlaces
  <2>3. LockPlaces \subseteq InCall
    BY DEF LockPlaces, Locking, Locked, InCall
  <2>4. c \in Range(m) /\ \A q \in Range(m) : q = c
    BY <1>1, <1>2, <2>2, <2>3 DEF Placed
  <2> HIDE DEF m
  <2>5. m # << >> /\ Head(m) \in Range(m)
    BY <2>2, <2>4, EmptyContents, TailContents
  <2>6. ~(Len(m) > 1)
    <3> SUFFICES ASSUME Len(m) > 1 PROVE FALSE
      OBVIOUS
    <3>1. Len(m) \in Nat /\ DOMAIN m = 1 .. Len(m)
      BY <2>2
    <3>2. 1 \in DOMAIN m /\ 2 \in DOMAIN m
      BY <3>1
    <3>3. m[1] = c /\ m[2] = c
      BY <2>4, <3>2 DEF Range
    <3> QED
      BY <2>2, <3>2, <3>3 DEF IsInjective
  <2> QED
    BY <2>4, <2>5, <2>6 DEF m, Contended
<1>3. at[c] \notin Asleep
  BY DEF InCall, Asleep
<1> QED
  BY <1>1, <1>2, <1>3 DEF Ready, LockPlaces

\* No other process takes a step while c is in its call.
LEMMA NobodyElse ==
    ASSUME Shape, Calm, ~Slices, NEW p \in Procs, Step(p), NEW c \in Procs, at[c] \in InCall
    PROVE  c = p
<1>1. c = cur /\ Ready(c) /\ ~preemptible
  BY InCallReady DEF Calm, Undisturbed
<1>2. Ready(p) /\ (p = cur \/ ~Ready(cur) \/ prio[p] < prio[cur] \/ preemptible)
  BY StepRuns DEF Runs
<1>3. prio[c] <= prio[p] /\ prio[c] \in Int /\ prio[p] \in Int
  BY <1>2 DEF Calm, Undisturbed
<1> QED
  BY <1>1, <1>2, <1>3

\* Where a step leads into a call, or on in it, the dispatcher is not called.
LEMMA NoDispatch ==
    ASSUME Shape, Calm, ~Slices, use' = use, NEW p \in Procs, Step(p), at'[p] \in InCall
    PROVE  ~preemptible' /\ \A q \in Procs \ {p} : at'[q] = at[q]
<1>a. at \in [Procs -> Places]
  BY DEF Shape, SemTypes
<1>1. CASE \E v \in Values : SemCreate(p, v) \/ SemCreateFails(p, v)
  BY <1>1 DEF SemCreate, SemCreateFails, InCall
<1>2. CASE \/ (\E s \in Sems : P(p, s) \/ V(p, s)) \/ PTests(p) \/ VTests(p)
           \/ PRelocks(p) \/ VRelocks(p)
  <2>1. Dispatched(FALSE)
    BY <1>2 DEF P, V, PTests, VTests, PRelocks, VRelocks, Looks
  <2>2. \E x \in LockPlaces : at' = [at EXCEPT ![p] = x]
    <3>1. "P" \in LockPlaces /\ "V" \in LockPlaces /\ "P.again" \in LockPlaces
          /\ "V.again" \in LockPlaces /\ "P.block" \in LockPlaces /\ "P.pass" \in LockPlaces
          /\ "V.pop" \in LockPlaces /\ "V.count" \in LockPlaces
      BY DEF LockPlaces, Locking, Locked
    <3>2. CASE \/ (\E s \in Sems : P(p, s) \/ V(p, s)) \/ PRelocks(p) \/ VRelocks(p)
      BY <3>1, <3>2 DEF P, V, PRelocks, VRelocks, Lock, Goto
    <3>3. CASE PTests(p)
      <4>1. at' = [at EXCEPT ![p] = "P.block"] \/ at' = [at EXCEPT ![p] = "P.pass"]
        BY <3>3 DEF PTests, Looks, Goto
      <4> QED
        BY <3>1, <4>1
    <3>4. CASE VTests(p)
      <4>1. at' = [at EXCEPT ![p] = "V.pop"] \/ at' = [at EXCEPT ![p] = "V.count"]
        BY <3>4 DEF VTests, Looks, Goto
      <4> QED
        BY <3>1, <4>1
    <3> QED
      BY <1>2, <3>2, <3>3, <3>4
  <2> QED
    BY <1>a, <2>1, <2>2 DEF Dispatched
<1>3. CASE PBlocks(p) \/ VPops(p)
  <2>1. at[p] \in LockPlaces /\ at[p] \in InCall
    BY <1>3 DEF PBlocks, VPops, LockPlaces, Locked, InCall
  <2>2. ~Contended(on[p])
    BY <2>1, InCallReady DEF Calm
  <2>3. Dispatched(Contended(on[p])) /\ (at' = [at EXCEPT ![p] = "P.take"] \/ at' = [at EXCEPT ![p] = "V.give"])
    BY <1>3 DEF PBlocks, VPops, Goto
  <2> QED
    BY <1>a, <2>2, <2>3 DEF Dispatched
<1>4. CASE PTakes(p) \/ PReceives(p) \/ VGives(p)
  BY <1>4, BoxPlaces DEF InCall, Shape
<1>5. CASE PReturns(p) \/ VReturns(p) \/ VCounts(p)
  <2>1. at'[p] = "user"
    BY <1>a, <1>5 DEF PReturns, VReturns, VCounts, Return, Goto
  <2> QED
    BY <2>1 DEF InCall
<1> QED
  BY <1>1, <1>2, <1>3, <1>4, <1>5 DEF Step, SemCall, SemStep

LEMMA UndisturbedStep ==
    ASSUME Shape, Calm, use' = use, NEW p \in Procs, Step(p)
    PROVE  Undisturbed'
<1> SUFFICES ASSUME ~Slices, NEW c \in Procs, at'[c] \in InCall
             PROVE  /\ c = cur' /\ ~preemptible'
                    /\ \A q \in Procs : Ready(q)' => prio'[c] <= prio'[q]
  BY DEF Undisturbed, Slices
<1>1. c = p
  <2>1. CASE c # p
    <3>1. at'[c] = at[c]
      BY <2>1, OthersStay DEF Served, InCall, Shape
    <3> QED
      BY <3>1, NobodyElse
  <2> QED
    BY <2>1
<1>2. ~preemptible' /\ \A q \in Procs \ {p} : at'[q] = at[q]
  BY <1>1, NoDispatch
<1>3. Runs(p) /\ prio' = prio
  BY StepRuns
<1>4. ASSUME NEW q \in Procs, Ready(q)' PROVE prio[p] <= prio[q]
  <2>1. CASE q = p
    BY <1>3, <2>1 DEF Runs
  <2>2. CASE q # p
    <3>1. at'[q] = at[q] /\ at[q] \notin Asleep
      BY <1>2, <1>4, <2>2 DEF Ready
    <3>2. at[q] \notin InCall
      BY <2>2, NobodyElse
    <3>3. at[q] \notin Locking
      BY <3>2 DEF Locking, InCall
    <3>4. Ready(q)
      BY <3>1, <3>3 DEF Ready
    <3> QED
      BY <1>3, <3>4 DEF Runs
  <2> QED
    BY <2>1, <2>2
<1> QED
  BY <1>1, <1>2, <1>3, <1>4 DEF Runs

\* MboxRecv and MboxSend change the list of those asleep in MboxRecv.
LEMMA TakersMove ==
    ASSUME SemTypes, OnInv, Waiters, NEW p \in Procs, Step(p), NEW r \in Sems
    PROVE  /\ \/ takers'[r] = takers[r]
              \/ takers'[r] = Append(takers[r], p)
              \/ /\ takers[r] # << >> /\ takers'[r] = Tail(takers[r])
                 /\ at'[Head(takers[r])] = "P.got"
           /\ at'[p] = "P.sleep" /\ r = on[p] => on' = on /\ takers'[r] = Append(takers[r], p)
<1>a. /\ at \in [Procs -> Places] /\ takers \in [Sems -> Seq(Procs)]
      /\ at[p] # "user" => on[p] \in Sems
  BY OnSem DEF SemTypes
<1>1. CASE PReceives(p)
  <2>1. on[p] \in Sems /\ on' = on
    BY <1>a, <1>1 DEF PReceives
  <2>2. CASE takers' = [takers EXCEPT ![on[p]] = Append(@, p)]
    BY <1>a, <2>1, <2>2
  <2>3. CASE takers' = takers /\ (\/ at' = [Released(on[p], at) EXCEPT ![p] = "P.got"]
                                  \/ at' = [at EXCEPT ![p] = "P.got"])
    <3>1. Released(on[p], at) \in [Procs -> Places]
      BY <2>1, ReleasedType
    <3>2. at'[p] = "P.got"
      BY <1>a, <2>3, <3>1
    <3> QED
      BY <2>3, <3>2
  <2> QED
    BY <1>1, <2>2, <2>3 DEF PReceives, Goto
<1>2. CASE VGives(p)
  <2>1. on[p] \in Sems /\ at'[p] # "P.sleep" /\ at[p] = "V.give"
    BY <1>a, <1>2, BoxPlaces DEF VGives
  <2>2. CASE /\ takers[on[p]] # << >> /\ takers' = [takers EXCEPT ![on[p]] = Tail(@)]
             /\ at' = [at EXCEPT ![Head(takers[on[p]])] = "P.got", ![p] = "V.sent"]
    <3>1. Head(takers[on[p]]) \in Procs /\ Head(takers[on[p]]) # p
      BY <2>1, <2>2, ServedIs
    <3>2. at'[Head(takers[on[p]])] = "P.got"
      BY <1>a, <2>2, <3>1
    <3>3. r # on[p] => takers'[r] = takers[r]
      BY <1>a, <2>2
    <3>4. takers'[on[p]] = Tail(takers[on[p]])
      BY <1>a, <2>1, <2>2
    <3> QED
      BY <2>1, <2>2, <3>2, <3>3, <3>4
  <2>3. CASE takers' = takers
    BY <2>1, <2>3
  <2> QED
    BY <1>2, <2>2, <2>3 DEF VGives
<1>3. CASE PTakes(p)
  BY <1>3, BoxPlaces DEF PTakes
<1>4. CASE \E v \in Values : SemCreate(p, v) \/ SemCreateFails(p, v)
  BY <1>4 DEF SemCreate, SemCreateFails, semTable
<1>5. CASE \/ (\E s \in Sems : P(p, s) \/ V(p, s))
           \/ PTests(p) \/ PBlocks(p) \/ PRelocks(p) \/ PReturns(p)
           \/ VTests(p) \/ VPops(p) \/ VCounts(p) \/ VRelocks(p) \/ VReturns(p)
  <2>1. takers' = takers
    BY <1>5 DEF P, V, PTests, PBlocks, PRelocks, PReturns, VTests, VPops, VCounts, VRelocks, VReturns,
                Looks, semTable
  <2>2. at'[p] # "P.sleep"
    <3>1. CASE \/ (\E s \in Sems : P(p, s) \/ V(p, s)) \/ PTests(p) \/ VTests(p)
      BY <1>a, <3>1 DEF P, V, PTests, VTests, Looks, Lock, Goto
    <3>2. CASE PBlocks(p) \/ VPops(p) \/ PRelocks(p) \/ VRelocks(p)
      BY <1>a, <3>2 DEF PBlocks, VPops, PRelocks, VRelocks, Lock, Goto
    <3>3. CASE PReturns(p) \/ VReturns(p) \/ VCounts(p)
      BY <1>a, <3>3 DEF PReturns, VReturns, VCounts, Return, Goto
    <3> QED
      BY <1>5, <3>1, <3>2, <3>3
  <2> QED
    BY <2>1, <2>2
<1> QED
  BY <1>1, <1>2, <1>3, <1>4, <1>5 DEF Step, SemCall, SemStep

LEMMA QueuedStep ==
    ASSUME Shape, Queued, NEW p \in Procs, Step(p)
    PROVE  Queued'
<1> USE DEF Shape
<1> SUFFICES ASSUME NEW q \in Procs, at'[q] = "P.sleep" PROVE q \in Range(takers'[on'[q]])
  BY DEF Queued
<1>a. takers \in [Sems -> Seq(Procs)]
  BY DEF SemTypes
<1>1. CASE q = p
  <2>1. on[p] \in Sems
    <3>1. CASE at[p] = "user"
      BY <1>1, <3>1 DEF Step, SemCall, SemStep, SemCreate, SemCreateFails, P, V, Lock, Goto, PTests,
         PBlocks, PTakes, PReceives, PRelocks, PReturns, VTests, VPops, VCounts, VGives, VRelocks,
         VReturns, SemTypes
    <3> QED
      BY <3>1, OnSem
  <2>2. on' = on /\ takers'[on[p]] = Append(takers[on[p]], p)
    BY <1>1, <2>1, TakersMove
  <2>3. takers[on[p]] \in Seq(Procs)
    BY <1>a, <2>1
  <2>4. p \in Range(Append(takers[on[p]], p))
    BY <2>3, AppendContents
  <2> QED
    BY <1>1, <2>2, <2>4
<1>2. CASE q # p
  <2>1. at[q] = "P.sleep" /\ on'[q] = on[q]
    BY <1>2, OthersStay DEF Served
  <2> DEFINE r == on[q]
  <2>2. r \in Sems /\ q \in Range(takers[r]) /\ takers[r] \in Seq(Procs)
    BY <1>a, <2>1, OnSem DEF Queued
  <2> HIDE DEF r
  <2>3. \/ takers'[r] = takers[r]
        \/ takers'[r] = Append(takers[r], p)
        \/ /\ takers[r] # << >> /\ takers'[r] = Tail(takers[r])
           /\ at'[Head(takers[r])] = "P.got"
    BY <2>2, TakersMove
  <2>4. ASSUME takers'[r] = Append(takers[r], p) PROVE q \in Range(takers'[r])
    <3>1. Range(Append(takers[r], p)) = Range(takers[r]) \cup {p}
      BY <2>2, AppendContents
    <3> QED
      BY <2>2, <2>4, <3>1
  <2>5. ASSUME takers[r] # << >>, takers'[r] = Tail(takers[r]), q # Head(takers[r])
        PROVE  q \in Range(takers'[r])
    <3>1. q \in Range(Tail(takers[r]))
      BY <2>2, <2>5, TailContents
    <3> QED
      BY <2>5, <3>1
  <2>6. q \in Range(takers'[r])
    BY <2>2, <2>3, <2>4, <2>5
  <2> QED
    BY <2>1, <2>6 DEF r
<1> QED
  BY <1>1, <1>2

\* V finds a process asleep that it may hand the unit to.
LEMMA SomebodyTakes ==
    ASSUME Shape, Calm, Sleepers, ~Slices, Fits, NEW p \in Procs, Step(p), at[p] = "V.give"
    PROVE  takers[on[p]] # << >>
<1> DEFINE s == on[p]
<1>1. s \in Sems /\ Ruled /\ ~crashed
  BY OnSem, StepRuns DEF Shape, Ruled, Runs
<1> HIDE DEF s
<1>2. /\ blocked[s].size \in Nat /\ Coming(s) \in Nat /\ Cardinality(Sleeping(s)) \in Nat
      /\ Coming(s) = 0 => Giving(s) = {}
  BY <1>1, Tallies DEF Shape, SemTypes
<1>3. p \in Giving(s)
  BY DEF Giving, Placed, s
<1>4. Cardinality(Sleeping(s)) = blocked[s].size + Coming(s)
  BY <1>1 DEF Sleepers
<1>5. Cardinality(Sleeping(s)) # 0
  BY <1>2, <1>3, <1>4
<1>6. PICK q : q \in Sleeping(s)
  BY <1>5, FS_EmptySet
<1>7. q \in Procs /\ on[q] = s /\ at[q] \in {"P.take", "P.sleep"}
  BY <1>6 DEF Sleeping, Placed
<1>8. at[q] # "P.take"
  BY <1>7, NobodyElse DEF InCall
<1>9. q \in Range(takers[s]) /\ takers[s] \in Seq(Procs)
  BY <1>1, <1>7, <1>8 DEF Calm, Queued, Shape, SemTypes
<1>10. takers[s] # << >>
  BY <1>9, EmptyContents
<1> QED
  BY <1>10 DEF s

LEMMA HandedOverStep ==
    ASSUME Shape, SemTypes', Calm, Sleepers, use' = use, NEW p \in Procs, Step(p)
    PROVE  HandedOver'
<1> SUFFICES ASSUME ~Slices, Fits, NEW r \in Sems
             PROVE  tokens'[r] = 0 /\ givers'[r] = << >> /\ (value'[r] >= 0 => capacity'[r] >= 0)
  BY DEF HandedOver, Slices
<1>a. /\ value \in [Sems -> Nat \cup {-1}] /\ capacity \in [Sems -> Nat \cup {-1}]
      /\ at[p] # "user" => on[p] \in Sems /\ value[on[p]] \in Nat
  BY OnSem DEF Shape, SemTypes
<1>b. \A s \in Sems : /\ tokens[s] = 0 /\ givers[s] = << >> /\ ~Message(s)
                      /\ value[s] >= 0 => capacity[s] >= 0
  BY DEF Calm, HandedOver, Message
<1>1. CASE \E v \in Values : SemCreate(p, v)
  <2>1. PICK v \in Values : SemCreate(p, v)
    BY <1>1
  <2>2. PICK s \in Sems : s = Min(FreeSems)
    BY <2>1, NewSem DEF SemCreate, Shape
  <2>3. /\ value' = [value EXCEPT ![s] = v] /\ UNCHANGED <<tokens, givers>>
        /\ capacity' = [capacity EXCEPT ![s] = IF v <= MAXSLOTS THEN v ELSE -1]
        /\ v >= 0 /\ v <= MAXSLOTS
    BY <2>1, <2>2 DEF SemCreate, Fits
  <2> QED
    BY <1>a, <1>b, <2>3
<1>2. CASE PTakes(p) \/ VCounts(p)
  <2>1. UNCHANGED <<tokens, givers, capacity>> /\ on[p] \in Sems
    BY <1>a, <1>b, <1>2 DEF PTakes, VCounts
  <2>2. r # on[p] => value'[r] = value[r]
    BY <1>a, <1>2 DEF PTakes, VCounts
  <2>3. value[on[p]] >= 0
    BY <1>a, <1>2 DEF PTakes, VCounts
  <2> QED
    BY <1>b, <2>1, <2>2, <2>3
<1>3. CASE PReceives(p)
  <2>1. UNCHANGED <<tokens, givers, value, capacity>>
    BY <1>a, <1>b, <1>3 DEF PReceives
  <2> QED
    BY <1>b, <2>1
<1>4. CASE VGives(p)
  <2>1. takers[on[p]] # << >> /\ capacity[on[p]] >= 0
    BY <1>a, <1>b, <1>4, SomebodyTakes DEF VGives
  <2>2. UNCHANGED <<tokens, givers, value, capacity>>
    BY <2>1, <1>4 DEF VGives
  <2> QED
    BY <1>b, <2>2
<1>5. CASE \/ (\E v \in Values : SemCreateFails(p, v)) \/ (\E s \in Sems : P(p, s) \/ V(p, s))
           \/ PTests(p) \/ PBlocks(p) \/ PRelocks(p) \/ PReturns(p)
           \/ VTests(p) \/ VPops(p) \/ VRelocks(p) \/ VReturns(p)
  <2>1. UNCHANGED <<tokens, givers, value, capacity>>
    BY <1>5 DEF SemCreateFails, P, V, PTests, PBlocks, PRelocks, PReturns, VTests, VPops, VRelocks,
                VReturns, Looks, semTable
  <2> QED
    BY <1>b, <2>1
<1> QED
  BY <1>1, <1>2, <1>3, <1>4, <1>5 DEF Step, SemCall, SemStep

LEMMA OneEachStep ==
    ASSUME Shape, OneEach, use' = use, NEW p \in Procs, Step(p)
    PROVE  OneEach'
<1> USE DEF Shape
<1> SUFFICES ASSUME use = "pool", NEW q \in Procs, at'[q] \in Asking PROVE q \notin holders'[on'[q]]
  BY DEF OneEach
<1>a. /\ at \in [Procs -> Places] /\ on \in [Procs -> Sems \cup {NoSem}]
      /\ holders \in [Sems -> SUBSET Procs]
  BY DEF SemTypes
<1>1. CASE q # p
  <2>1. at'[q] = at[q] /\ on'[q] = on[q]
    BY <1>1, OthersStay DEF Served, Asking
  <2>2. on[q] \in Sems
    BY <2>1, OnSem DEF Asking
  <2>3. q \in holders'[on[q]] <=> q \in holders[on[q]]
    BY <1>1, <2>2, HoldersStay
  <2> QED
    BY <2>1, <2>3 DEF OneEach
<1>2. CASE q = p
  <2>1. CASE \E s \in Sems : MayP(p, s) /\ P(p, s)
    <3>1. PICK s \in Sems : MayP(p, s) /\ P(p, s)
      BY <2>1
    <3>2. on'[p] = s /\ holders' = holders /\ p \notin holders[s]
      BY <1>a, <3>1 DEF P, MayP, ghosts
    <3> QED
      BY <1>2, <3>2
  <2>2. CASE PTests(p) \/ PBlocks(p) \/ PReceives(p)
    <3>1. at[p] \in Asking /\ UNCHANGED <<on, holders>>
      BY <2>2 DEF PTests, PBlocks, PReceives, Looks, ghosts, Asking
    <3> QED
      BY <1>2, <3>1 DEF OneEach
  <2>3. CASE PTakes(p) \/ VGives(p)
    BY <1>2, <2>3, BoxPlaces DEF Asking
  <2>4. CASE \/ (\E s \in Sems : V(p, s)) \/ PRelocks(p) \/ PReturns(p)
             \/ VTests(p) \/ VPops(p) \/ VCounts(p) \/ VRelocks(p) \/ VReturns(p)
    <3>1. CASE (\E s \in Sems : V(p, s)) \/ PRelocks(p) \/ VRelocks(p)
      BY <1>a, <1>2, <3>1 DEF V, PRelocks, VRelocks, Lock, Goto, Asking
    <3>2. CASE VTests(p) \/ VPops(p)
      BY <1>a, <1>2, <3>2 DEF VTests, VPops, Looks, Goto, Asking
    <3>3. CASE PReturns(p) \/ VCounts(p) \/ VReturns(p)
      BY <1>a, <1>2, <3>3 DEF PReturns, VCounts, VReturns, Return, Goto, Asking
    <3> QED
      BY <2>4, <3>1, <3>2, <3>3
  <2>5. CASE \E v \in Values : SemCreate(p, v) \/ SemCreateFails(p, v)
    <3>1. at'[p] = "user"
      BY <2>5 DEF SemCreate, SemCreateFails
    <3> QED
      BY <1>2, <3>1 DEF Asking
  <2> QED
    BY <2>1, <2>2, <2>3, <2>4, <2>5 DEF Step, SemCall, SemStep
<1> QED
  BY <1>1, <1>2

LEMMA CalmStep ==
    ASSUME Shape, SemTypes', Calm, Sleepers, use' = use, NEW p \in Procs, Step(p)
    PROVE  Calm'
<1>1. prio' \in [Procs -> Int]
  BY StepRuns DEF Calm
<1>2. Undisturbed' /\ Queued' /\ HandedOver' /\ OneEach'
  BY UndisturbedStep, QueuedStep, HandedOverStep, OneEachStep DEF Calm
<1> QED
  BY <1>1, <1>2 DEF Calm

-----------------------------------------------------------------------------
(* The invariant, and what it says of the semaphores.                      *)

LEMMA UseStays == [Next]_vars => use' = use
<1> SUFFICES ASSUME [Next]_vars PROVE use' = use
  OBVIOUS
<1>1. ASSUME NEW p \in Procs, SemCall(p) PROVE use' = use
  BY <1>1 DEF SemCall, SemCreate, SemCreateFails, P, V
<1>2. ASSUME NEW p \in Procs, PTests(p) \/ PBlocks(p) \/ PTakes(p) \/ PReceives(p) \/ PRelocks(p)
                              \/ PReturns(p)
      PROVE  use' = use
  BY <1>2 DEF PTests, PBlocks, PTakes, PReceives, PRelocks, PReturns, Looks
<1>3. ASSUME NEW p \in Procs, VTests(p) \/ VPops(p) \/ VCounts(p) \/ VGives(p) \/ VRelocks(p)
                              \/ VReturns(p)
      PROVE  use' = use
  BY <1>3 DEF VTests, VPops, VCounts, VGives, VRelocks, VReturns, Looks
<1>4. CASE UNCHANGED vars
  BY <1>4 DEF vars
<1> QED
  BY <1>1, <1>2, <1>3, <1>4 DEF Next, SemStep

\* The slots of a semaphore are those it was created with, and the messages of a
\* signal find no slot.
LEMMA SlotsStep ==
    ASSUME Shape, SemTypes', Rules, NEW p \in Procs, Step(p), use' = use
    PROVE  /\ use = "lock" => \A s \in Sems : value'[s] >= 0 => capacity'[s] = 1
           /\ use = "signal" => \A s \in Sems : value'[s] >= 0 => capacity'[s] = 0
           /\ use = "signal" => \A s \in Sems : tokens'[s] = 0
<1> USE DEF Shape
<1>a. /\ value \in [Sems -> Nat \cup {-1}] /\ capacity \in [Sems -> Nat \cup {-1}]
      /\ tokens \in [Sems -> Nat]
  BY DEF SemTypes
<1>1. CASE \E v \in Values : MayCreate(v) /\ SemCreate(p, v)
  <2>1. PICK v \in Values : MayCreate(v) /\ SemCreate(p, v)
    BY <1>1
  <2>2. PICK s \in Sems : s = Min(FreeSems)
    BY <2>1, NewSem DEF SemCreate
  <2>3. (use = "lock" => v = 1) /\ (use = "signal" => v = 0) /\ 1 <= MAXSLOTS /\ 0 <= MAXSLOTS
    BY <2>1, SemAssumption DEF MayCreate
  <2>4. /\ value' = [value EXCEPT ![s] = v] /\ tokens' = tokens
        /\ capacity' = [capacity EXCEPT ![s] = IF v <= MAXSLOTS THEN v ELSE -1]
    BY <2>1, <2>2 DEF SemCreate
  <2> QED
    BY <1>a, <2>3, <2>4 DEF Rules
<1>2. CASE ~\E v \in Values : MayCreate(v) /\ SemCreate(p, v)
  <2>1. capacity' = capacity
    BY <1>2 DEF Step, SemCall, SemStep, SemCreate, SemCreateFails, P, V, PTests, PBlocks, PTakes, PReceives,
       PRelocks, PReturns, VTests, VPops, VCounts, VGives, VRelocks, VReturns, Looks, semTable
  <2>2. \A s \in Sems : value'[s] >= 0 => value[s] >= 0
    <3>1. CASE PTakes(p) \/ VCounts(p)
      <4>1. on[p] \in Sems /\ value[on[p]] \in Nat /\ \A s \in Sems \ {on[p]} : value'[s] = value[s]
        BY <1>a, <3>1, OnSem DEF PTakes, VCounts
      <4> QED
        BY <1>a, <4>1
    <3>2. CASE ~(PTakes(p) \/ VCounts(p))
      BY <1>2, <3>2 DEF Step, SemCall, SemStep, SemCreateFails, P, V, PTests, PBlocks, PReceives,
         PRelocks, PReturns, VTests, VPops, VGives, VRelocks, VReturns, Looks, semTable
    <3> QED
      BY <3>1, <3>2
  <2>3. use = "signal" => \A s \in Sems : tokens'[s] = 0
    <3> SUFFICES ASSUME use = "signal", NEW s \in Sems PROVE tokens'[s] = 0
      OBVIOUS
    <3>1. tokens[s] = 0 /\ (value[s] >= 0 => capacity[s] = 0)
      BY DEF Rules
    <3>2. CASE s # on[p]
      BY <3>1, <3>2, BoxStays
    <3>3. CASE s = on[p]
      <4>1. value[s] >= 0
        BY <3>3 DEF OnInv, NoSem, Sems
      <4>2. Message(s) /\ TakeMessage(s) => tokens' = tokens
        BY <3>1 DEF Message, TakeMessage
      <4>3. CASE PTakes(p) \/ PReceives(p)
        BY <3>1, <3>3, <4>2, <4>3 DEF PTakes, PReceives
      <4>4. CASE VGives(p)
        <5>1. tokens' = tokens \/ tokens[s] < capacity[s]
          BY <3>3, <4>4 DEF VGives
        <5>2. ~(tokens[s] < capacity[s])
          BY <3>1, <4>1
        <5> QED
          BY <3>1, <5>1, <5>2
      <4>5. CASE ~(PTakes(p) \/ PReceives(p) \/ VGives(p))
        <5>1. tokens' = tokens
          BY <1>2, <4>5 DEF Step, SemCall, SemStep, SemCreateFails, P, V, PTests, PBlocks,
             PRelocks, PReturns, VTests, VPops, VCounts, VRelocks, VReturns, Looks, semTable
        <5> QED
          BY <3>1, <5>1
      <4> QED
        BY <4>3, <4>4, <4>5
    <3> QED
      BY <3>2, <3>3
  <2> QED
    BY <2>1, <2>2, <2>3 DEF Rules
<1> QED
  BY <1>1, <1>2

SendPlaces == {"V", "V.pop", "V.count", "V.give", "V.wait"}

LEMMA RulesStep ==
    ASSUME Shape, SemTypes', Rules, NEW p \in Procs, Step(p), use' = use
    PROVE  Rules'
<1>1. ASSUME use = "signal", NEW q \in Procs, at'[q] \in SendPlaces
      PROVE  q = Min(Procs)
  <2>1. CASE at[q] \in SendPlaces
    BY <1>1, <2>1 DEF Rules, SendPlaces
  <2>2. CASE at[q] \notin SendPlaces
    <3>1. q = p
      BY <1>1, <2>2, OthersStay DEF Shape, Served, SendPlaces
    <3>2. \E s \in Sems : MayV(p, s) /\ V(p, s)
      <4>a. at \in [Procs -> Places]
        BY DEF Shape, SemTypes
      <4>1. at'[p] \in SendPlaces /\ at[p] \notin SendPlaces
        BY <1>1, <2>2, <3>1
      <4>2. PTests(p) => FALSE
        BY <4>a, <4>1 DEF PTests, Looks, Goto, SendPlaces
      <4>3. PBlocks(p) \/ PRelocks(p) \/ PReturns(p) => FALSE
        BY <4>a, <4>1 DEF PBlocks, PRelocks, PReturns, Lock, Return, Goto, SendPlaces
      <4>4. PTakes(p) => FALSE
        <5>1. ASSUME PTakes(p) PROVE at'[p] = "user"
          <6>1. at[p] = "P.pass"
            BY <5>1 DEF PTakes
          <6>2. on[p] \in Sems
            BY <6>1, OnSem DEF Shape
          <6>3. PICK here \in [Procs -> Places] : at' = [here EXCEPT ![p] = "user"]
            BY <4>a, <5>1, <6>2, ReleasedType DEF PTakes, Shape
          <6> QED
            BY <6>3
        <5> QED
          BY <4>1, <5>1 DEF SendPlaces
      <4>5. PReceives(p) => FALSE
        <5>1. ASSUME PReceives(p) PROVE at'[p] \in {"P.got", "P.sleep"}
          <6>1. at[p] = "P.take"
            BY <5>1 DEF PReceives
          <6>2. on[p] \in Sems
            BY <6>1, OnSem DEF Shape
          <6>3. Released(on[p], at) \in [Procs -> Places]
            BY <6>2, ReleasedType DEF Shape
          <6>4. \/ at' = [Released(on[p], at) EXCEPT ![p] = "P.got"]
                \/ at' = [at EXCEPT ![p] = "P.sleep"]
                \/ at' = [at EXCEPT ![p] = "P.got"]
            BY <5>1 DEF PReceives, Goto
          <6> QED
            BY <4>a, <6>3, <6>4
        <5> QED
          BY <4>1, <5>1 DEF SendPlaces
      <4>6. VTests(p) \/ VPops(p) \/ VCounts(p) \/ VGives(p) => FALSE
        BY <4>1 DEF VTests, VPops, VCounts, VGives, SendPlaces
      <4>7. VRelocks(p) \/ VReturns(p) => FALSE
        BY <4>a, <4>1 DEF VRelocks, VReturns, Lock, Return, Goto, SendPlaces
      <4>8. ASSUME NEW v \in Values, SemCreate(p, v) \/ SemCreateFails(p, v) PROVE FALSE
        BY <4>1, <4>8 DEF SemCreate, SemCreateFails
      <4>9. ASSUME NEW s \in Sems, P(p, s) PROVE FALSE
        BY <4>a, <4>1, <4>9 DEF P, Lock, Goto, SendPlaces
      <4> QED
        BY <4>2, <4>3, <4>4, <4>5, <4>6, <4>7, <4>8, <4>9 DEF Step, SemCall, SemStep
    <3>3. p = Min(Procs)
      BY <1>1, <3>2 DEF MayV
    <3> QED
      BY <3>1, <3>3
  <2> QED
    BY <2>1, <2>2
<1> QED
  BY <1>1, SlotsStep DEF Rules, SendPlaces

LEMMA ClearStep ==
    ASSUME Shape, SemTypes', Clear, \A r \in Sems : Moves(r), use' = use
    PROVE  Clear'
<1> SUFFICES ASSUME Ruled, NEW r \in Sems, value'[r] > 0 PROVE Coming(r)' = 0
  BY DEF Clear, Ruled, Slices
<1>1. value[r] \in Nat \cup {-1} /\ value'[r] \in Nat \cup {-1} /\ Coming(r) \in Nat
  BY Tallies DEF Shape, SemTypes
<1>2. Moves(r) /\ (value[r] > 0 => Coming(r) = 0)
  BY DEF Clear
<1>3. CASE Creates(r)
  BY <1>3 DEF Creates
<1>4. CASE Quiet(r)
  BY <1>1, <1>2, <1>4 DEF Quiet, Adds
<1>5. CASE Blocks(r) \/ Receives(r) \/ Pops(r)
  <2>1. value[r] = 0 /\ value'[r] = value[r] + 0
    BY <1>5 DEF Blocks, Receives, Pops, Adds
  <2> QED
    BY <1>1, <2>1
<1>6. CASE Takes(r) \/ Counts(r)
  <2>1. Coming(r) = 0 /\ Coming(r)' = Coming(r) + 0
    BY <1>2, <1>6 DEF Takes, Counts, Adds
  <2> QED
    BY <1>1, <2>1
<1> QED
  BY <1>2, <1>3, <1>4, <1>5, <1>6 DEF Moves

\* The slots of a semaphore stay what SemCreate made them.
LEMMA CapacityStays ==
    ASSUME SemTypes, NEW p \in Procs, Step(p), NEW r \in Sems, value[r] >= 0
    PROVE  capacity'[r] = capacity[r]
<1>1. ASSUME NEW v \in Values, SemCreate(p, v) PROVE capacity'[r] = capacity[r]
  <2>1. Min(FreeSems) # r
    BY <1>1, NewSem DEF SemCreate
  <2> QED
    BY <1>1, <2>1 DEF SemCreate, SemTypes
<1>2. CASE \/ (\E v \in Values : SemCreateFails(p, v)) \/ (\E s \in Sems : P(p, s) \/ V(p, s))
           \/ SemStep(p)
  BY <1>2 DEF SemStep, SemCreateFails, P, V, PTests, PBlocks, PTakes, PReceives, PRelocks, PReturns,
       VTests, VPops, VCounts, VGives, VRelocks, VReturns, Looks, semTable
<1> QED
  BY <1>1, <1>2 DEF Step, SemCall

LEMMA UnitsKeptStep ==
    ASSUME Shape, SemTypes', UnitsKept, \A r \in Sems : Moves(r), use' = use,
           \A r \in Sems : value[r] >= 0 => capacity'[r] = capacity[r]
    PROVE  UnitsKept'
<1> SUFFICES ASSUME Owned, Ruled, NEW r \in Sems, value'[r] >= 0
             PROVE  value'[r] + Coming(r)' + Cardinality(WithUnit(r)') = capacity'[r]
  BY DEF UnitsKept, Owned, Ruled, Slices
<1>1. /\ value[r] \in Nat \cup {-1} /\ value'[r] \in Nat \cup {-1}
      /\ Coming(r) \in Nat /\ Cardinality(WithUnit(r)) \in Nat
  BY Tallies DEF Shape, SemTypes
<1>2. Moves(r) /\ (value[r] >= 0 => value[r] + Coming(r) + Cardinality(WithUnit(r)) = capacity[r])
  BY DEF UnitsKept
<1>3. CASE Creates(r)
  BY <1>1, <1>3 DEF Creates
<1>4. CASE ~Creates(r)
  <2>1. PICK i \in {-1, 0, 1}, j \in {-1, 0, 1}, n \in Int, l \in {-1, 0, 1} :
           Adds(r, i, j, n, l, 0 - (i + j)) /\ (i # 0 => value[r] >= 0)
    <3>1. CASE Quiet(r)
      BY <3>1 DEF Quiet
    <3>2. CASE Blocks(r)
      BY <3>2 DEF Blocks
    <3>3. CASE Takes(r)
      <4>1. Adds(r, -1, 0, 0, 0, 0 - (-1 + 0)) /\ value[r] >= 0
        BY <1>1, <3>3 DEF Takes
      <4> QED
        BY <4>1
    <3>4. CASE Receives(r)
      <4>1. Adds(r, 0, -1, 0, -1, 0 - (0 + -1))
        BY <3>4 DEF Receives
      <4> QED
        BY <4>1
    <3>5. CASE Counts(r)
      <4>1. Adds(r, 1, 0, 0, 0, 0 - (1 + 0)) /\ value[r] >= 0
        BY <3>5 DEF Counts
      <4> QED
        BY <4>1
    <3>6. CASE Pops(r)
      <4>1. Adds(r, 0, 1, -1, 0, 0 - (0 + 1)) \/ Adds(r, 0, 1, 0, 0, 0 - (0 + 1))
        BY <3>6 DEF Pops
      <4> QED
        BY <4>1
    <3> QED
      BY <1>2, <1>4, <3>1, <3>2, <3>3, <3>4, <3>5, <3>6 DEF Moves
  <2>2. value'[r] = value[r] + i /\ Coming(r)' = Coming(r) + j /\ value[r] >= 0
    BY <1>1, <2>1 DEF Adds
  <2>3. Cardinality(WithUnit(r)') = Cardinality(WithUnit(r)) + (0 - (i + j))
    BY <2>1, <2>2 DEF Adds
  <2>4. PICK a \in Nat, b \in Nat, c \in Nat :
            a = value[r] /\ b = Coming(r) /\ c = Cardinality(WithUnit(r))
    BY <1>1, <2>2
  <2>5. a + b + c = capacity'[r]
    BY <1>2, <2>2, <2>4
  <2>6. (a + i) + (b + j) + (c + (0 - (i + j))) = capacity'[r]
    BY <2>5
  <2> QED
    BY <2>2, <2>3, <2>4, <2>6, Zenon
<1> QED
  BY <1>3, <1>4

LEMMA SleepersStep ==
    ASSUME Shape, SemTypes', Sleepers, \A r \in Sems : Moves(r), use' = use, crashed => crashed'
    PROVE  Sleepers'
<1> SUFFICES ASSUME Ruled, ~crashed', NEW r \in Sems
             PROVE  Cardinality(Sleeping(r)') = blocked'[r].size + Coming(r)'
  BY DEF Sleepers, Ruled, Slices
<1>1. /\ Cardinality(Sleeping(r)) \in Nat /\ blocked[r].size \in Nat /\ Coming(r) \in Nat
  BY Totals DEF Shape
<1>2. Moves(r) /\ Cardinality(Sleeping(r)) = blocked[r].size + Coming(r)
  BY DEF Sleepers
<1>3. CASE Creates(r)
  BY <1>1, <1>2, <1>3 DEF Creates
<1>4. CASE ~Creates(r)
  <2>1. PICK i \in Int, j \in {-1, 0, 1}, n \in {-1, 0, 1}, w \in Int : Adds(r, i, j, n, j + n, w)
    <3>1. CASE Quiet(r)
      BY <3>1 DEF Quiet
    <3>2. CASE Blocks(r)
      BY <3>2 DEF Blocks
    <3>3. CASE Takes(r)
      BY <3>3 DEF Takes
    <3>4. CASE Receives(r)
      <4>1. Adds(r, 0, -1, 0, -1 + 0, 1)
        BY <3>4 DEF Receives
      <4> QED
        BY <4>1
    <3>5. CASE Counts(r)
      BY <3>5 DEF Counts
    <3>6. CASE Pops(r)
      <4>1. Adds(r, 0, 1, -1, 1 + -1, -1)
        BY <3>6 DEF Pops
      <4> QED
        BY <4>1
    <3> QED
      BY <1>2, <1>4, <3>1, <3>2, <3>3, <3>4, <3>5, <3>6 DEF Moves
  <2>2. /\ Coming(r)' = Coming(r) + j /\ blocked'[r].size = blocked[r].size + n
        /\ Cardinality(Sleeping(r)') = Cardinality(Sleeping(r)) + (j + n)
    BY <2>1 DEF Adds
  <2>3. PICK a \in Nat, b \in Nat, c \in Nat :
            a = Cardinality(Sleeping(r)) /\ b = blocked[r].size /\ c = Coming(r)
    BY <1>1
  <2>4. a = b + c
    BY <1>2, <2>3
  <2>5. a + (j + n) = (b + n) + (c + j)
    BY <2>4
  <2> QED
    BY <2>2, <2>3, <2>5, Zenon
<1> QED
  BY <1>3, <1>4

LEMMA SemInvInit == Init => SemInv
<1> SUFFICES ASSUME Init PROVE SemInv
  OBVIOUS
<1>1. Shape
  BY ShapeInit
<1>2. \A s \in Sems : value[s] = -1 /\ tokens[s] = 0 /\ blocked[s].size = 0 /\ givers[s] = << >>
  BY DEF Init, EmptyQueue
<1>3. \A p \in Procs : at[p] = "user" /\ on[p] = NoSem
  BY DEF Init
<1>4. \A s \in Sems : Sleeping(s) = {} /\ Giving(s) = {}
  BY <1>3 DEF Sleeping, Giving, Placed
<1>5. \A s \in Sems : Cardinality(Sleeping(s)) = 0 /\ Cardinality(Giving(s)) = 0
  BY <1>4, FS_EmptySet
<1>6. \A s \in Sems : Coming(s) = 0
  BY <1>1, <1>2, <1>5, Tallies DEF Shape
<1>7. Rules
  BY <1>2, <1>3 DEF Rules
<1>8. Clear /\ UnitsKept
  BY <1>2 DEF Clear, UnitsKept
<1>10. Calm
  BY <1>2, <1>3, SemAssumption DEF Init, Calm, Undisturbed, Queued, HandedOver, OneEach, InCall, Asking
<1>9. Sleepers
  BY <1>2, <1>5, <1>6 DEF Sleepers
<1> QED
  BY <1>1, <1>7, <1>8, <1>9, <1>10 DEF SemInv

LEMMA CrashStays == [Next]_vars => (crashed => crashed')
<1> SUFFICES ASSUME [Next]_vars PROVE crashed => crashed'
  OBVIOUS
<1>1. ASSUME NEW p \in Procs, SemCall(p) PROVE crashed => crashed'
  BY <1>1 DEF SemCall, SemCreate, SemCreateFails, P, V, ghosts
<1>2. ASSUME NEW p \in Procs, PTests(p) \/ PBlocks(p) \/ PTakes(p) \/ PReceives(p) \/ PRelocks(p)
                              \/ PReturns(p)
      PROVE  crashed => crashed'
  BY <1>2 DEF PTests, PBlocks, PTakes, PReceives, PRelocks, PReturns, Looks, ghosts
<1>3. ASSUME NEW p \in Procs, VTests(p) \/ VPops(p) \/ VCounts(p) \/ VGives(p) \/ VRelocks(p)
                              \/ VReturns(p)
      PROVE  crashed => crashed'
  BY <1>3 DEF VTests, VPops, VCounts, VGives, VRelocks, VReturns, Looks, ghosts
<1>4. CASE UNCHANGED vars
  BY <1>4 DEF vars, ghosts
<1> QED
  BY <1>1, <1>2, <1>3, <1>4 DEF Next, SemStep

LEMMA SemInvStep == SemInv /\ [Next]_vars => SemInv'
<1> SUFFICES ASSUME SemInv, [Next]_vars PROVE SemInv'
  OBVIOUS
<1> USE DEF SemInv
<1>1. Shape' /\ SemTypes' /\ use' = use /\ (crashed => crashed')
  BY ShapeStep, UseStays, CrashStays DEF Shape
<1>2. ASSUME NEW p \in Procs, Step(p) PROVE Rules' /\ Calm'
  BY <1>1, <1>2, RulesStep, CalmStep
<1>3. ASSUME NEW p \in Procs, Step(p), Ruled PROVE Clear' /\ UnitsKept' /\ Sleepers'
  <2>1. OneMoves
    BY <1>1, <1>3, UnitMoves
  <2>2. \A r \in Sems : Moves(r)
    BY <2>1 DEF OneMoves, Moves
  <2>3. \A r \in Sems : value[r] >= 0 => capacity'[r] = capacity[r]
    BY <1>3, CapacityStays DEF Shape
  <2> QED
    BY <1>1, <2>2, <2>3, ClearStep, UnitsKeptStep, SleepersStep
<1>4. ~Ruled => Clear' /\ UnitsKept' /\ Sleepers'
  BY <1>1 DEF Ruled, Slices, Clear, UnitsKept, Sleepers
<1>5. CASE UNCHANGED vars
  <2>1. UNCHANGED <<use, value, capacity, blocked, tokens, givers, at, on, holders, crashed>>
    BY <1>5 DEF vars, semTable, ghosts
  <2>2. Rules'
    BY <2>1 DEF Rules, SemInv
  <2>3. \A s \in Sems : Coming(s)' = Coming(s) /\ Sleeping(s)' = Sleeping(s) /\ WithUnit(s)' = WithUnit(s)
    BY <2>1 DEF Coming, Sleeping, WithUnit, Placed
  <2>4. Clear' /\ UnitsKept'
    BY <2>1, <2>3 DEF Clear, UnitsKept, Owned, Ruled, Slices
  <2>5. Sleepers'
    BY <2>1, <2>3 DEF Sleepers, Ruled, Slices
  <2>6. UNCHANGED <<cur, prio, preemptible, takers, mutex>>
    BY <1>5 DEF vars, semTable
  <2>7. Calm'
    BY <2>1, <2>6 DEF Calm, Undisturbed, Slices, Ready, Queued, HandedOver, OneEach
  <2> QED
    BY <1>1, <2>2, <2>4, <2>5, <2>7
<1> QED
  BY <1>1, <1>2, <1>3, <1>4, <1>5 DEF Next, Step

\* What the locks and signals are, always.
THEOREM SemInvariant == Spec => []SemInv
BY SemInvInit, SemInvStep, PTL DEF Spec

\* A semaphore of one unit is a lock (semP_K, semV_K): no two processes are past P
\* before the first has called V, whatever is sliced, blocked or woken in between.
THEOREM LockExcludesCorrect == Spec => []LockExcludes
<1>1. SemInv => LockExcludes
  <2> SUFFICES ASSUME SemInv, use = "lock", NEW s \in Sems, NEW p \in holders[s], NEW q \in holders[s]
               PROVE  p = q
    BY DEF LockExcludes
  <2>1. p \in WithUnit(s) /\ q \in WithUnit(s) /\ WithUnit(s) \subseteq Procs
    BY Tallies DEF SemInv, Shape, WithUnit
  <2>2. value[s] \in Nat
    BY DEF SemInv, Shape, Fresh, SemTypes
  <2>3. Coming(s) \in Nat /\ Cardinality(WithUnit(s)) \in Nat
        /\ value[s] + Coming(s) + Cardinality(WithUnit(s)) = 1
    BY <2>2, Tallies DEF SemInv, Shape, UnitsKept, Owned, Ruled, Rules
  <2>4. Cardinality(WithUnit(s)) \in Nat /\ Cardinality(WithUnit(s)) <= 1
    BY <2>2, <2>3
  <2>5. ASSUME p # q PROVE FALSE
    <3>1. IsFiniteSet(WithUnit(s)) /\ {p} \cup {q} \subseteq WithUnit(s)
      BY <2>1, SemAssumption, FS_Subset
    <3>2. Cardinality({p} \cup {q}) <= Cardinality(WithUnit(s))
      BY <3>1, FS_Subset
    <3>3. IsFiniteSet({p}) /\ Cardinality({p}) = 1 /\ q \notin {p}
      BY <2>5, FS_Singleton
    <3>4. Cardinality({p} \cup {q}) = Cardinality({p}) + 1
      BY <3>3, FS_AddElement
    <3>5. Cardinality({p} \cup {q}) = 2
      BY <3>3, <3>4
    <3>6. 2 <= Cardinality(WithUnit(s))
      BY <3>2, <3>5
    <3> QED
      BY <2>4, <3>6
  <2> QED
    BY <2>5
<1> QED
  BY <1>1, SemInvariant, PTL

\* The units of a lock, or of a pool, are in the count, on their way through privMBoxID,
\* or each with one process: semP_K and semV_K lose none and make none, as long as
\* SemCreate is asked for no more units than a mailbox has slots.
THEOREM UnitsConservedCorrect == ("pool" \in Uses => Fits) => (Spec => []UnitsConserved)
<1> SUFFICES ASSUME "pool" \in Uses => Fits PROVE Spec => []UnitsConserved
  OBVIOUS
<1>1. SemInv => UnitsConserved
  BY DEF SemInv, Shape, SemTypes, UnitsConserved, UnitsKept, Owned, Ruled, Slices
<1> QED
  BY <1>1, SemInvariant, PTL

\* All uses but "any", with slots for all units where they are no lock and no signal.
Settled == "any" \notin Uses /\ (Uses \subseteq {"lock", "signal"} \/ Fits)

\* For each process that semV_K took off the list of a semaphore a message is on its way
\* (phase3.c's Queue and privMBoxID agree), until NULL is followed: for locks and
\* signals whatever is sliced, for all others when interrupts stay off in the calls.
THEOREM SleepersCountedCorrect == Settled => (Spec => []SleepersCounted)
<1> SUFFICES ASSUME Settled PROVE Spec => []SleepersCounted
  OBVIOUS
<1>1. SemInv => SleepersCounted
  <2> SUFFICES ASSUME SemInv PROVE SleepersCounted
    OBVIOUS
  <2>1. Ruled
    BY SemAssumption DEF SemInv, Shape, SemTypes, Settled, Ruled, Slices, AllUses
  <2> QED
    BY <2>1 DEF SemInv, SleepersCounted, Sleepers, Sleeping
<1> QED
  BY <1>1, SemInvariant, PTL

\* A step of a semaphore is a step of a counting semaphore, or none.
LEMMA UnitsStep ==
    ASSUME Shape, SemTypes', OneMoves
    PROVE  [Units!Next]_UnitCount
<1>1. PICK s \in Sems : Moves(s) /\ \A r \in Sems \ {s} : Quiet(r)
  BY DEF OneMoves
<1>a. ASSUME NEW r \in Sems
      PROVE  /\ value[r] \in Nat \cup {-1} /\ value'[r] \in Nat \cup {-1}
             /\ Coming(r) \in Nat /\ Coming(r)' \in Nat
             /\ UnitCount[r] = IF value[r] < 0 THEN -1 ELSE value[r] + Coming(r)
             /\ UnitCount'[r] = IF value'[r] < 0 THEN -1 ELSE value'[r] + Coming(r)'
  BY Tallies, TalliesPrime DEF Shape, SemTypes, UnitCount
<1>b. ASSUME NEW r \in Sems, Quiet(r) PROVE UnitCount'[r] = UnitCount[r]
  BY <1>a, <1>b DEF Quiet, Adds
<1>c. UnitCount' = [UnitCount EXCEPT ![s] = UnitCount'[s]]
  <2>1. \A r \in Sems \ {s} : UnitCount'[r] = UnitCount[r]
    BY <1>1, <1>b
  <2>2. UnitCount = [r \in Sems |-> UnitCount[r]] /\ UnitCount' = [r \in Sems |-> UnitCount'[r]]
    BY DEF UnitCount
  <2> QED
    BY <2>1, <2>2
<1>2. CASE Quiet(s)
  <2>1. UnitCount'[s] = UnitCount[s]
    BY <1>2, <1>b
  <2>2. UnitCount = [UnitCount EXCEPT ![s] = UnitCount[s]]
    BY DEF UnitCount
  <2> QED
    BY <1>c, <2>1, <2>2
<1>3. CASE Creates(s)
  <2>1. UnitCount[s] = -1 /\ UnitCount'[s] \in Nat
    BY <1>a, <1>3 DEF Creates
  <2>2. Units!Create(s)
    BY <1>c, <2>1 DEF Units!Create, Units!None
  <2> QED
    BY <2>2 DEF Units!Next
<1>4. CASE Blocks(s)
  <2>1. UnitCount'[s] = UnitCount[s]
    BY <1>a, <1>4 DEF Blocks, Adds
  <2>2. UnitCount = [UnitCount EXCEPT ![s] = UnitCount[s]]
    BY DEF UnitCount
  <2> QED
    BY <1>c, <2>1, <2>2
<1>5. CASE Takes(s) \/ Receives(s)
  <2>1. UnitCount[s] > 0 /\ UnitCount'[s] = UnitCount[s] - 1
    BY <1>a, <1>5 DEF Takes, Receives, Adds
  <2>2. Units!P(s)
    BY <1>c, <2>1 DEF Units!P
  <2> QED
    BY <2>2 DEF Units!Next
<1>6. CASE Counts(s) \/ Pops(s)
  <2>1. UnitCount[s] # -1 /\ UnitCount'[s] = UnitCount[s] + 1
    BY <1>a, <1>6 DEF Counts, Pops, Adds
  <2>2. Units!V(s)
    BY <1>c, <2>1 DEF Units!V, Units!None
  <2> QED
    BY <2>2 DEF Units!Next
<1> QED
  BY <1>1, <1>2, <1>3, <1>4, <1>5, <1>6 DEF Moves

\* What callers may count on: with their locks and their queues of blocked processes
\* semP_K and semV_K implement a counting semaphore, when it is a lock or a signal, or
\* interrupts stay off in the calls.
THEOREM CountsUnitsCorrect == Settled => (Spec => CountsUnits)
<1> SUFFICES ASSUME Settled PROVE Spec => CountsUnits
  OBVIOUS
<1>1. Init => Units!Init
  BY DEF Init, Units!Init, Units!None, UnitCount
<1>2. SemInv /\ SemInv' /\ [Next]_vars => [Units!Next]_UnitCount
  <2> SUFFICES ASSUME SemInv, SemInv', [Next]_vars PROVE [Units!Next]_UnitCount
    OBVIOUS
  <2>1. Shape /\ SemTypes' /\ Ruled
    BY SemAssumption DEF SemInv, Shape, SemTypes, Settled, Ruled, Slices, AllUses
  <2>2. ASSUME NEW p \in Procs, Step(p) PROVE [Units!Next]_UnitCount
    <3>1. OneMoves
      BY <2>1, <2>2, UnitMoves DEF SemInv
    <3> QED
      BY <2>1, <3>1, UnitsStep
  <2>3. CASE UNCHANGED vars
    <3>1. UNCHANGED <<value, tokens, givers, at, on>>
      BY <2>3 DEF vars, semTable
    <3>2. UnitCount' = UnitCount
      BY <3>1 DEF UnitCount, Coming, Placed
    <3> QED
      BY <3>2
  <2> QED
    BY <2>2, <2>3 DEF Next, Step
<1> QED
  BY <1>1, <1>2, SemInvariant, PTL DEF Spec, CountsUnits, Units!Spec

=============================================================================
