----------------------------- MODULE UserProofs -----------------------------
(***************************************************************************)
(* Theorems about UserProcs: a process that Spawn makes runs the function  *)
(* it was made for, whoever of parent and child comes first, for every     *)
(* number of processes, semaphores and functions.                          *)
(***************************************************************************)
EXTENDS UserProcs, SequenceFacts, FiniteSetTheorems

Spawning == {"spawned", "spawn.init", "spawn.fill"}
Starting == {"start", "start.init", "start.recv", "start.sleep", "start.run"}
Leaving  == {"join", "join.sleep", "leave", "leave.join", "leave.sleep"}
Gone     == {"quit", "none"}
InSem    == {"user"} \cup SemPlaces
Places   == InSem \cup {"boot"} \cup Gone \cup Spawning \cup Starting \cup Leaving

Function(f) == f \in [Procs -> Funcs \cup {NULL}]

UserTypes ==
    /\ at \in [Procs -> Places] /\ on \in [Procs -> Sems \cup {NoSem}]
    /\ takers \in [Sems -> Seq(Procs)] /\ givers \in [Sems -> Seq(Procs)]
    /\ parent \in [Procs -> Procs \cup {Nobody}] /\ child \in [Procs -> Procs \cup {Nobody}]
    /\ Function(func) /\ Function(wanted) /\ Function(ran) /\ Function(startFunc)
    /\ nextPid \in Nat

\* f lists who waits at the mailbox of each semaphore: he sleeps there, and nowhere else.
Waits(f, a, o, place) ==
    \A s \in Sems : /\ IsInjective(f[s])
                    /\ \A q \in Range(f[s]) : q \in Procs /\ a[q] = place /\ o[q] = s

\* So no message to it moves a process that is elsewhere.
SemWaits ==
    /\ \A p \in Procs : at[p] \in SemPlaces => on[p] \in Sems
    /\ Waits(takers, at, on, "P.sleep") /\ Waits(givers, at, on, "V.wait")

\* An entry that no process has had is blank.  The entry of a process that lives holds its
\* own function or none, and so does the call of Spawn that is about to fill it in.
Filling ==
    /\ nextPid <= MAXPROC
    /\ \A c \in Procs : c >= nextPid => at[c] = "none" /\ startFunc[c] = NULL /\ ran[c] = NULL
    /\ \A p \in Procs : parent[p] # p
    /\ \A c \in Procs : at[c] \notin Gone => startFunc[c] \in {NULL, wanted[c]}
    /\ \A p \in Procs : at[p] \in Spawning =>
          /\ child[p] \in Procs /\ child[p] < nextPid
          /\ at[child[p]] \notin Gone => wanted[child[p]] = func[p]

UserInv == UserTypes /\ SemWaits /\ Filling /\ RunsOwnFunction

-----------------------------------------------------------------------------

LEMMA SizeFacts ==
    /\ MAXPROC \in Nat /\ Procs = 0 .. MAXPROC - 1 /\ MAXPROC > 4 /\ Procs \subseteq Nat
    /\ Nobody \notin Procs /\ NoSem \notin Sems
<1>1. MAXPROC \in Nat
  BY SemAssumption, FS_CardinalityType DEF MAXPROC
<1> QED
  BY <1>1, UserAssumption DEF Start3, Nobody, NoSem, Sems

LEMMA UserInvInit == MaxPid < MAXPROC /\ UserInit => UserInv
<1> SUFFICES ASSUME UserInit PROVE UserInv
  OBVIOUS
<1>1. at \in [Procs -> Places]
  BY DEF UserInit, Places, InSem, Gone
<1>2. << >> \in Seq(Procs)
  OBVIOUS
<1>3. /\ Function(func) /\ Function(wanted) /\ Function(ran) /\ Function(startFunc)
  BY DEF UserInit, Function
<1>4. /\ parent \in [Procs -> Procs \cup {Nobody}] /\ child \in [Procs -> Procs \cup {Nobody}]
      /\ nextPid = 5 /\ \A p \in Procs : parent[p] # p
  BY SizeFacts DEF UserInit, Start3, Nobody
<1>5. UserTypes
  BY <1>1, <1>2, <1>3, <1>4 DEF UserInit, UserTypes
<1>6. \A p \in Procs : at[p] \in {"user", "boot", "none"}
  BY DEF UserInit
<1>7. SemWaits
  BY <1>6, EmptyContents DEF UserInit, SemWaits, Waits, SemPlaces, Locking, Locked
<1>8. \A c \in Procs : c >= nextPid => at[c] = "none"
  BY <1>4, SizeFacts DEF UserInit, Start3, Boot
<1>9. \A p \in Procs : startFunc[p] = NULL /\ ran[p] = NULL
  BY DEF UserInit
<1>10. Filling
  BY <1>4, <1>6, <1>8, <1>9, SizeFacts DEF Filling, Spawning
<1> QED
  BY <1>5, <1>7, <1>9, <1>10 DEF UserInv, RunsOwnFunction

\* What every step but those of fork1 and of the semaphores does, seen from the process q.
Keeps(q) ==
    /\ at[q] \in SemPlaces \/ at'[q] \in SemPlaces => at'[q] = at[q]
    /\ at[q] \in Gone => at'[q] \in Gone /\ (at[q] = "none" => at'[q] = "none")
    /\ at'[q] \in Spawning => at[q] \in Spawning /\ child'[q] = child[q] /\ func'[q] = func[q]
    /\ at'[q] \notin Gone => /\ wanted'[q] = wanted[q]
                            /\ startFunc'[q] \in {NULL, startFunc[q], wanted[q]}
    /\ ran'[q] \in {NULL, wanted'[q]}
    /\ q >= nextPid => startFunc'[q] \in {NULL, startFunc[q]} /\ ran'[q] \in {NULL, ran[q]}

Moved ==
    /\ at' \in [Procs -> Places] /\ child' \in [Procs -> Procs \cup {Nobody}]
    /\ Function(func)' /\ Function(wanted)' /\ Function(ran)' /\ Function(startFunc)'
    /\ UNCHANGED <<takers, givers, on, nextPid, parent>>
    /\ \A q \in Procs : Keeps(q)

LEMMA MovedInv ==
    ASSUME UserInv, Moved
    PROVE  UserInv'
<1>1. UserTypes'
  BY DEF UserInv, UserTypes, Moved, Function
<1>2. SemWaits'
  <2>1. "P.sleep" \in SemPlaces /\ "V.wait" \in SemPlaces
    BY DEF SemPlaces
  <2>2. UNCHANGED <<takers, givers, on>>
        /\ \A q \in Procs : at[q] \in SemPlaces \/ at'[q] \in SemPlaces => at'[q] = at[q]
    BY DEF Moved, Keeps
  <2> QED
    BY <2>1, <2>2 DEF UserInv, SemWaits, Waits
<1>3. nextPid' = nextPid /\ parent' = parent /\ \A q \in Procs : Keeps(q)
  BY DEF Moved
<1>4. \A c \in Procs : c >= nextPid => at'[c] = "none" /\ startFunc'[c] = NULL /\ ran'[c] = NULL
  BY <1>3 DEF UserInv, Filling, Keeps, Gone
<1>5. \A c \in Procs : at'[c] \notin Gone => startFunc'[c] \in {NULL, wanted'[c]}
  BY <1>3 DEF UserInv, Filling, Keeps
<1>6. \A p \in Procs : at'[p] \in Spawning =>
          /\ child'[p] \in Procs /\ child'[p] < nextPid
          /\ at'[child'[p]] \notin Gone => wanted'[child'[p]] = func'[p]
  BY <1>3 DEF UserInv, Filling, Keeps
<1>7. Filling'
  BY <1>3, <1>4, <1>5, <1>6 DEF UserInv, Filling
<1>8. RunsOwnFunction'
  BY <1>3 DEF Keeps, RunsOwnFunction
<1> QED
  BY <1>1, <1>2, <1>7, <1>8 DEF UserInv

-----------------------------------------------------------------------------
(* A step of a semaphore.                                                      *)

Lists(f) == f \in [Sems -> Seq(Procs)]

\* Who sleeps at a place, but for x, stays there.
Stay(a, o, b, u, place, x) ==
    \A q \in Procs \ {x} : a[q] = place => b[q] = place /\ u[q] = o[q]

LEMMA WaitsStay ==
    ASSUME NEW f, NEW a, NEW o, NEW b, NEW u, NEW place, Waits(f, a, o, place),
           \A q \in Procs : a[q] = place => b[q] = place /\ u[q] = o[q]
    PROVE  Waits(f, b, u, place)
BY DEF Waits

LEMMA WaitsTail ==
    ASSUME NEW f, Lists(f), NEW a, NEW o, NEW b, NEW u, NEW place,
           Waits(f, a, o, place), NEW s \in Sems, f[s] # << >>,
           Stay(a, o, b, u, place, Head(f[s]))
    PROVE  Waits([f EXCEPT ![s] = Tail(f[s])], b, u, place)
<1> USE DEF Lists, Stay
<1> DEFINE g == [f EXCEPT ![s] = Tail(f[s])]
           h == Head(f[s])
<1>1. f[s] \in Seq(Procs) /\ IsInjective(f[s]) /\ \A q \in Range(f[s]) : o[q] = s
  BY DEF Waits
<1>2. /\ h \in Procs /\ h \in Range(f[s]) /\ IsInjective(Tail(f[s])) /\ h \notin Range(Tail(f[s]))
      /\ Range(Tail(f[s])) \subseteq Range(f[s])
  BY <1>1, TailContents
<1> SUFFICES ASSUME NEW r \in Sems
             PROVE  /\ IsInjective(g[r])
                    /\ \A q \in Range(g[r]) : q \in Procs /\ b[q] = place /\ u[q] = r
  BY DEF Waits
<1>3. IsInjective(f[r]) /\ \A q \in Range(f[r]) : q \in Procs /\ a[q] = place /\ o[q] = r
  BY DEF Waits
<1>4. CASE r = s
  <2>1. g[r] = Tail(f[s])
    BY <1>4
  <2> QED
    BY <1>2, <1>3, <1>4, <2>1
<1>5. CASE r # s
  <2>1. g[r] = f[r] /\ h \notin Range(f[r])
    BY <1>1, <1>2, <1>3, <1>5
  <2> QED
    BY <1>3, <2>1
<1> QED
  BY <1>4, <1>5

LEMMA WaitsAppend ==
    ASSUME NEW f, Lists(f), NEW a, NEW o, NEW b, NEW u, NEW place,
           Waits(f, a, o, place), NEW s \in Sems, NEW p \in Procs,
           a[p] # place, b[p] = place, u[p] = s,
           Stay(a, o, b, u, place, p)
    PROVE  Waits([f EXCEPT ![s] = Append(f[s], p)], b, u, place)
<1> USE DEF Lists, Stay
<1> DEFINE g == [f EXCEPT ![s] = Append(f[s], p)]
<1>1. \A r \in Sems : /\ IsInjective(f[r]) /\ p \notin Range(f[r])
                      /\ \A q \in Range(f[r]) : q \in Procs /\ b[q] = place /\ u[q] = r
  BY DEF Waits
<1>2. f[s] \in Seq(Procs)
  OBVIOUS
<1>3. IsInjective(Append(f[s], p)) /\ Range(Append(f[s], p)) = Range(f[s]) \cup {p}
  BY <1>1, <1>2, AppendContents
<1> SUFFICES ASSUME NEW r \in Sems
             PROVE  /\ IsInjective(g[r])
                    /\ \A q \in Range(g[r]) : q \in Procs /\ b[q] = place /\ u[q] = r
  BY DEF Waits
<1>4. g[r] = IF r = s THEN Append(f[s], p) ELSE f[r]
  OBVIOUS
<1>5. CASE r = s
  BY <1>1, <1>3, <1>4, <1>5
<1>6. CASE r # s
  BY <1>1, <1>4, <1>6
<1> QED
  BY <1>5, <1>6

\* A step of a semaphore moves none but processes that are in the semaphores.
LEMMA SemMoves ==
    ASSUME UserInv, NEW p \in Procs, SemCall(p) \/ SemStep(p), UNCHANGED userVars
    PROVE  UserInv'
<1> USE DEF Goto, Lock, Return, Looks
<1>a. /\ at \in [Procs -> Places] /\ on \in [Procs -> Sems \cup {NoSem}]
      /\ takers \in [Sems -> Seq(Procs)] /\ givers \in [Sems -> Seq(Procs)]
  BY DEF UserInv, UserTypes
<1>t. Lists(takers) /\ Lists(givers)
  BY <1>a DEF Lists
<1>b. InSem \subseteq Places
  BY DEF Places
<1>c. InSem \cap (Gone \cup Spawning \cup {"boot"}) = {}
  BY DEF InSem, SemPlaces, Locking, Locked, Gone, Spawning
<1>d. at[p] \in SemPlaces => on[p] \in Sems
  BY DEF UserInv, SemWaits
<1>e. Waits(takers, at, on, "P.sleep") /\ Waits(givers, at, on, "V.wait")
  BY DEF UserInv, SemWaits
<1>f. /\ {"P", "V", "P.again", "V.again", "P.block", "P.pass", "V.pop", "V.count", "P.take",
          "P.sleep", "P.got", "V.give", "V.wait", "V.sent"} \subseteq SemPlaces
      /\ SemPlaces \subseteq InSem /\ "user" \in InSem /\ "user" \notin SemPlaces
  BY DEF SemPlaces, InSem, Locking, Locked
\* What a step keeps of the sleepers it does not wake.
<1> DEFINE Keep(place, q) == at[q] = place => at'[q] = place /\ on'[q] = on[q]
           Inside == /\ at' \in [Procs -> Places] /\ on' \in [Procs -> Sems \cup {NoSem}]
                     /\ \A q \in Procs : at'[q] = at[q] \/ {at[q], at'[q]} \subseteq InSem
                     /\ \A q \in Procs : at'[q] \in SemPlaces => on'[q] \in Sems
           Queued(f, place) == f \in [Sems -> Seq(Procs)] /\ Waits(f, at', on', place)
<1>1. ASSUME Inside, Queued(takers', "P.sleep"), Queued(givers', "V.wait") PROVE UserInv'
  <2>1. UNCHANGED <<parent, child, func, wanted, ran, startFunc, nextPid>>
    BY DEF userVars, kernelVars, tableVars, callVars
  <2>2. UserTypes'
    BY <1>1, <2>1 DEF UserInv, UserTypes, Function
  <2>3. \A q \in Procs : /\ at[q] = "none" <=> at'[q] = "none"
                         /\ at[q] \in Gone <=> at'[q] \in Gone
                         /\ at[q] \in Spawning <=> at'[q] \in Spawning
    BY <1>1, <1>c DEF Gone
  <2>4. Filling'
    BY <2>1, <2>3 DEF UserInv, Filling
  <2>5. SemWaits'
    BY <1>1 DEF SemWaits
  <2> QED
    BY <2>1, <2>2, <2>4, <2>5 DEF UserInv, RunsOwnFunction
<1>2. CASE \E v \in Values : SemCreate(p, v) \/ SemCreateFails(p, v)
  <2>1. UNCHANGED <<at, on, takers, givers>>
    BY <1>2 DEF SemCreate, SemCreateFails, semTable
  <2>2. \A q \in Procs : at[q] \in SemPlaces => on[q] \in Sems
    BY DEF UserInv, SemWaits
  <2> QED
    BY <1>1, <1>a, <1>e, <2>1, <2>2
\* p goes from one place to another.
<1>3. ASSUME NEW x \in InSem, at[p] \in InSem \ {"P.sleep", "V.wait"}, at' = [at EXCEPT ![p] = x],
             \/ on' = on /\ at[p] \in SemPlaces
             \/ x = "user" /\ on' = [on EXCEPT ![p] = NoSem]
             \/ \E s \in Sems : on' = [on EXCEPT ![p] = s]
      PROVE  /\ Inside
             /\ \A q \in Procs \ {p} : at'[q] = at[q] /\ on'[q] = on[q]
             /\ \A q \in Procs : Keep("P.sleep", q) /\ Keep("V.wait", q)
  <2>1. at' \in [Procs -> Places] /\ on' \in [Procs -> Sems \cup {NoSem}]
    BY <1>3, <1>a, <1>b
  <2>2. at'[p] = x /\ \A q \in Procs \ {p} : at'[q] = at[q] /\ on'[q] = on[q]
    BY <1>3, <1>a
  <2>3. x \in SemPlaces => on'[p] \in Sems
    BY <1>3, <1>a, <1>d, <1>f
  <2>4. \A q \in Procs : at[q] \in SemPlaces => on[q] \in Sems
    BY DEF UserInv, SemWaits
  <2>5. Inside
    BY <1>3, <2>1, <2>2, <2>3, <2>4
  <2> QED
    BY <1>3, <2>2, <2>5
<1> HIDE DEF Inside
<1>4. ASSUME NEW x \in InSem, at[p] \in InSem \ {"P.sleep", "V.wait"}, at' = [at EXCEPT ![p] = x],
             \/ on' = on /\ at[p] \in SemPlaces
             \/ x = "user" /\ on' = [on EXCEPT ![p] = NoSem]
             \/ \E s \in Sems : on' = [on EXCEPT ![p] = s],
             takers' = takers, givers' = givers
      PROVE  UserInv'
  <2>1. Inside /\ \A q \in Procs : Keep("P.sleep", q) /\ Keep("V.wait", q)
    BY <1>3, <1>4
  <2>2. Queued(takers', "P.sleep") /\ Queued(givers', "V.wait")
    BY <1>4, <1>a, <1>e, <2>1, WaitsStay
  <2> QED
    BY <1>1, <2>1, <2>2
<1>5. CASE \E s \in Sems : P(p, s) \/ V(p, s)
  <2>1. PICK s \in Sems : P(p, s) \/ V(p, s)
    BY <1>5
  <2>2. /\ on' = [on EXCEPT ![p] = s] /\ takers' = takers /\ givers' = givers /\ at[p] = "user"
        /\ \E x \in {"P", "V"} : at' = [at EXCEPT ![p] = x]
    BY <2>1 DEF P, V
  <2> QED
    BY <1>4, <1>f, <2>2
<1>6. CASE PTests(p) \/ VTests(p) \/ PBlocks(p) \/ PRelocks(p) \/ VRelocks(p) \/ VPops(p)
  <2>1. /\ on' = on /\ takers' = takers /\ givers' = givers
        /\ at[p] \in {"P", "V", "P.block", "P.got", "V.sent", "V.pop"}
        /\ \E x \in {"P.block", "P.pass", "V.pop", "V.count", "P.take", "P.again", "V.again", "V.give"} :
              at' = [at EXCEPT ![p] = x]
    BY <1>6 DEF PTests, VTests, PBlocks, PRelocks, VRelocks, VPops, semTable
  <2> QED
    BY <1>4, <1>f, <2>1
<1>7. CASE PReturns(p) \/ VReturns(p) \/ VCounts(p)
  <2>1. /\ on' = [on EXCEPT ![p] = NoSem] /\ takers' = takers /\ givers' = givers
        /\ at[p] \in {"P.again", "V.again", "V.count"} /\ at' = [at EXCEPT ![p] = "user"]
    BY <1>7 DEF PReturns, VReturns, VCounts
  <2> QED
    BY <1>4, <1>f, <2>1
\* A message is taken, from a slot or from the first process in MboxSend.
<1>8. ASSUME NEW s \in Sems, NEW x \in {"user", "P.got"}, s = on[p], at[p] \in {"P.pass", "P.take"},
             on' = IF x = "user" THEN [on EXCEPT ![p] = NoSem] ELSE on,
             takers' = takers,
             IF givers[s] = << >>
             THEN at' = [at EXCEPT ![p] = x] /\ givers' = givers
             ELSE /\ at' = [[at EXCEPT ![Head(givers[s])] = "V.sent"] EXCEPT ![p] = x]
                  /\ givers' = [givers EXCEPT ![s] = Tail(givers[s])]
      PROVE  UserInv'
  <2>1. CASE givers[s] = << >>
    BY <1>4, <1>8, <1>f, <2>1
  <2>2. CASE givers[s] # << >>
    <3> DEFINE g == Head(givers[s])
    <3>1. g \in Procs /\ at[g] = "V.wait" /\ on[g] = s
      <4>1. g \in Range(givers[s])
        BY <1>a, <2>2, TailContents
      <4> QED
        BY <1>e, <4>1 DEF Waits
    <3>2. g # p /\ x \in InSem /\ "V.sent" \in InSem
      BY <1>8, <1>f, <3>1
    <3>3. /\ at'[p] = x /\ at'[g] = "V.sent" /\ at' \in [Procs -> Places]
          /\ on'[g] = on[g] /\ on' \in [Procs -> Sems \cup {NoSem}]
          /\ \A q \in Procs \ {p, g} : at'[q] = at[q] /\ on'[q] = on[q]
          /\ x \in SemPlaces => on'[p] = s
      BY <1>8, <1>a, <1>b, <1>f, <2>2, <3>1, <3>2
    <3>4. \A q \in Procs : at[q] \in SemPlaces => on[q] \in Sems
      BY DEF UserInv, SemWaits
    <3>5. Inside
      BY <1>8, <1>f, <3>1, <3>2, <3>3, <3>4 DEF Inside
    <3>6. \A q \in Procs : Keep("P.sleep", q) /\ (q # g => Keep("V.wait", q))
      BY <1>8, <3>1, <3>3
    <3>7. Queued(takers', "P.sleep")
      <4>1. Waits(takers, at', on', "P.sleep")
        BY <1>e, <3>6, WaitsStay
      <4> QED
        BY <1>8, <1>a, <4>1
    <3>8. Waits(givers', at', on', "V.wait")
      <4>a. Stay(at, on, at', on', "V.wait", Head(givers[s]))
        BY <3>6 DEF Stay
      <4>1. Waits([givers EXCEPT ![s] = Tail(givers[s])], at', on', "V.wait")
        BY <1>t, <1>e, <2>2, <4>a, WaitsTail
      <4> QED
        BY <1>8, <2>2, <4>1
    <3>9. givers' \in [Sems -> Seq(Procs)]
      <4>1. Tail(givers[s]) \in Seq(Procs)
        BY <1>a, <2>2, TailContents
      <4> QED
        BY <1>8, <1>a, <2>2, <4>1
    <3> QED
      BY <1>1, <3>5, <3>7, <3>8, <3>9
  <2> QED
    BY <2>1, <2>2
<1>9. CASE PTakes(p)
  BY <1>8, <1>9, <1>d, <1>f DEF PTakes, Message, Released, TakeMessage
\* Somebody joins a list of those that wait.
<1>10. ASSUME NEW s \in Sems, s = on[p], on' = on,
              \/ /\ at[p] = "P.take" /\ at' = [at EXCEPT ![p] = "P.sleep"]
                 /\ takers' = [takers EXCEPT ![s] = Append(takers[s], p)] /\ givers' = givers
              \/ /\ at[p] = "V.give" /\ at' = [at EXCEPT ![p] = "V.wait"]
                 /\ givers' = [givers EXCEPT ![s] = Append(givers[s], p)] /\ takers' = takers
       PROVE  UserInv'
  <2>1. at[p] \in InSem \ {"P.sleep", "V.wait"} /\ at[p] \in SemPlaces
    BY <1>10, <1>f
  <2>2. Inside /\ \A q \in Procs : Keep("P.sleep", q) /\ Keep("V.wait", q)
    BY <1>3, <1>10, <1>f, <2>1
  <2>3. Append(takers[s], p) \in Seq(Procs) /\ Append(givers[s], p) \in Seq(Procs)
    BY <1>a, AppendContents
  <2>4. takers' \in [Sems -> Seq(Procs)] /\ givers' \in [Sems -> Seq(Procs)]
    <3>1. CASE givers' = givers /\ takers' = [takers EXCEPT ![s] = Append(takers[s], p)]
      BY <1>a, <2>3, <3>1
    <3>2. CASE takers' = takers /\ givers' = [givers EXCEPT ![s] = Append(givers[s], p)]
      BY <1>a, <2>3, <3>2
    <3> QED
      BY <1>10, <3>1, <3>2
  <2>5. Waits(takers', at', on', "P.sleep")
    <3>1. CASE takers' = takers
      BY <1>e, <2>2, <3>1, WaitsStay
    <3>2. CASE at'= [at EXCEPT ![p] = "P.sleep"] /\ takers' = [takers EXCEPT ![s] = Append(takers[s], p)]
      <4>1. at'[p] = "P.sleep" /\ at[p] # "P.sleep" /\ on'[p] = s
        BY <1>10, <1>a, <2>1, <3>2
      <4>a. Stay(at, on, at', on', "P.sleep", p)
        BY <2>2 DEF Stay
      <4>2. Waits([takers EXCEPT ![s] = Append(takers[s], p)], at', on', "P.sleep")
        BY <1>t, <1>e, <4>1, <4>a, WaitsAppend
      <4> QED
        BY <3>2, <4>2
    <3> QED
      BY <1>10, <3>1, <3>2
  <2>6. Waits(givers', at', on', "V.wait")
    <3>1. CASE givers' = givers
      BY <1>e, <2>2, <3>1, WaitsStay
    <3>2. CASE at'= [at EXCEPT ![p] = "V.wait"] /\ givers' = [givers EXCEPT ![s] = Append(givers[s], p)]
      <4>1. at'[p] = "V.wait" /\ at[p] # "V.wait" /\ on'[p] = s
        BY <1>10, <1>a, <2>1, <3>2
      <4>a. Stay(at, on, at', on', "V.wait", p)
        BY <2>2 DEF Stay
      <4>2. Waits([givers EXCEPT ![s] = Append(givers[s], p)], at', on', "V.wait")
        BY <1>t, <1>e, <4>1, <4>a, WaitsAppend
      <4> QED
        BY <3>2, <4>2
    <3> QED
      BY <1>10, <3>1, <3>2
  <2> QED
    BY <1>1, <2>2, <2>4, <2>5, <2>6
<1>11. CASE PReceives(p)
  <2> DEFINE s == on[p]
  <2>1. at[p] = "P.take" /\ s \in Sems /\ on' = on
    BY <1>11, <1>d, <1>f DEF PReceives
  <2>2. CASE takers' = takers /\ givers' = givers /\ at' = [at EXCEPT ![p] = "P.got"]
    BY <1>4, <1>f, <2>1, <2>2
  <2>3. CASE takers' = takers /\ TakeMessage(s) /\ at' = [Released(s, at) EXCEPT ![p] = "P.got"]
    BY <1>8, <2>1, <2>3 DEF Released, TakeMessage
  <2>4. CASE /\ at' = [at EXCEPT ![p] = "P.sleep"] /\ givers' = givers
             /\ takers' = [takers EXCEPT ![s] = Append(takers[s], p)]
    BY <1>10, <2>1, <2>4
  <2> QED
    BY <1>11, <2>2, <2>3, <2>4 DEF PReceives
\* A message goes to the first process in MboxRecv, into a slot, or p waits.
<1>12. CASE VGives(p)
  <2> DEFINE s == on[p]
             t == Head(takers[s])
  <2>1. at[p] = "V.give" /\ s \in Sems /\ on' = on
    BY <1>12, <1>d, <1>f DEF VGives
  <2>2. CASE takers' = takers /\ givers' = givers /\ at' = [at EXCEPT ![p] = "V.sent"]
    BY <1>4, <1>f, <2>1, <2>2
  <2>3. CASE /\ at' = [at EXCEPT ![p] = "V.wait"] /\ takers' = takers
             /\ givers' = [givers EXCEPT ![s] = Append(givers[s], p)]
    BY <1>10, <2>1, <2>3
  <2>4. CASE /\ takers[s] # << >> /\ takers' = [takers EXCEPT ![s] = Tail(takers[s])]
             /\ at' = [at EXCEPT ![t] = "P.got", ![p] = "V.sent"] /\ givers' = givers
    <3>1. t \in Procs /\ at[t] = "P.sleep" /\ on[t] = s
      <4>1. t \in Range(takers[s])
        BY <1>a, <2>1, <2>4, TailContents
      <4> QED
        BY <1>e, <2>1, <4>1 DEF Waits
    <3>2. t # p
      BY <2>1, <3>1
    <3>3. /\ at'[p] = "V.sent" /\ at'[t] = "P.got" /\ at' \in [Procs -> Places]
          /\ \A q \in Procs \ {p, t} : at'[q] = at[q]
      BY <1>a, <1>b, <1>f, <2>4, <3>1, <3>2
    <3>4. \A q \in Procs : at[q] \in SemPlaces => on[q] \in Sems
      BY DEF UserInv, SemWaits
    <3>5. Inside
      BY <1>a, <1>f, <2>1, <3>1, <3>2, <3>3, <3>4 DEF Inside
    <3>6. \A q \in Procs : Keep("V.wait", q) /\ (q # t => Keep("P.sleep", q))
      BY <2>1, <3>1, <3>3
    <3>7. Queued(givers', "V.wait")
      <4>1. Waits(givers, at', on', "V.wait")
        BY <1>e, <3>6, WaitsStay
      <4> QED
        BY <1>a, <2>4, <4>1
    <3>8. Waits(takers', at', on', "P.sleep")
      <4>a. Stay(at, on, at', on', "P.sleep", Head(takers[s]))
        BY <3>6 DEF Stay
      <4>1. Waits([takers EXCEPT ![s] = Tail(takers[s])], at', on', "P.sleep")
        BY <1>t, <1>e, <2>1, <2>4, <4>a, WaitsTail
      <4> QED
        BY <2>4, <4>1
    <3>9. takers' \in [Sems -> Seq(Procs)]
      <4>1. Tail(takers[s]) \in Seq(Procs)
        BY <1>a, <2>1, <2>4, TailContents
      <4> QED
        BY <1>a, <2>4, <4>1
    <3> QED
      BY <1>1, <3>5, <3>7, <3>8, <3>9
  <2> QED
    BY <1>12, <2>2, <2>3, <2>4 DEF VGives
<1> QED
  BY <1>2, <1>5, <1>6, <1>7, <1>9, <1>11, <1>12 DEF SemCall, SemStep

-----------------------------------------------------------------------------
(* Spawn, Wait and Terminate.                                                  *)

\* The pid fork1 gives, as long as no entry is used a second time.
LEMMA NewPidIs ==
    ASSUME MaxPid < MAXPROC, UserInv, nextPid <= MaxPid
    PROVE  NewPid = nextPid /\ NewPid % MAXPROC = nextPid /\ nextPid \in Procs /\ at[nextPid] = "none"
<1>1. nextPid \in Nat /\ nextPid < MAXPROC /\ MAXPROC \in Nat
  BY SizeFacts, UserAssumption DEF UserInv, UserTypes
<1>2. nextPid \in Procs
  BY <1>1, SizeFacts
<1>3. at[nextPid] = "none"
  BY <1>1, <1>2 DEF UserInv, Filling
<1>4. nextPid % MAXPROC = nextPid
  BY <1>1
<1>5. nextPid \in nextPid .. nextPid + MAXPROC - 1 /\ nextPid % MAXPROC \in FreeEntries
  BY <1>1, <1>2, <1>3, <1>4 DEF FreeEntries
<1> DEFINE First(n) == /\ n % MAXPROC \in FreeEntries
                       /\ \A m \in nextPid .. n - 1 : m % MAXPROC \notin FreeEntries
<1>6. First(nextPid)
  BY <1>1, <1>5
<1>7. \A n \in nextPid .. nextPid + MAXPROC - 1 : First(n) => n = nextPid
  BY <1>1, <1>5
<1>8. NewPid = nextPid
  <2>1. NewPid = CHOOSE n \in nextPid .. nextPid + MAXPROC - 1 : First(n)
    BY DEF NewPid
  <2> HIDE DEF First
  <2> QED
    BY <1>5, <1>6, <1>7, <2>1
<1> QED
  BY <1>2, <1>3, <1>4, <1>8

\* The child of fork1 has an entry that nobody has had.
LEMMA ForkInv ==
    ASSUME MaxPid < MAXPROC, UserInv, NEW p \in Procs, NEW f \in Funcs, NEW pr, SpawnFork(p, f, pr)
    PROVE  UserInv'
<1> DEFINE c == nextPid
<1>1. NewPid = c /\ NewPid % MAXPROC = c /\ c \in Procs /\ at[c] = "none" /\ c < MAXPROC
  <2>1. nextPid <= MaxPid
    BY DEF SpawnFork
  <2> QED
    BY <2>1, NewPidIs, SizeFacts
<1>2. /\ at[p] = "user" /\ p # c
      /\ at' = [at EXCEPT ![c] = "start", ![p] = "spawned"]
      /\ parent' = [parent EXCEPT ![c] = p] /\ nextPid' = c + 1
      /\ child' = [child EXCEPT ![p] = c] /\ func' = [func EXCEPT ![p] = f]
      /\ wanted' = [wanted EXCEPT ![c] = f]
      /\ UNCHANGED <<on, takers, givers, ran, startFunc>>
  BY <1>1 DEF SpawnFork, KeepSems, semTable, tableVars
<1> HIDE DEF c
<1>3. UserTypes'
  <2>1. "start" \in Places /\ "spawned" \in Places
    BY DEF Places, Starting, Spawning
  <2>2. at' \in [Procs -> Places] /\ nextPid' \in Nat
    BY <1>1, <1>2, <2>1, SizeFacts DEF UserInv, UserTypes
  <2>3. Function(func)' /\ Function(wanted)' /\ Function(ran)' /\ Function(startFunc)'
    BY <1>1, <1>2 DEF UserInv, UserTypes, Function
  <2>4. parent' \in [Procs -> Procs \cup {Nobody}] /\ child' \in [Procs -> Procs \cup {Nobody}]
    BY <1>1, <1>2 DEF UserInv, UserTypes
  <2> QED
    BY <1>2, <2>2, <2>3, <2>4 DEF UserInv, UserTypes
<1>4. /\ at'[c] = "start" /\ at'[p] = "spawned" /\ child'[p] = c /\ func'[p] = f /\ wanted'[c] = f
      /\ \A q \in Procs \ {c} : wanted'[q] = wanted[q] /\ parent'[q] = parent[q]
      /\ \A q \in Procs \ {c, p} : at'[q] = at[q]
      /\ \A q \in Procs \ {p} : child'[q] = child[q] /\ func'[q] = func[q]
      /\ parent'[c] = p
  BY <1>1, <1>2 DEF UserInv, UserTypes, Function
<1>5. SemWaits'
  <2>1. {"user", "none", "start", "spawned"} \cap SemPlaces = {} /\ {"P.sleep", "V.wait"} \subseteq SemPlaces
    BY DEF SemPlaces, Locking, Locked
  <2>2. \A q \in Procs : at[q] \in SemPlaces \/ at'[q] \in SemPlaces => at'[q] = at[q]
    BY <1>1, <1>2, <1>4, <2>1
  <2>3. Waits(takers, at', on, "P.sleep") /\ Waits(givers, at', on, "V.wait")
    BY <2>1, <2>2, WaitsStay DEF UserInv, SemWaits
  <2> QED
    BY <1>2, <2>2, <2>3 DEF UserInv, SemWaits
<1>6. Filling'
  <2>1. nextPid' <= MAXPROC /\ nextPid' = c + 1 /\ c \in Nat
    BY <1>1, <1>2, SizeFacts
  <2>2. \A q \in Procs : q >= c => at[q] = "none" /\ startFunc[q] = NULL /\ ran[q] = NULL
    BY DEF UserInv, Filling, c
  <2>3. p < c
    BY <1>2, <2>1, <2>2, SizeFacts
  <2>4. \A q \in Procs : q >= nextPid' => at'[q] = "none" /\ startFunc'[q] = NULL /\ ran'[q] = NULL
    <3>1. \A q \in Procs : q >= nextPid' => q >= c /\ q # c /\ q # p
      BY <2>1, <2>3, SizeFacts
    <3> QED
      BY <1>2, <1>4, <2>2, <3>1
  <2>5. \A q \in Procs : parent'[q] # q
    BY <1>2, <1>4 DEF UserInv, Filling
  <2>6. \A q \in Procs : at'[q] \notin Gone => startFunc'[q] \in {NULL, wanted'[q]}
    <3>1. startFunc[c] = NULL
      BY <1>1, <2>1, <2>2
    <3> QED
      BY <1>2, <1>4, <3>1 DEF UserInv, Filling, Gone
  <2>7. \A q \in Procs : at'[q] \in Spawning =>
          /\ child'[q] \in Procs /\ child'[q] < nextPid'
          /\ at'[child'[q]] \notin Gone => wanted'[child'[q]] = func'[q]
    <3>1. SUFFICES ASSUME NEW q \in Procs, at'[q] \in Spawning
                   PROVE  /\ child'[q] \in Procs /\ child'[q] < nextPid'
                          /\ at'[child'[q]] \notin Gone => wanted'[child'[q]] = func'[q]
      OBVIOUS
    <3>2. CASE q = p
      BY <1>1, <1>4, <2>1, <3>2
    <3>3. CASE q # p
      <4>1. q # c
        BY <1>4, <3>1 DEF Spawning
      <4>2. at[q] \in Spawning /\ child'[q] = child[q] /\ func'[q] = func[q]
        BY <1>4, <3>1, <3>3, <4>1
      <4>3. /\ child[q] \in Procs /\ child[q] < c
            /\ at[child[q]] \notin Gone => wanted[child[q]] = func[q]
        BY <4>2 DEF UserInv, Filling, c
      <4>4. child[q] # c /\ child[q] < c + 1
        BY <2>1, <4>3, SizeFacts
      <4>5. at'[child[q]] \notin Gone => at[child[q]] \notin Gone
        BY <1>2, <1>4, <4>3, <4>4 DEF Gone
      <4> QED
        BY <1>4, <2>1, <4>2, <4>3, <4>4, <4>5
    <3> QED
      BY <3>2, <3>3
  <2> QED
    BY <2>1, <2>4, <2>5, <2>6, <2>7 DEF Filling
<1>7. RunsOwnFunction'
  <2>1. ran[c] = NULL
    BY <1>1, SizeFacts DEF UserInv, Filling, c
  <2> QED
    BY <1>2, <1>4, <2>1 DEF UserInv, RunsOwnFunction
<1> QED
  BY <1>3, <1>5, <1>6, <1>7 DEF UserInv

LEMMA UserStepInv ==
    ASSUME MaxPid < MAXPROC, UserInv, NEW p \in Procs, UserCall(p) \/ UserStep(p)
    PROVE  UserInv'
<1> USE DEF Goto
<1>a. /\ at \in [Procs -> Places] /\ child \in [Procs -> Procs \cup {Nobody}]
      /\ Function(func) /\ Function(wanted) /\ Function(ran) /\ Function(startFunc)
  BY DEF UserInv, UserTypes
<1>b. /\ \A q \in Procs : at[q] \notin Gone => startFunc[q] \in {NULL, wanted[q]}
      /\ \A q \in Procs : at[q] \in Spawning =>
            /\ child[q] \in Procs /\ child[q] < nextPid
            /\ at[child[q]] \notin Gone => wanted[child[q]] = func[q]
      /\ \A q \in Procs : ran[q] \in {NULL, wanted[q]} /\ parent[q] # q
      /\ \A q \in Procs : q >= nextPid => at[q] = "none"
  BY DEF UserInv, Filling, RunsOwnFunction
<1>c. \A x \in {"user", "boot"} \cup Gone \cup Spawning \cup Starting \cup Leaving :
          x \in Places /\ x \notin SemPlaces
  BY DEF Places, InSem, Gone, Spawning, Starting, Leaving, SemPlaces, Locking, Locked
<1>d. Gone \cap ({"user", "boot"} \cup Spawning \cup Starting \cup Leaving) = {}
  BY DEF Gone, Spawning, Starting, Leaving
<1>e. Spawning \cap ({"user", "boot"} \cup Starting \cup Leaving) = {}
  BY DEF Gone, Spawning, Starting, Leaving
\* Only the place of p changes, and maybe that of a dead child.
<1> DEFINE Here == {"user"} \cup Spawning \cup Starting \cup Leaving
           Same == UNCHANGED <<takers, givers, on, nextPid, parent, child, func, wanted, ran, startFunc>>
<1>1. ASSUME NEW x \in Here, at[p] \in Here, x \in Spawning => at[p] \in Spawning,
             at' = [at EXCEPT ![p] = x], Same
      PROVE  UserInv'
  <2>1. at' \in [Procs -> Places] /\ at'[p] = x /\ \A q \in Procs \ {p} : at'[q] = at[q]
    BY <1>1, <1>a, <1>c
  <2>2. Keeps(p)
    BY <1>1, <1>b, <1>c, <1>d, <2>1 DEF Keeps
  <2>3. \A q \in Procs \ {p} : Keeps(q)
    BY <1>1, <1>b, <2>1 DEF Keeps
  <2>4. Moved
    BY <1>1, <1>a, <2>1, <2>2, <2>3 DEF Moved, Function
  <2> QED
    BY <2>4, MovedInv
<1>2. ASSUME at' = at, Same PROVE UserInv'
  <2>1. \A q \in Procs : Keeps(q)
    BY <1>2, <1>b DEF Keeps
  <2>2. Moved
    BY <1>2, <1>a, <2>1 DEF Moved, Function
  <2> QED
    BY <2>2, MovedInv
<1>3. ASSUME NEW x \in Leaving \cup {"user"}, at[p] \in Leaving, NEW c \in Procs, at[c] = "quit",
             at' = [Reaped(c) EXCEPT ![p] = x], Same
      PROVE  UserInv'
  <2>1. c # p /\ "quit" \in Gone /\ "none" \in Gone
    BY <1>3, <1>d DEF Gone
  <2>2. /\ at' \in [Procs -> Places] /\ at'[p] = x /\ at'[c] = "none"
        /\ \A q \in Procs \ {p, c} : at'[q] = at[q]
    BY <1>3, <1>a, <1>c, <2>1 DEF Reaped
  <2>3. Keeps(p)
    BY <1>3, <1>b, <1>c, <1>d, <1>e, <2>2 DEF Keeps
  <2>4. Keeps(c)
    BY <1>3, <1>b, <1>c, <1>d, <2>1, <2>2 DEF Keeps, Gone, Spawning
  <2>5. \A q \in Procs \ {p, c} : Keeps(q)
    BY <1>3, <1>b, <2>2 DEF Keeps
  <2>6. Moved
    BY <1>3, <1>a, <2>2, <2>3, <2>4, <2>5 DEF Moved, Function
  <2> QED
    BY <2>6, MovedInv
<1>4. ASSUME NEW x \in Spawning \cup Starting, NEW c \in Procs, at[p] \in Spawning \cup Starting,
             x \in Spawning => at[p] \in Spawning,
             at' = [at EXCEPT ![p] = x], ProcessInit(p, c)
      PROVE  UserInv'
  <2>1. /\ at' \in [Procs -> Places] /\ at'[p] = x /\ \A q \in Procs \ {p} : at'[q] = at[q]
        /\ UNCHANGED <<takers, givers, on, nextPid, parent, child, func, wanted, ran>>
        /\ startFunc' = [startFunc EXCEPT ![c] = NULL]
    BY <1>4, <1>a, <1>c DEF ProcessInit, KeepSems, semTable, kernelVars, callVars
  <2>2. Function(startFunc)' /\ \A q \in Procs : startFunc'[q] \in {NULL, startFunc[q]}
    BY <1>a, <2>1 DEF Function
  <2>3. Keeps(p)
    BY <1>4, <1>b, <1>c, <1>d, <2>1, <2>2 DEF Keeps
  <2>4. \A q \in Procs \ {p} : Keeps(q)
    BY <1>b, <2>1, <2>2 DEF Keeps
  <2>5. Moved
    BY <1>a, <2>1, <2>2, <2>3, <2>4 DEF Moved, Function
  <2> QED
    BY <2>5, MovedInv
<1>f. {"user", "spawned", "spawn.init", "spawn.fill", "start", "start.init", "start.recv", "start.sleep",
       "start.run", "join", "join.sleep", "leave", "leave.join", "leave.sleep"} \subseteq Here
  BY DEF Spawning, Starting, Leaving
<1> USE DEF userVars, kernelVars, tableVars, callVars, KeepSems, semTable
<1>5. ASSUME NEW f \in Funcs, NEW pr \in Priorities, SpawnCall(p, f, pr) PROVE UserInv'
  <2>1. CASE SpawnFork(p, f, pr)
    BY <2>1, ForkInv
  <2>2. CASE SpawnFails(p, pr)
    BY <1>2, <2>2 DEF SpawnFails
  <2> QED
    BY <1>5, <2>1, <2>2 DEF SpawnCall
<1>6. CASE SpawnSmallStack(p) \/ GetPID(p)
  BY <1>2, <1>6 DEF SpawnSmallStack, GetPID
<1>7. CASE Wait(p) \/ NullSys(p) \/ \E st \in Statuses : Terminate(p, st)
  <2>1. /\ at[p] = "user" /\ Same
        /\ at' = [at EXCEPT ![p] = "join"] \/ at' = [at EXCEPT ![p] = "leave"]
    BY <1>7 DEF Wait, NullSys, Terminate
  <2> QED
    BY <1>1, <1>f, <1>e, <2>1 DEF Leaving
<1>8. CASE (SemCall(p) \/ SemStep(p)) /\ UNCHANGED userVars
  BY <1>8, SemMoves
<1>9. CASE SpawnPush(p)
  <2>1. /\ at[p] = "spawned" /\ Same
        /\ at' = [at EXCEPT ![p] = "spawn.init"] \/ at' = [at EXCEPT ![p] = "spawn.fill"]
    BY <1>9 DEF SpawnPush
  <2> QED
    BY <1>1, <1>f, <2>1 DEF Spawning
<1>10. CASE SpawnInit(p)
  <2>1. at[p] = "spawn.init" /\ child[p] \in Procs
    BY <1>10, <1>b DEF SpawnInit, Spawning
  <2> QED
    BY <1>4, <1>10, <2>1 DEF SpawnInit, Spawning
<1>11. CASE StartInit(p)
  BY <1>4, <1>11, <1>e DEF StartInit, Starting
\* The entry of the child gets the function of the child, if it lives.
<1>12. CASE SpawnFill(p)
  <2> DEFINE c == child[p]
             waked == IF ToWake(c) THEN [at EXCEPT ![c] = "start.run"] ELSE at
  <2>1. at[p] \in Spawning
    BY <1>12 DEF SpawnFill, Spawning
  <2>2. c \in Procs /\ c < nextPid /\ (at[c] \notin Gone => wanted[c] = func[p])
    BY <1>b, <2>1
  <2>3. /\ startFunc' = [startFunc EXCEPT ![c] = func[p]] /\ at' = [waked EXCEPT ![p] = "user"]
        /\ child' = [child EXCEPT ![p] = Nobody] /\ func' = [func EXCEPT ![p] = NULL]
        /\ UNCHANGED <<takers, givers, on, nextPid, parent, wanted, ran>>
    BY <1>12 DEF SpawnFill, Filled
  <2>4. waked \in [Procs -> Places] /\ \A q \in Procs : waked[q] = at[q] \/ (at[q] = "start.sleep" /\ waked[q] = "start.run")
    BY <1>a, <1>c, <2>2 DEF ToWake, Starting
  <2> HIDE DEF waked
  <2>5. /\ at' \in [Procs -> Places] /\ at'[p] = "user"
        /\ \A q \in Procs \ {p} : at'[q] = at[q] \/ (at[q] = "start.sleep" /\ at'[q] = "start.run")
    BY <1>c, <2>3, <2>4
  <2>6. Function(func)' /\ Function(startFunc)' /\ child' \in [Procs -> Procs \cup {Nobody}]
    BY <1>a, <2>2, <2>3 DEF Function
  <2>7. \A q \in Procs \ {p} : child'[q] = child[q] /\ func'[q] = func[q]
    BY <1>a, <2>3 DEF Function
  <2>8. \A q \in Procs : /\ startFunc'[q] = IF q = c THEN func[p] ELSE startFunc[q]
                         /\ q >= nextPid => startFunc'[q] = startFunc[q]
    <3>1. \A q \in Procs : q >= nextPid => q # c
      BY <2>2, SizeFacts DEF UserInv, UserTypes
    <3> QED
      BY <1>a, <2>2, <2>3, <3>1 DEF Function
  <2>9. \A q \in Procs \ {p} : /\ at[q] \in SemPlaces \/ at'[q] \in SemPlaces => at'[q] = at[q]
                               /\ at[q] \in Gone <=> at'[q] \in Gone
                               /\ at'[q] = "none" <=> at[q] = "none"
                               /\ at'[q] \in Spawning => at[q] \in Spawning
    BY <1>c, <1>d, <1>e, <2>5 DEF Starting
  <2>10. at[p] \notin Gone /\ at[p] \notin SemPlaces /\ "user" \notin SemPlaces \cup Spawning \cup Gone
    BY <1>c, <1>d, <1>e, <2>1
  <2>11. Keeps(p)
    BY <1>b, <2>2, <2>3, <2>5, <2>8, <2>10 DEF Keeps, Gone
  <2>12. \A q \in Procs \ {p} : Keeps(q)
    BY <1>b, <2>2, <2>3, <2>7, <2>8, <2>9 DEF Keeps
  <2>13. Moved
    BY <1>a, <2>3, <2>5, <2>6, <2>11, <2>12 DEF Moved, Function
  <2> QED
    BY <2>13, MovedInv
<1>13. CASE StartLooks(p) \/ StartWaits(p)
  <2>1. /\ at[p] \in {"start", "start.recv"} /\ Same
        /\ \E x \in {"start.init", "start.run", "start.sleep"} : at' = [at EXCEPT ![p] = x]
    BY <1>13 DEF StartLooks, StartWaits
  <2> QED
    BY <1>1, <1>f, <1>e, <2>1 DEF Starting
<1>14. CASE StartRuns(p)
  <2>1. at[p] = "start.run" /\ at[p] \notin Gone
    BY <1>14, <1>d DEF StartRuns, Starting
  <2>2. CASE at' = at /\ ran' = ran
    BY <1>2, <1>14, <2>2 DEF StartRuns
  <2>3. CASE at' = [at EXCEPT ![p] = "user"] /\ ran' = [ran EXCEPT ![p] = startFunc[p]]
    <3>1. UNCHANGED <<takers, givers, on, nextPid, parent, child, func, wanted, startFunc>>
      BY <1>14 DEF StartRuns
    <3>2. /\ at' \in [Procs -> Places] /\ at'[p] = "user" /\ ran'[p] = startFunc[p]
          /\ \A q \in Procs \ {p} : at'[q] = at[q] /\ ran'[q] = ran[q]
          /\ Function(ran)'
      BY <1>a, <1>c, <2>3 DEF Function
    <3>3. ran'[p] \in {NULL, wanted[p]} /\ ~(p >= nextPid)
      BY <1>b, <2>1, <3>2
    <3>4. Keeps(p)
      BY <1>b, <1>c, <1>d, <1>e, <2>1, <3>1, <3>2, <3>3 DEF Keeps, Starting
    <3>5. \A q \in Procs \ {p} : Keeps(q)
      BY <1>b, <3>1, <3>2 DEF Keeps
    <3>6. Moved
      BY <1>a, <3>1, <3>2, <3>4, <3>5 DEF Moved, Function
    <3> QED
      BY <3>6, MovedInv
  <2> QED
    BY <1>14, <2>2, <2>3 DEF StartRuns
<1>15. CASE WaitReturns(p)
  <2>1. at[p] = "join" /\ Same
    BY <1>15 DEF WaitReturns
  <2>2. CASE \E c \in DeadChildren(p) : at' = [Reaped(c) EXCEPT ![p] = "user"]
    <3>1. PICK c \in DeadChildren(p) : at' = [Reaped(c) EXCEPT ![p] = "user"]
      BY <2>2
    <3>2. c \in Procs /\ at[c] = "quit"
      BY DEF DeadChildren, Children
    <3> QED
      BY <1>3, <2>1, <3>1, <3>2 DEF Leaving
  <2>3. CASE at' = [at EXCEPT ![p] = "user"] \/ at' = [at EXCEPT ![p] = "join.sleep"]
    BY <1>1, <1>e, <1>f, <2>1, <2>3 DEF Leaving
  <2> QED
    BY <1>15, <2>2, <2>3 DEF WaitReturns
<1>16. CASE TerminatePops(p)
  BY <1>1, <1>16, <1>e, <1>f DEF TerminatePops, Leaving
<1>17. CASE TerminateJoins(p)
  <2>1. at[p] = "leave.join" /\ Same
    BY <1>17 DEF TerminateJoins
  <2>2. CASE \E c \in DeadChildren(p) : at' = [Reaped(c) EXCEPT ![p] = "leave"]
    <3>1. PICK c \in DeadChildren(p) : at' = [Reaped(c) EXCEPT ![p] = "leave"]
      BY <2>2
    <3>2. c \in Procs /\ at[c] = "quit"
      BY DEF DeadChildren, Children
    <3> QED
      BY <1>3, <2>1, <3>1, <3>2 DEF Leaving
  <2>3. CASE at' = [at EXCEPT ![p] = "leave"] \/ at' = [at EXCEPT ![p] = "leave.sleep"]
    BY <1>1, <1>e, <1>f, <2>1, <2>3 DEF Leaving
  <2> QED
    BY <1>17, <2>2, <2>3 DEF TerminateJoins
\* Whoever quits is gone, and his parent goes on in join.
<1>18. CASE Quits(p)
  <2> DEFINE r == parent[p]
  <2>1. /\ at[p] = "leave" /\ at' = [at EXCEPT ![p] = "quit", ![r] = Woken(r)] /\ r # p
        /\ wanted' = [wanted EXCEPT ![p] = NULL] /\ ran' = [ran EXCEPT ![p] = NULL]
        /\ UNCHANGED <<takers, givers, on, nextPid, parent, child, func, startFunc>>
    BY <1>18, <1>b DEF Quits
  <2>2. r \in Procs => \/ Woken(r) = at[r]
                       \/ at[r] = "join.sleep" /\ Woken(r) = "join"
                       \/ at[r] = "leave.sleep" /\ Woken(r) = "leave.join"
    BY DEF Woken
  <2>3. /\ at' \in [Procs -> Places] /\ at'[p] = "quit"
        /\ \A q \in Procs \ {p} : \/ at'[q] = at[q]
                                  \/ at[q] = "join.sleep" /\ at'[q] = "join"
                                  \/ at[q] = "leave.sleep" /\ at'[q] = "leave.join"
    <3>1. {"quit", "join", "leave.join"} \subseteq Places
      BY <1>c DEF Gone, Leaving
    <3>2. r \in Procs => Woken(r) \in Places
      BY <1>a, <2>2, <3>1
    <3> HIDE DEF r
    <3> QED
      BY <1>a, <2>1, <2>2, <3>1, <3>2
  <2>4. /\ Function(wanted)' /\ Function(ran)' /\ wanted'[p] = NULL /\ ran'[p] = NULL
        /\ \A q \in Procs \ {p} : wanted'[q] = wanted[q] /\ ran'[q] = ran[q]
    BY <1>a, <2>1 DEF Function
  <2>5. Keeps(p)
    BY <1>b, <1>c, <1>d, <2>1, <2>3, <2>4 DEF Keeps, Gone, Leaving, Spawning
  <2>6. \A q \in Procs \ {p} : /\ at[q] \in SemPlaces \/ at'[q] \in SemPlaces => at'[q] = at[q]
                               /\ at[q] \in Gone <=> at'[q] \in Gone
                               /\ at'[q] = "none" <=> at[q] = "none"
                               /\ at'[q] \in Spawning => at[q] \in Spawning
    BY <1>c, <1>d, <1>e, <2>3 DEF Leaving
  <2>7. \A q \in Procs \ {p} : Keeps(q)
    BY <1>b, <2>1, <2>4, <2>6 DEF Keeps
  <2>8. Moved
    BY <1>a, <2>1, <2>3, <2>4, <2>5, <2>7 DEF Moved, Function
  <2> QED
    BY <2>8, MovedInv
<1> QED
  BY <1>5, <1>6, <1>7, <1>8, <1>9, <1>10, <1>11, <1>12, <1>13, <1>14, <1>15, <1>16, <1>17, <1>18
     DEF UserCall, UserStep

\* A process that Spawn makes runs the function it was made for (spawn_K, spawn_T), whether
\* the parent or the child initialises its entry, and whatever runs in between, as long as
\* no entry of ProcTable is used a second time.
THEOREM RunsOwnFunctionCorrect == MaxPid < MAXPROC => (UserSpec => []RunsOwnFunction)
<1> SUFFICES ASSUME MaxPid < MAXPROC PROVE UserSpec => []RunsOwnFunction
  OBVIOUS
<1>1. UserInit => UserInv
  BY UserInvInit
<1>2. UserInv /\ [UserNext]_allVars => UserInv'
  <2>1. CASE UserNext
    BY <2>1, UserStepInv DEF UserNext
  <2>2. ASSUME UserInv, UNCHANGED allVars PROVE UserInv'
    BY <2>2 DEF allVars, vars, userVars, kernelVars, tableVars, callVars, semTable, UserInv, UserTypes,
                SemWaits, Waits, Filling, RunsOwnFunction, Function
  <2> QED
    BY <2>1, <2>2
<1>3. UserInv => RunsOwnFunction
  BY DEF UserInv
<1> QED
  BY <1>1, <1>2, <1>3, PTL DEF UserSpec
=============================================================================
