---------------------------- MODULE TerminalProofs ----------------------------
(***************************************************************************)
(* Theorems about Terminal: the lock of the writers and the token that     *)
(* goes round between writer, terminal and driver, and the lines that the  *)
(* readers are handed, for every number of processes and every text.       *)
(***************************************************************************)
EXTENDS Terminal, SequenceFacts

\* Where a writer has the lock.
HasLock == {"next", "token", "out", "unlock"}

TermTypes ==
    /\ terminalWrite \in {0, 1} /\ writeLock \in Writers \cup {Nobody}
    /\ driverAt \in {"top", "wait", "got", "send"}
    /\ status \in [char : [nth : Nat, newline : BOOLEAN], xmit : {"ready", "busy"}]
    /\ xmit \in {"ready", "busy"}
    /\ writerAt \in [Writers -> {"user", "lock"} \cup HasLock]
    /\ written \in [Writers -> Nat] /\ size \in [Writers -> Nat]
    /\ typed \in Nat /\ refused \in BOOLEAN /\ missed \in BOOLEAN

\* One writer has the lock.
LockInv == \A w \in Writers : writerAt[w] \in HasLock <=> writeLock = w

\* The first w characters of the text of a writer.
Shown(w, n) == [i \in 1 .. n |-> <<w, i>>]

\* Who has the lock has shown what he has written, and no more than he is to write.
TextInv ==
    \A w \in Writers :
        /\ writerAt[w] = "lock" => written[w] = 0
        /\ writerAt[w] \in {"lock", "next", "unlock"} => written[w] <= size[w]
        /\ writerAt[w] \in {"token", "out"} => written[w] < size[w]
        /\ writerAt[w] = "unlock" => written[w] = size[w]
        /\ writerAt[w] \in HasLock /\ ~refused => screen = Shown(w, written[w])

\* The four places of the token: the mailbox, a writer about to use it, the terminal
\* at work, and the driver that has heard of its end.
InBox    == terminalWrite = 1
InHand   == \E w \in Writers : writerAt[w] = "out"
InOutput == xmit = "busy"
InDriver == driverAt \in {"top", "got"} /\ status.xmit = "ready"

\* As long as nothing is typed there is one token at most, so that the terminal is
\* never given a character while it is busy.
OneToken ==
    typed = 0 =>
        /\ ~refused /\ status.char = NoChar /\ driverAt # "send"
        /\ InBox => ~InHand /\ ~InOutput /\ ~InDriver
        /\ InHand => ~InOutput /\ ~InDriver
        /\ InOutput => ~InDriver

\* Unless the driver missed an interrupt there is a token, and it is in the mailbox
\* only while nobody waits for it.
SomeToken ==
    /\ ~missed => InBox \/ InHand \/ InOutput \/ (driverAt # "wait" /\ status.xmit = "ready")
    /\ \A w \in Writers : writerAt[w] = "token" => ~InBox

-----------------------------------------------------------------------------
(* What the steps do to the lock and to the token.                         *)

WriterPlaces == {"user", "lock"} \cup HasLock

\* The interrupt reaches the driver in waitDevice, and nobody otherwise.
LEMMA InterruptIs ==
    ASSUME TermTypes, NEW c \in [nth : Nat, newline : BOOLEAN], xmit' \in {"ready", "busy"}, Interrupt(c)
    PROVE  \/ /\ driverAt = "wait" /\ driverAt' = "got"
              /\ status' \in [char : [nth : Nat, newline : BOOLEAN], xmit : {"ready", "busy"}]
              /\ status'.char = c /\ status'.xmit = xmit'
           \/ driverAt # "wait" /\ UNCHANGED <<status, driverAt>>
BY DEF Interrupt, TermTypes

\* At the top of its loop the driver passes the token on, if it has it.
LEMMA DriverTopIs ==
    ASSUME TermTypes, DriverTop
    PROVE  /\ driverAt = "top" /\ driverAt' = "wait"
           /\ \/ status.xmit # "ready" /\ UNCHANGED <<terminalWrite, writerAt>>
              \/ /\ status.xmit = "ready" /\ UNCHANGED terminalWrite
                 /\ \E w \in Writers : /\ writerAt[w] = "token" /\ writerAt'[w] = "out"
                                       /\ \A v \in Writers \ {w} : writerAt'[v] = writerAt[v]
              \/ /\ status.xmit = "ready" /\ \A w \in Writers : writerAt[w] # "token"
                 /\ terminalWrite' = 1 /\ UNCHANGED writerAt
           /\ writerAt' \in [Writers -> WriterPlaces]
<1>1. writerAt \in [Writers -> WriterPlaces]
  BY DEF TermTypes, WriterPlaces
<1>2. CASE ~TerminalReady
  BY <1>1, <1>2 DEF DriverTop, TerminalReady
<1>3. CASE TerminalReady /\ \E w \in Writers : writerAt[w] = "token"
  <2>1. PICK w \in Writers : writerAt[w] = "token" /\ writerAt' = [writerAt EXCEPT ![w] = "out"]
    BY <1>3 DEF DriverTop, GivesToken
  <2>2. UNCHANGED terminalWrite
    BY <1>3 DEF DriverTop, GivesToken
  <2>3. writerAt' \in [Writers -> WriterPlaces] /\ writerAt'[w] = "out"
        /\ \A v \in Writers \ {w} : writerAt'[v] = writerAt[v]
    BY <1>1, <2>1 DEF WriterPlaces, HasLock
  <2> QED
    BY <1>3, <2>1, <2>2, <2>3 DEF DriverTop, TerminalReady
<1>4. CASE TerminalReady /\ ~\E w \in Writers : writerAt[w] = "token"
  BY <1>1, <1>4 DEF DriverTop, GivesToken, TerminalReady
<1> QED
  BY <1>2, <1>3, <1>4

\* A writer goes on to its end, to wait for the token or to take it from the mailbox.
LEMMA NextCharIs ==
    ASSUME TermTypes, TextInv, NEW w \in Writers, NextChar(w)
    PROVE  /\ writerAt[w] = "next" /\ \A v \in Writers \ {w} : writerAt'[v] = writerAt[v]
           /\ writerAt' \in [Writers -> WriterPlaces]
           /\ \/ /\ writerAt'[w] = "unlock" /\ written[w] = size[w] /\ UNCHANGED terminalWrite
              \/ /\ writerAt'[w] = "token" /\ written[w] < size[w] /\ terminalWrite = 0
                 /\ UNCHANGED terminalWrite
              \/ /\ writerAt'[w] = "out" /\ written[w] < size[w] /\ terminalWrite = 1
                 /\ terminalWrite' = 0
<1>1. writerAt \in [Writers -> WriterPlaces] /\ terminalWrite \in {0, 1}
      /\ written[w] \in Nat /\ size[w] \in Nat
  BY DEF TermTypes, WriterPlaces
<1>2. writerAt[w] = "next" /\ written[w] <= size[w]
  BY DEF NextChar, TextInv
<1>3. /\ writerAt' = [writerAt EXCEPT ![w] =
            CASE written[w] = size[w] -> "unlock"
              [] written[w] < size[w] /\ terminalWrite = 0 -> "token"
              [] OTHER -> "out"]
      /\ terminalWrite' = IF writerAt'[w] = "out" THEN 0 ELSE terminalWrite
  BY DEF NextChar
<1>4. CASE written[w] = size[w]
  BY <1>1, <1>2, <1>3, <1>4 DEF WriterPlaces, HasLock
<1>5. CASE written[w] < size[w] /\ terminalWrite = 0
  <2>1. writerAt' = [writerAt EXCEPT ![w] = "token"]
    BY <1>1, <1>3, <1>5
  <2> QED
    BY <1>1, <1>2, <1>3, <1>5, <2>1 DEF WriterPlaces, HasLock
<1>6. CASE written[w] < size[w] /\ terminalWrite # 0
  <2> DEFINE place == CASE written[w] = size[w] -> "unlock"
                        [] written[w] < size[w] /\ terminalWrite = 0 -> "token"
                        [] OTHER -> "out"
  <2>1. written[w] # size[w]
    BY <1>1, <1>6
  <2>2. place = "out"
    BY <1>6, <2>1
  <2>3. writerAt' = [writerAt EXCEPT ![w] = "out"]
    BY <1>3, <2>2
  <2> QED
    BY <1>1, <1>2, <1>3, <1>6, <2>3 DEF WriterPlaces, HasLock
<1> QED
  BY <1>1, <1>2, <1>4, <1>5, <1>6

-----------------------------------------------------------------------------
(* Types.                                                                  *)

LEMMA TermTypesInit == TermInit => TermTypes
<1> SUFFICES ASSUME TermInit PROVE TermTypes
  OBVIOUS
<1>1. NoChar \in [nth : Nat, newline : BOOLEAN]
  BY DEF NoChar
<1>2. status \in [char : [nth : Nat, newline : BOOLEAN], xmit : {"ready", "busy"}]
  BY <1>1 DEF TermInit
<1>3. missed \in BOOLEAN
  BY DEF TermInit
<1> QED
  BY <1>2, <1>3 DEF TermInit, TermTypes

LEMMA TermTypesStep == TermTypes /\ TextInv /\ [TermNext]_termVars => TermTypes'
<1> SUFFICES ASSUME TermTypes, TextInv, [TermNext]_termVars PROVE TermTypes'
  OBVIOUS
<1> USE DEF readVars, writeVars, WriterOnly
<1>0. NoChar \in [nth : Nat, newline : BOOLEAN]
  BY DEF NoChar
<1>1. ASSUME NEW newline \in BOOLEAN, CharTyped(newline) PROVE TermTypes'
  <2> DEFINE c == [nth |-> typed', newline |-> newline]
  <2>1. typed' \in Nat /\ xmit' = xmit /\ Interrupt(c)
        /\ UNCHANGED <<terminalWrite, writeLock, writerAt, written, size, refused, missed>>
    BY <1>1 DEF CharTyped, TermTypes
  <2>2. c \in [nth : Nat, newline : BOOLEAN]
    BY <2>1
  <2>3. xmit' \in {"ready", "busy"}
    BY <2>1 DEF TermTypes
  <2> HIDE DEF c
  <2>4. status' \in [char : [nth : Nat, newline : BOOLEAN], xmit : {"ready", "busy"}]
        /\ driverAt' \in {"top", "wait", "got", "send"}
    BY <2>1, <2>2, <2>3, InterruptIs DEF TermTypes
  <2> QED
    BY <2>1, <2>3, <2>4 DEF TermTypes
<1>2. CASE XmitDone
  <2>1. xmit' = "ready" /\ Interrupt(NoChar) /\ missed' \in BOOLEAN
        /\ UNCHANGED <<terminalWrite, writeLock, writerAt, written, size, refused, typed>>
    BY <1>2 DEF XmitDone, TermTypes
  <2>2. status' \in [char : [nth : Nat, newline : BOOLEAN], xmit : {"ready", "busy"}]
        /\ driverAt' \in {"top", "wait", "got", "send"}
    BY <1>0, <2>1, InterruptIs DEF TermTypes
  <2> QED
    BY <2>1, <2>2 DEF TermTypes
<1>3. CASE DriverTop
  <2>1. UNCHANGED <<writeLock, written, size, refused, status, xmit, typed, missed>>
    BY <1>3 DEF DriverTop
  <2> QED
    BY <1>3, <2>1, DriverTopIs DEF TermTypes, WriterPlaces
<1>4. CASE DriverGot \/ DriverSends \/ \E r \in Readers : kernTermRead(r)
  BY <1>4 DEF DriverGot, DriverSends, kernTermRead, TermTypes
<1>5. ASSUME NEW w \in Writers, NEW n \in Sizes, kernTermWrite(w, n) PROVE TermTypes'
  BY <1>5, TerminalAssumption DEF kernTermWrite, TermTypes
<1>6. ASSUME NEW w \in Writers, TakesLock(w) \/ Unlocks(w) PROVE TermTypes'
  <2>1. CASE TakesLock(w)
    BY <2>1 DEF TakesLock, TermTypes, HasLock
  <2>2. CASE Unlocks(w)
    BY <2>2 DEF Unlocks, TermTypes, HasLock
  <2> QED
    BY <1>6, <2>1, <2>2
<1>7. ASSUME NEW w \in Writers, NextChar(w) PROVE TermTypes'
  <2>1. UNCHANGED <<writeLock, written, size, refused, status, driverAt, xmit, typed, missed>>
    BY <1>7 DEF NextChar
  <2> QED
    BY <1>7, <2>1, NextCharIs DEF TermTypes, WriterPlaces
<1>8. ASSUME NEW w \in Writers, Outputs(w) PROVE TermTypes'
  <2>1. /\ writerAt' = [writerAt EXCEPT ![w] = "next"]
        /\ written' = [written EXCEPT ![w] = @ + 1]
        /\ xmit' \in {"busy", xmit} /\ refused' \in {TRUE, refused}
        /\ UNCHANGED <<terminalWrite, writeLock, driverAt, status, size, typed, missed>>
    BY <1>8 DEF Outputs
  <2>2. writerAt' \in [Writers -> {"user", "lock"} \cup HasLock]
    BY <2>1 DEF TermTypes, HasLock
  <2>3. written' \in [Writers -> Nat]
    BY <2>1 DEF TermTypes
  <2> QED
    BY <2>1, <2>2, <2>3 DEF TermTypes
<1>9. CASE UNCHANGED termVars
  BY <1>9 DEF termVars, TermTypes
<1> QED
  BY <1>1, <1>2, <1>3, <1>4, <1>5, <1>6, <1>7, <1>8, <1>9 DEF TermNext, termDriver, Writes

-----------------------------------------------------------------------------
(* The lock, and the text of the writer that has it.                       *)

\* One character more.
LEMMA ShowOne ==
    ASSUME NEW w \in Writers, NEW n \in Nat
    PROVE  Append(Shown(w, n), <<w, n + 1>>) = Shown(w, n + 1)
<1> DEFINE a == Append(Shown(w, n), <<w, n + 1>>)
<1>1. Shown(w, n) \in Seq(Writers \X Nat) /\ Len(Shown(w, n)) = n
  BY DEF Shown
<1>2. /\ a \in Seq(Writers \X Nat) /\ Len(a) = n + 1
      /\ \A k \in 1 .. n : a[k] = Shown(w, n)[k]
      /\ a[n + 1] = <<w, n + 1>>
  BY <1>1, AppendProperties
<1>3. a = [k \in 1 .. n + 1 |-> a[k]]
  BY <1>2, LenProperties
<1>4. \A k \in 1 .. n + 1 : a[k] = <<w, k>>
  <2>1. \A k \in 1 .. n : Shown(w, n)[k] = <<w, k>>
    BY DEF Shown
  <2>2. \A k \in 1 .. n + 1 : k \in 1 .. n \/ k = n + 1
    OBVIOUS
  <2> HIDE DEF a
  <2> QED
    BY <1>2, <2>1, <2>2
<1> HIDE DEF a
<1> QED
  BY <1>3, <1>4 DEF Shown

LEMMA LockInit == TermInit => LockInv /\ TextInv
BY NobodyAssumption DEF TermInit, LockInv, TextInv, HasLock

LEMMA LockStep == TermTypes /\ LockInv /\ TextInv /\ [TermNext]_termVars => LockInv' /\ TextInv'
<1> SUFFICES ASSUME TermTypes, LockInv, TextInv, [TermNext]_termVars PROVE LockInv' /\ TextInv'
  OBVIOUS
<1> USE DEF readVars, writeVars, WriterOnly
\* What is asked of a writer, before and after the step.
<1> DEFINE Locks(w) == writerAt[w] \in HasLock <=> writeLock = w
           Text(w)  == /\ writerAt[w] = "lock" => written[w] = 0
                       /\ writerAt[w] \in {"lock", "next", "unlock"} => written[w] <= size[w]
                       /\ writerAt[w] \in {"token", "out"} => written[w] < size[w]
                       /\ writerAt[w] = "unlock" => written[w] = size[w]
                       /\ writerAt[w] \in HasLock /\ ~refused => screen = Shown(w, written[w])
<1>1. /\ \A w \in Writers : Locks(w) /\ Text(w)
      /\ \A w \in Writers : written[w] \in Nat /\ size[w] \in Nat
      /\ \A v, w \in Writers : writerAt[v] \in HasLock /\ writerAt[w] \in HasLock => v = w
  BY DEF LockInv, TextInv, TermTypes
<1>2. ASSUME \A w \in Writers : Locks(w)' /\ Text(w)' PROVE LockInv' /\ TextInv'
  BY <1>2 DEF LockInv, TextInv
<1>3. ASSUME UNCHANGED <<writeLock, writerAt, written, size, screen, refused>>
      PROVE  LockInv' /\ TextInv'
  <2>1. \A w \in Writers : Locks(w)' /\ Text(w)'
    BY <1>1, <1>3
  <2> QED
    BY <1>2, <2>1
<1>4. CASE \/ \E newline \in BOOLEAN : CharTyped(newline)
           \/ XmitDone \/ DriverGot \/ DriverSends
           \/ \E r \in Readers : kernTermRead(r)
           \/ UNCHANGED termVars
  <2>1. UNCHANGED <<writeLock, writerAt, written, size, screen, refused>>
    BY <1>4 DEF CharTyped, XmitDone, DriverGot, DriverSends, kernTermRead, termVars
  <2> QED
    BY <1>3, <2>1
<1>5. CASE DriverTop
  <2>1. UNCHANGED <<writeLock, written, size, screen, refused>>
    BY <1>5 DEF DriverTop
  <2>2. \A w \in Writers : \/ writerAt'[w] = writerAt[w]
                           \/ writerAt[w] = "token" /\ writerAt'[w] = "out"
    BY <1>5, DriverTopIs
  <2>3. \A w \in Writers : Locks(w)' /\ Text(w)'
    BY <1>1, <2>1, <2>2 DEF HasLock
  <2> QED
    BY <1>2, <2>3
<1>6. ASSUME NEW w \in Writers, NEW n \in Sizes, kernTermWrite(w, n) PROVE LockInv' /\ TextInv'
  <2>1. /\ writerAt[w] = "user" /\ n \in Nat /\ UNCHANGED <<writeLock, screen, refused>>
        /\ writerAt'[w] = "lock" /\ written'[w] = 0 /\ size'[w] = n
        /\ \A v \in Writers \ {w} : /\ writerAt'[v] = writerAt[v] /\ written'[v] = written[v]
                                    /\ size'[v] = size[v]
    BY <1>6, TerminalAssumption DEF kernTermWrite, TermTypes
  <2>2. Locks(w)' /\ Text(w)'
    BY <1>1, <2>1 DEF HasLock
  <2>3. \A v \in Writers \ {w} : Locks(v)' /\ Text(v)'
    BY <1>1, <2>1 DEF HasLock
  <2> QED
    BY <1>2, <2>2, <2>3
<1>7. ASSUME NEW w \in Writers, TakesLock(w) PROVE LockInv' /\ TextInv'
  <2>1. /\ writerAt[w] = "lock" /\ writeLock = Nobody /\ writeLock' = w /\ screen' = << >>
        /\ UNCHANGED <<written, size, refused>>
        /\ writerAt'[w] = "next" /\ \A v \in Writers \ {w} : writerAt'[v] = writerAt[v]
    BY <1>7 DEF TakesLock, LockFree, TermTypes
  <2>2. \A v \in Writers : writerAt[v] \notin HasLock
    BY <1>1, <2>1, NobodyAssumption
  <2>3. screen' = Shown(w, 0)
    BY <2>1 DEF Shown
  <2>4. Locks(w)' /\ Text(w)'
    BY <1>1, <2>1, <2>3 DEF HasLock
  <2>5. \A v \in Writers \ {w} : Locks(v)' /\ Text(v)'
    BY <1>1, <2>1, <2>2 DEF HasLock
  <2> QED
    BY <1>2, <2>4, <2>5
<1>8. ASSUME NEW w \in Writers, NextChar(w) PROVE LockInv' /\ TextInv'
  <2>1. UNCHANGED <<writeLock, written, size, screen, refused>>
    BY <1>8 DEF NextChar
  <2>2. /\ writerAt[w] = "next" /\ \A v \in Writers \ {w} : writerAt'[v] = writerAt[v]
        /\ \/ writerAt'[w] = "unlock" /\ written[w] = size[w]
           \/ writerAt'[w] \in {"token", "out"} /\ written[w] < size[w]
    BY <1>8, NextCharIs
  <2>3. Locks(w)' /\ Text(w)'
    BY <1>1, <2>1, <2>2 DEF HasLock
  <2>4. \A v \in Writers \ {w} : Locks(v)' /\ Text(v)'
    BY <1>1, <2>1, <2>2 DEF HasLock
  <2> QED
    BY <1>2, <2>3, <2>4
<1>9. ASSUME NEW w \in Writers, Outputs(w) PROVE LockInv' /\ TextInv'
  <2>1. /\ writerAt[w] = "out" /\ UNCHANGED <<writeLock, size>>
        /\ writerAt'[w] = "next" /\ written'[w] = written[w] + 1
        /\ \A v \in Writers \ {w} : writerAt'[v] = writerAt[v] /\ written'[v] = written[v]
        /\ \/ screen' = Append(screen, <<w, written[w] + 1>>) /\ refused' = refused
           \/ refused' = TRUE
    BY <1>9 DEF Outputs, TermTypes
  <2>2. \A v \in Writers \ {w} : writerAt[v] \notin HasLock
    BY <1>1, <2>1 DEF HasLock
  <2>3. ~refused' => screen' = Shown(w, written[w] + 1)
    <3>1. Append(Shown(w, written[w]), <<w, written[w] + 1>>) = Shown(w, written[w] + 1)
      BY <1>1, ShowOne
    <3>2. ~refused' => ~refused /\ screen' = Append(screen, <<w, written[w] + 1>>)
      BY <2>1
    <3>3. ~refused => screen = Shown(w, written[w])
      BY <1>1, <2>1 DEF HasLock
    <3> QED
      BY <3>1, <3>2, <3>3
  <2>4. Locks(w)' /\ Text(w)'
    BY <1>1, <2>1, <2>3 DEF HasLock
  <2>5. \A v \in Writers \ {w} : Locks(v)' /\ Text(v)'
    BY <1>1, <2>1, <2>2 DEF HasLock
  <2> QED
    BY <1>2, <2>4, <2>5
<1>10. ASSUME NEW w \in Writers, Unlocks(w) PROVE LockInv' /\ TextInv'
  <2>1. /\ writerAt[w] = "unlock" /\ writeLock' = Nobody
        /\ UNCHANGED <<written, size, screen, refused>>
        /\ writerAt'[w] = "user" /\ \A v \in Writers \ {w} : writerAt'[v] = writerAt[v]
    BY <1>10 DEF Unlocks, TermTypes
  <2>2. \A v \in Writers \ {w} : writerAt[v] \notin HasLock
    BY <1>1, <2>1 DEF HasLock
  <2>3. \A v \in Writers : Locks(v)' /\ Text(v)'
    BY <1>1, <2>1, <2>2, NobodyAssumption DEF HasLock
  <2> QED
    BY <1>2, <2>3
<1> QED
  BY <1>4, <1>5, <1>6, <1>7, <1>8, <1>9, <1>10 DEF TermNext, termDriver, Writes

-----------------------------------------------------------------------------
(* The token.                                                              *)

LEMMA TokenInit == TermInit => OneToken /\ SomeToken
<1> SUFFICES ASSUME TermInit PROVE OneToken /\ SomeToken
  OBVIOUS
<1>1. /\ terminalWrite = 0 /\ \A w \in Writers : writerAt[w] = "user"
      /\ xmit = "ready" /\ driverAt = "top" /\ ~refused
      /\ status.char = NoChar /\ status.xmit \in {"ready", "busy"}
      /\ ~missed => status.xmit # "busy"
  BY DEF TermInit
<1>2. OneToken
  BY <1>1 DEF OneToken, InBox, InHand, InOutput, InDriver
<1> QED
  BY <1>1, <1>2 DEF SomeToken, InBox

LEMMA OneTokenStep ==
    TermTypes /\ LockInv /\ TextInv /\ OneToken /\ [TermNext]_termVars => OneToken'
<1> SUFFICES ASSUME TermTypes, LockInv, TextInv, OneToken, [TermNext]_termVars, typed' = 0
             PROVE  OneToken'
  BY DEF OneToken
<1> USE DEF readVars, writeVars, WriterOnly
<1> DEFINE Quiet == /\ ~refused /\ status.char = NoChar /\ driverAt # "send"
           Apart == /\ InBox => ~InHand /\ ~InOutput /\ ~InDriver
                    /\ InHand => ~InOutput /\ ~InDriver
                    /\ InOutput => ~InDriver
<1>1. typed = 0
  <2>1. typed \in Nat /\ (typed' = typed \/ typed' = typed + 1)
    BY DEF TermTypes, TermNext, termVars, CharTyped, XmitDone, termDriver, DriverTop, DriverGot,
           DriverSends, kernTermRead, Writes, TakesLock, NextChar, Outputs, Unlocks, kernTermWrite
  <2> QED
    BY <2>1
<1>2. Quiet /\ Apart
  BY <1>1 DEF OneToken
<1>3. ASSUME Quiet', Apart' PROVE OneToken'
  BY <1>3 DEF OneToken
<1> USE DEF InBox, InHand, InOutput, InDriver
<1>4. ASSUME UNCHANGED <<terminalWrite, xmit, driverAt, status, refused>>,
             \A w \in Writers : writerAt'[w] = "out" => writerAt[w] = "out"
      PROVE  OneToken'
  BY <1>2, <1>3, <1>4
<1>5. CASE XmitDone
  <2>1. /\ xmit = "busy" /\ xmit' = "ready" /\ Interrupt(NoChar)
        /\ UNCHANGED <<terminalWrite, writerAt, refused>>
    BY <1>5 DEF XmitDone
  <2>2. NoChar \in [nth : Nat, newline : BOOLEAN]
    BY DEF NoChar
  <2>3. \/ driverAt = "wait" /\ driverAt' = "got" /\ status'.char = NoChar /\ status'.xmit = "ready"
        \/ driverAt # "wait" /\ UNCHANGED <<status, driverAt>>
    BY <2>1, <2>2, InterruptIs
  <2> QED
    BY <1>2, <1>3, <2>1, <2>3
<1>6. CASE DriverTop
  <2>1. UNCHANGED <<refused, status, xmit>>
    BY <1>6 DEF DriverTop
  <2>2. /\ driverAt = "top" /\ driverAt' = "wait"
        /\ \/ UNCHANGED <<terminalWrite, writerAt>>
           \/ /\ status.xmit = "ready" /\ UNCHANGED terminalWrite
           \/ /\ status.xmit = "ready" /\ terminalWrite' = 1 /\ UNCHANGED writerAt
    BY <1>6, DriverTopIs
  <2> QED
    BY <1>2, <1>3, <2>1, <2>2
<1>7. CASE DriverGot
  <2>1. /\ driverAt = "got" /\ driverAt' = "top"
        /\ UNCHANGED <<terminalWrite, writerAt, refused, status, xmit>>
    BY <1>2, <1>7 DEF DriverGot
  <2> QED
    BY <1>2, <1>3, <2>1
<1>8. CASE DriverSends
  BY <1>2, <1>8 DEF DriverSends
<1>9. CASE (\E r \in Readers : kernTermRead(r)) \/ UNCHANGED termVars
  <2>1. UNCHANGED <<terminalWrite, writerAt, xmit, driverAt, status, refused>>
    BY <1>9 DEF kernTermRead, termVars
  <2> QED
    BY <1>4, <2>1
<1>10. ASSUME NEW w \in Writers, TakesLock(w) \/ Unlocks(w) \/ \E n \in Sizes : kernTermWrite(w, n)
       PROVE  OneToken'
  <2>1. /\ UNCHANGED <<terminalWrite, xmit, driverAt, status, refused>>
        /\ writerAt'[w] # "out" /\ \A v \in Writers \ {w} : writerAt'[v] = writerAt[v]
    BY <1>10 DEF TakesLock, Unlocks, kernTermWrite, TermTypes
  <2> QED
    BY <1>4, <2>1
<1>11. ASSUME NEW w \in Writers, NextChar(w) PROVE OneToken'
  <2>1. UNCHANGED <<xmit, driverAt, status, refused>>
    BY <1>11 DEF NextChar
  <2>2. /\ \A v \in Writers \ {w} : writerAt'[v] = writerAt[v]
        /\ \/ writerAt'[w] # "out" /\ UNCHANGED terminalWrite
           \/ terminalWrite = 1 /\ terminalWrite' = 0
    BY <1>11, NextCharIs
  <2> QED
    BY <1>2, <1>3, <2>1, <2>2
<1>12. ASSUME NEW w \in Writers, Outputs(w) PROVE OneToken'
  <2>1. xmit \in {"ready", "busy"} /\ writerAt[w] = "out"
    BY <1>12 DEF Outputs, TermTypes
  <2>2. xmit = "ready"
    BY <1>2, <2>1
  <2>3. /\ xmit' = "busy" /\ UNCHANGED <<terminalWrite, refused, driverAt, status>>
        /\ writerAt'[w] = "next" /\ \A v \in Writers \ {w} : writerAt'[v] = writerAt[v]
    BY <1>12, <2>2 DEF Outputs, TermTypes
  <2>4. \A v \in Writers : writerAt'[v] # "out"
    BY <2>1, <2>3 DEF LockInv, HasLock
  <2> QED
    BY <1>2, <1>3, <2>1, <2>3, <2>4
<1>13. ASSUME NEW newline \in BOOLEAN, CharTyped(newline) PROVE FALSE
  BY <1>1, <1>13 DEF CharTyped
<1> QED
  BY <1>5, <1>6, <1>7, <1>8, <1>9, <1>10, <1>11, <1>12, <1>13 DEF TermNext, termDriver, Writes

LEMMA SomeTokenStep ==
    TermTypes /\ LockInv /\ TextInv /\ SomeToken /\ [TermNext]_termVars => SomeToken'
<1> SUFFICES ASSUME TermTypes, LockInv, TextInv, SomeToken, [TermNext]_termVars PROVE SomeToken'
  OBVIOUS
<1> USE DEF readVars, writeVars, WriterOnly
<1> DEFINE There == \/ terminalWrite = 1 \/ xmit = "busy"
                    \/ \E w \in Writers : writerAt[w] = "out"
                    \/ driverAt # "wait" /\ status.xmit = "ready"
           Alone == \A w \in Writers : writerAt[w] = "token" => terminalWrite # 1
<1>1. (missed \/ There) /\ Alone
  BY DEF SomeToken, InBox, InHand, InOutput
<1>2. ASSUME missed' \/ There', Alone' PROVE SomeToken'
  BY <1>2 DEF SomeToken, InBox, InHand, InOutput
<1>3. ASSUME UNCHANGED <<terminalWrite, xmit, driverAt, status, missed>>,
             \A w \in Writers : writerAt[w] = "out" => writerAt'[w] = "out",
             \A w \in Writers : writerAt'[w] = "token" => writerAt[w] = "token"
      PROVE  SomeToken'
  BY <1>1, <1>2, <1>3
<1>4. ASSUME NEW newline \in BOOLEAN, CharTyped(newline) PROVE SomeToken'
  <2> DEFINE c == [nth |-> typed', newline |-> newline]
  <2>1. /\ typed' \in Nat /\ xmit' = xmit /\ xmit \in {"ready", "busy"} /\ Interrupt(c)
        /\ UNCHANGED <<terminalWrite, writerAt, missed>>
    BY <1>4 DEF CharTyped, TermTypes
  <2>2. c \in [nth : Nat, newline : BOOLEAN]
    BY <2>1
  <2> HIDE DEF c
  <2>3. \/ driverAt = "wait" /\ driverAt' = "got" /\ status'.xmit = xmit'
        \/ driverAt # "wait" /\ UNCHANGED <<status, driverAt>>
    BY <2>1, <2>2, InterruptIs
  <2>4. There => There'
    BY <2>1, <2>3
  <2> QED
    BY <1>1, <1>2, <2>1, <2>4
<1>5. CASE XmitDone
  <2>1. /\ xmit' = "ready" /\ Interrupt(NoChar)
        /\ missed' = (missed \/ driverAt # "wait")
        /\ UNCHANGED <<terminalWrite, writerAt>>
    BY <1>5 DEF XmitDone
  <2>2. NoChar \in [nth : Nat, newline : BOOLEAN]
    BY DEF NoChar
  <2>3. CASE driverAt = "wait"
    <3>1. driverAt' = "got" /\ status'.xmit = "ready"
      BY <2>1, <2>2, <2>3, InterruptIs
    <3> QED
      BY <1>1, <1>2, <2>1, <3>1
  <2>4. CASE driverAt # "wait"
    <3>1. missed'
      BY <2>1, <2>4
    <3> QED
      BY <1>1, <1>2, <2>1, <3>1
  <2> QED
    BY <2>3, <2>4
<1>6. CASE DriverTop
  <2>1. UNCHANGED <<missed, status, xmit>>
    BY <1>6 DEF DriverTop
  <2>2. /\ driverAt = "top" /\ driverAt' = "wait"
        /\ \/ status.xmit # "ready" /\ UNCHANGED <<terminalWrite, writerAt>>
           \/ /\ UNCHANGED terminalWrite
              /\ \E w \in Writers : /\ writerAt'[w] = "out"
                                    /\ \A v \in Writers \ {w} : writerAt'[v] = writerAt[v]
           \/ /\ \A w \in Writers : writerAt[w] # "token"
              /\ terminalWrite' = 1 /\ UNCHANGED writerAt
    BY <1>6, DriverTopIs
  <2> QED
    BY <1>1, <1>2, <2>1, <2>2
<1>7. CASE DriverGot \/ DriverSends
  <2>1. /\ driverAt \in {"got", "send"} /\ driverAt' \in {"top", "send"}
        /\ UNCHANGED <<terminalWrite, writerAt, status, xmit, missed>>
    BY <1>7 DEF DriverGot, DriverSends
  <2> QED
    BY <1>1, <1>2, <2>1
<1>8. CASE (\E r \in Readers : kernTermRead(r)) \/ UNCHANGED termVars
  <2>1. UNCHANGED <<terminalWrite, writerAt, xmit, driverAt, status, missed>>
    BY <1>8 DEF kernTermRead, termVars
  <2> QED
    BY <1>3, <2>1
<1>9. ASSUME NEW w \in Writers, TakesLock(w) \/ Unlocks(w) \/ \E n \in Sizes : kernTermWrite(w, n)
      PROVE  SomeToken'
  <2>1. /\ UNCHANGED <<terminalWrite, xmit, driverAt, status, missed>>
        /\ writerAt[w] # "out" /\ writerAt'[w] # "token"
        /\ \A v \in Writers \ {w} : writerAt'[v] = writerAt[v]
    BY <1>9 DEF TakesLock, Unlocks, kernTermWrite, TermTypes
  <2> QED
    BY <1>3, <2>1
<1>10. ASSUME NEW w \in Writers, NextChar(w) PROVE SomeToken'
  <2>1. UNCHANGED <<xmit, driverAt, status, missed>>
    BY <1>10 DEF NextChar
  <2>2. /\ writerAt[w] = "next" /\ \A v \in Writers \ {w} : writerAt'[v] = writerAt[v]
        /\ \/ writerAt'[w] = "unlock" /\ UNCHANGED terminalWrite
           \/ writerAt'[w] = "token" /\ terminalWrite = 0 /\ UNCHANGED terminalWrite
           \/ writerAt'[w] = "out" /\ terminalWrite' = 0
    BY <1>10, NextCharIs
  <2>3. missed' \/ There'
    BY <1>1, <2>1, <2>2
  <2>4. Alone'
    BY <1>1, <2>2
  <2> QED
    BY <1>2, <2>3, <2>4
<1>11. ASSUME NEW w \in Writers, Outputs(w) PROVE SomeToken'
  <2>1. xmit' = "busy" /\ UNCHANGED <<terminalWrite, driverAt, status, missed>>
        /\ writerAt'[w] = "next" /\ \A v \in Writers \ {w} : writerAt'[v] = writerAt[v]
    BY <1>11 DEF Outputs, TermTypes
  <2> QED
    BY <1>1, <1>2, <2>1
<1> QED
  BY <1>4, <1>5, <1>6, <1>7, <1>8, <1>9, <1>10, <1>11 DEF TermNext, termDriver, Writes

TermInv == TermTypes /\ LockInv /\ TextInv /\ OneToken /\ SomeToken

\* The parts together are inductive.
LEMMA TermInvariant == TermSpec => []TermInv
<1>1. TermInit => TermInv
  BY TermTypesInit, LockInit, TokenInit DEF TermInv
<1>2. TermInv /\ [TermNext]_termVars => TermInv'
  BY TermTypesStep, LockStep, OneTokenStep, SomeTokenStep DEF TermInv
<1> QED
  BY <1>1, <1>2, PTL DEF TermSpec

\* A text is on the screen as a whole and by itself when its writer gives back the lock,
\* unless the terminal refused a part of it, and it refuses nothing before a character is
\* typed: kernTermWrite, termDriver.
THEOREM WriteIntactCorrect == TermSpec => []WriteIntact
<1>1. TermInv => WriteIntact
  <2> SUFFICES ASSUME TermInv PROVE WriteIntact
    OBVIOUS
  <2>1. refused => typed > 0
    <3>1. typed \in Nat /\ (typed = 0 => ~refused)
      BY DEF TermInv, TermTypes, OneToken
    <3> QED
      BY <3>1
  <2>2. ASSUME NEW w \in Writers, writerAt[w] = "unlock", ~refused
        PROVE  screen = [i \in 1 .. size[w] |-> <<w, i>>]
    <3>1. written[w] = size[w] /\ screen = Shown(w, written[w])
      BY <2>2 DEF TermInv, TextInv, HasLock
    <3> QED
      BY <3>1 DEF Shown
  <2> QED
    BY <2>1, <2>2 DEF WriteIntact
<1> QED
  BY <1>1, TermInvariant, PTL

\* Unless the driver missed an interrupt of the terminal, or took it for busy at first, a
\* writer in MboxRecv waits for an output under way or for the driver, which has heard of
\* its end: kernTermWrite, termDriver.
THEOREM WriterHasCauseCorrect == TermSpec => []WriterHasCause
<1>1. TermInv => WriterHasCause
  <2> SUFFICES ASSUME TermInv, NEW w \in Writers, writerAt[w] = "token", ~missed
               PROVE  xmit = "busy" \/ (driverAt # "wait" /\ status.xmit = "ready")
    BY DEF WriterHasCause
  <2>1. ~InBox
    BY DEF TermInv, SomeToken
  <2>2. ~InHand
    <3>1. \A v \in Writers : writerAt[v] \in HasLock => v = w
      BY DEF TermInv, LockInv, HasLock
    <3> QED
      BY <3>1 DEF InHand, HasLock
  <2> QED
    BY <2>1, <2>2 DEF TermInv, SomeToken, InOutput
<1> QED
  BY <1>1, TermInvariant, PTL

-----------------------------------------------------------------------------
(* The lines of a text.                                                    *)

Char == [nth : Nat, newline : BOOLEAN]

\* LineEnd is the first place that ends the line from i, and Len(text) + 1 if none does.
LEMMA LineEndIs ==
    ASSUME NEW text \in Seq(Char), NEW i \in 1 .. Len(text) + 1
    PROVE  LET e == LineEnd(text, i) IN
           /\ e \in i .. Len(text) + 1 /\ e - i <= MAXLINE
           /\ e <= Len(text) => text[e].newline \/ e - i = MAXLINE
           /\ \A j \in i .. Len(text) : text[j].newline \/ j - i = MAXLINE => e <= j
<1> DEFINE n == Len(text)
           T == {j \in i .. n + 1 : j > n \/ text[j].newline \/ j - i = MAXLINE}
           e == LineEnd(text, i)
<1>1. n \in Nat /\ i \in 1 .. n + 1 /\ MAXLINE \in Nat \ {0}
  BY TerminalAssumption
<1>2. e = Min(T)
  BY DEF LineEnd
<1> HIDE DEF n, e
<1>3. T \in SUBSET Nat /\ T # {}
  <2>1. n + 1 \in T
    BY <1>1
  <2> QED
    BY <1>1, <2>1
<1>4. e \in T /\ \A j \in T : e <= j
  BY <1>2, <1>3, MinIn
<1>5. /\ e \in i .. n + 1 /\ (e <= n => text[e].newline \/ e - i = MAXLINE)
      /\ \A j \in i .. n : text[j].newline \/ j - i = MAXLINE => e <= j
  BY <1>1, <1>4
<1>6. e - i <= MAXLINE
  <2>1. CASE i + MAXLINE \in i .. n
    <3>1. PICK j \in i .. n : j = i + MAXLINE
      BY <2>1
    <3>2. j - i = MAXLINE
      BY <1>1, <3>1
    <3>3. e <= j
      BY <1>5, <3>2
    <3> QED
      BY <1>1, <1>5, <3>2, <3>3
  <2>2. CASE i + MAXLINE \notin i .. n
    BY <1>1, <1>5, <2>2
  <2> QED
    BY <2>1, <2>2
<1> QED
  BY <1>5, <1>6 DEF n, e

\* And nothing else is.
LEMMA LineEndOnly ==
    ASSUME NEW text \in Seq(Char), NEW i \in 1 .. Len(text) + 1, NEW e \in i .. Len(text) + 1,
           e <= Len(text) => text[e].newline \/ e - i = MAXLINE,
           \A j \in i .. Len(text) : text[j].newline \/ j - i = MAXLINE => e <= j
    PROVE  LineEnd(text, i) = e
<1> DEFINE x == LineEnd(text, i)
<1>1. /\ x \in i .. Len(text) + 1
      /\ x <= Len(text) => text[x].newline \/ x - i = MAXLINE
      /\ \A j \in i .. Len(text) : text[j].newline \/ j - i = MAXLINE => x <= j
  BY LineEndIs
<1> HIDE DEF x
<1>2. x <= e
  BY <1>1
<1>3. e <= x
  BY <1>1
<1> QED
  BY <1>1, <1>2, <1>3 DEF x

\* A part of a text is the same in the text that is one character longer.
LEMMA SubSeqOfAppend ==
    ASSUME NEW text \in Seq(Char), NEW c \in Char, NEW i \in 1 .. Len(text) + 1
    PROVE  /\ \A m \in 0 .. Len(text) : SubSeq(Append(text, c), i, m) = SubSeq(text, i, m)
           /\ SubSeq(Append(text, c), i, Len(text) + 1) = Append(SubSeq(text, i, Len(text)), c)
           /\ SubSeq(text, i, Len(text)) \in Seq(Char)
           /\ Len(SubSeq(text, i, Len(text))) = Len(text) + 1 - i
<1> DEFINE n == Len(text)
           u == Append(text, c)
<1>1. /\ n \in Nat /\ i \in 1 .. n + 1 /\ u \in Seq(Char) /\ Len(u) = n + 1
      /\ \A j \in 1 .. n : u[j] = text[j] /\ text[j] \in Char
      /\ u[n + 1] = c /\ \A j \in 1 .. n + 1 : u[j] \in Char
  BY AppendProperties
<1> HIDE DEF u, n
<1>2. ASSUME NEW m \in 0 .. n
      PROVE  /\ SubSeq(text, i, m) \in Seq(Char)
             /\ Len(SubSeq(text, i, m)) = IF i <= m THEN m - i + 1 ELSE 0
             /\ \A j \in 1 .. m - i + 1 : SubSeq(text, i, m)[j] = text[i + j - 1]
  <2>1. \A j \in i .. m : text[j] \in Char
    BY <1>1
  <2> QED
    BY <1>1, <2>1, SubSeqProperties
<1>3. ASSUME NEW m \in 0 .. n + 1
      PROVE  /\ SubSeq(u, i, m) \in Seq(Char)
             /\ Len(SubSeq(u, i, m)) = IF i <= m THEN m - i + 1 ELSE 0
             /\ \A j \in 1 .. m - i + 1 : SubSeq(u, i, m)[j] = u[i + j - 1]
  <2>1. \A j \in i .. m : u[j] \in Char
    BY <1>1
  <2> QED
    BY <1>1, <2>1, SubSeqProperties
<1>4. ASSUME NEW m \in 0 .. n PROVE SubSeq(u, i, m) = SubSeq(text, i, m)
  <2> DEFINE a == SubSeq(u, i, m)
             b == SubSeq(text, i, m)
  <2>1. m \in 0 .. n + 1
    BY <1>1
  <2>2. a \in Seq(Char) /\ b \in Seq(Char) /\ Len(a) = Len(b)
    BY <1>2, <1>3, <2>1
  <2>3. Len(a) = IF i <= m THEN m - i + 1 ELSE 0
    BY <1>3, <2>1
  <2>4. ASSUME NEW j \in 1 .. Len(a) PROVE a[j] = b[j]
    <3>1. j \in 1 .. m - i + 1 /\ i + j - 1 \in 1 .. n
      BY <1>1, <2>3
    <3>2. a[j] = u[i + j - 1] /\ b[j] = text[i + j - 1]
      BY <1>2, <1>3, <2>1, <3>1
    <3> QED
      BY <1>1, <3>1, <3>2
  <2> HIDE DEF a, b
  <2>5. a = b
    BY <2>2, <2>4, SeqEqual
  <2> QED
    BY <2>5 DEF a, b
<1>5. SubSeq(u, i, n + 1) = Append(SubSeq(text, i, n), c)
  <2> DEFINE a == SubSeq(u, i, n + 1)
             b == SubSeq(text, i, n)
  <2>1. n + 1 \in 0 .. n + 1 /\ n \in 0 .. n
    BY <1>1
  <2>2. /\ a \in Seq(Char) /\ b \in Seq(Char) /\ Len(b) = n + 1 - i /\ Len(a) = n + 1 - i + 1
        /\ \A j \in 1 .. n + 1 - i + 1 : a[j] = u[i + j - 1]
        /\ \A j \in 1 .. n - i + 1 : b[j] = text[i + j - 1]
    BY <1>1, <1>2, <1>3, <2>1
  <2> HIDE DEF a, b
  <2>3. /\ Append(b, c) \in Seq(Char) /\ Len(Append(b, c)) = Len(b) + 1
        /\ \A j \in 1 .. Len(b) : Append(b, c)[j] = b[j]
        /\ Append(b, c)[Len(b) + 1] = c
    BY <2>2, AppendProperties
  <2>4. ASSUME NEW j \in 1 .. Len(a) PROVE a[j] = Append(b, c)[j]
    <3>1. a[j] = u[i + j - 1]
      BY <2>2
    <3>2. CASE j = n + 1 - i + 1
      <4>1. i + j - 1 = n + 1 /\ j = Len(b) + 1
        BY <1>1, <2>2, <3>2
      <4> QED
        BY <1>1, <2>3, <3>1, <4>1
    <3>3. CASE j # n + 1 - i + 1
      <4>1. j \in 1 .. n - i + 1 /\ j \in 1 .. Len(b) /\ i + j - 1 \in 1 .. n
        BY <1>1, <2>2, <3>3
      <4> QED
        BY <1>1, <2>2, <2>3, <3>1, <4>1
    <3> QED
      BY <3>2, <3>3
  <2>5. a = Append(b, c)
    <3>1. Len(a) = Len(Append(b, c))
      BY <1>1, <2>2, <2>3
    <3> QED
      BY <2>2, <2>3, <2>4, <3>1, SeqEqual
  <2> QED
    BY <2>5 DEF a, b
<1>6. SubSeq(text, i, n) \in Seq(Char) /\ Len(SubSeq(text, i, n)) = n + 1 - i
  <2>1. n \in 0 .. n
    BY <1>1
  <2> QED
    BY <1>1, <1>2, <2>1
<1> QED
  BY <1>4, <1>5, <1>6 DEF u, n

\* A line that is ended stays as it is when the text goes on.
LEMMA EndedStays ==
    ASSUME NEW text \in Seq(Char), NEW c \in Char, NEW i \in 1 .. Len(text) + 1,
           LineEnd(text, i) <= Len(text)
    PROVE  /\ LineEnd(Append(text, c), i) = LineEnd(text, i)
           /\ Line(Append(text, c), i) = Line(text, i)
<1> DEFINE n == Len(text)
           u == Append(text, c)
           e == LineEnd(text, i)
           m == IF e - i = MAXLINE THEN e - 1 ELSE e
<1>1. /\ n \in Nat /\ i \in 1 .. n + 1 /\ u \in Seq(Char) /\ Len(u) = n + 1
      /\ \A j \in 1 .. n : u[j] = text[j]
  BY AppendProperties
<1>2. /\ e \in i .. n + 1 /\ e <= n
      /\ text[e].newline \/ e - i = MAXLINE
      /\ \A j \in i .. n : text[j].newline \/ j - i = MAXLINE => e <= j
  BY LineEndIs
<1>3. Line(text, i) = SubSeq(text, i, m)
  <2>1. ~(e > n)
    BY <1>1, <1>2
  <2> QED
    BY <2>1 DEF Line
<1> HIDE DEF u, e, n
<1>4. /\ i \in 1 .. Len(u) + 1 /\ e \in i .. Len(u) + 1
      /\ e <= Len(u) => u[e].newline \/ e - i = MAXLINE
      /\ \A j \in i .. Len(u) : u[j].newline \/ j - i = MAXLINE => e <= j
  <2>1. \A j \in i .. Len(u) : j \in i .. n \/ j = n + 1
    BY <1>1
  <2>2. \A j \in i .. n : u[j] = text[j]
    BY <1>1
  <2>3. i \in 1 .. Len(u) + 1 /\ e \in i .. Len(u) + 1
    BY <1>1, <1>2
  <2>4. u[e].newline \/ e - i = MAXLINE
    BY <1>1, <1>2, <2>2
  <2>5. ASSUME NEW j \in i .. Len(u), u[j].newline \/ j - i = MAXLINE PROVE e <= j
    BY <1>1, <1>2, <2>1, <2>2, <2>5
  <2> QED
    BY <2>3, <2>4, <2>5
<1>5. LineEnd(u, i) = e
  BY <1>1, <1>4, LineEndOnly
<1>6. Line(u, i) = SubSeq(u, i, m)
  <2>1. ~(e > Len(u))
    BY <1>1, <1>2
  <2> QED
    BY <1>1, <1>4, <1>5, <2>1 DEF Line
<1>7. m \in 0 .. n
  BY <1>1, <1>2
<1> HIDE DEF m
<1>8. SubSeq(u, i, m) = SubSeq(text, i, m)
  BY <1>7, SubSeqOfAppend DEF u, n
<1>9. LineEnd(u, i) = LineEnd(text, i) /\ Line(u, i) = Line(text, i)
  BY <1>3, <1>5, <1>6, <1>8 DEF e
<1> QED
  BY <1>9 DEF u

\* What one character more makes of a line that is not ended.
LEMMA OpenLine ==
    ASSUME NEW text \in Seq(Char), NEW c \in Char, NEW i \in 1 .. Len(text) + 1,
           LineEnd(text, i) = Len(text) + 1
    PROVE  LET line == Line(text, i)
               ends == c.newline \/ Len(line) = MAXLINE
               more == Append(text, c) IN
           /\ LineEnd(more, i) = IF ends THEN Len(text) + 1 ELSE Len(text) + 2
           /\ Line(more, i) = IF Len(line) = MAXLINE THEN line ELSE Append(line, c)
<1> DEFINE n == Len(text)
           u == Append(text, c)
           line == Line(text, i)
           ends == c.newline \/ Len(line) = MAXLINE
           e == IF ends THEN n + 1 ELSE n + 2
<1>1. /\ n \in Nat /\ i \in 1 .. n + 1 /\ u \in Seq(Char) /\ Len(u) = n + 1
      /\ \A j \in 1 .. n : u[j] = text[j]
      /\ u[n + 1] = c /\ MAXLINE \in Nat \ {0}
  BY AppendProperties, TerminalAssumption
<1>2. /\ n + 1 - i <= MAXLINE
      /\ \A j \in i .. n : ~(text[j].newline \/ j - i = MAXLINE)
  <2>1. /\ n + 1 - i <= MAXLINE
        /\ \A j \in i .. n : text[j].newline \/ j - i = MAXLINE => n + 1 <= j
    BY LineEndIs
  <2> QED
    BY <1>1, <2>1
<1>3. line = SubSeq(text, i, n) /\ Len(line) = n + 1 - i
  <2>1. n + 1 > n /\ n + 1 - 1 = n
    BY <1>1
  <2>2. line = SubSeq(text, i, n)
    BY <2>1 DEF Line
  <2> QED
    BY <2>2, SubSeqOfAppend
<1> HIDE DEF line, u, n
<1>4. e \in {n + 1, n + 2} /\ (ends => e = n + 1) /\ (~ends => e = n + 2)
  OBVIOUS
<1>5. ends <=> (c.newline \/ n + 1 - i = MAXLINE)
  BY <1>3
<1> HIDE DEF ends, e
<1>6. /\ i \in 1 .. Len(u) + 1 /\ e \in i .. Len(u) + 1
      /\ e <= Len(u) => u[e].newline \/ e - i = MAXLINE
      /\ \A j \in i .. Len(u) : u[j].newline \/ j - i = MAXLINE => e <= j
  <2>1. \A j \in i .. Len(u) : j \in i .. n \/ j = n + 1
    BY <1>1
  <2>2. \A j \in i .. n : u[j] = text[j]
    BY <1>1
  <2>3. i \in 1 .. Len(u) + 1 /\ e \in i .. Len(u) + 1
    BY <1>1, <1>4
  <2>4. ASSUME e <= Len(u) PROVE u[e].newline \/ e - i = MAXLINE
    BY <1>1, <1>4, <1>5, <2>4
  <2>5. ASSUME NEW j \in i .. Len(u), u[j].newline \/ j - i = MAXLINE PROVE e <= j
    BY <1>1, <1>2, <1>4, <1>5, <2>1, <2>2, <2>5
  <2> QED
    BY <2>3, <2>4, <2>5
<1>7. LineEnd(u, i) = e
  BY <1>1, <1>6, LineEndOnly
<1>8. Line(u, i) = SubSeq(u, i, IF e - i = MAXLINE \/ e > n + 1 THEN e - 1 ELSE e)
  BY <1>1, <1>6, <1>7 DEF Line
<1>9. CASE Len(line) = MAXLINE
  <2>1. e = n + 1 /\ e - i = MAXLINE
    BY <1>1, <1>3, <1>4, <1>9 DEF ends
  <2>2. e - 1 = n
    BY <1>1, <2>1
  <2>3. Line(u, i) = SubSeq(u, i, n)
    BY <1>8, <2>1, <2>2
  <2>4. n \in 0 .. n
    BY <1>1
  <2>5. SubSeq(u, i, n) = SubSeq(text, i, n)
    BY <2>4, SubSeqOfAppend DEF u, n
  <2>6. Line(u, i) = line /\ LineEnd(u, i) = e
    BY <1>3, <1>7, <2>3, <2>5
  <2> QED
    BY <1>9, <2>6 DEF ends, u, n, line, e
<1>10. CASE Len(line) # MAXLINE
  <2>1. n + 1 - i # MAXLINE
    BY <1>3, <1>10
  <2>2. ASSUME e = n + 1 PROVE Line(u, i) = SubSeq(u, i, n + 1)
    <3>1. e - i # MAXLINE /\ ~(e > n + 1)
      BY <1>1, <2>1, <2>2
    <3> QED
      BY <1>8, <2>2, <3>1
  <2>3. ASSUME e = n + 2 PROVE Line(u, i) = SubSeq(u, i, n + 1)
    <3>1. e > n + 1 /\ e - 1 = n + 1
      BY <1>1, <2>3
    <3> QED
      BY <1>8, <3>1
  <2>4. Line(u, i) = SubSeq(u, i, n + 1)
    BY <1>4, <2>2, <2>3
  <2>5. SubSeq(u, i, n + 1) = Append(SubSeq(text, i, n), c)
    BY SubSeqOfAppend DEF u, n
  <2>6. Line(u, i) = Append(line, c) /\ LineEnd(u, i) = e
    BY <1>3, <1>7, <2>4, <2>5
  <2> QED
    BY <1>10, <2>6 DEF ends, u, n, line, e
<1> QED
  BY <1>9, <1>10

\* s says where the lines of a text start: those of ended, and the last one.
IsCut(s, text, ended, last) ==
    /\ s \in [1 .. Len(ended) + 1 -> Nat] /\ s[1] = 1
    /\ \A k \in 1 .. Len(ended) + 1 : s[k] \in 1 .. Len(text) + 1
    /\ \A k \in 1 .. Len(ended) : /\ LineEnd(text, s[k]) <= Len(text)
                                   /\ s[k + 1] = LineEnd(text, s[k]) + 1
                                   /\ ended[k] = Line(text, s[k])
    /\ LineEnd(text, s[Len(ended) + 1]) = Len(text) + 1
    /\ last = Line(text, s[Len(ended) + 1])

Cut(text, ended, last) == \E s : IsCut(s, text, ended, last)

\* Nothing is an empty line that is not ended; and so is what follows the last end.
LEMMA NothingYet ==
    ASSUME NEW text \in Seq(Char)
    PROVE  /\ LineEnd(text, Len(text) + 1) = Len(text) + 1
           /\ Line(text, Len(text) + 1) = << >>
<1> DEFINE i == Len(text) + 1
<1>1. Len(text) \in Nat /\ i \in 1 .. Len(text) + 1 /\ i \in i .. Len(text) + 1
  OBVIOUS
<1>2. ~(i <= Len(text)) /\ \A j \in i .. Len(text) : FALSE
  BY <1>1
<1>3. LineEnd(text, i) = i
  BY <1>1, <1>2, LineEndOnly
<1>4. Line(text, i) = SubSeq(text, i, i - 1)
  <2>1. i > Len(text)
    BY <1>1
  <2> QED
    BY <1>1, <1>3, <2>1 DEF Line
<1>5. SubSeq(text, i, i - 1) = << >>
  BY <1>1, SubSeqEmpty
<1> QED
  BY <1>3, <1>4, <1>5

LEMMA CutNothing == Cut(<< >>, << >>, << >>)
<1> DEFINE s == [k \in 1 .. 1 |-> 1]
<1>1. << >> \in Seq(Char) /\ Len(<< >>) = 0 /\ Len(<< >>) + 1 = 1
  BY EmptySeq
<1> DEFINE text == << >>
<1>2. text \in Seq(Char) /\ Len(text) + 1 = 1
  BY <1>1
<1> HIDE DEF text
<1>3. LineEnd(text, 1) = 1 /\ Line(text, 1) = << >>
  BY <1>2, NothingYet
<1>4. LineEnd(<< >>, 1) = 1 /\ Line(<< >>, 1) = << >>
  BY <1>3 DEF text
<1>5. IsCut(s, << >>, << >>, << >>)
  BY <1>1, <1>4 DEF IsCut
<1> QED
  BY <1>5 DEF Cut

\* A character that does not end the last line goes on with it.
LEMMA CutMore ==
    ASSUME NEW text \in Seq(Char), NEW ended \in Seq(Seq(Char)), NEW last \in Seq(Char),
           Cut(text, ended, last), NEW c \in Char, ~(c.newline \/ Len(last) = MAXLINE)
    PROVE  Cut(Append(text, c), ended, Append(last, c))
<1> DEFINE n == Len(ended)
           u == Append(text, c)
<1>1. PICK s : IsCut(s, text, ended, last)
  BY DEF Cut
<1>2. n \in Nat /\ u \in Seq(Char) /\ Len(u) = Len(text) + 1 /\ Len(text) \in Nat
  BY AppendProperties
<1>3. /\ s \in [1 .. n + 1 -> Nat] /\ s[1] = 1
      /\ \A k \in 1 .. n + 1 : s[k] \in 1 .. Len(text) + 1
  BY <1>1 DEF IsCut
<1>4. ASSUME NEW k \in 1 .. n
      PROVE  /\ LineEnd(u, s[k]) <= Len(u)
             /\ s[k + 1] = LineEnd(u, s[k]) + 1
             /\ ended[k] = Line(u, s[k])
  <2>1. /\ LineEnd(text, s[k]) <= Len(text) /\ s[k + 1] = LineEnd(text, s[k]) + 1
        /\ ended[k] = Line(text, s[k]) /\ s[k] \in 1 .. Len(text) + 1
    <3>1. k \in 1 .. n + 1
      BY <1>2
    <3> QED
      BY <1>1, <1>3, <3>1 DEF IsCut
  <2>2. LineEnd(u, s[k]) = LineEnd(text, s[k]) /\ Line(u, s[k]) = Line(text, s[k])
    BY <2>1, EndedStays
  <2>3. LineEnd(text, s[k]) \in Int
    BY <2>1, LineEndIs
  <2> QED
    BY <1>2, <2>1, <2>2, <2>3
<1>5. LineEnd(u, s[n + 1]) = Len(u) + 1 /\ Append(last, c) = Line(u, s[n + 1])
  <2>1. /\ LineEnd(text, s[n + 1]) = Len(text) + 1 /\ last = Line(text, s[n + 1])
        /\ s[n + 1] \in 1 .. Len(text) + 1
    <3>1. n + 1 \in 1 .. n + 1
      BY <1>2
    <3> QED
      BY <1>1, <1>3, <3>1 DEF IsCut
  <2>2. /\ LineEnd(u, s[n + 1]) = Len(text) + 2
        /\ Line(u, s[n + 1]) = Append(last, c)
    BY <2>1, OpenLine
  <2> QED
    BY <1>2, <2>2
<1>6. \A k \in 1 .. n + 1 : s[k] \in 1 .. Len(u) + 1
  BY <1>2, <1>3
<1> HIDE DEF u
<1>7. IsCut(s, u, ended, Append(last, c))
  BY <1>3, <1>4, <1>5, <1>6 DEF IsCut
<1> QED
  BY <1>7 DEF Cut, u

\* A character that ends the last line begins another.
LEMMA CutEnds ==
    ASSUME NEW text \in Seq(Char), NEW ended \in Seq(Seq(Char)), NEW last \in Seq(Char),
           Cut(text, ended, last), NEW c \in Char, c.newline \/ Len(last) = MAXLINE
    PROVE  LET line == IF Len(last) = MAXLINE THEN last ELSE Append(last, c) IN
           Cut(Append(text, c), Append(ended, line), << >>)
<1> DEFINE n == Len(ended)
           m == Len(text)
           u == Append(text, c)
           line == IF Len(last) = MAXLINE THEN last ELSE Append(last, c)
           v == Append(ended, line)
<1>1. PICK s : IsCut(s, text, ended, last)
  BY DEF Cut
<1>2. n \in Nat /\ m \in Nat /\ u \in Seq(Char) /\ Len(u) = m + 1
  BY AppendProperties
<1>3. line \in Seq(Char)
  BY AppendProperties
<1> HIDE DEF line
<1>4. /\ v \in Seq(Seq(Char)) /\ Len(v) = n + 1 /\ v[n + 1] = line
      /\ \A k \in 1 .. n : v[k] = ended[k]
  BY <1>3, AppendProperties
<1>5. /\ s \in [1 .. n + 1 -> Nat] /\ s[1] = 1
      /\ \A k \in 1 .. n + 1 : s[k] \in 1 .. m + 1
  BY <1>1 DEF IsCut
<1> DEFINE t == [k \in 1 .. n + 2 |-> IF k = n + 2 THEN m + 2 ELSE s[k]]
<1>6. /\ t \in [1 .. n + 2 -> Nat] /\ t[n + 2] = m + 2
      /\ \A k \in 1 .. n + 1 : t[k] = s[k]
      /\ \A k \in 1 .. n + 2 : t[k] \in 1 .. m + 2
  <2>1. \A k \in 1 .. n + 2 : k = n + 2 \/ (k \in 1 .. n + 1 /\ k # n + 2)
    BY <1>2
  <2>2. n + 2 \in 1 .. n + 2 /\ m + 2 \in 1 .. m + 2 /\ m + 2 \in Nat
    BY <1>2
  <2>3. \A k \in 1 .. n + 1 : k \in 1 .. n + 2 /\ k # n + 2 /\ s[k] \in Nat /\ s[k] \in 1 .. m + 2
    BY <1>2, <1>5
  <2> HIDE DEF n, m
  <2> QED
    BY <2>1, <2>2, <2>3
<1> HIDE DEF t
<1>7. ASSUME NEW k \in 1 .. n
      PROVE  /\ LineEnd(u, t[k]) <= Len(u)
             /\ t[k + 1] = LineEnd(u, t[k]) + 1
             /\ v[k] = Line(u, t[k])
  <2>1. k \in 1 .. n + 1 /\ k + 1 \in 1 .. n + 1
    BY <1>2
  <2>2. /\ LineEnd(text, s[k]) <= m /\ s[k + 1] = LineEnd(text, s[k]) + 1
        /\ ended[k] = Line(text, s[k]) /\ s[k] \in 1 .. m + 1
    BY <1>1, <1>5, <2>1 DEF IsCut
  <2>3. LineEnd(u, s[k]) = LineEnd(text, s[k]) /\ Line(u, s[k]) = Line(text, s[k])
    BY <2>2, EndedStays
  <2>4. LineEnd(text, s[k]) \in Int
    BY <2>2, LineEndIs
  <2>5. t[k] = s[k] /\ t[k + 1] = s[k + 1]
    BY <1>6, <2>1
  <2>6. LineEnd(u, s[k]) <= Len(u)
    BY <1>2, <2>2, <2>3, <2>4
  <2> QED
    BY <1>4, <2>2, <2>3, <2>5, <2>6
<1>8. /\ LineEnd(u, t[n + 1]) <= Len(u)
      /\ t[n + 1 + 1] = LineEnd(u, t[n + 1]) + 1
      /\ v[n + 1] = Line(u, t[n + 1])
  <2>1. n + 1 \in 1 .. n + 1 /\ n + 1 + 1 = n + 2 /\ m + 1 + 1 = m + 2 /\ m + 1 <= m + 1
    BY <1>2
  <2>2. /\ LineEnd(text, s[n + 1]) = m + 1 /\ last = Line(text, s[n + 1])
        /\ s[n + 1] \in 1 .. m + 1
    BY <1>1, <1>5, <2>1 DEF IsCut
  <2>3. LineEnd(u, s[n + 1]) = m + 1 /\ Line(u, s[n + 1]) = line
    BY <2>2, OpenLine DEF line
  <2>4. t[n + 1] = s[n + 1]
    BY <1>6, <2>1
  <2> QED
    BY <1>2, <1>4, <1>6, <2>1, <2>3, <2>4
<1>9. LineEnd(u, t[n + 2]) = Len(u) + 1 /\ << >> = Line(u, t[n + 2])
  <2>1. t[n + 2] = Len(u) + 1
    BY <1>2, <1>6
  <2> QED
    BY <1>2, <2>1, NothingYet
<1>10. t[1] = 1
  BY <1>2, <1>5, <1>6
<1>11. /\ t \in [1 .. Len(v) + 1 -> Nat]
       /\ \A k \in 1 .. Len(v) + 1 : t[k] \in 1 .. Len(u) + 1
  BY <1>2, <1>4, <1>6
<1>12. \A k \in 1 .. Len(v) : k \in 1 .. n \/ k = n + 1
  BY <1>2, <1>4
<1>13. Len(v) + 1 = n + 2
  BY <1>2, <1>4
<1> HIDE DEF u, v, n, m
<1>14. \A k \in 1 .. Len(v) : /\ LineEnd(u, t[k]) <= Len(u)
                              /\ t[k + 1] = LineEnd(u, t[k]) + 1
                              /\ v[k] = Line(u, t[k])
  BY <1>7, <1>8, <1>12
<1>15. IsCut(t, u, v, << >>)
  BY <1>9, <1>10, <1>11, <1>13, <1>14 DEF IsCut
<1> QED
  BY <1>15 DEF Cut, u, v, line

\* The function of Starts is s, if there is one.
LEMMA StartsIs ==
    ASSUME NEW text, NEW n \in Nat, NEW s \in [1 .. n -> Nat], n > 0 => s[1] = 1,
           \A k \in 1 .. n : k # 1 => s[k] = LineEnd(text, s[k - 1]) + 1
    PROVE  \A k \in 1 .. n : Starts(text, n)[k] = s[k]
<1> DEFINE E(f) == f = [k \in 1 .. n |-> IF k = 1 THEN 1 ELSE LineEnd(text, f[k - 1]) + 1]
           start == Starts(text, n)
<1>1. start = CHOOSE f : E(f)
  BY DEF Starts
<1>2. E(s)
  <2>1. s = [k \in 1 .. n |-> s[k]]
    OBVIOUS
  <2>2. \A k \in 1 .. n : s[k] = IF k = 1 THEN 1 ELSE LineEnd(text, s[k - 1]) + 1
    OBVIOUS
  <2> QED
    BY <2>1, <2>2
<1> HIDE DEF E
<1>3. E(CHOOSE f : E(f))
  BY <1>2, Zenon
<1>4. E(start)
  BY <1>1, <1>3
<1> HIDE DEF start
<1>5. \A k \in 1 .. n : start[k] = IF k = 1 THEN 1 ELSE LineEnd(text, start[k - 1]) + 1
  <2>1. start = [k \in 1 .. n |-> IF k = 1 THEN 1 ELSE LineEnd(text, start[k - 1]) + 1]
    BY <1>4 DEF E
  <2> DEFINE g == [k \in 1 .. n |-> IF k = 1 THEN 1 ELSE LineEnd(text, start[k - 1]) + 1]
  <2>2. \A k \in 1 .. n : g[k] = IF k = 1 THEN 1 ELSE LineEnd(text, start[k - 1]) + 1
    OBVIOUS
  <2>3. start = g
    BY <2>1
  <2> HIDE DEF g
  <2> QED
    BY <2>2, <2>3
<1> DEFINE T == {k \in 1 .. n : start[k] # s[k]}
<1>6. T = {}
  <2>1. SUFFICES ASSUME T # {} PROVE FALSE
    OBVIOUS
  <2>2. T \in SUBSET Nat
    OBVIOUS
  <2>3. PICK k \in T : \A j \in T : k <= j
    BY <2>1, <2>2, LeastNat
  <2>4. k \in 1 .. n /\ start[k] # s[k]
    BY <2>3
  <2>5. CASE k = 1
    BY <1>5, <2>4, <2>5
  <2>6. CASE k # 1
    <3>1. k - 1 \in 1 .. n /\ k - 1 \notin T
      BY <2>3, <2>4, <2>6
    <3>2. start[k - 1] = s[k - 1]
      BY <3>1
    <3> QED
      BY <1>5, <2>4, <2>6, <3>2
  <2> QED
    BY <2>5, <2>6
<1> QED
  BY <1>6 DEF start

\* A text that is cut into the lines of ended and a last one has these lines.
LEMMA CutIsLines ==
    ASSUME NEW text \in Seq(Char), NEW ended \in Seq(Seq(Char)), NEW last \in Seq(Char),
           Cut(text, ended, last)
    PROVE  AreLines(Append(ended, last), text)
<1> DEFINE n == Len(ended)
           v == Append(ended, last)
<1>1. PICK s : IsCut(s, text, ended, last)
  BY DEF Cut
<1>2. /\ n \in Nat /\ Len(text) \in Nat /\ Len(v) = n + 1 /\ DOMAIN v = 1 .. n + 1
      /\ v[n + 1] = last /\ \A k \in 1 .. n : v[k] = ended[k]
  <2>1. v \in Seq(Seq(Char)) /\ Len(v) = n + 1 /\ v[n + 1] = last
        /\ \A k \in 1 .. n : v[k] = ended[k]
    BY AppendProperties
  <2>2. DOMAIN v = 1 .. n + 1
    BY <2>1, LenProperties
  <2> QED
    BY <2>1, <2>2
<1>3. /\ s \in [1 .. n + 1 -> Nat] /\ s[1] = 1
      /\ \A k \in 1 .. n : /\ LineEnd(text, s[k]) <= Len(text)
                           /\ s[k + 1] = LineEnd(text, s[k]) + 1
                           /\ ended[k] = Line(text, s[k])
      /\ LineEnd(text, s[n + 1]) = Len(text) + 1
      /\ last = Line(text, s[n + 1])
  BY <1>1 DEF IsCut
<1> HIDE DEF n, v
<1>4. \A k \in 1 .. n + 1 : Starts(text, n + 1)[k] = s[k]
  <2>1. ASSUME NEW k \in 1 .. n + 1, k # 1 PROVE s[k] = LineEnd(text, s[k - 1]) + 1
    <3>1. k - 1 \in 1 .. n /\ k - 1 + 1 = k
      BY <1>2, <2>1
    <3> QED
      BY <1>3, <3>1
  <2>2. n + 1 \in Nat
    BY <1>2
  <2> QED
    BY <1>3, <2>1, <2>2, StartsIs
<1>5. ASSUME NEW k \in 1 .. n + 1
      PROVE  /\ k < n + 1 <=> LineEnd(text, s[k]) <= Len(text)
             /\ v[k] = Line(text, s[k])
  <2>1. CASE k = n + 1
    <3>1. ~(k < n + 1) /\ ~(Len(text) + 1 <= Len(text))
      BY <1>2, <2>1
    <3> QED
      BY <1>2, <1>3, <2>1, <3>1
  <2>2. CASE k # n + 1
    <3>1. k \in 1 .. n /\ k < n + 1
      BY <1>2, <2>2
    <3> QED
      BY <1>2, <1>3, <3>1
  <2> QED
    BY <2>1, <2>2
<1>6. AreLines(v, text)
  BY <1>2, <1>4, <1>5 DEF AreLines
<1> QED
  BY <1>6 DEF v

-----------------------------------------------------------------------------
(* What the readers get.                                                   *)

\* A reader waits only at an empty mailbox, and the character the driver is about to
\* put into a line is the last one it was told of.
ReadInv ==
    /\ terminalLine \in Seq(Char) /\ taken \in Seq(Char)
    /\ terminalReadMbox \in Seq(Seq(Char)) /\ handed \in Seq(Seq(Char))
    /\ readerAt \in [Readers -> {"user", "wait"}]
    /\ \A r \in Readers : readerAt[r] = "wait" => terminalReadMbox = << >>
    /\ driverAt = "got" /\ status.char # NoChar => \E t \in Seq(Char) : taken = Append(t, status.char)

\* The lines that were sent, with the one in the driver's buffer, are the text cut.
CutInv ==
    IF driverAt = "send" THEN Cut(Collected, Append(Delivered, terminalLine), << >>)
    ELSE Cut(Collected, Delivered, terminalLine)

\* The last character of a text is the one that was appended.
LEMMA FrontOfAppend ==
    ASSUME NEW t \in Seq(Char), NEW c \in Char
    PROVE  Front(Append(t, c)) = t
<1>1. Len(Append(t, c)) - 1 = Len(t) /\ Len(t) \in 0 .. Len(t) /\ 1 \in 1 .. Len(t) + 1
  BY AppendProperties
<1>2. SubSeq(Append(t, c), 1, Len(t)) = SubSeq(t, 1, Len(t))
  BY <1>1, SubSeqOfAppend
<1>3. SubSeq(t, 1, Len(t)) = t
  BY SubSeqFull
<1> QED
  BY <1>1, <1>2, <1>3 DEF Front

LEMMA ReadInit == TermInit => ReadInv /\ CutInv
<1> SUFFICES ASSUME TermInit PROVE ReadInv /\ CutInv
  OBVIOUS
<1>1. /\ terminalLine = << >> /\ taken = << >> /\ terminalReadMbox = << >> /\ handed = << >>
      /\ driverAt = "top" /\ readerAt = [r \in Readers |-> "user"]
  BY DEF TermInit
<1>2. ReadInv
  BY <1>1 DEF ReadInv
<1>3. Collected = << >>
  BY <1>1 DEF Collected
<1>4. Delivered = << >>
  BY <1>1 DEF Delivered
<1> QED
  BY <1>1, <1>2, <1>3, <1>4, CutNothing DEF CutInv

\* A step that the reading does not show.
Unread == UNCHANGED <<terminalLine, terminalReadMbox, handed, readerAt>>

LEMMA UnreadStep ==
    ASSUME ReadInv, CutInv, Unread, UNCHANGED taken,
           \/ UNCHANGED <<driverAt, status>>
           \/ {driverAt, driverAt'} \subseteq {"top", "wait"}
    PROVE  ReadInv' /\ CutInv'
<1>1. ReadInv'
  BY DEF ReadInv, Unread
<1>2. Collected' = Collected /\ Delivered' = Delivered
  BY DEF Collected, Delivered, Unread
<1>3. driverAt' = "send" <=> driverAt = "send"
  OBVIOUS
<1> QED
  BY <1>1, <1>2, <1>3 DEF CutInv, Unread

\* An interrupt, whether the driver is told of it or not.
LEMMA InterruptStep ==
    ASSUME ReadInv, CutInv, Unread, NEW c \in Char, Interrupt(c)
    PROVE  ReadInv' /\ CutInv'
<1>1. CASE driverAt # "wait"
  BY <1>1, UnreadStep DEF Interrupt
<1>2. CASE driverAt = "wait"
  <2>1. /\ status'.char = c /\ driverAt' = "got"
        /\ taken' = IF c = NoChar THEN taken ELSE Append(taken, c)
    BY <1>2 DEF Interrupt
  <2>2. taken \in Seq(Char) /\ taken' \in Seq(Char)
    BY <2>1, AppendProperties DEF ReadInv
  <2>3. ReadInv'
    BY <2>1, <2>2 DEF ReadInv, Unread
  <2>4. Collected = taken
    BY <1>2 DEF Collected
  <2>5. Collected' = taken
    BY <2>1, <2>2, FrontOfAppend DEF Collected
  <2>6. Delivered' = Delivered
    BY DEF Delivered, Unread
  <2>7. driverAt' # "send" /\ driverAt # "send" /\ terminalLine' = terminalLine
    BY <1>2, <2>1 DEF Unread
  <2> QED
    BY <2>3, <2>4, <2>5, <2>6, <2>7 DEF CutInv
<1> QED
  BY <1>1, <1>2

\* The driver puts a character into its line, or ends the line with it.
LEMMA GotStep == ASSUME TermTypes, ReadInv, CutInv, DriverGot PROVE ReadInv' /\ CutInv'
<1> DEFINE c == status.char
<1>1. /\ driverAt = "got"
      /\ terminalLine' = IF c = NoChar \/ Len(terminalLine) = MAXLINE THEN terminalLine
                         ELSE Append(terminalLine, c)
      /\ driverAt' = IF c # NoChar /\ (c.newline \/ Len(terminalLine) = MAXLINE)
                     THEN "send" ELSE "top"
      /\ UNCHANGED <<terminalReadMbox, readerAt, handed, status, taken>>
  BY DEF DriverGot, LineEnds
<1>2. c \in Char
  BY DEF TermTypes, Char
<1>3. /\ terminalLine \in Seq(Char) /\ terminalReadMbox \in Seq(Seq(Char))
      /\ handed \in Seq(Seq(Char)) /\ taken \in Seq(Char)
      /\ c # NoChar => \E t \in Seq(Char) : taken = Append(t, c)
  BY <1>1 DEF ReadInv
<1> HIDE DEF c
<1>4. terminalLine' \in Seq(Char)
  BY <1>1, <1>2, <1>3, AppendProperties
<1>5. driverAt' # "got"
  BY <1>1
<1>6. ReadInv'
  BY <1>1, <1>4, <1>5 DEF ReadInv
<1>7. Delivered' = Delivered /\ Delivered \in Seq(Seq(Char))
  BY <1>1, <1>3, ConcatProperties DEF Delivered
<1>8. Collected' = taken
  BY <1>1, <1>5 DEF Collected
<1>9. Cut(Collected, Delivered, terminalLine)
  BY <1>1 DEF CutInv
<1>10. CASE c = NoChar
  <2>1. Collected = taken /\ driverAt' # "send" /\ terminalLine' = terminalLine
    BY <1>1, <1>10 DEF Collected, c
  <2> QED
    BY <1>6, <1>7, <1>8, <1>9, <2>1 DEF CutInv
<1>11. CASE c # NoChar
  <2>1. PICK t \in Seq(Char) : taken = Append(t, c)
    BY <1>3, <1>11
  <2>2. Collected = t
    <3>1. Collected = Front(taken)
      BY <1>1, <1>11 DEF Collected, c
    <3> QED
      BY <1>2, <2>1, <3>1, FrontOfAppend
  <2>3. CASE c.newline \/ Len(terminalLine) = MAXLINE
    <3>1. driverAt' = "send"
      BY <1>1, <1>11, <2>3
    <3>2. terminalLine' = IF Len(terminalLine) = MAXLINE THEN terminalLine ELSE Append(terminalLine, c)
      BY <1>1, <1>11
    <3>3. Cut(Append(t, c), Append(Delivered, terminalLine'), << >>)
      BY <1>2, <1>3, <1>7, <1>9, <2>2, <2>3, <3>2, CutEnds
    <3> QED
      BY <1>6, <1>7, <1>8, <2>1, <3>1, <3>3 DEF CutInv
  <2>4. CASE ~(c.newline \/ Len(terminalLine) = MAXLINE)
    <3>1. driverAt' = "top" /\ terminalLine' = Append(terminalLine, c)
      BY <1>1, <1>11, <2>4
    <3>2. Cut(Append(t, c), Delivered, Append(terminalLine, c))
      BY <1>2, <1>3, <1>7, <1>9, <2>2, <2>4, CutMore
    <3> QED
      BY <1>6, <1>7, <1>8, <2>1, <3>1, <3>2 DEF CutInv
  <2> QED
    BY <2>3, <2>4
<1> QED
  BY <1>10, <1>11

\* The driver hands its line to a reader, or puts it behind those in the mailbox.
LEMMA SendStep == ASSUME ReadInv, CutInv, DriverSends PROVE ReadInv' /\ CutInv'
<1>1. /\ driverAt = "send" /\ driverAt' = "top" /\ terminalLine' = << >>
      /\ UNCHANGED <<status, taken>>
  BY DEF DriverSends, LineCleared
<1>2. /\ terminalLine \in Seq(Char) /\ terminalReadMbox \in Seq(Seq(Char))
      /\ handed \in Seq(Seq(Char)) /\ readerAt \in [Readers -> {"user", "wait"}]
      /\ \A r \in Readers : readerAt[r] = "wait" => terminalReadMbox = << >>
  BY DEF ReadInv
<1>3. CASE \E r \in Readers :
              /\ readerAt[r] = "wait" /\ readerAt' = [readerAt EXCEPT ![r] = "user"]
              /\ handed' = Append(handed, terminalLine) /\ UNCHANGED terminalReadMbox
  <2>1. PICK r \in Readers :
              /\ readerAt[r] = "wait" /\ readerAt' = [readerAt EXCEPT ![r] = "user"]
              /\ handed' = Append(handed, terminalLine) /\ UNCHANGED terminalReadMbox
    BY <1>3
  <2>2. terminalReadMbox = << >> /\ terminalReadMbox' = << >>
    BY <1>2, <2>1
  <2>3. handed' \in Seq(Seq(Char))
    BY <1>2, <2>1, AppendProperties
  <2>4. ReadInv'
    BY <1>1, <1>2, <2>1, <2>2, <2>3 DEF ReadInv
  <2>5. Delivered = handed /\ Delivered' = handed'
    BY <1>2, <2>2, <2>3, ConcatEmptySeq DEF Delivered
  <2> QED
    BY <1>1, <2>1, <2>4, <2>5 DEF CutInv, Collected
<1>4. CASE /\ \A r \in Readers : readerAt[r] # "wait"
           /\ terminalReadMbox' = Append(terminalReadMbox, terminalLine)
           /\ UNCHANGED <<readerAt, handed>>
  <2>1. terminalReadMbox' \in Seq(Seq(Char))
    BY <1>2, <1>4, AppendProperties
  <2>2. ReadInv'
    BY <1>1, <1>4, <2>1 DEF ReadInv
  <2>3. Delivered' = Append(Delivered, terminalLine)
    <3>1. handed \o Append(terminalReadMbox, terminalLine) =
              Append(handed \o terminalReadMbox, terminalLine)
      BY <1>2, ConcatContents
    <3>2. Delivered' = handed' \o terminalReadMbox'
      BY DEF Delivered
    <3> QED
      BY <1>4, <3>1, <3>2 DEF Delivered
  <2> QED
    BY <1>1, <2>2, <2>3 DEF CutInv, Collected
<1> QED
  BY <1>3, <1>4 DEF DriverSends

\* A reader takes the first line of the mailbox, or waits for one.
LEMMA TermReadStep ==
    ASSUME ReadInv, CutInv, NEW r \in Readers, kernTermRead(r) PROVE ReadInv' /\ CutInv'
<1>1. UNCHANGED <<terminalLine, driverAt, status, taken>>
  BY DEF kernTermRead
<1>2. /\ terminalReadMbox \in Seq(Seq(Char)) /\ handed \in Seq(Seq(Char))
      /\ readerAt \in [Readers -> {"user", "wait"}]
  BY DEF ReadInv
<1>3. CASE terminalReadMbox = << >>
  <2>1. readerAt' = [readerAt EXCEPT ![r] = "wait"] /\ UNCHANGED <<terminalReadMbox, handed>>
    BY <1>3 DEF kernTermRead
  <2>2. ReadInv'
    BY <1>1, <1>3, <2>1 DEF ReadInv
  <2> QED
    BY <1>1, <2>1, <2>2 DEF CutInv, Collected, Delivered
<1>4. CASE terminalReadMbox # << >>
  <2>1. /\ handed' = Append(handed, Head(terminalReadMbox))
        /\ terminalReadMbox' = Tail(terminalReadMbox) /\ UNCHANGED readerAt
    BY <1>4 DEF kernTermRead
  <2>2. /\ Head(terminalReadMbox) \in Seq(Char) /\ Tail(terminalReadMbox) \in Seq(Seq(Char))
        /\ Append(handed, Head(terminalReadMbox)) \o Tail(terminalReadMbox) =
              handed \o terminalReadMbox
    <3> DEFINE S == Seq(Char)
    <3>1. handed \in Seq(S) /\ terminalReadMbox \in Seq(S)
      BY <1>2
    <3> HIDE DEF S
    <3>2. Head(terminalReadMbox) \in S /\ Tail(terminalReadMbox) \in Seq(S)
      BY <1>4, <3>1, HeadTailProperties
    <3>3. Append(handed, Head(terminalReadMbox)) \o Tail(terminalReadMbox) =
              handed \o terminalReadMbox
      BY <1>4, <3>1, ConcatContents
    <3> QED
      BY <3>2, <3>3 DEF S
  <2>3. handed' \in Seq(Seq(Char))
    BY <1>2, <2>1, <2>2, AppendProperties
  <2>4. \A q \in Readers : readerAt[q] # "wait"
    BY <1>4 DEF ReadInv
  <2>5. ReadInv'
    BY <1>1, <2>1, <2>2, <2>3, <2>4 DEF ReadInv
  <2>6. Delivered' = Delivered
    <3>1. Delivered' = handed' \o terminalReadMbox'
      BY DEF Delivered
    <3> QED
      BY <2>1, <2>2, <3>1 DEF Delivered
  <2> QED
    BY <1>1, <2>5, <2>6 DEF CutInv, Collected
<1> QED
  BY <1>3, <1>4

LEMMA ReadStep == TermTypes /\ ReadInv /\ CutInv /\ [TermNext]_termVars => ReadInv' /\ CutInv'
<1> SUFFICES ASSUME TermTypes, ReadInv, CutInv, [TermNext]_termVars PROVE ReadInv' /\ CutInv'
  OBVIOUS
<1>1. ASSUME NEW newline \in BOOLEAN, CharTyped(newline) PROVE ReadInv' /\ CutInv'
  <2> DEFINE c == [nth |-> typed', newline |-> newline]
  <2>1. c \in Char /\ Interrupt(c) /\ Unread
    BY <1>1 DEF CharTyped, TermTypes, Char, Unread, readVars
  <2> QED
    BY <2>1, InterruptStep
<1>2. CASE XmitDone
  <2>1. NoChar \in Char /\ Interrupt(NoChar) /\ Unread
    BY <1>2 DEF XmitDone, NoChar, Char, Unread, readVars
  <2> QED
    BY <2>1, InterruptStep
<1>3. CASE DriverTop
  <2>1. driverAt = "top" /\ driverAt' = "wait" /\ UNCHANGED taken /\ Unread
    BY <1>3 DEF DriverTop, Unread, readVars
  <2> QED
    BY <2>1, UnreadStep
<1>4. ASSUME NEW w \in Writers, Writes(w) \/ \E n \in Sizes : kernTermWrite(w, n)
      PROVE  ReadInv' /\ CutInv'
  <2>1. UNCHANGED <<driverAt, status, taken>> /\ Unread
    BY <1>4 DEF Writes, TakesLock, NextChar, Outputs, Unlocks, kernTermWrite, WriterOnly, Unread,
       readVars
  <2> QED
    BY <2>1, UnreadStep
<1>5. CASE UNCHANGED termVars
  <2>1. UNCHANGED <<driverAt, status, taken>> /\ Unread
    BY <1>5 DEF termVars, Unread
  <2> QED
    BY <2>1, UnreadStep
<1> QED
  BY <1>1, <1>2, <1>3, <1>4, <1>5, GotStep, SendStep, TermReadStep DEF TermNext, termDriver

\* The readers get what the driver was told of, in order, line by line: a line ends with
\* a newline or when it is full, and none is lost, doubled, cut or joined to another on
\* the way through buffer and mailbox (termDriver, kernTermRead, phase4.c:575-617).
THEOREM LinesAsTypedCorrect == TermSpec => []LinesAsTyped
<1>1. TermInit => ReadInv /\ CutInv
  BY ReadInit
<1>2. TermTypes /\ (ReadInv /\ CutInv) /\ [TermNext]_termVars => (ReadInv /\ CutInv)'
  BY ReadStep
<1>3. ASSUME TermTypes, ReadInv, CutInv PROVE LinesAsTyped
  <2> DEFINE text == Collected
  <2>1. text \in Seq(Char)
    <3>1. CASE driverAt = "got" /\ status.char # NoChar
      <4>1. PICK t \in Seq(Char) : taken = Append(t, status.char)
        BY <1>3, <3>1 DEF ReadInv
      <4>2. status.char \in Char
        BY <1>3 DEF TermTypes, Char
      <4> QED
        BY <3>1, <4>1, <4>2, FrontOfAppend DEF Collected
    <3>2. CASE ~(driverAt = "got" /\ status.char # NoChar)
      BY <1>3, <3>2 DEF Collected, ReadInv
    <3> QED
      BY <3>1, <3>2
  <2>2. Delivered \in Seq(Seq(Char)) /\ terminalLine \in Seq(Char) /\ << >> \in Seq(Char)
    BY <1>3, ConcatProperties DEF Delivered, ReadInv
  <2> HIDE DEF text
  <2>3. CASE driverAt # "send"
    <3>1. Cut(text, Delivered, terminalLine)
      BY <1>3, <2>3 DEF CutInv, text
    <3>2. AreLines(Append(Delivered, terminalLine), text)
      BY <2>1, <2>2, <3>1, CutIsLines
    <3>3. Append(Delivered, terminalLine) = Delivered \o LastLine
      BY <2>2, <2>3, AppendIsConcat DEF LastLine
    <3> QED
      BY <3>2, <3>3 DEF LinesAsTyped, text
  <2>4. CASE driverAt = "send"
    <3> DEFINE ended == Append(Delivered, terminalLine)
    <3>1. ended \in Seq(Seq(Char))
      BY <2>2, AppendProperties
    <3>2. Cut(text, ended, << >>)
      BY <1>3, <2>4 DEF CutInv, text
    <3> HIDE DEF ended
    <3>3. AreLines(Append(ended, << >>), text)
      BY <2>1, <2>2, <3>1, <3>2, CutIsLines
    <3>4. Append(ended, << >>) = Delivered \o LastLine
      <4>1. <<terminalLine>> \in Seq(Seq(Char)) /\ <<terminalLine, << >>>> = Append(<<terminalLine>>, << >>)
        BY <2>2
      <4>2. Delivered \o Append(<<terminalLine>>, << >>) = Append(Delivered \o <<terminalLine>>, << >>)
        BY <2>2, <4>1, ConcatContents
      <4>3. Delivered \o <<terminalLine>> = ended
        BY <2>2, AppendIsConcat DEF ended
      <4> QED
        BY <2>4, <4>1, <4>2, <4>3 DEF LastLine
    <3> QED
      BY <3>3, <3>4 DEF LinesAsTyped, text
  <2> QED
    BY <2>3, <2>4
<1>4. TermSpec => []TermTypes
  <2>1. TermInv => TermTypes
    BY DEF TermInv
  <2> QED
    BY <2>1, TermInvariant, PTL
<1> QED
  BY <1>1, <1>2, <1>3, <1>4, PTL DEF TermSpec
=============================================================================
