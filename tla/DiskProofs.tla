------------------------------ MODULE DiskProofs ------------------------------
(***************************************************************************)
(* Theorems about Disk: the queue of the requests, the driver that sleeps  *)
(* at its mailbox, and the sectors it moves, for every number of processes *)
(* and every geometry of the disk.                                         *)
(***************************************************************************)
EXTENDS Disk, SequenceFacts

UserPlaces   == {"user", "lock", "queue", "wake", "wait", "size"}
DriverPlaces == {"start", "receive", "idle", "look", "seek", "seeking", "sector", "cross",
                 "crossing", "output", "answer"}

\* The driver has taken the head of the queue over and not unlinked it.
Serving == {"seek", "seeking", "sector", "cross", "crossing", "output"}

DiskTypes ==
    /\ diskReq \in Seq(Users)
    /\ diskTable \in [Users -> Requests \cup {<< >>}]
    /\ diskBox \in {0, 1} /\ trackBox \in {0, 1}
    /\ procBox \in [Users -> {0, 1}] /\ userAt \in [Users -> UserPlaces]
    /\ diskAt \in DriverPlaces
    /\ track \in Int /\ reg1 \in Int /\ sector \in Nat

\* Whose request is in the queue or being answered.
Pending == {p \in Users : userAt[p] \in {"wake", "wait"} /\ procBox[p] = 0}

\* Beside the property: an answer waits only for a process that is to fetch it, and a
\* process has a request in the table from its call to its answer.
QueueInv ==
    /\ QueueIsPending
    /\ diskAt = "answer" => serving \in Users /\ serving \notin Range(diskReq)
    /\ \A p \in Users : /\ procBox[p] = 1 => userAt[p] \in {"wake", "wait"}
                        /\ userAt[p] \in {"lock", "queue", "wake", "wait"} =>
                              diskTable[p] \in Requests

\* The driver that is about to wait, or waits, with requests in the queue finds a
\* message in its mailbox, or somebody is about to wake it.  While it seeks the mailbox
\* is its lock, and what is in it says nothing.
WakeInv ==
    /\ diskAt \in {"start", "receive", "idle"} /\ diskReq # << >> =>
          diskBox = 1 \/ \E p \in Users : userAt[p] = "wake"
    /\ diskAt = "idle" => diskBox = 0

\* What SectorsAsAsked asks of a request.
Exists(r) ==
    /\ r.first \in 0 .. TrackSize - 1
    /\ \A n \in 1 .. r.sectors : SectorOf(r, n)[1] \in 0 .. NumTracks - 1
    /\ r.first + r.sectors <= TrackSize + 1

FirstSectors(r, n) == [k \in 1 .. n |-> SectorOf(r, k)]

\* Between two sectors the first ones have been moved, and arm and reg1 are at the next.
TransferInv ==
    LET r == diskTable[serving] IN
    /\ diskAt \in {"seek", "seeking"} =>
          track = r.track /\ reg1 = r.first /\ sector = 0 /\ moved = << >>
    /\ diskAt \in {"sector", "cross", "crossing", "output"} /\ Exists(r) =>
          /\ reg1 = r.first + sector /\ moved = FirstSectors(r, sector)
          /\ sector = 0 \/ sector <= r.sectors
    /\ diskAt = "sector" /\ Exists(r) /\ sector < r.sectors => arm = r.track /\ track = r.track
    /\ diskAt \in {"cross", "crossing", "output"} /\ Exists(r) =>
          reg1 = TrackSize /\ sector < r.sectors /\ track = r.track + 1
    /\ diskAt = "output" /\ Exists(r) => arm = r.track + 1
    /\ diskAt = "answer" /\ Exists(r) => moved = FirstSectors(r, r.sectors)

-----------------------------------------------------------------------------
(* Where diskQueue puts a request.                                         *)

\* The run of places that pass a test ends within the queue.
LEMMA RunLengthBound ==
    ASSUME NEW q \in Seq(Users), NEW n \in 1 .. Len(q) + 1, NEW passing
    PROVE  RunLength(q, n, passing) \in 0 .. Len(q) + 1 - n
<1> DEFINE fails == (n .. Len(q)) \ passing
<1>1. CASE fails = {}
  BY <1>1 DEF RunLength
<1>2. CASE fails # {}
  <2>1. fails \in SUBSET Nat
    OBVIOUS
  <2>2. Min(fails) \in fails
    BY <1>2, <2>1, MinIn
  <2>3. Min(fails) \in n .. Len(q)
    BY <2>2
  <2> QED
    BY <1>2, <2>3 DEF RunLength
<1> QED
  BY <1>1, <1>2

\* A request is put somewhere behind the head, or at the end.
LEMMA PlaceBehindHead ==
    ASSUME NEW q \in Seq(Users), q # << >>, NEW last
    PROVE  Place(q, last) \in 2 .. Len(q) + 1
<1>1. Len(q) \in Nat /\ Len(q) >= 1
  BY EmptySeq
<1>2. \A S : RunLength(q, 2, S) \in 0 .. Len(q) - 1
  BY <1>1, RunLengthBound
<1>3. \A S : 2 + RunLength(q, 2, S) \in 2 .. Len(q) + 1
  BY <1>1, <1>2
<1> DEFINE above == {i \in DOMAIN q : diskTable[q[i]].track >= diskTable[q[1]].track}
           below == {i \in DOMAIN q : diskTable[q[i]].track <= last}
           turn  == 2 + RunLength(q, 2, above)
<1>4. turn \in 2 .. Len(q) + 1
  BY <1>3
<1>5. Place(q, last) \in {2 + RunLength(q, 2, {i \in DOMAIN q : /\ diskTable[q[i]].track <= diskTable[q[1]].track
                                                              /\ diskTable[q[i]].track >= last}),
                          turn}
      \/ (turn <= Len(q) /\ Place(q, last) = turn + RunLength(q, turn, below))
  BY <1>4 DEF Place
<1> HIDE DEF turn
<1>6. ASSUME turn <= Len(q) PROVE turn + RunLength(q, turn, below) \in 2 .. Len(q) + 1
  <2>1. turn \in 1 .. Len(q) + 1
    BY <1>1, <1>4
  <2>2. RunLength(q, turn, below) \in 0 .. Len(q) + 1 - turn
    BY <2>1, RunLengthBound
  <2> QED
    BY <1>1, <1>4, <2>2
<1> QED
  BY <1>3, <1>4, <1>5, <1>6

\* diskQueue adds the process, whose request is not served before the head.
LEMMA QueueContents ==
    ASSUME NEW q \in Seq(Users), NEW p \in Users
    PROVE  /\ diskQueue(q, p) \in Seq(Users) /\ diskQueue(q, p) # << >>
           /\ Range(diskQueue(q, p)) = Range(q) \cup {p}
           /\ q # << >> => Head(diskQueue(q, p)) = Head(q)
           /\ IsInjective(q) /\ p \notin Range(q) => IsInjective(diskQueue(q, p))
<1>1. CASE q = << >>
  <2>1. diskQueue(q, p) = Append(q, p)
    BY <1>1 DEF diskQueue
  <2> QED
    BY <1>1, <2>1, AppendContents
<1>2. CASE q # << >>
  <2> DEFINE n == Place(q, diskTable[p].track)
  <2>1. n \in 2 .. Len(q) + 1
    BY <1>2, PlaceBehindHead
  <2>2. diskQueue(q, p) = InsertAt(q, n, p)
    BY <1>2 DEF diskQueue
  <2> HIDE DEF n
  <2>3. n \in 1 .. Len(q) + 1 /\ n > 1
    BY <2>1
  <2> DEFINE u == InsertAt(q, n, p)
  <2>4. /\ u \in Seq(Users) /\ u # << >> /\ Range(u) = Range(q) \cup {p} /\ Head(u) = Head(q)
        /\ IsInjective(q) /\ p \notin Range(q) => IsInjective(u)
    BY <2>3, InsertContents
  <2> QED
    BY <1>2, <2>2, <2>4, Zenon
<1> QED
  BY <1>1, <1>2

-----------------------------------------------------------------------------
(* Types, and who is in the queue.                                         *)

LEMMA QueueInit == DiskInit => DiskTypes /\ QueueInv
<1> SUFFICES ASSUME DiskInit PROVE DiskTypes /\ QueueInv
  OBVIOUS
<1>1. DiskTypes
  BY DEF DiskInit, DiskTypes, UserPlaces, DriverPlaces
<1>2. QueueIsPending
  BY EmptyContents DEF DiskInit, QueueIsPending
<1> QED
  BY <1>1, <1>2 DEF DiskInit, QueueInv

\* The variables keep their types.
LEMMA TypesStep == DiskTypes /\ QueueInv /\ [DiskNext]_diskVars => DiskTypes'
<1> SUFFICES ASSUME DiskTypes, QueueInv, [DiskNext]_diskVars PROVE DiskTypes'
  OBVIOUS
<1> USE DEF driverVars, DriverOnly, DiskTypes
<1>1. ASSUME NEW p \in Users, NEW request \in Requests, kernDiskRead(p, request) \/ kernDiskWrite(p, request)
      PROVE  DiskTypes'
  BY <1>1 DEF kernDiskRead, kernDiskWrite, UserPlaces
<1>2. ASSUME NEW p \in Users, kernDiskSize(p) \/ LocksQueue(p) \/ SizeKnown(p) \/ Answered(p)
      PROVE  DiskTypes'
  BY <1>2 DEF kernDiskSize, LocksQueue, SizeKnown, Answered, UserPlaces
<1>3. ASSUME NEW p \in Users, Queues(p) PROVE DiskTypes'
  BY <1>3, QueueContents DEF Queues, UserPlaces
<1>4. ASSUME NEW p \in Users, WakesDriver(p) PROVE DiskTypes'
  BY <1>4 DEF WakesDriver, BoxSlots, UserPlaces, DriverPlaces
<1>5. CASE DriverStarts \/ DriverReceives \/ SeekStarts \/ SeekEnds
  BY <1>5 DEF DriverStarts, DriverReceives, SeekStarts, SeekEnds, DriverPlaces
<1>6. CASE DriverLooks
  <2>1. CASE diskReq = << >>
    BY <1>6, <2>1 DEF DriverLooks, DriverPlaces
  <2>2. CASE diskReq # << >>
    <3>1. Head(diskReq) \in Users /\ Head(diskReq) \in Range(diskReq)
      BY <2>2, TailContents
    <3>2. diskTable[Head(diskReq)] \in Requests
      BY <3>1 DEF QueueInv, QueueIsPending
    <3>3. diskTable[Head(diskReq)].track \in Int /\ diskTable[Head(diskReq)].first \in Int
      BY <3>2, DiskAssumption
    <3> QED
      BY <1>6, <2>2, <3>3 DEF DriverLooks, DriverPlaces
  <2> QED
    BY <2>1, <2>2
<1>7. CASE NextTrack \/ SectorMoved
  BY <1>7 DEF NextTrack, SectorMoved, NextSector, DriverPlaces
<1>8. CASE DriverUnlinks
  <2>1. diskReq # << >>
    BY <1>8 DEF DriverUnlinks, QueueInv, QueueIsPending
  <2> QED
    BY <1>8, <2>1, TailContents DEF DriverUnlinks, DriverPlaces
<1>9. CASE DriverAnswers
  BY <1>9 DEF DriverAnswers, DriverPlaces, QueueInv
<1>10. CASE UNCHANGED diskVars
  BY <1>10 DEF diskVars
<1> QED
  BY <1>1, <1>2, <1>3, <1>4, <1>5, <1>6, <1>7, <1>8, <1>9, <1>10
     DEF DiskNext, diskDriver, UserGoesOn

\* Who is pending, said of one process.
InQueue(p) == p \in Range(diskReq) \/ (diskAt = "answer" /\ p = serving)

LEMMA PendingIsInQueue ==
    ASSUME DiskTypes
    PROVE  QueueIsPending <=>
             /\ IsInjective(diskReq)
             /\ diskAt = "answer" => serving \in Users
             /\ \A p \in Users : p \in Pending <=> InQueue(p)
             /\ diskAt \in Serving => diskReq # << >> /\ Head(diskReq) = serving
<1>1. Range(diskReq) \subseteq Users
  BY RangeOfSeq DEF DiskTypes
<1>2. diskAt \in Serving <=> diskAt \notin {"start", "receive", "idle", "look", "answer"}
  BY DEF DiskTypes, DriverPlaces, Serving
<1> QED
  BY <1>1, <1>2 DEF QueueIsPending, Pending, InQueue

LEMMA QueueStep == DiskTypes /\ QueueInv /\ [DiskNext]_diskVars => QueueInv'
<1> SUFFICES ASSUME DiskTypes, QueueInv, [DiskNext]_diskVars PROVE QueueInv'
  OBVIOUS
<1> DEFINE Good == /\ IsInjective(diskReq)
                   /\ diskAt = "answer" => serving \in Users /\ serving \notin Range(diskReq)
                   /\ \A p \in Users : p \in Pending <=> InQueue(p)
                   /\ diskAt \in Serving => diskReq # << >> /\ Head(diskReq) = serving
           Boxed == \A p \in Users : procBox[p] = 1 => userAt[p] \in {"wake", "wait"}
           Asked == \A p \in Users : userAt[p] \in {"lock", "queue", "wake", "wait"} =>
                                        diskTable[p] \in Requests
<1>1. Good /\ Boxed /\ Asked
  BY PendingIsInQueue DEF QueueInv
<1>2. DiskTypes'
  BY TypesStep
<1>3. ASSUME Good', Boxed', Asked' PROVE QueueInv'
  <2>1. QueueIsPending'
    <3>1. Range(diskReq') \subseteq Users
      BY <1>2, RangeOfSeq DEF DiskTypes
    <3>2. diskAt' \in Serving <=> diskAt' \notin {"start", "receive", "idle", "look", "answer"}
      BY <1>2 DEF DiskTypes, DriverPlaces, Serving
    <3> QED
      BY <1>3, <3>1, <3>2 DEF QueueIsPending, Pending, InQueue
  <2> QED
    BY <1>3, <2>1 DEF QueueInv
<1> SUFFICES Good' /\ Boxed' /\ Asked'
  BY <1>3
<1> USE DEF driverVars, DriverOnly
<1>4. ASSUME NEW p \in Users, NEW request \in Requests, kernDiskRead(p, request) \/ kernDiskWrite(p, request)
      PROVE  Good' /\ Boxed' /\ Asked'
  <2>1. /\ userAt[p] = "user" /\ userAt' = [userAt EXCEPT ![p] = "lock"]
        /\ diskTable' = [diskTable EXCEPT ![p] = request]
        /\ UNCHANGED <<diskReq, procBox, diskAt, serving>>
    BY <1>4 DEF kernDiskRead, kernDiskWrite
  <2>2. /\ userAt'[p] = "lock" /\ diskTable'[p] = request
        /\ \A q \in Users \ {p} : userAt'[q] = userAt[q] /\ diskTable'[q] = diskTable[q]
    BY <2>1 DEF DiskTypes
  <2>3. \A q \in Users : q \in Pending' <=> q \in Pending
    BY <2>1, <2>2 DEF Pending
  <2> QED
    BY <1>1, <2>1, <2>2, <2>3 DEF InQueue
<1>5. ASSUME NEW p \in Users, kernDiskSize(p) \/ LocksQueue(p) \/ SizeKnown(p)
      PROVE  Good' /\ Boxed' /\ Asked'
  <2>1. /\ userAt[p] \in {"user", "lock", "size"}
        /\ \/ userAt' = [userAt EXCEPT ![p] = "user"]
           \/ userAt' = [userAt EXCEPT ![p] = "size"]
           \/ userAt[p] = "lock" /\ userAt' = [userAt EXCEPT ![p] = "queue"]
        /\ UNCHANGED <<diskReq, diskTable, procBox, diskAt, serving>>
    BY <1>5 DEF kernDiskSize, LocksQueue, SizeKnown
  <2>2. /\ userAt'[p] \in {"user", "size"} \/ (userAt[p] = "lock" /\ userAt'[p] = "queue")
        /\ \A q \in Users \ {p} : userAt'[q] = userAt[q]
    BY <2>1 DEF DiskTypes
  <2>3. \A q \in Users : q \in Pending' <=> q \in Pending
    BY <2>1, <2>2 DEF Pending
  <2> QED
    BY <1>1, <2>1, <2>2, <2>3 DEF InQueue
<1>6. ASSUME NEW p \in Users, Queues(p) PROVE Good' /\ Boxed' /\ Asked'
  <2>1. /\ userAt[p] = "queue" /\ userAt' = [userAt EXCEPT ![p] = "wake"]
        /\ diskReq' = diskQueue(diskReq, p)
        /\ UNCHANGED <<diskTable, procBox, diskAt, serving>>
    BY <1>6 DEF Queues
  <2>2. /\ userAt'[p] = "wake"
        /\ \A q \in Users \ {p} : userAt'[q] = userAt[q]
    BY <2>1 DEF DiskTypes
  <2>3. /\ diskReq' # << >> /\ Range(diskReq') = Range(diskReq) \cup {p}
        /\ diskReq # << >> => Head(diskReq') = Head(diskReq)
        /\ IsInjective(diskReq) /\ p \notin Range(diskReq) => IsInjective(diskReq')
    BY <2>1, QueueContents DEF DiskTypes
  <2>4. procBox[p] = 0 /\ p \notin Pending
    BY <1>1, <2>1 DEF DiskTypes, Pending
  <2>5. p \notin Range(diskReq) /\ (diskAt = "answer" => p # serving)
    BY <1>1, <2>4 DEF InQueue
  <2>6. \A q \in Users : q \in Pending' <=> q \in Pending \/ q = p
    BY <2>1, <2>2, <2>4 DEF Pending
  <2>7. Good'
    BY <1>1, <2>1, <2>3, <2>5, <2>6 DEF InQueue
  <2> QED
    BY <1>1, <2>1, <2>2, <2>7
<1>7. ASSUME NEW p \in Users, WakesDriver(p) PROVE Good' /\ Boxed' /\ Asked'
  <2>1. /\ userAt[p] = "wake" /\ userAt' = [userAt EXCEPT ![p] = "wait"]
        /\ \/ diskAt = "idle" /\ diskAt' = "look"
           \/ diskAt' = diskAt
        /\ UNCHANGED <<diskReq, diskTable, procBox, serving>>
    BY <1>7 DEF WakesDriver
  <2>2. /\ userAt'[p] = "wait"
        /\ \A q \in Users \ {p} : userAt'[q] = userAt[q]
    BY <2>1 DEF DiskTypes
  <2>3. \A q \in Users : q \in Pending' <=> q \in Pending
    BY <2>1, <2>2 DEF Pending
  <2>4. Good'
    BY <1>1, <2>1, <2>3 DEF InQueue, Serving
  <2> QED
    BY <1>1, <2>1, <2>2, <2>4
<1>8. ASSUME NEW p \in Users, Answered(p) PROVE Good' /\ Boxed' /\ Asked'
  <2>1. /\ userAt[p] = "wait" /\ userAt' = [userAt EXCEPT ![p] = "user"]
        /\ procBox[p] = 1 /\ procBox' = [procBox EXCEPT ![p] = 0]
        /\ UNCHANGED <<diskReq, diskTable, diskAt, serving>>
    BY <1>8 DEF Answered
  <2>2. /\ userAt'[p] = "user" /\ procBox'[p] = 0
        /\ \A q \in Users \ {p} : userAt'[q] = userAt[q] /\ procBox'[q] = procBox[q]
    BY <2>1 DEF DiskTypes
  <2>3. \A q \in Users : q \in Pending' <=> q \in Pending
    BY <2>1, <2>2 DEF Pending
  <2>4. Good'
    BY <1>1, <2>1, <2>3 DEF InQueue
  <2> QED
    BY <1>1, <2>1, <2>2, <2>4
<1>9. CASE DriverStarts \/ DriverReceives \/ SeekStarts \/ SeekEnds \/ NextTrack \/ SectorMoved
  <2>1. /\ UNCHANGED <<diskReq, diskTable, userAt, procBox, serving>>
        /\ diskAt # "answer" /\ diskAt' # "answer" /\ (diskAt' \in Serving => diskAt \in Serving)
    BY <1>9 DEF DriverStarts, DriverReceives, SeekStarts, SeekEnds, NextTrack, SectorMoved, Serving
  <2>2. \A q \in Users : q \in Pending' <=> q \in Pending
    BY <2>1 DEF Pending
  <2> QED
    BY <1>1, <2>1, <2>2 DEF InQueue
<1>10. CASE DriverLooks
  <2>1. /\ UNCHANGED <<diskReq, diskTable, userAt, procBox>> /\ diskAt = "look"
        /\ \/ diskAt' = "receive"
           \/ diskReq # << >> /\ diskAt' = "seek" /\ serving' = Head(diskReq)
    BY <1>10 DEF DriverLooks
  <2>2. \A q \in Users : q \in Pending' <=> q \in Pending
    BY <2>1 DEF Pending
  <2>3. Good'
    BY <1>1, <2>1, <2>2 DEF InQueue, Serving
  <2> QED
    BY <1>1, <2>1, <2>3
<1>11. CASE DriverUnlinks
  <2>1. /\ UNCHANGED <<diskTable, userAt, procBox, serving>>
        /\ diskAt = "sector" /\ diskAt' = "answer" /\ diskReq' = Tail(diskReq)
    BY <1>11 DEF DriverUnlinks
  <2>2. diskReq # << >> /\ Head(diskReq) = serving
    BY <1>1, <2>1 DEF Serving
  <2>3. /\ serving \in Users /\ Range(diskReq) = Range(diskReq') \cup {serving}
        /\ IsInjective(diskReq') /\ serving \notin Range(diskReq')
    BY <1>1, <2>1, <2>2, TailContents DEF DiskTypes
  <2>4. \A q \in Users : q \in Pending' <=> q \in Pending
    BY <2>1 DEF Pending
  <2>5. Good'
    BY <1>1, <2>1, <2>3, <2>4 DEF InQueue, Serving
  <2> QED
    BY <1>1, <2>1, <2>5
<1>12. CASE DriverAnswers
  <2>1. /\ UNCHANGED <<diskReq, diskTable, userAt, serving>>
        /\ diskAt = "answer" /\ diskAt' = "look" /\ procBox' = [procBox EXCEPT ![serving] = 1]
    BY <1>12 DEF DriverAnswers
  <2>2. serving \in Users /\ serving \notin Range(diskReq) /\ serving \in Pending
    BY <1>1, <2>1 DEF InQueue
  <2>3. /\ procBox'[serving] = 1
        /\ \A q \in Users \ {serving} : procBox'[q] = procBox[q]
    BY <2>1, <2>2 DEF DiskTypes
  <2>4. \A q \in Users : q \in Pending' <=> q \in Pending /\ q # serving
    BY <2>1, <2>3 DEF Pending
  <2>5. Good'
    BY <1>1, <2>1, <2>2, <2>4 DEF InQueue, Serving
  <2>6. Boxed'
    BY <1>1, <2>1, <2>2, <2>3 DEF Pending
  <2> QED
    BY <1>1, <2>1, <2>5, <2>6
<1>13. CASE UNCHANGED diskVars
  <2>1. UNCHANGED <<diskReq, diskTable, userAt, procBox, diskAt, serving>>
    BY <1>13 DEF diskVars
  <2> QED
    BY <1>1, <2>1 DEF Pending, InQueue
<1> HIDE DEF Good, Boxed, Asked
<1> QED
  BY <1>4, <1>5, <1>6, <1>7, <1>8, <1>9, <1>10, <1>11, <1>12, <1>13
     DEF DiskNext, diskDriver, UserGoesOn

\* The queue holds who has put in a request that is not answered, each once, and what
\* is being served is its head: diskQueue, diskDriver.
THEOREM QueueIsPendingCorrect == DiskSpec => []QueueIsPending
<1>1. DiskTypes /\ QueueInv /\ [DiskNext]_diskVars => (DiskTypes /\ QueueInv)'
  BY TypesStep, QueueStep
<1>2. QueueInv => QueueIsPending
  BY DEF QueueInv
<1> QED
  BY <1>1, <1>2, QueueInit, PTL DEF DiskSpec

-----------------------------------------------------------------------------
(* No request is forgotten between queue and mailbox.                      *)

LEMMA WakeStep == DiskTypes /\ WakeInv /\ [DiskNext]_diskVars => WakeInv'
<1> SUFFICES ASSUME DiskTypes, WakeInv, [DiskNext]_diskVars PROVE WakeInv'
  OBVIOUS
<1> USE DEF driverVars, DriverOnly
<1> DEFINE Rests   == diskAt \in {"start", "receive", "idle"}
           Waker   == \E p \in Users : userAt[p] = "wake"
<1>1. /\ Rests /\ diskReq # << >> => diskBox = 1 \/ Waker
      /\ diskAt = "idle" => diskBox = 0
  BY DEF WakeInv
<1>2. ASSUME Rests' /\ diskReq' # << >> => diskBox' = 1 \/ Waker', diskAt' = "idle" => diskBox' = 0
      PROVE  WakeInv'
  BY <1>2 DEF WakeInv
<1>3. ASSUME NEW p \in Users,
             \/ \E request \in Requests : kernDiskRead(p, request) \/ kernDiskWrite(p, request)
             \/ kernDiskSize(p) \/ LocksQueue(p) \/ SizeKnown(p) \/ Answered(p)
      PROVE  WakeInv'
  <2>1. /\ UNCHANGED <<diskReq, diskBox, diskAt>> /\ userAt[p] # "wake"
        /\ \E place : userAt' = [userAt EXCEPT ![p] = place]
    BY <1>3 DEF kernDiskRead, kernDiskWrite, kernDiskSize, LocksQueue, SizeKnown, Answered
  <2>2. \A q \in Users \ {p} : userAt'[q] = userAt[q]
    BY <2>1 DEF DiskTypes
  <2> QED
    BY <1>1, <1>2, <2>1, <2>2
<1>4. ASSUME NEW p \in Users, Queues(p) PROVE WakeInv'
  <2>1. userAt'[p] = "wake" /\ UNCHANGED <<diskBox, diskAt>>
    BY <1>4 DEF Queues, DiskTypes
  <2> QED
    BY <1>1, <1>2, <2>1
<1>5. ASSUME NEW p \in Users, WakesDriver(p) PROVE WakeInv'
  <2>1. \/ diskAt' = "look"
        \/ diskAt # "idle" /\ diskAt' = diskAt /\ diskBox' = 1
    BY <1>5 DEF WakesDriver, BoxSlots
  <2> QED
    BY <1>2, <2>1
<1>6. CASE DriverStarts \/ DriverReceives
  <2>1. /\ UNCHANGED <<diskReq, userAt>> /\ diskAt \in {"start", "receive"}
        /\ \/ diskAt' = "receive" /\ diskBox' = diskBox
           \/ diskBox # 1 /\ diskBox' = 0 /\ diskAt' = "idle"
           \/ diskAt' = "look"
    BY <1>6 DEF DriverStarts, DriverReceives
  <2> QED
    BY <1>1, <1>2, <2>1
<1>7. CASE DriverLooks
  <2>1. UNCHANGED diskReq /\ \/ diskReq = << >> /\ diskAt' = "receive"
                             \/ diskAt' = "seek"
    BY <1>7 DEF DriverLooks
  <2> QED
    BY <1>2, <2>1
<1>8. CASE SeekStarts \/ SeekEnds \/ NextTrack \/ SectorMoved \/ DriverUnlinks \/ DriverAnswers
  <2>1. diskAt' \in {"seeking", "crossing", "sector", "output", "cross", "answer", "look"}
    BY <1>8 DEF SeekStarts, SeekEnds, NextTrack, SectorMoved, DriverUnlinks, DriverAnswers
  <2> QED
    BY <1>2, <2>1
<1>9. CASE UNCHANGED diskVars
  <2>1. UNCHANGED <<diskReq, userAt, diskBox, diskAt>>
    BY <1>9 DEF diskVars
  <2> QED
    BY <1>1, <1>2, <2>1
<1> QED
  BY <1>3, <1>4, <1>5, <1>6, <1>7, <1>8, <1>9 DEF DiskNext, diskDriver, UserGoesOn

\* The driver never waits at its mailbox with a request in the queue that nobody is about
\* to wake it for: kernDiskRead, kernDiskWrite and the top of diskDriver's loop.
THEOREM NoRequestForgottenCorrect == DiskSpec => []NoRequestForgotten
<1>1. DiskInit => DiskTypes /\ QueueInv /\ WakeInv
  BY QueueInit DEF DiskInit, WakeInv
<1>2. DiskTypes /\ QueueInv /\ WakeInv /\ [DiskNext]_diskVars => (DiskTypes /\ QueueInv /\ WakeInv)'
  BY TypesStep, QueueStep, WakeStep
<1>3. WakeInv => NoRequestForgotten
  BY DEF WakeInv, NoRequestForgotten
<1> QED
  BY <1>1, <1>2, <1>3, PTL DEF DiskSpec

-----------------------------------------------------------------------------
(* The sectors of a request.                                               *)

\* Counting on from the first sector: where the next one is while it is on the track of
\* the first, and where the one after the last of that track is.
LEMMA NextSectorIs ==
    ASSUME NEW r, r.track \in Int, r.first \in 0 .. TrackSize - 1, NEW n \in Nat
    PROVE  /\ r.first + n < TrackSize => SectorOf(r, n + 1) = <<r.track, r.first + n>>
           /\ r.first + n = TrackSize => SectorOf(r, n + 1) = <<r.track + 1, 0>>
<1>1. TrackSize \in Nat /\ TrackSize > 0
  BY DiskAssumption
<1>2. r.first + (n + 1) - 1 = r.first + n /\ r.first + n \in Nat
  BY <1>1
<1>3. \A x \in Nat : /\ x < TrackSize => x \div TrackSize = 0 /\ x % TrackSize = x
                     /\ x = TrackSize => x \div TrackSize = 1 /\ x % TrackSize = 0
  BY <1>1
<1> QED
  BY <1>2, <1>3 DEF SectorOf

\* One sector more.
LEMMA OneMore ==
    ASSUME NEW r, NEW n \in Nat, FirstSectors(r, n) \in Seq(Int \X Int),
           SectorOf(r, n + 1) \in Int \X Int
    PROVE  Append(FirstSectors(r, n), SectorOf(r, n + 1)) = FirstSectors(r, n + 1)
<1> DEFINE a == Append(FirstSectors(r, n), SectorOf(r, n + 1))
           b == FirstSectors(r, n + 1)
<1>1. Len(FirstSectors(r, n)) = n
  BY DEF FirstSectors
<1>2. /\ a \in Seq(Int \X Int) /\ Len(a) = n + 1
      /\ \A k \in 1 .. n : a[k] = FirstSectors(r, n)[k]
      /\ a[n + 1] = SectorOf(r, n + 1)
  BY <1>1, AppendProperties
<1>3. a = [k \in 1 .. n + 1 |-> a[k]]
  BY <1>2, LenProperties
<1>4. \A k \in 1 .. n + 1 : a[k] = SectorOf(r, k)
  <2>1. \A k \in 1 .. n : FirstSectors(r, n)[k] = SectorOf(r, k)
    BY DEF FirstSectors
  <2>2. \A k \in 1 .. n + 1 : k \in 1 .. n \/ k = n + 1
    OBVIOUS
  <2> HIDE DEF a
  <2> QED
    BY <1>2, <2>1, <2>2
<1> HIDE DEF a
<1> QED
  BY <1>3, <1>4 DEF FirstSectors

\* The sectors of a request are pairs of numbers.
LEMMA SectorsTyped ==
    ASSUME NEW r \in Requests, NEW n \in Nat
    PROVE  /\ SectorOf(r, n + 1) \in Int \X Int
           /\ FirstSectors(r, n) \in Seq(Int \X Int)
<1>1. r.track \in Int /\ r.first \in Int /\ TrackSize \in Nat /\ TrackSize > 0
  BY DiskAssumption
<1>2. \A k \in Int : SectorOf(r, k) \in Int \X Int
  <2>1. TAKE k \in Int
  <2>2. r.first + k - 1 \in Int
    BY <1>1
  <2>3. (r.first + k - 1) \div TrackSize \in Int /\ (r.first + k - 1) % TrackSize \in Int
    BY <1>1, <2>2
  <2> QED
    BY <1>1, <2>3 DEF SectorOf
<1>3. FirstSectors(r, n) \in [1 .. n -> Int \X Int]
  BY <1>2 DEF FirstSectors
<1>4. FirstSectors(r, n) \in Seq(Int \X Int)
  BY <1>3
<1>5. n + 1 \in Int
  OBVIOUS
<1> QED
  BY <1>2, <1>4, <1>5

\* The parts of TransferInv, for the request being served.
SeekPart(r) ==
    diskAt \in {"seek", "seeking"} =>
        track = r.track /\ reg1 = r.first /\ sector = 0 /\ moved = << >>
LoopPart(r) ==
    diskAt \in {"sector", "cross", "crossing", "output"} /\ Exists(r) =>
        /\ reg1 = r.first + sector /\ moved = FirstSectors(r, sector)
        /\ sector = 0 \/ sector <= r.sectors
TrackPart(r) ==
    /\ diskAt = "sector" /\ Exists(r) /\ sector < r.sectors => arm = r.track /\ track = r.track
    /\ diskAt \in {"cross", "crossing", "output"} /\ Exists(r) =>
          reg1 = TrackSize /\ sector < r.sectors /\ track = r.track + 1
    /\ diskAt = "output" /\ Exists(r) => arm = r.track + 1
DonePart(r) == diskAt = "answer" /\ Exists(r) => moved = FirstSectors(r, r.sectors)

LEMMA TransferStep ==
    DiskTypes /\ QueueInv /\ TransferInv /\ [DiskNext]_diskVars => TransferInv'
<1> SUFFICES ASSUME DiskTypes, QueueInv, TransferInv, [DiskNext]_diskVars PROVE TransferInv'
  OBVIOUS
<1> DEFINE Parts(r) == SeekPart(r) /\ LoopPart(r) /\ TrackPart(r) /\ DonePart(r)
           r == diskTable[serving]
           Busy == Serving \cup {"answer"}
<1> USE DEF driverVars, DriverOnly
<1>1. Parts(r)
  BY DEF TransferInv, SeekPart, LoopPart, TrackPart, DonePart
<1>2. ASSUME NEW q, q = diskTable'[serving'], Parts(q)' PROVE TransferInv'
  BY <1>2 DEF TransferInv, SeekPart, LoopPart, TrackPart, DonePart
<1>3. ASSUME diskAt \in Busy PROVE serving \in Users /\ userAt[serving] \in {"wake", "wait"} /\ r \in Requests
  <2>1. QueueIsPending /\ (diskAt = "answer" => serving \in Users)
    BY DEF QueueInv
  <2>2. serving \in Users /\ InQueue(serving)
    <3>1. CASE diskAt = "answer"
      BY <2>1, <3>1 DEF InQueue
    <3>2. CASE diskAt \in Serving
      <4>1. diskReq # << >> /\ Head(diskReq) = serving
        BY <2>1, <3>2, PendingIsInQueue
      <4> QED
        BY <4>1, TailContents DEF InQueue, DiskTypes
    <3> QED
      BY <1>3, <3>1, <3>2
  <2>3. serving \in Pending
    BY <2>1, <2>2, PendingIsInQueue
  <2> QED
    BY <2>2, <2>3 DEF Pending, QueueInv
<1>4. ASSUME diskAt' \notin Busy PROVE TransferInv'
  BY <1>4 DEF TransferInv, Serving
<1>5. ASSUME UNCHANGED <<serving, track, reg1, sector, arm, moved, diskAt>>,
             diskAt \in Busy => diskTable'[serving] = r
      PROVE  TransferInv'
  <2>1. CASE diskAt \in Busy
    <3>1. diskTable'[serving'] = r /\ Parts(r)'
      BY <1>1, <1>5, <2>1 DEF SeekPart, LoopPart, TrackPart, DonePart
    <3> QED
      BY <1>2, <3>1
  <2>2. CASE diskAt \notin Busy
    BY <1>4, <1>5, <2>2
  <2> QED
    BY <2>1, <2>2
<1>6. TrackSize \in Nat \ {0} /\ sector \in Nat
  BY DiskAssumption DEF DiskTypes
<1>7. ASSUME NEW p \in Users, NEW request \in Requests, kernDiskRead(p, request) \/ kernDiskWrite(p, request)
      PROVE  TransferInv'
  <2>1. /\ userAt[p] = "user" /\ diskTable' = [diskTable EXCEPT ![p] = request]
        /\ UNCHANGED <<serving, track, reg1, sector, arm, moved, diskAt>>
    BY <1>7 DEF kernDiskRead, kernDiskWrite
  <2>2. diskAt \in Busy => diskTable'[serving] = r
    BY <1>3, <2>1 DEF DiskTypes
  <2> QED
    BY <1>5, <2>1, <2>2
<1>8. ASSUME NEW p \in Users,
             kernDiskSize(p) \/ LocksQueue(p) \/ Queues(p) \/ SizeKnown(p) \/ Answered(p)
      PROVE  TransferInv'
  <2>1. UNCHANGED <<serving, track, reg1, sector, arm, moved, diskAt, diskTable>>
    BY <1>8 DEF kernDiskSize, LocksQueue, Queues, SizeKnown, Answered
  <2> QED
    BY <1>5, <2>1
<1>9. ASSUME NEW p \in Users, WakesDriver(p) PROVE TransferInv'
  <2>1. /\ UNCHANGED <<serving, track, reg1, sector, arm, moved, diskTable>>
        /\ diskAt' = "look" \/ diskAt' = diskAt
    BY <1>9 DEF WakesDriver
  <2> QED
    BY <1>4, <1>5, <2>1 DEF Serving
<1>10. CASE DriverStarts \/ DriverReceives \/ DriverAnswers
  <2>1. diskAt' \in {"receive", "look", "idle"}
    BY <1>10 DEF DriverStarts, DriverReceives, DriverAnswers
  <2> QED
    BY <1>4, <2>1 DEF Serving
<1>11. CASE DriverLooks
  <2>1. \/ diskAt' = "receive"
        \/ /\ diskAt' = "seek" /\ sector' = 0 /\ moved' = << >>
           /\ track' = diskTable'[serving'].track /\ reg1' = diskTable'[serving'].first
    BY <1>11 DEF DriverLooks
  <2> QED
    BY <1>4, <2>1 DEF TransferInv, Serving
<1>12. CASE SeekStarts
  <2>1. /\ UNCHANGED <<serving, track, reg1, sector, arm, moved, diskTable>>
        /\ \/ diskAt = "seek" /\ diskAt' = "seeking"
           \/ diskAt = "cross" /\ diskAt' = "crossing"
    BY <1>12 DEF SeekStarts
  <2>2. diskTable'[serving'] = r /\ Parts(r)'
    BY <1>1, <2>1 DEF SeekPart, LoopPart, TrackPart, DonePart
  <2> QED
    BY <1>2, <2>2
<1>13. CASE SeekEnds
  <2>1. /\ UNCHANGED <<serving, track, reg1, sector, moved, diskTable>>
        /\ arm' = IF track \in 0 .. NumTracks - 1 THEN track ELSE arm
        /\ \/ diskAt = "seeking" /\ diskAt' = "sector"
           \/ diskAt = "crossing" /\ diskAt' = "output"
    BY <1>13 DEF SeekEnds
  <2>2. r \in Requests
    BY <1>3, <2>1 DEF Serving
  <2>3. r.track \in Int /\ r.sectors \in Int
    BY <2>2, DiskAssumption
  <2>4. CASE diskAt = "seeking"
    <3>1. track = r.track /\ reg1 = r.first /\ sector = 0 /\ moved = << >>
      BY <1>1, <2>4 DEF SeekPart
    <3>2. moved = FirstSectors(r, 0)
      BY <3>1 DEF FirstSectors
    <3>3. ASSUME Exists(r), 0 < r.sectors PROVE arm' = r.track
      <4>1. SectorOf(r, 1)[1] \in 0 .. NumTracks - 1 /\ r.first \in 0 .. TrackSize - 1
        BY <2>3, <3>3 DEF Exists
      <4>2. \A n \in Nat : r.first + n < TrackSize =>
               SectorOf(r, n + 1) = <<r.track, r.first + n>>
        BY <2>3, <4>1, NextSectorIs
      <4>3. SectorOf(r, 0 + 1)[1] = r.track /\ 0 + 1 = 1
        BY <1>6, <4>1, <4>2
      <4> QED
        BY <2>1, <3>1, <4>1, <4>3
    <3>4. Exists(r) => r.first \in Int
      BY DEF Exists
    <3>5. diskTable'[serving'] = r /\ Parts(r)'
      BY <2>1, <2>4, <3>1, <3>2, <3>3, <3>4 DEF SeekPart, LoopPart, TrackPart, DonePart
    <3> QED
      BY <1>2, <3>5
  <2>5. CASE diskAt = "crossing"
    <3>1. ASSUME Exists(r)
          PROVE  /\ reg1 = TrackSize /\ r.first + sector = TrackSize /\ sector < r.sectors
                 /\ track = r.track + 1
      BY <1>1, <2>5, <3>1 DEF LoopPart, TrackPart
    <3>2. ASSUME Exists(r) PROVE arm' = r.track + 1
      <4>1. sector + 1 \in 1 .. r.sectors /\ r.first \in 0 .. TrackSize - 1
        BY <1>6, <2>3, <3>1, <3>2 DEF Exists
      <4>2. SectorOf(r, sector + 1)[1] \in 0 .. NumTracks - 1
        BY <3>2, <4>1 DEF Exists
      <4>3. SectorOf(r, sector + 1) = <<r.track + 1, 0>>
        BY <1>6, <2>3, <3>1, <3>2, <4>1, NextSectorIs
      <4>4. SectorOf(r, sector + 1)[1] = r.track + 1
        BY <4>3
      <4> QED
        BY <2>1, <3>1, <3>2, <4>2, <4>4
    <3>3. diskTable'[serving'] = r /\ Parts(r)'
      BY <1>1, <2>1, <2>5, <3>2 DEF SeekPart, LoopPart, TrackPart, DonePart
    <3> QED
      BY <1>2, <3>3
  <2> QED
    BY <2>1, <2>4, <2>5
<1>14. CASE NextTrack
  <2>1. /\ UNCHANGED <<serving, reg1, sector, arm, moved, diskTable>>
        /\ diskAt = "sector" /\ diskAt' = "cross" /\ sector < r.sectors /\ reg1 = TrackSize
        /\ track' = track + 1
    BY <1>14 DEF NextTrack
  <2>2. diskTable'[serving'] = r /\ Parts(r)'
    BY <1>1, <2>1 DEF SeekPart, LoopPart, TrackPart, DonePart
  <2> QED
    BY <1>2, <2>2
<1>15. CASE SectorMoved
  <2> DEFINE n == IF diskAt = "output" THEN 0 ELSE reg1
  <2>1. /\ UNCHANGED <<serving, track, arm, diskTable>>
        /\ diskAt = "output" \/ (diskAt = "sector" /\ sector < r.sectors /\ reg1 # TrackSize)
        /\ diskAt' = "sector" /\ moved' = Moved(n) /\ reg1' = reg1 + 1 /\ sector' = sector + 1
    BY <1>15 DEF SectorMoved, NextSector
  <2>2. r \in Requests
    BY <1>3, <2>1 DEF Serving
  <2>3. r.track \in Int /\ r.sectors \in Int
    BY <2>2, DiskAssumption
  <2>4. ASSUME Exists(r)
        PROVE  /\ sector < r.sectors /\ reg1 = r.first + sector /\ moved = FirstSectors(r, sector)
               /\ r.first \in 0 .. TrackSize - 1 /\ r.first + r.sectors <= TrackSize + 1
               /\ n \in 0 .. TrackSize - 1 /\ <<arm, n>> = SectorOf(r, sector + 1)
               /\ sector + 1 < r.sectors => arm = r.track /\ track = r.track
    <3>1. r.first \in 0 .. TrackSize - 1 /\ r.first + r.sectors <= TrackSize + 1
      BY <2>4 DEF Exists
    <3>2. reg1 = r.first + sector /\ moved = FirstSectors(r, sector)
      BY <1>1, <2>1, <2>4 DEF LoopPart
    <3>3. CASE diskAt = "output"
      <4>1. reg1 = TrackSize /\ sector < r.sectors /\ arm = r.track + 1
        BY <1>1, <2>4, <3>3 DEF TrackPart
      <4>2. SectorOf(r, sector + 1) = <<r.track + 1, 0>>
        BY <1>6, <2>3, <3>1, <3>2, <4>1, NextSectorIs
      <4>3. n = 0 /\ ~(sector + 1 < r.sectors)
        BY <1>6, <2>3, <3>1, <3>2, <3>3, <4>1
      <4> QED
        BY <1>6, <3>1, <3>2, <4>1, <4>2, <4>3
    <3>4. CASE diskAt = "sector"
      <4>1. sector < r.sectors /\ reg1 # TrackSize /\ arm = r.track /\ track = r.track
        BY <1>1, <2>1, <2>4, <3>4 DEF TrackPart
      <4>2. r.first + sector < TrackSize
        BY <1>6, <2>3, <3>1, <3>2, <4>1
      <4>3. SectorOf(r, sector + 1) = <<r.track, r.first + sector>>
        BY <1>6, <2>3, <3>1, <4>2, NextSectorIs
      <4>4. n = r.first + sector /\ n \in 0 .. TrackSize - 1
        BY <1>6, <3>1, <3>2, <3>4, <4>2
      <4> QED
        BY <3>1, <3>2, <4>1, <4>3, <4>4
    <3> QED
      BY <2>1, <3>3, <3>4
  <2> HIDE DEF n
  <2>5. ASSUME Exists(r) PROVE moved' = FirstSectors(r, sector + 1)
    <3>1. moved' = Append(FirstSectors(r, sector), SectorOf(r, sector + 1))
      BY <2>1, <2>4, <2>5 DEF Moved
    <3> QED
      BY <1>6, <2>2, <3>1, OneMore, SectorsTyped
  <2>6. ASSUME Exists(r) PROVE reg1' = r.first + sector' /\ sector' <= r.sectors
    BY <1>6, <2>1, <2>3, <2>4, <2>6
  <2>7. diskTable'[serving'] = r /\ Parts(r)'
    BY <2>1, <2>4, <2>5, <2>6 DEF SeekPart, LoopPart, TrackPart, DonePart
  <2> QED
    BY <1>2, <2>7
<1>16. CASE DriverUnlinks
  <2>1. /\ UNCHANGED <<serving, moved, diskTable>>
        /\ diskAt = "sector" /\ diskAt' = "answer" /\ sector >= r.sectors
    BY <1>16 DEF DriverUnlinks
  <2>2. r.sectors \in Int
    BY <1>3, <2>1, DiskAssumption DEF Serving
  <2>3. ASSUME Exists(r) PROVE moved' = FirstSectors(r, r.sectors)
    <3>1. moved' = FirstSectors(r, sector) /\ (sector = 0 \/ sector <= r.sectors)
      BY <1>1, <2>1, <2>3 DEF LoopPart
    <3>2. 1 .. sector = 1 .. r.sectors
      BY <1>6, <2>1, <2>2, <3>1
    <3> QED
      BY <3>1, <3>2 DEF FirstSectors
  <2>4. diskTable'[serving'] = r /\ Parts(r)'
    BY <2>1, <2>3 DEF SeekPart, LoopPart, TrackPart, DonePart
  <2> QED
    BY <1>2, <2>4
<1>17. CASE UNCHANGED diskVars
  BY <1>5, <1>17 DEF diskVars
<1> QED
  BY <1>7, <1>8, <1>9, <1>10, <1>11, <1>12, <1>13, <1>14, <1>15, <1>16, <1>17
     DEF DiskNext, diskDriver, UserGoesOn

\* A request whose sectors exist, and of which one at most is on the track after its
\* first, is answered when exactly these have been moved, in order: the loop of
\* diskDriver, diskSeek.
THEOREM SectorsAsAskedCorrect == DiskSpec => []SectorsAsAsked
<1>1. DiskInit => DiskTypes /\ QueueInv /\ TransferInv
  BY QueueInit DEF DiskInit, TransferInv
<1>2. DiskTypes /\ QueueInv /\ TransferInv /\ [DiskNext]_diskVars =>
         (DiskTypes /\ QueueInv /\ TransferInv)'
  BY TypesStep, QueueStep, TransferStep
<1>3. TransferInv => SectorsAsAsked
  <2> SUFFICES ASSUME TransferInv, diskAt = "answer" PROVE SectorsAsAsked
    BY DEF SectorsAsAsked
  <2> DEFINE r == diskTable[serving]
             asked == [n \in 1 .. r.sectors |-> SectorOf(r, n)]
  <2>1. Exists(r) => moved = asked
    BY DEF TransferInv, FirstSectors
  <2>2. (/\ r.first \in 0 .. TrackSize - 1
         /\ \A n \in DOMAIN asked : asked[n][1] \in 0 .. NumTracks - 1
         /\ r.first + r.sectors <= TrackSize + 1) => Exists(r)
    BY DEF Exists
  <2> QED
    BY <2>1, <2>2 DEF SectorsAsAsked
<1> QED
  BY <1>1, <1>2, <1>3, PTL DEF DiskSpec
=============================================================================
