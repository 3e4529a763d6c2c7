--------------------------------- MODULE Disk ---------------------------------
(***************************************************************************)
(* One disk of phase4b/phase4.c: its driver, DiskRead, DiskWrite and       *)
(* DiskSize.  A request goes into a queue, and its process wakes the       *)
(* driver through the mailbox disk[DISK_MBOX], of one slot, and waits at a *)
(* mailbox of its own.  The driver serves the queue from its head; diskSeek*)
(* uses disk[DISK_MBOX] as its lock.                                       *)
(*                                                                         *)
(* The queue is linked through next; an entry that is not linked has next  *)
(* NULL, so a sequence of the processes says the same.  disk[DISK_MUT],    *)
(* which the driver alone uses, is left out.  The mailboxes, waitDevice    *)
(* and the disk are external: the disk moves a sector that exists, and     *)
(* refuses one that does not, which the driver does not look at.           *)
(***************************************************************************)
EXTENDS Integers, Sequences, FiniteSets, SequencesExt

CONSTANTS
    Users,       \* the processes
    Requests,    \* what they ask for: [op, track, first, sectors]
    TrackSize,   \* USLOSS_DISK_TRACK_SIZE, the sectors of a track (16)
    NumTracks    \* the tracks of this disk

ASSUME DiskAssumption ==
    /\ Requests \subseteq [op : {"read", "write"}, track : Int, first : Int, sectors : Int]
    /\ {TrackSize, NumTracks} \subseteq Nat \ {0}

VARIABLES
    diskReq,     \* the queue disk0Req or disk1Req
    diskTable,   \* what a process asked for last
    diskBox,     \* disk[DISK_MBOX]: the messages in it, 0 or 1
    qLock,       \* disk[DISK_Q_MBOX]: whose message is in it, or NoUser
    trackBox,    \* disk[DISK_MUT_TRACK]
    procBox,     \* the mailboxes of the processes
    userAt,
    diskAt,      \* the driver
    serving,     \* its diskReq, or NoUser
    track, reg1, \* its track, and the sector that req.reg1 holds
    sector,      \* its i
    arm,         \* the disk: the track its arm is at
    moved        \* history: the sectors moved for the request, in order

diskVars == <<diskReq, diskTable, diskBox, qLock, trackBox, procBox, userAt,
              diskAt, serving, track, reg1, sector, arm, moved>>

driverVars == <<diskAt, serving, track, reg1, sector, arm, moved>>

NoUser == "nobody"

DiskInit ==
    /\ diskReq = << >> /\ diskTable = [p \in Users |-> << >>]
    /\ diskBox = 0 /\ qLock = NoUser /\ trackBox = 0
    /\ procBox = [p \in Users |-> 0] /\ userAt = [p \in Users |-> "user"]
    /\ diskAt = "start" /\ serving = NoUser /\ track = 0 /\ reg1 = 0 /\ sector = 0
    /\ arm = 0 /\ moved = << >>

-----------------------------------------------------------------------------
(* diskQueue *)

\* How many places of the queue, from the nth on, are among those that pass a test.
RunLength(queue, n, passing) ==
    LET fails == (n .. Len(queue)) \ passing
    IN  (IF fails = {} THEN Len(queue) + 1 ELSE Min(fails)) - n

\* Where diskQueue puts a request for a track: nothing comes before the head, which
\* is being served.
Place(queue, last) ==
    LET trackAt(i) == diskTable[queue[i]].track
        current == trackAt(1)
        between == {i \in DOMAIN queue : trackAt(i) <= current /\ trackAt(i) >= last}
        above   == {i \in DOMAIN queue : trackAt(i) >= current}
        below   == {i \in DOMAIN queue : trackAt(i) <= last}
        turn    == 2 + RunLength(queue, 2, above)
    IN  IF current <= last THEN 2 + RunLength(queue, 2, between)
        ELSE IF turn > Len(queue) THEN turn
        ELSE turn + RunLength(queue, turn, below)

\* Mutant: the request takes the place of what comes after the head.
Overwrites(queue, p) ==
    IF queue = << >> THEN <<p>> ELSE <<queue[1], p>> \o SubSeq(queue, 3, Len(queue))

diskQueue(queue, p) ==
    IF queue = << >> THEN <<p>> ELSE InsertAt(queue, Place(queue, diskTable[p].track), p)

-----------------------------------------------------------------------------
(* kernDiskRead and kernDiskWrite, up to the lock of the queue *)

kernDiskRead(p, request) ==
    /\ request.op = "read" /\ userAt[p] = "user"
    /\ diskTable' = [diskTable EXCEPT ![p] = request]
    /\ userAt' = [userAt EXCEPT ![p] = "lock"]
    /\ UNCHANGED <<diskReq, diskBox, qLock, trackBox, procBox, driverVars>>

\* What is out of range is answered at once.
kernDiskWrite(p, request) ==
    /\ request.op = "write" /\ userAt[p] = "user"
    /\ request.track \in 0 .. NumTracks - 1 /\ request.first \in 0 .. TrackSize - 1
    /\ diskTable' = [diskTable EXCEPT ![p] = request]
    /\ userAt' = [userAt EXCEPT ![p] = "lock"]
    /\ UNCHANGED <<diskReq, diskBox, qLock, trackBox, procBox, driverVars>>

LocksQueue(p) ==
    /\ userAt[p] = "lock" /\ qLock = NoUser /\ qLock' = p
    /\ userAt' = [userAt EXCEPT ![p] = "queue"]
    /\ UNCHANGED <<diskReq, diskTable, diskBox, trackBox, procBox, driverVars>>

\* diskQueue, and the lock is given back.
Queues(p) ==
    /\ userAt[p] = "queue" /\ diskReq' = diskQueue(diskReq, p) /\ qLock' = NoUser
    /\ userAt' = [userAt EXCEPT ![p] = "wake"]
    /\ UNCHANGED <<diskTable, diskBox, trackBox, procBox, driverVars>>

\* Mutant: the mailbox is made without slots.
NoSlots == 0

\* The slots of disk[DISK_MBOX].
BoxSlots == 1

\* MboxCondSend(disk[DISK_MBOX]): to the driver if it waits, else into the slot, if it
\* is free.
WakesDriver(p) ==
    /\ userAt[p] = "wake" /\ userAt' = [userAt EXCEPT ![p] = "wait"]
    /\ IF diskAt = "idle" THEN diskAt' = "look" /\ UNCHANGED diskBox
       ELSE diskBox' = BoxSlots /\ UNCHANGED diskAt
    /\ UNCHANGED <<diskReq, diskTable, qLock, trackBox, procBox, serving, track, reg1,
                   sector, arm, moved>>

Answered(p) ==
    /\ userAt[p] = "wait" /\ procBox[p] = 1 /\ procBox' = [procBox EXCEPT ![p] = 0]
    /\ userAt' = [userAt EXCEPT ![p] = "user"]
    /\ UNCHANGED <<diskReq, diskTable, diskBox, qLock, trackBox, driverVars>>

\* kernDiskSize receives the message of the track mutex; nobody gives it back.
kernDiskSize(p) ==
    /\ userAt[p] = "user" /\ userAt' = [userAt EXCEPT ![p] = "size"]
    /\ UNCHANGED <<diskReq, diskTable, diskBox, qLock, trackBox, procBox, driverVars>>

SizeKnown(p) ==
    /\ userAt[p] = "size" /\ trackBox = 1 /\ trackBox' = 0
    /\ userAt' = [userAt EXCEPT ![p] = "user"]
    /\ UNCHANGED <<diskReq, diskTable, diskBox, qLock, procBox, driverVars>>

UserGoesOn(p) ==
    LocksQueue(p) \/ Queues(p) \/ WakesDriver(p) \/ Answered(p) \/ SizeKnown(p)

-----------------------------------------------------------------------------
(* diskDriver *)

DriverOnly == UNCHANGED <<diskTable, userAt>>

\* The number of tracks has come.
DriverStarts ==
    /\ diskAt = "start" /\ diskAt' = "receive" /\ trackBox' = 1
    /\ DriverOnly
    /\ UNCHANGED <<diskReq, diskBox, qLock, procBox, serving, track, reg1, sector, arm, moved>>

\* MboxRecv(currentMbox).
DriverReceives ==
    /\ diskAt = "receive" /\ diskBox' = 0
    /\ diskAt' = IF diskBox = 1 THEN "look" ELSE "idle"
    /\ DriverOnly
    /\ UNCHANGED <<diskReq, qLock, trackBox, procBox, serving, track, reg1, sector, arm, moved>>

\* The head of the queue: the driver takes its fields over.
DriverLooks ==
    /\ diskAt = "look" /\ moved' = << >> /\ sector' = 0
    /\ IF diskReq = << >> THEN
            /\ diskAt' = "receive" /\ serving' = NoUser /\ track' = 0 /\ reg1' = 0
       ELSE /\ diskAt' = "seek" /\ serving' = Head(diskReq)
            /\ track' = diskTable[serving'].track /\ reg1' = diskTable[serving'].first
    /\ DriverOnly /\ UNCHANGED <<diskReq, diskBox, qLock, trackBox, procBox, arm>>

\* diskSeek up to waitDevice: its MboxSend waits for the slot.
SeekStarts ==
    /\ diskAt \in {"seek", "cross"} /\ diskBox = 0 /\ diskBox' = 1
    /\ diskAt' = IF diskAt = "seek" THEN "seeking" ELSE "crossing"
    /\ DriverOnly
    /\ UNCHANGED <<diskReq, qLock, trackBox, procBox, serving, track, reg1, sector, arm, moved>>

\* The interrupt, and the MboxRecv of diskSeek.  The disk stays where it is if there
\* is no such track.
SeekEnds ==
    /\ diskAt \in {"seeking", "crossing"} /\ diskBox' = 0
    /\ diskAt' = IF diskAt = "seeking" THEN "sector" ELSE "output"
    /\ arm' = IF track \in 0 .. NumTracks - 1 THEN track ELSE arm
    /\ DriverOnly
    /\ UNCHANGED <<diskReq, qLock, trackBox, procBox, serving, track, reg1, sector, moved>>

\* The disk: a sector it does not have is not moved.
Moved(n) == IF n \in 0 .. TrackSize - 1 THEN Append(moved, <<arm, n>>) ELSE moved

\* Mutant: the number of the sector is not advanced.
SameSector(n) == n

\* After the transfer temp holds the sector's number as it was before the track was
\* changed, so that reg1 goes on from the end of the old track.
NextSector(n) == n + 1

\* The top of the loop over the sectors, at the end of a track: the next one is sought.
\* (reg1 becomes 0, which is what SectorMoved sends, and temp stays.)
NextTrack ==
    /\ diskAt = "sector" /\ sector < diskTable[serving].sectors /\ reg1 = TrackSize
    /\ track' = track + 1 /\ diskAt' = "cross"
    /\ DriverOnly
    /\ UNCHANGED <<diskReq, diskBox, qLock, trackBox, procBox, serving, reg1, sector, arm, moved>>

\* DeviceOutput and waitDevice.
SectorMoved ==
    /\ \/ diskAt = "output"
       \/ diskAt = "sector" /\ sector < diskTable[serving].sectors /\ reg1 # TrackSize
    /\ moved' = Moved(IF diskAt = "output" THEN 0 ELSE reg1)
    /\ reg1' = NextSector(reg1) /\ sector' = sector + 1 /\ diskAt' = "sector"
    /\ DriverOnly
    /\ UNCHANGED <<diskReq, diskBox, qLock, trackBox, procBox, serving, track, arm>>

\* The request is taken out of the queue, under the lock.
DriverUnlinks ==
    /\ diskAt = "sector" /\ sector >= diskTable[serving].sectors
    /\ qLock = NoUser /\ diskReq' = Tail(diskReq) /\ diskAt' = "answer"
    /\ DriverOnly
    /\ UNCHANGED <<diskBox, qLock, trackBox, procBox, serving, track, reg1, sector, arm, moved>>

DriverAnswers ==
    /\ diskAt = "answer" /\ procBox[serving] = 0
    /\ procBox' = [procBox EXCEPT ![serving] = 1] /\ diskAt' = "look"
    /\ DriverOnly
    /\ UNCHANGED <<diskReq, diskBox, qLock, trackBox, serving, track, reg1, sector, arm, moved>>

diskDriver ==
    \/ DriverStarts \/ DriverReceives \/ DriverLooks \/ SeekStarts \/ SeekEnds
    \/ NextTrack \/ SectorMoved \/ DriverUnlinks \/ DriverAnswers

DiskNext ==
    \/ \E p \in Users, request \in Requests : kernDiskRead(p, request) \/ kernDiskWrite(p, request)
    \/ \E p \in Users : kernDiskSize(p) \/ UserGoesOn(p)
    \/ diskDriver

\* The disk answers, the driver runs, and so does a process inside a call.
DiskFairness == WF_diskVars(diskDriver) /\ \A p \in Users : WF_diskVars(UserGoesOn(p))

DiskSpec == DiskInit /\ [][DiskNext]_diskVars /\ DiskFairness

-----------------------------------------------------------------------------

\* The queue holds who has put in a request that is not answered, each once; the one
\* that is being served is its head until it is taken out.
QueueIsPending ==
    /\ IsInjective(diskReq)
    /\ {p \in Users : userAt[p] \in {"wake", "wait"} /\ procBox[p] = 0} =
         Range(diskReq) \cup (IF diskAt = "answer" THEN {serving} ELSE {})
    /\ diskAt \notin {"start", "receive", "idle", "look", "answer"} =>
         diskReq # << >> /\ Head(diskReq) = serving

\* The driver waits with requests in the queue only while who put them in is about to
\* wake it: no request is forgotten between queue and mailbox.
NoRequestForgotten ==
    diskAt = "idle" /\ diskReq # << >> => \E p \in Users : userAt[p] = "wake"

\* The nth sector of a request, counted on through the tracks.
SectorOf(request, n) ==
    <<request.track + (request.first + n - 1) \div TrackSize, (request.first + n - 1) % TrackSize>>

\* The driver answers a request when it has moved the sectors that were asked for, in
\* order, if they exist and no more than one of them is on the track after the first.
SectorsAsAsked ==
    diskAt = "answer" =>
        LET request == diskTable[serving]
            asked   == [n \in 1 .. request.sectors |-> SectorOf(request, n)]
            exist   == /\ request.first \in 0 .. TrackSize - 1
                       /\ \A n \in DOMAIN asked : asked[n][1] \in 0 .. NumTracks - 1
        IN  exist /\ request.first + request.sectors <= TrackSize + 1 => moved = asked

\* A request is answered.
RequestServed == \A p \in Users : userAt[p] = "wait" ~> userAt[p] = "user"
=============================================================================
