------------------------------ MODULE Mailbox ------------------------------
(***************************************************************************)
(* The mailboxes of Phase2/phase2.c: creation, blocking and conditional    *)
(* send and receive, and release.                                          *)
(*                                                                         *)
(* Interrupts stay on.  The model lets other processes run where blockMe   *)
(* or unblockProc of the process kernel (external here) is called, which   *)
(* may dispatch any process before they return, between the steps of a     *)
(* release and, if Conduct has it, just before blockMe; the code between   *)
(* these places is one action.  A process inside the module stands at      *)
(* at[p]: in a send or a receive that waits, or in a release.  The queues  *)
(* hold the processes whose shadow entry (proProcs, conProcs) is on them.  *)
(* Conduct says what the callers may do besides creating boxes, sending    *)
(* and receiving.                                                          *)
(***************************************************************************)
EXTENDS Integers, Sequences, FiniteSets, SequencesExt

CONSTANTS
    Procs,      \* the processes that call
    MAXMBOX, MAXSLOTS,
    IOBoxes,    \* how many boxes phase2_init creates (7 in the code)
    IntSize,    \* sizeof(int), the slot size of these
    Messages,   \* records with an id and a size
    BufSizes,   \* the buffer sizes given to a receive
    Geometries, \* the <<slots, slot_size>> MboxCreate is called with
    Conduct     \* a subset of Conducts

\* "release": boxes without messages are released; "drop": others are, too.
\* "reuse": boxes are created in the place of released ones.
\* "small": a buffer may be smaller than the message.  "dead": a box is used that
\* is not ACTIVE.  "again": a process woken by a release waits at a box before the
\* release is done with it.  "zap": processes get zapped.  "switch": an interrupt
\* may run other processes just before blockMe.
Conducts == {"release", "drop", "reuse", "small", "dead", "again", "zap", "switch"}

ASSUME SizeAssumption ==
    /\ MAXMBOX \in Nat \ {0} /\ MAXSLOTS \in Nat \ {0} /\ IOBoxes \in 0 .. MAXMBOX
    /\ MAXMBOX <= MAXSLOTS
    /\ IntSize \in Nat
ASSUME ArgumentAssumption ==
    /\ Messages \subseteq [id : Nat, size : Nat]
    /\ BufSizes \subseteq Nat
    /\ Geometries \subseteq (0 .. MAXSLOTS) \X Nat
    /\ Conduct \subseteq Conducts

Boxes  == 0 .. MAXMBOX - 1
Slots  == 0 .. MAXSLOTS - 1
NoBox  == -1
NoMsg  == [id |-> 0, size |-> -1]
CANBLOCK  == TRUE
CANTBLOCK == FALSE

Places == {"user", "send", "recv0", "recv", "cons", "wipeCon", "pros", "wipePro"}

VARIABLES
    status, slotSize, totalSlots, currentNumOfSlots,  \* of each box
    slots,                            \* the slots holding the messages of a box
    pros, cons,                       \* the producers and consumers queued at it
    slotStatus, slotBox, slotMsg,     \* mailSlots[i]: status, mboxID, message
    nextMBoxID, nextSlotID, globalSlotUsed,
    proMsg,    \* proProcs[i]: the message
    conSize,   \* conProcs[i].msg_size
    at, box, size,  \* where p stands, its arguments mbox_id and (receiving) msg_size
    other,     \* in MboxRelease: the process just woken
    sleep,     \* "no", "soon": queued, blockMe not yet called, "yes": in blockMe
    zapped,
    served,    \* history: the process that waits was given or rid of its message
    got,       \* history: the message copied last, and to whom
    ret,       \* the value returned last
    corrupt    \* a list lost its links or an index its array: the model stops

boxVars   == <<status, slotSize, totalSlots, currentNumOfSlots>>
queueVars == <<slots, pros, cons>>
slotVars  == <<slotStatus, slotBox, slotMsg, nextSlotID, globalSlotUsed>>
shadows   == <<proMsg, conSize>>
calls     == <<at, box, size, other, sleep, served>>
vars == <<boxVars, queueVars, slotVars, nextMBoxID, shadows, calls, zapped, got,
          ret, corrupt>>

TypeOK ==
    /\ status \in [Boxes -> {"EMPTY", "ACTIVE", "RELEASE"}]
    /\ slotSize \in [Boxes -> Int] /\ totalSlots \in [Boxes -> Int]
    /\ currentNumOfSlots \in [Boxes -> Int]
    /\ slots \in [Boxes -> Seq(Slots)]
    /\ pros \in [Boxes -> Seq(Procs)] /\ cons \in [Boxes -> Seq(Procs)]
    /\ slotStatus \in [Slots -> {"EMPTY", "ACTIVE"}]
    /\ slotBox \in [Slots -> Boxes \cup {NoBox}]
    /\ slotMsg \in [Slots -> Messages \cup {NoMsg}]
    /\ nextMBoxID \in -1 .. MAXMBOX /\ nextSlotID \in 0 .. MAXSLOTS
    /\ globalSlotUsed \in Int
    /\ proMsg \in [Procs -> Messages \cup {NoMsg}] /\ conSize \in [Procs -> Int]
    /\ at \in [Procs -> Places] /\ box \in [Procs -> Boxes]
    /\ size \in [Procs -> Nat] /\ other \in [Procs -> Procs]
    /\ sleep \in [Procs -> {"no", "soon", "yes"}]
    /\ zapped \subseteq Procs
    /\ served \in [Procs -> BOOLEAN]
    /\ ret \in Int /\ corrupt \in BOOLEAN

\* phase2_init.
Init ==
    /\ status = [b \in Boxes |-> IF b < IOBoxes THEN "ACTIVE" ELSE "EMPTY"]
    /\ slotSize = [b \in Boxes |-> IF b < IOBoxes THEN IntSize ELSE -1]
    /\ totalSlots = [b \in Boxes |-> IF b < IOBoxes THEN 0 ELSE -1]
    /\ currentNumOfSlots = [b \in Boxes |-> 0]
    /\ slots = [b \in Boxes |-> << >>]
    /\ pros = [b \in Boxes |-> << >>] /\ cons = [b \in Boxes |-> << >>]
    /\ slotStatus = [s \in Slots |-> "EMPTY"]
    /\ slotBox = [s \in Slots |-> NoBox] /\ slotMsg = [s \in Slots |-> NoMsg]
    /\ nextMBoxID = IOBoxes /\ nextSlotID = 0 /\ globalSlotUsed = 0
    /\ proMsg = [p \in Procs |-> NoMsg] /\ conSize = [p \in Procs |-> -1]
    /\ at = [p \in Procs |-> "user"] /\ box = [p \in Procs |-> 0]
    /\ size = [p \in Procs |-> 0] /\ other = [p \in Procs |-> p]
    /\ sleep = [p \in Procs |-> "no"]
    /\ zapped = {}
    /\ served = [p \in Procs |-> FALSE]
    /\ got = << >> /\ ret = 0 /\ corrupt = FALSE

-----------------------------------------------------------------------------
(* MboxCreate.  A search that fails leaves nextMBoxID at -1; what the next     *)
(* call then reads at mailBoxes[-1] is taken not to be EMPTY.                  *)

FreeBoxes == {b \in Boxes : b >= IOBoxes /\ status[b] = "EMPTY"}

\* Mutant: the box the hint names is taken as it is.
HintedBox == nextMBoxID

\* The box that the hint names, or else the first free one.
NewBox ==
    IF nextMBoxID \in Boxes /\ status[nextMBoxID] = "EMPTY" THEN nextMBoxID
    ELSE IF FreeBoxes = {} THEN NoBox ELSE Min(FreeBoxes)

Calls(p) == ~corrupt /\ at[p] = "user"

Create(p, g) ==
    /\ Calls(p) /\ NewBox # NoBox
    /\ NewBox = nextMBoxID \/ "reuse" \in Conduct
    /\ status' = [status EXCEPT ![NewBox] = "ACTIVE"]
    /\ totalSlots' = [totalSlots EXCEPT ![NewBox] = g[1]]
    /\ slotSize' = [slotSize EXCEPT ![NewBox] = g[2]]
    /\ nextMBoxID' = NewBox + 1
    /\ ret' = NewBox
    /\ UNCHANGED <<currentNumOfSlots, queueVars, slotVars, shadows, calls, zapped,
                   got, corrupt>>

CreateFails(p) ==
    /\ Calls(p) /\ NewBox = NoBox
    /\ nextMBoxID' = -1 /\ ret' = -1
    /\ UNCHANGED <<boxVars, queueVars, slotVars, shadows, calls, zapped, got, corrupt>>

-----------------------------------------------------------------------------
(* The kernel's primitives and the shadow entries. *)

\* unblockProc(p) returns -2 when p is not in blockMe.
Awake(p) == [sleep EXCEPT ![p] = IF @ = "yes" THEN "no" ELSE @]

MayWait(p) == \A r \in Procs \ {p} : other[r] = p => "again" \in Conduct

\* createShadowProc, Queue_push by the caller, and blockMe.
Enter(p, place, b, n) ==
    /\ at' = [at EXCEPT ![p] = place]
    /\ box' = [box EXCEPT ![p] = b]
    /\ size' = [size EXCEPT ![p] = n]
    /\ sleep' = [sleep EXCEPT ![p] = IF "switch" \in Conduct THEN "soon" ELSE "yes"]
    /\ served' = [served EXCEPT ![p] = FALSE]
    /\ UNCHANGED other

BlockMe(p) ==
    /\ ~corrupt /\ sleep[p] = "soon"
    /\ sleep' = [sleep EXCEPT ![p] = "yes"]
    /\ UNCHANGED <<boxVars, queueVars, slotVars, nextMBoxID, shadows, at, box, size,
                   other, served, zapped, got, ret, corrupt>>

\* p is back in its own code; what the call used is forgotten.
Leave(p, value) ==
    /\ at' = [at EXCEPT ![p] = "user"]
    /\ box' = [box EXCEPT ![p] = 0] /\ size' = [size EXCEPT ![p] = 0]
    /\ other' = [other EXCEPT ![p] = p]
    /\ served' = [served EXCEPT ![p] = FALSE]
    /\ proMsg' = [proMsg EXCEPT ![p] = NoMsg] /\ conSize' = [conSize EXCEPT ![p] = -1]
    /\ ret' = value

\* zap(p) by a process that does nothing else here; it wakes nobody.
Zap(p) ==
    /\ ~corrupt /\ "zap" \in Conduct /\ p \notin zapped
    /\ zapped' = zapped \cup {p}
    /\ UNCHANGED <<boxVars, queueVars, slotVars, nextMBoxID, shadows, calls, got, ret,
                   corrupt>>

-----------------------------------------------------------------------------
(* createMailSlot *)

FreeSlots(st) == {s \in Slots : st[s] = "EMPTY"}

\* The slot the hint names, or else the first free one.
NewSlot(st) ==
    IF nextSlotID \in Slots /\ st[nextSlotID] = "EMPTY" THEN nextSlotID
    ELSE IF FreeSlots(st) = {} THEN -1 ELSE Min(FreeSlots(st))

\* The message m gets a slot of box b, whose messages are q, the slots' statuses
\* being st.  No caller looks whether createMailSlot failed.
Fill(b, m, st, q, n, global) ==
    LET s == NewSlot(st) IN
    IF s = -1
    THEN /\ corrupt' = TRUE
         /\ UNCHANGED <<slots, slotVars, currentNumOfSlots>>
    ELSE /\ slotStatus' = [st EXCEPT ![s] = "ACTIVE"]
         /\ slotBox' = [slotBox EXCEPT ![s] = b]
         /\ slotMsg' = [slotMsg EXCEPT ![s] = m]
         /\ slots' = [slots EXCEPT ![b] = Append(q, s)]
         /\ currentNumOfSlots' = [currentNumOfSlots EXCEPT ![b] = n + 1]
         /\ globalSlotUsed' = global + 1
         /\ nextSlotID' = s + 1
         /\ UNCHANGED corrupt

-----------------------------------------------------------------------------
(* SendHelper, called by a process or by the handler of a device. *)

Usable(b) == status[b] = "ACTIVE" \/ "dead" \in Conduct
Caller(b) == ~corrupt /\ Usable(b) /\ (b < IOBoxes \/ \E p \in Procs : Calls(p))
Fits(b, m) == m.size <= slotSize[b]

Full(b) == currentNumOfSlots[b] = totalSlots[b]

SendRefused(b, m) ==
    /\ Caller(b)
    /\ \/ ~Fits(b, m) /\ ret' = -1
       \/ Fits(b, m) /\ globalSlotUsed = MAXSLOTS /\ ret' = -2
    /\ UNCHANGED <<boxVars, queueVars, slotVars, nextMBoxID, shadows, calls, zapped,
                   got, corrupt>>

Accepts(b, m) == Fits(b, m) /\ globalSlotUsed # MAXSLOTS

\* Mutant: a waiting consumer is passed over.
NoConsumer(b) == FALSE

ConsumerReady(b) == cons[b] # << >> /\ (totalSlots[b] = 0 \/ currentNumOfSlots[b] < totalSlots[b])

\* A waiting consumer gets the message.
Deliver(b, m) ==
    LET c == Head(cons[b]) IN
    /\ Caller(b) /\ Accepts(b, m) /\ ConsumerReady(b)
    /\ at[c] = "recv" /\ m.size > size[c] => "small" \in Conduct
    /\ cons' = [cons EXCEPT ![b] = Tail(@)]
    /\ conSize' = [conSize EXCEPT ![c] = m.size]
    /\ got' = <<c, m>>
    /\ sleep' = Awake(c)
    /\ served' = [served EXCEPT ![c] = TRUE]
    /\ ret' = 0
    /\ UNCHANGED <<boxVars, slots, pros, slotVars, nextMBoxID, proMsg, at, box, size,
                   other, zapped, corrupt>>

CondSendFull(b, m) ==
    /\ Caller(b) /\ Accepts(b, m) /\ ~ConsumerReady(b) /\ Full(b)
    /\ ret' = -2
    /\ UNCHANGED <<boxVars, queueVars, slotVars, nextMBoxID, shadows, calls, zapped,
                   got, corrupt>>

SendWait(p, b, m) ==
    /\ Calls(p) /\ Usable(b) /\ MayWait(p)
    /\ Accepts(b, m) /\ ~ConsumerReady(b) /\ Full(b)
    /\ proMsg' = [proMsg EXCEPT ![p] = m]
    /\ pros' = [pros EXCEPT ![b] = Append(@, p)]
    /\ Enter(p, "send", b, 0)
    /\ UNCHANGED <<boxVars, slots, cons, slotVars, nextMBoxID, conSize, zapped, got,
                   ret, corrupt>>

Store(b, m) ==
    /\ Caller(b) /\ Accepts(b, m) /\ ~ConsumerReady(b) /\ ~Full(b)
    /\ Fill(b, m, slotStatus, slots[b], currentNumOfSlots[b], globalSlotUsed)
    /\ ret' = 0
    /\ UNCHANGED <<status, slotSize, totalSlots, pros, cons, nextMBoxID, shadows, calls,
                   zapped, got>>

\* Mutant: success is reported whatever happened to the box.
AlwaysZero(p) == 0

SendResult(p) == IF p \in zapped \/ status[box[p]] # "ACTIVE" THEN -3 ELSE 0

SendReturns(p) ==
    /\ ~corrupt /\ at[p] = "send" /\ sleep[p] = "no"
    /\ Leave(p, SendResult(p))
    /\ UNCHANGED <<boxVars, queueVars, slotVars, nextMBoxID, sleep, zapped, got, corrupt>>

-----------------------------------------------------------------------------
(* RecvHelper *)

Receiver(p, b) == Calls(p) /\ Usable(b)

\* Zero slots and a producer waiting: its message is copied over.
Rendezvous(p, b) ==
    LET q == Head(pros[b]) IN
    /\ Receiver(p, b) /\ totalSlots[b] = 0 /\ pros[b] # << >>
    /\ pros' = [pros EXCEPT ![b] = Tail(@)]
    /\ got' = <<p, proMsg[q]>>
    /\ sleep' = Awake(q)
    /\ served' = [served EXCEPT ![q] = TRUE]
    /\ ret' = proMsg[q].size
    /\ UNCHANGED <<boxVars, slots, cons, slotVars, nextMBoxID, shadows, at, box, size,
                   other, zapped, corrupt>>

Nothing(b) == IF totalSlots[b] = 0 THEN pros[b] = << >> ELSE slots[b] = << >>

RecvWait(p, b, n) ==
    /\ Receiver(p, b) /\ Nothing(b) /\ MayWait(p)
    /\ conSize' = [conSize EXCEPT ![p] = n]
    /\ cons' = [cons EXCEPT ![b] = Append(@, p)]
    /\ Enter(p, IF totalSlots[b] = 0 THEN "recv0" ELSE "recv", b, n)
    /\ UNCHANGED <<boxVars, slots, pros, slotVars, nextMBoxID, proMsg, zapped, got,
                   ret, corrupt>>

\* MboxCondRecv; with zero slots it returns the size it was given.
CondRecvNothing(p, b, n) ==
    /\ Receiver(p, b) /\ Nothing(b)
    /\ ret' = CASE totalSlots[b] = 0 -> n
                [] totalSlots[b] # 0 /\ status[b] # "ACTIVE" -> -1
                [] OTHER -> -2
    /\ UNCHANGED <<boxVars, queueVars, slotVars, nextMBoxID, shadows, calls, zapped,
                   got, corrupt>>

\* The oldest message does not fit: it is taken off the box, its slot is not freed.
RecvSmall(p, b, n) ==
    /\ Receiver(p, b) /\ totalSlots[b] # 0 /\ slots[b] # << >>
    /\ n < slotMsg[Head(slots[b])].size /\ "small" \in Conduct
    /\ slots' = [slots EXCEPT ![b] = Tail(@)]
    /\ currentNumOfSlots' = [currentNumOfSlots EXCEPT ![b] = @ - 1]
    /\ globalSlotUsed' = globalSlotUsed - 1
    /\ ret' = -1
    /\ UNCHANGED <<status, slotSize, totalSlots, pros, cons, slotStatus, slotBox,
                   slotMsg, nextSlotID, nextMBoxID, shadows, calls, zapped, got, corrupt>>

\* Mutant: the slot is not given back.
NeverFreed(s) == slotStatus

Freed(s) == [slotStatus EXCEPT ![s] = "EMPTY"]

\* Mutant: the youngest message.
LastOf(b) == slots[b][Len(slots[b])]

FirstOf(b) == Head(slots[b])

\* The oldest message is copied, and that of the first producer takes its place.
RecvSlot(p, b, n) ==
    LET s == FirstOf(b)
        left == Tail(slots[b])
        q == Head(pros[b])
    IN
    /\ Receiver(p, b) /\ totalSlots[b] # 0 /\ slots[b] # << >>
    /\ n >= slotMsg[s].size
    /\ got' = <<p, slotMsg[s]>>
    /\ ret' = slotMsg[s].size
    /\ \/ /\ pros[b] = << >>
          /\ slots' = [slots EXCEPT ![b] = left]
          /\ slotStatus' = Freed(s)
          /\ currentNumOfSlots' = [currentNumOfSlots EXCEPT ![b] = @ - 1]
          /\ globalSlotUsed' = globalSlotUsed - 1
          /\ UNCHANGED <<pros, slotBox, slotMsg, nextSlotID, sleep, served, corrupt>>
       \/ /\ pros[b] # << >>
          /\ pros' = [pros EXCEPT ![b] = Tail(@)]
          /\ Fill(b, proMsg[q], Freed(s), left, currentNumOfSlots[b] - 1,
                  globalSlotUsed - 1)
          /\ sleep' = Awake(q)
          /\ served' = [served EXCEPT ![q] = TRUE]
    /\ UNCHANGED <<status, slotSize, totalSlots, cons, nextMBoxID, shadows, at, box, size,
                   other, zapped>>

RecvResult(p) ==
    IF at[p] = "recv" /\ conSize[p] > size[p] THEN -1
    ELSE IF p \in zapped \/ status[box[p]] # "ACTIVE" THEN -3 ELSE conSize[p]

RecvReturns(p) ==
    /\ ~corrupt /\ at[p] \in {"recv0", "recv"} /\ sleep[p] = "no"
    /\ Leave(p, RecvResult(p))
    /\ UNCHANGED <<boxVars, queueVars, slotVars, nextMBoxID, sleep, zapped, got, corrupt>>

-----------------------------------------------------------------------------
(* MboxRelease *)

\* Mutant: the box stays ACTIVE while its processes are woken.
StillActive == "ACTIVE"

Releasing == "RELEASE"

\* The entry of p is on a queue: to wipe it cuts off the rest of that queue.
Queued(p, qs) == \E b \in Boxes : Contains(qs[b], p)

\* cleanSlot(n): its slot is wiped and its box, the last it was in, counts it out.
CleanSlot(n) ==
    /\ slotStatus' = [slotStatus EXCEPT ![n] = "EMPTY"]
    /\ slotBox' = [slotBox EXCEPT ![n] = NoBox]
    /\ corrupt' = (\/ \E x \in Boxes \ {n} : Contains(slots[x], n)
                   \/ Contains(Tail(slots[n]), n))

\* For each message cleanSlot is given the number of the box (which each of its
\* slots holds) in the place of that of the slot: only the first of these calls
\* finds a slot to wipe.  The slots of the messages stay ACTIVE.
Release(p, b) ==
    LET k == Len(slots[b])
        hit == slotBox[b]
        Left(x) == IF x = b THEN currentNumOfSlots[x] - k ELSE currentNumOfSlots[x]
    IN
    /\ Calls(p) /\ Usable(b)
    /\ "release" \in Conduct /\ (k > 0 => "drop" \in Conduct)
    /\ status' = [status EXCEPT ![b] = Releasing]
    /\ slots' = [slots EXCEPT ![b] = << >>]
    /\ globalSlotUsed' = globalSlotUsed - 2 * k
    /\ currentNumOfSlots' = [x \in Boxes |-> IF k > 0 /\ x = hit THEN Left(x) - 1 ELSE Left(x)]
    /\ IF k > 0 THEN CleanSlot(b) ELSE UNCHANGED <<slotStatus, slotBox, corrupt>>
    /\ at' = [at EXCEPT ![p] = "cons"]
    /\ box' = [box EXCEPT ![p] = b]
    /\ UNCHANGED <<slotSize, totalSlots, pros, cons, slotMsg, nextSlotID, nextMBoxID,
                   shadows, size, other, sleep, served, zapped, got, ret>>

\* The first consumer is woken; then its entry is wiped.
ReleaseConsumer(p) ==
    LET b == box[p]  c == Head(cons[b]) IN
    /\ ~corrupt /\ at[p] = "cons" /\ cons[b] # << >>
    /\ cons' = [cons EXCEPT ![b] = Tail(@)]
    /\ sleep' = Awake(c)
    /\ other' = [other EXCEPT ![p] = c]
    /\ at' = [at EXCEPT ![p] = "wipeCon"]
    /\ UNCHANGED <<boxVars, slots, pros, slotVars, nextMBoxID, shadows, box, size, served,
                   zapped, got, ret, corrupt>>

WipeConsumer(p) ==
    /\ ~corrupt /\ at[p] = "wipeCon"
    /\ conSize' = [conSize EXCEPT ![other[p]] = -1]
    /\ corrupt' = Queued(other[p], cons)
    /\ at' = [at EXCEPT ![p] = "cons"] /\ other' = [other EXCEPT ![p] = p]
    /\ UNCHANGED <<boxVars, queueVars, slotVars, nextMBoxID, proMsg, box, size, sleep,
                   served, zapped, got, ret>>

\* Mutant: an if in the place of the while.
OneConsumerDone(p) ==
    /\ ~corrupt /\ at[p] = "cons"
    /\ at' = [at EXCEPT ![p] = "pros"]
    /\ UNCHANGED <<boxVars, queueVars, slotVars, nextMBoxID, shadows, box, size, other,
                   sleep, served, zapped, got, ret, corrupt>>

\* All consumers are woken.
ConsumersDone(p) ==
    /\ ~corrupt /\ at[p] = "cons" /\ cons[box[p]] = << >>
    /\ at' = [at EXCEPT ![p] = "pros"]
    /\ UNCHANGED <<boxVars, queueVars, slotVars, nextMBoxID, shadows, box, size, other,
                   sleep, served, zapped, got, ret, corrupt>>

ReleaseProducer(p) ==
    LET b == box[p]  q == Head(pros[b]) IN
    /\ ~corrupt /\ at[p] = "pros" /\ pros[b] # << >>
    /\ pros' = [pros EXCEPT ![b] = Tail(@)]
    /\ sleep' = Awake(q)
    /\ other' = [other EXCEPT ![p] = q]
    /\ at' = [at EXCEPT ![p] = "wipePro"]
    /\ UNCHANGED <<boxVars, slots, cons, slotVars, nextMBoxID, shadows, box, size, served,
                   zapped, got, ret, corrupt>>

WipeProducer(p) ==
    /\ ~corrupt /\ at[p] = "wipePro"
    /\ proMsg' = [proMsg EXCEPT ![other[p]] = NoMsg]
    /\ corrupt' = Queued(other[p], pros)
    /\ at' = [at EXCEPT ![p] = "pros"] /\ other' = [other EXCEPT ![p] = p]
    /\ UNCHANGED <<boxVars, queueVars, slotVars, nextMBoxID, conSize, box, size, sleep,
                   served, zapped, got, ret>>

\* cleanMail.
ReleaseEnds(p) ==
    LET b == box[p] IN
    /\ ~corrupt /\ at[p] = "pros" /\ pros[b] = << >>
    /\ status' = [status EXCEPT ![b] = "EMPTY"]
    /\ slotSize' = [slotSize EXCEPT ![b] = -1]
    /\ totalSlots' = [totalSlots EXCEPT ![b] = -1]
    /\ currentNumOfSlots' = [currentNumOfSlots EXCEPT ![b] = 0]
    /\ slots' = [slots EXCEPT ![b] = << >>] /\ cons' = [cons EXCEPT ![b] = << >>]
    /\ Leave(p, 0)
    /\ UNCHANGED <<pros, slotVars, nextMBoxID, sleep, zapped, got, corrupt>>

-----------------------------------------------------------------------------

ReleaseStep(p) == ReleaseConsumer(p) \/ WipeConsumer(p) \/ ConsumersDone(p)
                    \/ ReleaseProducer(p) \/ WipeProducer(p) \/ ReleaseEnds(p)

\* What goes on without a new call.
Step(p) == BlockMe(p) \/ SendReturns(p) \/ RecvReturns(p) \/ ReleaseStep(p)

Stopped == corrupt /\ UNCHANGED vars

Next ==
    \/ \E b \in Boxes, m \in Messages :
          SendRefused(b, m) \/ Deliver(b, m) \/ CondSendFull(b, m) \/ Store(b, m)
    \/ \E p \in Procs :
          \/ \E g \in Geometries : Create(p, g)
          \/ CreateFails(p) \/ Zap(p) \/ Step(p)
          \/ \E b \in Boxes :
                \/ \E m \in Messages : SendWait(p, b, m)
                \/ Rendezvous(p, b) \/ Release(p, b)
                \/ \E n \in BufSizes : \/ RecvWait(p, b, n) \/ CondRecvNothing(p, b, n)
                                       \/ RecvSmall(p, b, n) \/ RecvSlot(p, b, n)
    \/ Stopped

Spec == Init /\ [][Next]_vars

\* The kernel dispatches each process that is not blocked, time and again.
FairSpec == Spec /\ \A p \in Procs : WF_vars(Step(p))

-----------------------------------------------------------------------------
(* What the mailboxes promise. *)

\* The counters of the free slots are exact, so that createMailSlot finds a slot
\* whenever SendHelper let the message through: a slot is ACTIVE exactly while it
\* is on the queue of its box, on one queue and once.
SlotsAccounted ==
    /\ \A b \in Boxes : /\ currentNumOfSlots[b] = Len(slots[b])
                        /\ IsInjective(slots[b])
    /\ globalSlotUsed = Cardinality({s \in Slots : slotStatus[s] = "ACTIVE"})
    /\ \A s \in Slots : slotStatus[s] = "ACTIVE" <=>
          \E b \in Boxes : Contains(slots[b], s) /\ slotBox[s] = b
    /\ ~corrupt

\* An entry of a process or of a slot is wiped only when it is on no queue.
QueuesIntact == ~corrupt

\* No producer waits at a box with a free slot, and no receiver at one with a
\* message: senders and receivers of a box never wait for each other.
WaitersHaveCause ==
    \A b \in Boxes : /\ pros[b] # << >> => Full(b)
                     /\ cons[b] # << >> => slots[b] = << >> /\ pros[b] = << >>

\* A process asleep in blockMe is on a queue, so that somebody can wake it.
NobodyForgotten ==
    \A p \in Procs : sleep[p] = "yes" => Contains(pros[box[p]] \o cons[box[p]], p)

\* A send or receive that waited reports success only when its message was taken
\* by a receiver or put into a slot, or when it was given one.
SuccessIsReal ==
    [][\A p \in Procs : /\ SendReturns(p) /\ ret' = 0 => served[p]
                        /\ RecvReturns(p) /\ ret' >= 0 => served[p]]_vars

\* A receive waits only at a box that exists: one that was released or never
\* created refuses it.
DeadBoxRefuses ==
    [][\A p \in Procs, b \in Boxes, n \in BufSizes :
          RecvWait(p, b, n) => status[b] = "ACTIVE"]_vars

\* The messages of a box in order: those in its slots, then those of the producers
\* that wait.  Mailboxes are FIFO channels: each message is handed to one
\* receiver, in the order of the sends, and receivers are served in theirs.
InBox(b) == [i \in 1 .. Len(slots[b]) |-> slotMsg[slots[b][i]]]
               \o [i \in 1 .. Len(pros[b]) |-> proMsg[pros[b][i]]]

Contents == [b \in Boxes |-> InBox(b)]

Fifo == INSTANCE Channel WITH chan <- Contents, waiting <- cons, last <- got
FifoChannels == Fifo!Spec

\* MboxRelease comes to its end, and the processes it woke leave their calls.
ReleaseReturns == \A p \in Procs : at[p] = "cons" ~> at[p] = "user" \/ corrupt
=============================================================================
