----------------------------- MODULE MailboxProofs -----------------------------
(***************************************************************************)
(* Theorems about Mailbox: who is queued at a box, what its slots hold,    *)
(* and that each box is a channel, for every number of processes, boxes,   *)
(* slots and messages.                                                     *)
(***************************************************************************)
EXTENDS Mailbox, SequenceFacts, FiniteSetTheorems

Receiving == {"recv0", "recv"}
Waiting   == {"send"} \cup Receiving
Wiping    == {"wipeCon", "wipePro"}
Ending    == {"cons", "pros"} \cup Wiping

-----------------------------------------------------------------------------
(* Types.                                                                  *)

LEMMA ConstantFacts ==
    /\ 0 \in Boxes /\ Boxes \subseteq Slots /\ Boxes \subseteq Nat /\ Slots \subseteq Nat
    /\ NoBox \notin Boxes /\ -1 \notin Slots
    /\ \A m \in Messages \cup {NoMsg} : m.size \in Int
    /\ \A m \in Messages : m.size \in Nat
    /\ BufSizes \subseteq Nat
    /\ \A g \in Geometries : g[1] \in Nat /\ g[2] \in Nat
<1>1. 0 \in Boxes /\ Boxes \subseteq Slots /\ Boxes \subseteq Nat /\ Slots \subseteq Nat
      /\ NoBox \notin Boxes /\ -1 \notin Slots
  BY SizeAssumption DEF Boxes, Slots, NoBox
<1>2. \A m \in Messages : m.size \in Nat
  BY ArgumentAssumption
<1>3. NoMsg.size \in Int
  BY DEF NoMsg
<1>4. \A g \in Geometries : g[1] \in Nat /\ g[2] \in Nat
  BY ArgumentAssumption, SizeAssumption
<1> QED
  BY <1>1, <1>2, <1>3, <1>4, ArgumentAssumption

LEMMA NewBoxType ==
    ASSUME TypeOK, NewBox # NoBox
    PROVE  NewBox \in Boxes /\ NewBox + 1 \in -1 .. MAXMBOX /\ status[NewBox] = "EMPTY"
<1>1. FreeBoxes \in SUBSET Nat
  BY ConstantFacts DEF FreeBoxes
<1>2. NewBox \in Boxes /\ status[NewBox] = "EMPTY"
  BY <1>1, MinIn DEF NewBox, FreeBoxes
<1> QED
  BY <1>2, SizeAssumption DEF Boxes

LEMMA NewSlotType ==
    ASSUME NEW st, NewSlot(st) # -1
    PROVE  NewSlot(st) \in Slots /\ NewSlot(st) + 1 \in 0 .. MAXSLOTS /\ st[NewSlot(st)] = "EMPTY"
<1>1. FreeSlots(st) \in SUBSET Nat
  BY ConstantFacts DEF FreeSlots
<1>2. NewSlot(st) \in Slots /\ st[NewSlot(st)] = "EMPTY"
  BY <1>1, MinIn DEF NewSlot, FreeSlots
<1> QED
  BY <1>2, SizeAssumption DEF Slots

\* createMailSlot leaves slots and boxes as they should be.
LEMMA FillType ==
    ASSUME TypeOK, NEW b \in Boxes, NEW m \in Messages \cup {NoMsg},
           NEW st \in [Slots -> {"EMPTY", "ACTIVE"}], NEW q \in Seq(Slots),
           NEW n \in Int, NEW used \in Int, Fill(b, m, st, q, n, used)
    PROVE  /\ slotStatus' \in [Slots -> {"EMPTY", "ACTIVE"}]
           /\ slotBox' \in [Slots -> Boxes \cup {NoBox}]
           /\ slotMsg' \in [Slots -> Messages \cup {NoMsg}]
           /\ slots' \in [Boxes -> Seq(Slots)]
           /\ currentNumOfSlots' \in [Boxes -> Int] /\ globalSlotUsed' \in Int
           /\ nextSlotID' \in 0 .. MAXSLOTS /\ corrupt' \in BOOLEAN
<1>1. CASE NewSlot(st) = -1
  BY <1>1 DEF Fill, TypeOK, slotVars
<1>2. CASE NewSlot(st) # -1
  <2>1. PICK s \in Slots : s = NewSlot(st) /\ s + 1 \in 0 .. MAXSLOTS
    BY <1>2, NewSlotType
  <2>2. Append(q, s) \in Seq(Slots)
    BY AppendContents
  <2>3. /\ slotStatus' = [st EXCEPT ![s] = "ACTIVE"] /\ slotBox' = [slotBox EXCEPT ![s] = b]
        /\ slotMsg' = [slotMsg EXCEPT ![s] = m] /\ slots' = [slots EXCEPT ![b] = Append(q, s)]
        /\ currentNumOfSlots' = [currentNumOfSlots EXCEPT ![b] = n + 1] /\ globalSlotUsed' = used + 1
        /\ nextSlotID' = s + 1 /\ corrupt' = corrupt
    BY <1>2, <2>1 DEF Fill
  <2>4. slotStatus' \in [Slots -> {"EMPTY", "ACTIVE"}] /\ slotBox' \in [Slots -> Boxes \cup {NoBox}]
    BY <2>3 DEF TypeOK
  <2>5. slotMsg' \in [Slots -> Messages \cup {NoMsg}]
    BY <2>3 DEF TypeOK
  <2>6. slots' \in [Boxes -> Seq(Slots)]
    BY <2>2, <2>3 DEF TypeOK
  <2>7. n + 1 \in Int /\ used + 1 \in Int
    OBVIOUS
  <2>8. currentNumOfSlots' \in [Boxes -> Int]
    BY <2>3, <2>7 DEF TypeOK
  <2>9. corrupt' \in BOOLEAN
    BY <2>3 DEF TypeOK
  <2> QED
    BY <2>1, <2>3, <2>4, <2>5, <2>6, <2>7, <2>8, <2>9
<1> QED
  BY <1>1, <1>2

LEMMA TypeInit == Init => TypeOK
<1> SUFFICES ASSUME Init PROVE TypeOK
  OBVIOUS
<1>1. << >> \in Seq(Slots) /\ << >> \in Seq(Procs)
  BY EmptySeq
<1>2. status \in [Boxes -> {"EMPTY", "ACTIVE", "RELEASE"}]
  BY DEF Init
<1>3. slotSize \in [Boxes -> Int] /\ totalSlots \in [Boxes -> Int] /\ currentNumOfSlots \in [Boxes -> Int]
  <2>1. slotSize \in [Boxes -> Int]
    BY SizeAssumption DEF Init
  <2>2. totalSlots \in [Boxes -> Int]
    BY DEF Init
  <2>3. currentNumOfSlots \in [Boxes -> Int]
    BY DEF Init
  <2> QED
    BY <2>1, <2>2, <2>3
<1>4. slots \in [Boxes -> Seq(Slots)] /\ pros \in [Boxes -> Seq(Procs)] /\ cons \in [Boxes -> Seq(Procs)]
  <2>1. slots \in [Boxes -> Seq(Slots)]
    BY <1>1 DEF Init
  <2>2. pros \in [Boxes -> Seq(Procs)]
    BY <1>1 DEF Init
  <2>3. cons \in [Boxes -> Seq(Procs)]
    BY <1>1 DEF Init
  <2> QED
    BY <2>1, <2>2, <2>3
<1>5. /\ slotStatus \in [Slots -> {"EMPTY", "ACTIVE"}] /\ slotBox \in [Slots -> Boxes \cup {NoBox}]
      /\ slotMsg \in [Slots -> Messages \cup {NoMsg}]
  BY DEF Init
<1>6. nextMBoxID \in -1 .. MAXMBOX /\ nextSlotID \in 0 .. MAXSLOTS /\ globalSlotUsed \in Int
      /\ ret \in Int /\ corrupt \in BOOLEAN /\ zapped \subseteq Procs
  <2>1. /\ nextMBoxID = IOBoxes /\ nextSlotID = 0 /\ globalSlotUsed = 0 /\ ret = 0
        /\ corrupt = FALSE /\ zapped = {}
    BY DEF Init
  <2>2. IOBoxes \in -1 .. MAXMBOX /\ 0 \in 0 .. MAXSLOTS
    BY SizeAssumption
  <2>3. corrupt \in BOOLEAN
    BY <2>1
  <2>4. nextMBoxID \in -1 .. MAXMBOX /\ nextSlotID \in 0 .. MAXSLOTS
    BY <2>1, <2>2
  <2>5. globalSlotUsed \in Int /\ ret \in Int /\ zapped \subseteq Procs
    BY <2>1
  <2> QED
    BY <2>3, <2>4, <2>5
<1>7. proMsg \in [Procs -> Messages \cup {NoMsg}] /\ conSize \in [Procs -> Int]
  BY DEF Init
<1>8. at \in [Procs -> Places] /\ box \in [Procs -> Boxes] /\ size \in [Procs -> Nat]
  BY ConstantFacts DEF Init, Places
<1>9. /\ other \in [Procs -> Procs] /\ sleep \in [Procs -> {"no", "soon", "yes"}]
      /\ served \in [Procs -> BOOLEAN]
  BY DEF Init
<1> QED
  BY <1>2, <1>3, <1>4, <1>5, <1>6, <1>7, <1>8, <1>9 DEF TypeOK

LEMMA AwakeType ==
    ASSUME TypeOK, NEW p \in Procs PROVE Awake(p) \in [Procs -> {"no", "soon", "yes"}]
BY DEF Awake, TypeOK

LEMMA LeaveType ==
    ASSUME TypeOK, NEW p \in Procs, NEW v \in Int, Leave(p, v)
    PROVE  /\ at' \in [Procs -> Places] /\ box' \in [Procs -> Boxes] /\ size' \in [Procs -> Nat]
           /\ other' \in [Procs -> Procs] /\ served' \in [Procs -> BOOLEAN]
           /\ proMsg' \in [Procs -> Messages \cup {NoMsg}] /\ conSize' \in [Procs -> Int]
           /\ ret' \in Int
<1>1. at' \in [Procs -> Places] /\ box' \in [Procs -> Boxes] /\ size' \in [Procs -> Nat]
  BY ConstantFacts DEF Leave, TypeOK, Places
<1>2. other' \in [Procs -> Procs] /\ served' \in [Procs -> BOOLEAN]
  BY DEF Leave, TypeOK
<1>3. proMsg' \in [Procs -> Messages \cup {NoMsg}] /\ conSize' \in [Procs -> Int] /\ ret' \in Int
  BY DEF Leave, TypeOK
<1> QED
  BY <1>1, <1>2, <1>3

LEMMA EnterType ==
    ASSUME TypeOK, NEW p \in Procs, NEW b \in Boxes, NEW n \in Nat, NEW place \in Places,
           Enter(p, place, b, n)
    PROVE  /\ at' \in [Procs -> Places] /\ box' \in [Procs -> Boxes] /\ size' \in [Procs -> Nat]
           /\ other' \in [Procs -> Procs] /\ served' \in [Procs -> BOOLEAN]
           /\ sleep' \in [Procs -> {"no", "soon", "yes"}]
<1>1. at' \in [Procs -> Places] /\ box' \in [Procs -> Boxes] /\ size' \in [Procs -> Nat]
  BY DEF Enter, TypeOK
<1>2. other' \in [Procs -> Procs] /\ served' \in [Procs -> BOOLEAN]
  BY DEF Enter, TypeOK
<1>3. sleep' \in [Procs -> {"no", "soon", "yes"}]
  BY DEF Enter, TypeOK
<1> QED
  BY <1>1, <1>2, <1>3

LEMMA TypeStep == TypeOK /\ [Next]_vars => TypeOK'
<1> SUFFICES ASSUME TypeOK, [Next]_vars PROVE TypeOK'
  OBVIOUS
<1> USE DEF boxVars, queueVars, slotVars, shadows, calls
<1>a. ASSUME NEW b \in Boxes, NEW p \in Procs
      PROVE  /\ Append(pros[b], p) \in Seq(Procs) /\ Append(cons[b], p) \in Seq(Procs)
             /\ pros[b] # << >> => Head(pros[b]) \in Procs /\ Tail(pros[b]) \in Seq(Procs)
             /\ cons[b] # << >> => Head(cons[b]) \in Procs /\ Tail(cons[b]) \in Seq(Procs)
             /\ slots[b] # << >> => Head(slots[b]) \in Slots /\ Tail(slots[b]) \in Seq(Slots)
  <2>1. pros[b] \in Seq(Procs) /\ cons[b] \in Seq(Procs) /\ slots[b] \in Seq(Slots)
    BY DEF TypeOK
  <2> QED
    BY <2>1, AppendContents, TailContents
<1>1. ASSUME NEW p \in Procs, NEW g \in Geometries, Create(p, g) PROVE TypeOK'
  <2>1. PICK b \in Boxes : b = NewBox /\ b + 1 \in -1 .. MAXMBOX
    BY <1>1, NewBoxType DEF Create
  <2>2. b \in Int /\ g[1] \in Int /\ g[2] \in Int
    BY ConstantFacts
  <2>3. status' \in [Boxes -> {"EMPTY", "ACTIVE", "RELEASE"}]
    BY <1>1, <2>1 DEF Create, TypeOK
  <2>4. totalSlots' \in [Boxes -> Int] /\ slotSize' \in [Boxes -> Int]
    BY <1>1, <2>1, <2>2 DEF Create, TypeOK
  <2>5. nextMBoxID' \in -1 .. MAXMBOX /\ ret' \in Int
    BY <1>1, <2>1, <2>2 DEF Create
  <2> QED
    BY <1>1, <2>3, <2>4, <2>5 DEF Create, TypeOK
<1>2. ASSUME NEW p \in Procs, CreateFails(p) \/ Zap(p) PROVE TypeOK'
  <2>1. /\ UNCHANGED <<boxVars, queueVars, slotVars, shadows, calls, got, corrupt>>
        /\ nextMBoxID' \in {-1, nextMBoxID} /\ ret' \in {-1, ret} /\ zapped' \subseteq zapped \cup {p}
    BY <1>2 DEF CreateFails, Zap
  <2>2. nextMBoxID' \in -1 .. MAXMBOX /\ ret' \in Int /\ zapped' \subseteq Procs
    BY <2>1, SizeAssumption DEF TypeOK
  <2> QED
    BY <2>1, <2>2 DEF TypeOK
<1>3. ASSUME NEW p \in Procs, BlockMe(p) PROVE TypeOK'
  BY <1>3 DEF BlockMe, TypeOK
<1>4. ASSUME NEW b \in Boxes, NEW m \in Messages, SendRefused(b, m) \/ CondSendFull(b, m) PROVE TypeOK'
  <2>1. /\ ret' \in {-1, -2} /\ UNCHANGED <<boxVars, queueVars, slotVars, nextMBoxID, shadows, calls>>
        /\ UNCHANGED <<zapped, corrupt>>
    BY <1>4 DEF SendRefused, CondSendFull
  <2>2. ret' \in Int
    BY <2>1
  <2> QED
    BY <2>1, <2>2 DEF TypeOK
<1>5. ASSUME NEW b \in Boxes, NEW m \in Messages, Deliver(b, m) PROVE TypeOK'
  <2>1. PICK c \in Procs : c = Head(cons[b]) /\ Tail(cons[b]) \in Seq(Procs)
    <3>1. cons[b] # << >>
      BY <1>5 DEF Deliver, ConsumerReady
    <3>2. cons[b] \in Seq(Procs)
      BY DEF TypeOK
    <3> QED
      BY <3>1, <3>2, TailContents
  <2>2. m.size \in Int /\ Awake(c) \in [Procs -> {"no", "soon", "yes"}]
    BY AwakeType, ConstantFacts
  <2>3. cons' \in [Boxes -> Seq(Procs)]
    BY <1>5, <2>1 DEF Deliver, TypeOK
  <2>4. conSize' \in [Procs -> Int]
    BY <1>5, <2>1, <2>2 DEF Deliver, TypeOK
  <2>5. served' \in [Procs -> BOOLEAN]
    BY <1>5, <2>1 DEF Deliver, TypeOK
  <2>6. sleep' \in [Procs -> {"no", "soon", "yes"}] /\ ret' \in Int
    BY <1>5, <2>1, <2>2 DEF Deliver
  <2> QED
    BY <1>5, <2>3, <2>4, <2>5, <2>6 DEF Deliver, TypeOK
<1>6. ASSUME NEW p \in Procs, NEW b \in Boxes, NEW m \in Messages, SendWait(p, b, m) PROVE TypeOK'
  <2>1. Enter(p, "send", b, 0) /\ "send" \in Places /\ 0 \in Nat
    BY <1>6 DEF SendWait, Places
  <2>2. pros' \in [Boxes -> Seq(Procs)]
    BY <1>6, <1>a DEF SendWait, TypeOK
  <2>3. proMsg' \in [Procs -> Messages \cup {NoMsg}]
    BY <1>6 DEF SendWait, TypeOK
  <2> QED
    BY <1>6, <2>1, <2>2, <2>3, EnterType DEF SendWait, TypeOK
<1>7. ASSUME NEW b \in Boxes, NEW m \in Messages, Store(b, m) PROVE TypeOK'
  <2>1. Fill(b, m, slotStatus, slots[b], currentNumOfSlots[b], globalSlotUsed)
        /\ slotStatus \in [Slots -> {"EMPTY", "ACTIVE"}] /\ slots[b] \in Seq(Slots)
        /\ currentNumOfSlots[b] \in Int /\ globalSlotUsed \in Int
    BY <1>7 DEF Store, TypeOK
  <2>2. /\ slotStatus' \in [Slots -> {"EMPTY", "ACTIVE"}]
           /\ slotBox' \in [Slots -> Boxes \cup {NoBox}]
           /\ slotMsg' \in [Slots -> Messages \cup {NoMsg}]
           /\ slots' \in [Boxes -> Seq(Slots)]
           /\ currentNumOfSlots' \in [Boxes -> Int] /\ globalSlotUsed' \in Int
           /\ nextSlotID' \in 0 .. MAXSLOTS /\ corrupt' \in BOOLEAN
    BY <2>1, FillType
  <2>3. /\ ret' = 0
        /\ UNCHANGED <<status, slotSize, totalSlots, pros, cons, nextMBoxID, shadows, calls, zapped>>
    BY <1>7 DEF Store
  <2> QED
    BY <2>2, <2>3 DEF TypeOK
<1>8. ASSUME NEW p \in Procs, SendReturns(p) \/ RecvReturns(p) PROVE TypeOK'
  <2>1. SendResult(p) \in Int /\ RecvResult(p) \in Int
    BY DEF SendResult, RecvResult, TypeOK
  <2>2. /\ \/ Leave(p, SendResult(p))
           \/ Leave(p, RecvResult(p))
        /\ UNCHANGED <<boxVars, queueVars, slotVars, nextMBoxID, sleep, zapped, got, corrupt>>
    BY <1>8 DEF SendReturns, RecvReturns
  <2> QED
    BY <2>1, <2>2, LeaveType DEF TypeOK
<1>9. ASSUME NEW p \in Procs, NEW b \in Boxes, Rendezvous(p, b) PROVE TypeOK'
  <2>1. PICK q \in Procs : q = Head(pros[b]) /\ Tail(pros[b]) \in Seq(Procs)
    BY <1>9, <1>a DEF Rendezvous
  <2>2. proMsg[q].size \in Int /\ Awake(q) \in [Procs -> {"no", "soon", "yes"}]
    BY AwakeType, ConstantFacts DEF TypeOK
  <2>3. pros' \in [Boxes -> Seq(Procs)] /\ served' \in [Procs -> BOOLEAN]
    BY <1>9, <2>1 DEF Rendezvous, TypeOK
  <2>4. sleep' = Awake(q) /\ ret' = proMsg[q].size
    BY <1>9, <2>1 DEF Rendezvous
  <2> QED
    BY <1>9, <2>2, <2>3, <2>4 DEF Rendezvous, TypeOK
<1>10. ASSUME NEW p \in Procs, NEW b \in Boxes, NEW n \in BufSizes,
              RecvWait(p, b, n) \/ CondRecvNothing(p, b, n) PROVE TypeOK'
  <2>1. n \in Nat
    BY ConstantFacts
  <2>2. CASE RecvWait(p, b, n)
    <3>1. PICK place \in Places : Enter(p, place, b, n)
      BY <2>2 DEF RecvWait, Places
    <3>2. cons' \in [Boxes -> Seq(Procs)]
      BY <1>a, <2>2 DEF RecvWait, TypeOK
    <3>3. conSize' \in [Procs -> Int]
      BY <2>1, <2>2 DEF RecvWait, TypeOK
    <3> QED
      BY <2>1, <2>2, <3>1, <3>2, <3>3, EnterType DEF RecvWait, TypeOK
  <2>3. CASE CondRecvNothing(p, b, n)
    <3>1. ret' \in {n, -1, -2}
      BY <2>3 DEF CondRecvNothing
    <3>2. ret' \in Int
      BY <2>1, <3>1
    <3> QED
      BY <2>3, <3>2 DEF CondRecvNothing, TypeOK
  <2> QED
    BY <1>10, <2>2, <2>3
<1>11. ASSUME NEW p \in Procs, NEW b \in Boxes, NEW n \in BufSizes, RecvSmall(p, b, n) PROVE TypeOK'
  <2>1. slots' \in [Boxes -> Seq(Slots)]
    BY <1>11, <1>a DEF RecvSmall, TypeOK
  <2>2. /\ currentNumOfSlots' = [currentNumOfSlots EXCEPT ![b] = @ - 1]
        /\ globalSlotUsed' = globalSlotUsed - 1 /\ ret' = -1
    BY <1>11 DEF RecvSmall
  <2>3. currentNumOfSlots \in [Boxes -> Int] /\ globalSlotUsed \in Int
    BY DEF TypeOK
  <2>4. currentNumOfSlots' \in [Boxes -> Int] /\ globalSlotUsed' \in Int /\ ret' \in Int
    BY <2>2, <2>3
  <2>5. UNCHANGED <<status, slotSize, totalSlots, pros, cons, slotStatus, slotBox, slotMsg,
                    nextSlotID, nextMBoxID, shadows, calls, zapped, corrupt>>
    BY <1>11 DEF RecvSmall
  <2> QED
    BY <2>1, <2>4, <2>5 DEF TypeOK
<1>12. ASSUME NEW p \in Procs, NEW b \in Boxes, NEW n \in BufSizes, RecvSlot(p, b, n) PROVE TypeOK'
  <2>1. PICK s \in Slots : s = Head(slots[b]) /\ Tail(slots[b]) \in Seq(Slots)
    BY <1>12, <1>a DEF RecvSlot
  <2>2. Freed(s) \in [Slots -> {"EMPTY", "ACTIVE"}] /\ currentNumOfSlots[b] - 1 \in Int
        /\ globalSlotUsed - 1 \in Int /\ slotMsg[s].size \in Int
    <3>1. slotMsg[s] \in Messages \cup {NoMsg}
      BY DEF TypeOK
    <3>2. slotMsg[s].size \in Int
      BY <3>1, ConstantFacts
    <3>3. Freed(s) \in [Slots -> {"EMPTY", "ACTIVE"}]
      BY DEF Freed, TypeOK
    <3>4. currentNumOfSlots[b] - 1 \in Int /\ globalSlotUsed - 1 \in Int
      BY DEF TypeOK
    <3> QED
      BY <3>2, <3>3, <3>4
  <2>3. CASE pros[b] = << >>
    <3>1. /\ slots' = [slots EXCEPT ![b] = Tail(slots[b])] /\ slotStatus' = Freed(s)
          /\ currentNumOfSlots' = [currentNumOfSlots EXCEPT ![b] = @ - 1]
          /\ globalSlotUsed' = globalSlotUsed - 1 /\ ret' = slotMsg[s].size
          /\ UNCHANGED <<pros, slotBox, slotMsg, nextSlotID, sleep, served, corrupt>>
          /\ UNCHANGED <<status, slotSize, totalSlots, cons, nextMBoxID, shadows, at, box, size,
                   other, zapped>>
      BY <1>12, <2>1, <2>3 DEF RecvSlot, FirstOf
    <3>2. slots' \in [Boxes -> Seq(Slots)]
      BY <2>1, <3>1 DEF TypeOK
    <3>3. currentNumOfSlots' \in [Boxes -> Int]
      BY <2>2, <3>1 DEF TypeOK
    <3> QED
      BY <2>2, <3>1, <3>2, <3>3 DEF TypeOK
  <2>4. CASE pros[b] # << >>
    <3>1. PICK q \in Procs : q = Head(pros[b]) /\ Tail(pros[b]) \in Seq(Procs)
      BY <1>a, <2>4
    <3>2. Fill(b, proMsg[q], Freed(s), Tail(slots[b]), currentNumOfSlots[b] - 1, globalSlotUsed - 1)
          /\ proMsg[q] \in Messages \cup {NoMsg}
      BY <1>12, <2>1, <2>4, <3>1 DEF RecvSlot, FirstOf, TypeOK
    <3>3. /\ slotStatus' \in [Slots -> {"EMPTY", "ACTIVE"}]
             /\ slotBox' \in [Slots -> Boxes \cup {NoBox}]
             /\ slotMsg' \in [Slots -> Messages \cup {NoMsg}]
             /\ slots' \in [Boxes -> Seq(Slots)]
             /\ currentNumOfSlots' \in [Boxes -> Int] /\ globalSlotUsed' \in Int
             /\ nextSlotID' \in 0 .. MAXSLOTS /\ corrupt' \in BOOLEAN
      BY <2>1, <2>2, <3>2, FillType
    <3>4. Awake(q) \in [Procs -> {"no", "soon", "yes"}]
      BY AwakeType
    <3>5. /\ pros' = [pros EXCEPT ![b] = Tail(@)] /\ sleep' = Awake(q)
          /\ served' = [served EXCEPT ![q] = TRUE] /\ ret' = slotMsg[s].size
          /\ UNCHANGED <<status, slotSize, totalSlots, cons, nextMBoxID, shadows, at, box, size,
                   other, zapped>>
      BY <1>12, <2>1, <2>4, <3>1 DEF RecvSlot, FirstOf
    <3> QED
      BY <2>2, <3>1, <3>3, <3>4, <3>5 DEF TypeOK
  <2> QED
    BY <2>3, <2>4
<1>13. ASSUME NEW p \in Procs, NEW b \in Boxes, Release(p, b) PROVE TypeOK'
  <2>1. Len(slots[b]) \in Int /\ \A x \in Boxes : currentNumOfSlots[x] \in Int
    BY DEF TypeOK
  <2>2. currentNumOfSlots' \in [Boxes -> Int] /\ globalSlotUsed' \in Int
    <3>1. currentNumOfSlots' = [x \in Boxes |-> currentNumOfSlots'[x]]
      BY <1>13 DEF Release
    <3>2. ASSUME NEW x \in Boxes PROVE currentNumOfSlots'[x] \in Int
      <4>1. PICK k \in Int : k = Len(slots[b])
        BY <2>1
      <4>2. currentNumOfSlots'[x] \in {currentNumOfSlots[x], currentNumOfSlots[x] - 1,
                                       currentNumOfSlots[x] - k, currentNumOfSlots[x] - k - 1}
        BY <1>13, <4>1 DEF Release
      <4> QED
        BY <2>1, <4>1, <4>2
    <3>3. globalSlotUsed' \in Int
      BY <1>13, <2>1 DEF Release, TypeOK
    <3> QED
      BY <3>1, <3>2, <3>3
  <2>3. /\ slotStatus' \in [Slots -> {"EMPTY", "ACTIVE"}]
        /\ slotBox' \in [Slots -> Boxes \cup {NoBox}] /\ corrupt' \in BOOLEAN
    BY <1>13, ConstantFacts DEF Release, CleanSlot, TypeOK
  <2>4. /\ status' \in [Boxes -> {"EMPTY", "ACTIVE", "RELEASE"}]
        /\ slots' \in [Boxes -> Seq(Slots)]
    BY <1>13 DEF Release, Releasing, TypeOK
  <2>5. at' \in [Procs -> Places] /\ box' \in [Procs -> Boxes]
    BY <1>13 DEF Release, Releasing, TypeOK, Places
  <2> QED
    BY <1>13, <2>2, <2>3, <2>4, <2>5 DEF Release, TypeOK
<1>14. ASSUME NEW p \in Procs, ReleaseConsumer(p) \/ ReleaseProducer(p) PROVE TypeOK'
  <2>1. PICK b \in Boxes : b = box[p]
    BY DEF TypeOK
  <2>2. CASE ReleaseConsumer(p)
    <3>1. PICK c \in Procs : c = Head(cons[b]) /\ Tail(cons[b]) \in Seq(Procs)
      BY <1>a, <2>1, <2>2 DEF ReleaseConsumer
    <3> QED
      BY <2>1, <2>2, <3>1, AwakeType DEF ReleaseConsumer, TypeOK, Places
  <2>3. CASE ReleaseProducer(p)
    <3>1. PICK c \in Procs : c = Head(pros[b]) /\ Tail(pros[b]) \in Seq(Procs)
      BY <1>a, <2>1, <2>3 DEF ReleaseProducer
    <3> QED
      BY <2>1, <2>3, <3>1, AwakeType DEF ReleaseProducer, TypeOK, Places
  <2> QED
    BY <1>14, <2>2, <2>3
<1>15. ASSUME NEW p \in Procs, WipeConsumer(p) \/ WipeProducer(p) PROVE TypeOK'
  <2>1. CASE WipeConsumer(p)
    <3>1. /\ conSize' = [conSize EXCEPT ![other[p]] = -1]
          /\ at' = [at EXCEPT ![p] = "cons"] /\ other' = [other EXCEPT ![p] = p]
          /\ corrupt' \in BOOLEAN
      BY <2>1 DEF WipeConsumer, Queued
    <3>2. at' \in [Procs -> Places] /\ other' \in [Procs -> Procs]
      BY <3>1 DEF TypeOK, Places
    <3>3. conSize' \in [Procs -> Int]
      BY <3>1 DEF TypeOK
    <3> QED
      BY <2>1, <3>1, <3>2, <3>3 DEF WipeConsumer, TypeOK
  <2>2. CASE WipeProducer(p)
    <3>1. /\ proMsg' = [proMsg EXCEPT ![other[p]] = NoMsg]
          /\ at' = [at EXCEPT ![p] = "pros"] /\ other' = [other EXCEPT ![p] = p]
          /\ corrupt' \in BOOLEAN
      BY <2>2 DEF WipeProducer, Queued
    <3>2. at' \in [Procs -> Places] /\ other' \in [Procs -> Procs]
      BY <3>1 DEF TypeOK, Places
    <3>3. proMsg' \in [Procs -> Messages \cup {NoMsg}]
      BY <3>1 DEF TypeOK
    <3> QED
      BY <2>2, <3>1, <3>2, <3>3 DEF WipeProducer, TypeOK
  <2> QED
    BY <1>15, <2>1, <2>2
<1>16. ASSUME NEW p \in Procs, ConsumersDone(p) PROVE TypeOK'
  <2>1. at' \in [Procs -> Places]
    BY <1>16 DEF ConsumersDone, TypeOK, Places
  <2> QED
    BY <1>16, <2>1 DEF ConsumersDone, TypeOK
<1>17. ASSUME NEW p \in Procs, ReleaseEnds(p) PROVE TypeOK'
  <2>1. /\ at' \in [Procs -> Places] /\ box' \in [Procs -> Boxes] /\ size' \in [Procs -> Nat]
        /\ other' \in [Procs -> Procs] /\ served' \in [Procs -> BOOLEAN]
        /\ proMsg' \in [Procs -> Messages \cup {NoMsg}] /\ conSize' \in [Procs -> Int]
        /\ ret' \in Int
    BY <1>17, LeaveType DEF ReleaseEnds
  <2>2. /\ status' \in [Boxes -> {"EMPTY", "ACTIVE", "RELEASE"}] /\ slotSize' \in [Boxes -> Int]
        /\ totalSlots' \in [Boxes -> Int] /\ currentNumOfSlots' \in [Boxes -> Int]
    BY <1>17 DEF ReleaseEnds, TypeOK
  <2>3. << >> \in Seq(Slots) /\ << >> \in Seq(Procs)
    OBVIOUS
  <2>4. slots' \in [Boxes -> Seq(Slots)] /\ cons' \in [Boxes -> Seq(Procs)]
    BY <1>17, <2>3 DEF ReleaseEnds, TypeOK
  <2> QED
    BY <1>17, <2>1, <2>2, <2>4 DEF ReleaseEnds, TypeOK
<1>18. CASE UNCHANGED vars
  BY <1>18 DEF vars, TypeOK
<1> QED
  BY <1>1, <1>2, <1>3, <1>4, <1>5, <1>6, <1>7, <1>8, <1>9, <1>10, <1>11, <1>12, <1>13, <1>14, <1>15,
     <1>16, <1>17, <1>18 DEF Next, Step, ReleaseStep, Stopped

\* The variables keep their types, whatever the callers do.
THEOREM TypeCorrect == Spec => []TypeOK
BY TypeInit, TypeStep, PTL DEF Spec

-----------------------------------------------------------------------------
(* What a step does to the queues of the boxes and to who stands where.  All   *)
(* the invariants below are about one of these effects at a time.              *)

\* The head of one of the queues qs leaves it; p joins one at its end.
Pops(qs, next, b, q) ==
    qs[b] # << >> /\ q = Head(qs[b]) /\ next = [qs EXCEPT ![b] = Tail(@)]
Joins(qs, next, b, p) == next = [qs EXCEPT ![b] = Append(@, p)]

Quiet == UNCHANGED <<status, pros, cons, at, box, other, sleep, served>>

Made(b) ==
    /\ status[b] = "EMPTY"
    /\ b = nextMBoxID \/ "reuse" \in Conduct
    /\ status' = [status EXCEPT ![b] = "ACTIVE"] /\ nextMBoxID' = b + 1
    /\ UNCHANGED <<pros, cons, at, box, other, sleep, served>>

Dozes(p) ==
    /\ sleep[p] = "soon" /\ sleep' = [sleep EXCEPT ![p] = "yes"]
    /\ UNCHANGED <<status, pros, cons, at, box, other, served>>

Waits(p, b, place) ==
    /\ at[p] = "user" /\ Usable(b) /\ MayWait(p)
    /\ \/ place = "send" /\ Joins(pros, pros', b, p) /\ UNCHANGED cons
       \/ place \in Receiving /\ Joins(cons, cons', b, p) /\ UNCHANGED pros
    /\ at' = [at EXCEPT ![p] = place] /\ box' = [box EXCEPT ![p] = b]
    /\ sleep' = [sleep EXCEPT ![p] = IF "switch" \in Conduct THEN "soon" ELSE "yes"]
    /\ served' = [served EXCEPT ![p] = FALSE]
    /\ UNCHANGED <<status, other>>

Serves(q, b) ==
    /\ \/ Pops(pros, pros', b, q) /\ UNCHANGED cons
       \/ Pops(cons, cons', b, q) /\ UNCHANGED pros
    /\ sleep' = Awake(q) /\ served' = [served EXCEPT ![q] = TRUE]
    /\ UNCHANGED <<status, at, box, other>>

Returns(p) ==
    /\ at[p] \in Waiting /\ sleep[p] = "no"
    /\ at' = [at EXCEPT ![p] = "user"] /\ box' = [box EXCEPT ![p] = 0]
    /\ other' = [other EXCEPT ![p] = p] /\ served' = [served EXCEPT ![p] = FALSE]
    /\ UNCHANGED <<status, pros, cons, sleep>>

Begins(p, b) ==
    /\ at[p] = "user" /\ Usable(b)
    /\ status' = [status EXCEPT ![b] = "RELEASE"]
    /\ at' = [at EXCEPT ![p] = "cons"] /\ box' = [box EXCEPT ![p] = b]
    /\ UNCHANGED <<pros, cons, other, sleep, served>>

Wakes(p, q) ==
    /\ \/ /\ at[p] = "cons" /\ at' = [at EXCEPT ![p] = "wipeCon"]
          /\ Pops(cons, cons', box[p], q) /\ UNCHANGED pros
       \/ /\ at[p] = "pros" /\ at' = [at EXCEPT ![p] = "wipePro"]
          /\ Pops(pros, pros', box[p], q) /\ UNCHANGED cons
    /\ sleep' = Awake(q) /\ other' = [other EXCEPT ![p] = q]
    /\ UNCHANGED <<status, box, served>>

Wipes(p) ==
    /\ \/ at[p] = "wipeCon" /\ at' = [at EXCEPT ![p] = "cons"]
       \/ at[p] = "wipePro" /\ at' = [at EXCEPT ![p] = "pros"]
    /\ other' = [other EXCEPT ![p] = p]
    /\ UNCHANGED <<status, pros, cons, box, sleep, served>>

Turns(p) ==
    /\ at[p] = "cons" /\ cons[box[p]] = << >> /\ at' = [at EXCEPT ![p] = "pros"]
    /\ UNCHANGED <<status, pros, cons, box, other, sleep, served>>

Ends(p) ==
    /\ at[p] = "pros" /\ pros[box[p]] = << >>
    /\ status' = [status EXCEPT ![box[p]] = "EMPTY"]
    /\ cons' = [cons EXCEPT ![box[p]] = << >>]
    /\ at' = [at EXCEPT ![p] = "user"] /\ box' = [box EXCEPT ![p] = 0]
    /\ other' = [other EXCEPT ![p] = p] /\ served' = [served EXCEPT ![p] = FALSE]
    /\ UNCHANGED <<pros, sleep>>

Effects ==
    \/ Quiet
    \/ \E b \in Boxes : Made(b)
    \/ \E p \in Procs : Dozes(p) \/ Returns(p) \/ Wipes(p) \/ Turns(p) \/ Ends(p)
    \/ \E p \in Procs, b \in Boxes : Begins(p, b) \/ Serves(p, b)
    \/ \E p \in Procs, b \in Boxes, place \in Waiting : Waits(p, b, place)
    \/ \E p, q \in Procs : Wakes(p, q)

LEMMA StepEffects ==
    ASSUME TypeOK, [Next]_vars PROVE Effects
<1> USE DEF boxVars, queueVars, slotVars, shadows, calls
<1>a. ASSUME NEW qs \in [Boxes -> Seq(Procs)], NEW b \in Boxes, qs[b] # << >>
      PROVE  Head(qs[b]) \in Procs
  <2>1. qs[b] \in Seq(Procs)
    OBVIOUS
  <2> QED
    BY <1>a, <2>1, TailContents
<1>1. ASSUME NEW p \in Procs, NEW g \in Geometries, Create(p, g) PROVE \E b \in Boxes : Made(b)
  <2>1. PICK b \in Boxes : b = NewBox /\ status[b] = "EMPTY"
    BY <1>1, NewBoxType DEF Create
  <2> QED
    BY <1>1, <2>1 DEF Create, Made
<1>2. ASSUME NEW p \in Procs, CreateFails(p) \/ Zap(p) PROVE Quiet
  BY <1>2 DEF CreateFails, Zap, Quiet
<1>3. ASSUME NEW p \in Procs, BlockMe(p) PROVE Dozes(p)
  BY <1>3 DEF BlockMe, Dozes
<1>4. ASSUME NEW b \in Boxes, NEW m \in Messages, SendRefused(b, m) \/ CondSendFull(b, m) \/ Store(b, m)
      PROVE  Quiet
  BY <1>4 DEF SendRefused, CondSendFull, Store, Quiet
<1>5. ASSUME NEW b \in Boxes, NEW m \in Messages, Deliver(b, m)
      PROVE  \E p \in Procs, x \in Boxes : Begins(p, x) \/ Serves(p, x)
  <2>1. PICK c \in Procs : c = Head(cons[b])
    BY <1>a, <1>5 DEF Deliver, ConsumerReady, TypeOK
  <2> QED
    BY <1>5, <2>1 DEF Deliver, Serves, Pops, ConsumerReady
<1>6. ASSUME NEW p \in Procs, NEW b \in Boxes, NEW m \in Messages, SendWait(p, b, m)
      PROVE  \E place \in Waiting : Waits(p, b, place)
  BY <1>6 DEF SendWait, Waits, Calls, Enter, Joins, Waiting
<1>8. ASSUME NEW p \in Procs, SendReturns(p) \/ RecvReturns(p) PROVE Returns(p)
  BY <1>8 DEF SendReturns, RecvReturns, Returns, Leave, Waiting, Receiving
<1>9. ASSUME NEW p \in Procs, NEW b \in Boxes, Rendezvous(p, b)
      PROVE  \E q \in Procs, x \in Boxes : Begins(q, x) \/ Serves(q, x)
  <2>1. PICK c \in Procs : c = Head(pros[b])
    BY <1>a, <1>9 DEF Rendezvous, TypeOK
  <2> QED
    BY <1>9, <2>1 DEF Rendezvous, Serves, Pops
<1>10. ASSUME NEW p \in Procs, NEW b \in Boxes, NEW n \in BufSizes, RecvWait(p, b, n)
       PROVE  \E place \in Waiting : Waits(p, b, place)
  BY <1>10 DEF RecvWait, Waits, Receiver, Calls, Enter, Joins, Waiting, Receiving
<1>11. ASSUME NEW p \in Procs, NEW b \in Boxes, NEW n \in BufSizes,
              RecvSmall(p, b, n) \/ CondRecvNothing(p, b, n) PROVE Quiet
  BY <1>11 DEF RecvSmall, CondRecvNothing, Quiet
<1>12. ASSUME NEW p \in Procs, NEW b \in Boxes, NEW n \in BufSizes, RecvSlot(p, b, n) PROVE Effects
  <2>1. CASE pros[b] = << >>
    BY <1>12, <2>1 DEF RecvSlot, Quiet, Effects
  <2>2. CASE pros[b] # << >>
    <3>1. PICK c \in Procs : c = Head(pros[b])
      BY <1>a, <2>2 DEF TypeOK
    <3>2. Serves(c, b)
      BY <1>12, <2>2, <3>1 DEF RecvSlot, Serves, Pops
    <3> QED
      BY <3>2 DEF Effects
  <2> QED
    BY <2>1, <2>2
<1>13. ASSUME NEW p \in Procs, NEW b \in Boxes, Release(p, b) PROVE Begins(p, b)
  BY <1>13 DEF Release, Begins, Calls, Releasing
<1>14. ASSUME NEW p \in Procs, ReleaseConsumer(p) PROVE \E q \in Procs : Wakes(p, q)
  <2>1. PICK c \in Procs : c = Head(cons[box[p]])
    BY <1>a, <1>14 DEF ReleaseConsumer, TypeOK
  <2> QED
    BY <1>14, <2>1 DEF ReleaseConsumer, Wakes, Pops
<1>15. ASSUME NEW p \in Procs, ReleaseProducer(p) PROVE \E q \in Procs : Wakes(p, q)
  <2>1. PICK c \in Procs : c = Head(pros[box[p]])
    BY <1>a, <1>15 DEF ReleaseProducer, TypeOK
  <2> QED
    BY <1>15, <2>1 DEF ReleaseProducer, Wakes, Pops
<1>16. ASSUME NEW p \in Procs, WipeConsumer(p) \/ WipeProducer(p) PROVE Wipes(p)
  BY <1>16 DEF WipeConsumer, WipeProducer, Wipes
<1>17. ASSUME NEW p \in Procs, ConsumersDone(p) PROVE Turns(p)
  BY <1>17 DEF ConsumersDone, Turns
<1>18. ASSUME NEW p \in Procs, ReleaseEnds(p) PROVE Ends(p)
  BY <1>18 DEF ReleaseEnds, Ends, Leave
<1>19. CASE UNCHANGED vars
  BY <1>19 DEF vars, Quiet, Effects
<1> QED
  BY <1>1, <1>2, <1>3, <1>4, <1>5, <1>6, <1>8, <1>9, <1>10, <1>11, <1>12, <1>13, <1>14, <1>15, <1>16,
     <1>17, <1>18, <1>19 DEF Next, Step, ReleaseStep, Stopped, Effects

LEMMA QueueTypes ==
    ASSUME TypeOK
    PROVE  /\ pros \in [Boxes -> Seq(Procs)] /\ cons \in [Boxes -> Seq(Procs)]
           /\ \A b \in Boxes : Range(pros[b]) \subseteq Procs /\ Range(cons[b]) \subseteq Procs
<1>1. pros \in [Boxes -> Seq(Procs)] /\ cons \in [Boxes -> Seq(Procs)]
  BY DEF TypeOK
<1>2. ASSUME NEW q \in Seq(Procs) PROVE Range(q) \subseteq Procs
  BY <1>2, RangeOfSeq
<1> QED
  BY <1>1, <1>2

-----------------------------------------------------------------------------
(* Who is queued stands in the call that queued it, waits, and is on that      *)
(* queue once; what it waits for has not come.                                 *)

QueueOK(qs, places) ==
    \A b \in Boxes :
        /\ IsInjective(qs[b])
        /\ \A q \in Range(qs[b]) : at[q] \in places /\ box[q] = b /\ sleep[q] # "no" /\ ~served[q]

Queues == QueueOK(pros, {"send"}) /\ QueueOK(cons, Receiving)

LEMMA QueuesInit == Init => Queues
<1> SUFFICES ASSUME Init, NEW b \in Boxes
             PROVE  pros[b] = << >> /\ cons[b] = << >>
  BY EmptyContents DEF Queues, QueueOK
<1> QED
  BY DEF Init

\* What keeps a member q of a queue where it is.
Still(q) == /\ at'[q] = at[q] /\ box'[q] = box[q] /\ served'[q] = served[q]
            /\ sleep[q] # "no" => sleep'[q] # "no"

\* An effect other than that of joining a queue leaves its members alone.
LEMMA QueuesKept ==
    ASSUME Queues, NEW b \in Boxes,
           IsInjective(pros[b]) => IsInjective(pros'[b]),
           IsInjective(cons[b]) => IsInjective(cons'[b]),
           \A q \in Range(pros'[b]) : q \in Range(pros[b]) /\ Still(q),
           \A q \in Range(cons'[b]) : q \in Range(cons[b]) /\ Still(q)
    PROVE  /\ IsInjective(pros'[b]) /\ IsInjective(cons'[b])
           /\ \A q \in Range(pros'[b]) :
                 at'[q] \in {"send"} /\ box'[q] = b /\ sleep'[q] # "no" /\ ~served'[q]
           /\ \A q \in Range(cons'[b]) :
                 at'[q] \in Receiving /\ box'[q] = b /\ sleep'[q] # "no" /\ ~served'[q]
<1>1. IsInjective(pros'[b]) /\ IsInjective(cons'[b])
  BY DEF Queues, QueueOK
<1>2. ASSUME NEW q \in Range(pros'[b])
      PROVE  at'[q] \in {"send"} /\ box'[q] = b /\ sleep'[q] # "no" /\ ~served'[q]
  <2>1. at[q] = "send" /\ box[q] = b /\ sleep[q] # "no" /\ ~served[q]
    BY <1>2 DEF Queues, QueueOK
  <2> QED
    BY <1>2, <2>1 DEF Still
<1>3. ASSUME NEW q \in Range(cons'[b])
      PROVE  at'[q] \in Receiving /\ box'[q] = b /\ sleep'[q] # "no" /\ ~served'[q]
  <2>1. at[q] \in Receiving /\ box[q] = b /\ sleep[q] # "no" /\ ~served[q]
    BY <1>3 DEF Queues, QueueOK
  <2> QED
    BY <1>3, <2>1 DEF Still
<1> QED
  BY <1>1, <1>2, <1>3

\* Only who waits in a send or a receive is on a queue.
LEMMA QueuedWaits ==
    ASSUME Queues, NEW p, at[p] \notin Waiting \/ sleep[p] = "no"
    PROVE  \A b \in Boxes : p \notin Range(pros[b]) /\ p \notin Range(cons[b])
BY DEF Queues, QueueOK, Waiting, Receiving

\* Who leaves a queue is on no other.
LEMMA PopLeaves ==
    ASSUME TypeOK, Queues, NEW p, NEW x \in Boxes, NEW b \in Boxes,
           \/ Pops(pros, pros', x, p) /\ cons' = cons
           \/ Pops(cons, cons', x, p) /\ pros' = pros
    PROVE  /\ IsInjective(pros'[b]) /\ IsInjective(cons'[b])
           /\ \A q \in Range(pros'[b]) : q \in Range(pros[b]) /\ q # p
           /\ \A q \in Range(cons'[b]) : q \in Range(cons[b]) /\ q # p
           /\ p \in Procs /\ at[p] \in Waiting /\ box[p] = x
<1>1. pros \in [Boxes -> Seq(Procs)] /\ cons \in [Boxes -> Seq(Procs)]
      /\ Range(pros[x]) \subseteq Procs /\ Range(cons[x]) \subseteq Procs
  BY QueueTypes
<1>2. /\ IsInjective(pros[x]) /\ IsInjective(cons[x]) /\ IsInjective(pros[b]) /\ IsInjective(cons[b])
      /\ \A q \in Range(pros[x]) : at[q] = "send" /\ box[q] = x
      /\ \A q \in Range(cons[x]) : at[q] \in Receiving /\ box[q] = x
      /\ \A q \in Range(pros[b]) : at[q] = "send" /\ box[q] = b
      /\ \A q \in Range(cons[b]) : at[q] \in Receiving /\ box[q] = b
  BY DEF Queues, QueueOK
<1>3. CASE Pops(pros, pros', x, p) /\ cons' = cons
  <2>1. /\ p \in Range(pros[x]) /\ Range(pros[x]) = Range(pros'[x]) \cup {p}
        /\ IsInjective(pros[x]) => IsInjective(pros'[x]) /\ p \notin Range(pros'[x])
        /\ \A y \in Boxes \ {x} : pros'[y] = pros[y]
    <3>1. /\ pros[x] \in Seq(Procs) /\ pros[x] # << >> /\ pros'[x] = Tail(pros[x])
          /\ p = Head(pros[x]) /\ \A y \in Boxes \ {x} : pros'[y] = pros[y]
      BY <1>1, <1>3 DEF Pops
    <3> QED
      BY <3>1, TailContents
  <2>2. p \in Procs /\ at[p] = "send" /\ box[p] = x
    BY <1>1, <1>2, <2>1
  <2>3. p \notin Range(cons[b]) /\ (b # x => p \notin Range(pros[b]))
    BY <1>2, <2>2 DEF Receiving
  <2>4. /\ IsInjective(pros'[b]) /\ p \notin Range(pros'[b])
        /\ \A q \in Range(pros'[b]) : q \in Range(pros[b])
    <3>1. CASE b = x
      BY <1>2, <2>1, <3>1
    <3>2. CASE b # x
      <4>1. pros'[b] = pros[b]
        BY <2>1, <3>2
      <4> QED
        BY <1>2, <2>3, <3>2, <4>1
    <3> QED
      BY <3>1, <3>2
  <2> QED
    BY <1>2, <1>3, <2>2, <2>3, <2>4 DEF Waiting
<1>4. CASE Pops(cons, cons', x, p) /\ pros' = pros
  <2>1. /\ p \in Range(cons[x]) /\ Range(cons[x]) = Range(cons'[x]) \cup {p}
        /\ IsInjective(cons[x]) => IsInjective(cons'[x]) /\ p \notin Range(cons'[x])
        /\ \A y \in Boxes \ {x} : cons'[y] = cons[y]
    <3>1. /\ cons[x] \in Seq(Procs) /\ cons[x] # << >> /\ cons'[x] = Tail(cons[x])
          /\ p = Head(cons[x]) /\ \A y \in Boxes \ {x} : cons'[y] = cons[y]
      BY <1>1, <1>4 DEF Pops
    <3> QED
      BY <3>1, TailContents
  <2>2. p \in Procs /\ at[p] \in Receiving /\ box[p] = x
    BY <1>1, <1>2, <2>1
  <2>3. p \notin Range(pros[b]) /\ (b # x => p \notin Range(cons[b]))
    BY <1>2, <2>2 DEF Receiving
  <2>4. /\ IsInjective(cons'[b]) /\ p \notin Range(cons'[b])
        /\ \A q \in Range(cons'[b]) : q \in Range(cons[b])
    <3>1. CASE b = x
      BY <1>2, <2>1, <3>1
    <3>2. CASE b # x
      <4>1. cons'[b] = cons[b]
        BY <2>1, <3>2
      <4> QED
        BY <1>2, <2>3, <3>2, <4>1
    <3> QED
      BY <3>1, <3>2
  <2> QED
    BY <1>2, <1>4, <2>2, <2>3, <2>4 DEF Waiting
<1> QED
  BY <1>3, <1>4

\* Whoever joins a queue was on none.
LEMMA JoinEnters ==
    ASSUME TypeOK, Queues, NEW p \in Procs, NEW x \in Boxes, NEW place \in Waiting, Waits(p, x, place)
    PROVE  /\ \A b \in Boxes : p \notin Range(pros[b]) /\ p \notin Range(cons[b])
           /\ at'[p] = place /\ box'[p] = x /\ sleep'[p] # "no" /\ ~served'[p]
           /\ \A q \in Procs \ {p} : Still(q)
           /\ \/ /\ place = "send" /\ cons' = cons
                 /\ Range(pros'[x]) = Range(pros[x]) \cup {p} /\ IsInjective(pros'[x])
                 /\ \A b \in Boxes \ {x} : pros'[b] = pros[b]
              \/ /\ place \in Receiving /\ pros' = pros
                 /\ Range(cons'[x]) = Range(cons[x]) \cup {p} /\ IsInjective(cons'[x])
                 /\ \A b \in Boxes \ {x} : cons'[b] = cons[b]
<1>1. pros \in [Boxes -> Seq(Procs)] /\ cons \in [Boxes -> Seq(Procs)]
  BY QueueTypes
<1>2. at[p] \notin Waiting
  BY DEF Waits, Waiting, Receiving
<1>3. \A b \in Boxes : p \notin Range(pros[b]) /\ p \notin Range(cons[b])
  BY <1>2, QueuedWaits
<1>4. IsInjective(pros[x]) /\ IsInjective(cons[x]) /\ p \notin Range(pros[x]) /\ p \notin Range(cons[x])
  BY <1>3 DEF Queues, QueueOK
<1>5. /\ at'[p] = place /\ box'[p] = x /\ sleep'[p] # "no" /\ ~served'[p]
      /\ \A q \in Procs \ {p} : Still(q)
  BY DEF Waits, Still, TypeOK
<1>6. CASE place = "send" /\ Joins(pros, pros', x, p) /\ cons' = cons
  <2>1. /\ Range(pros'[x]) = Range(pros[x]) \cup {p}
        /\ IsInjective(pros[x]) /\ p \notin Range(pros[x]) => IsInjective(pros'[x])
        /\ \A b \in Boxes \ {x} : pros'[b] = pros[b]
    <3>1. /\ pros[x] \in Seq(Procs) /\ pros'[x] = Append(pros[x], p)
          /\ \A b \in Boxes \ {x} : pros'[b] = pros[b]
      BY <1>1, <1>6 DEF Joins
    <3> QED
      BY <3>1, AppendContents
  <2> QED
    BY <1>3, <1>4, <1>5, <1>6, <2>1
<1>7. CASE place \in Receiving /\ Joins(cons, cons', x, p) /\ pros' = pros
  <2>1. /\ Range(cons'[x]) = Range(cons[x]) \cup {p}
        /\ IsInjective(cons[x]) /\ p \notin Range(cons[x]) => IsInjective(cons'[x])
        /\ \A b \in Boxes \ {x} : cons'[b] = cons[b]
    <3>1. /\ cons[x] \in Seq(Procs) /\ cons'[x] = Append(cons[x], p)
          /\ \A b \in Boxes \ {x} : cons'[b] = cons[b]
      BY <1>1, <1>7 DEF Joins
    <3> QED
      BY <3>1, AppendContents
  <2> QED
    BY <1>3, <1>4, <1>5, <1>7, <2>1
<1> QED
  BY <1>6, <1>7 DEF Waits

LEMMA QueuesStep == TypeOK /\ Queues /\ [Next]_vars => Queues'
<1> SUFFICES ASSUME TypeOK, Queues, Effects, NEW b \in Boxes
             PROVE  /\ IsInjective(pros'[b]) /\ IsInjective(cons'[b])
                    /\ \A q \in Range(pros'[b]) :
                          at'[q] \in {"send"} /\ box'[q] = b /\ sleep'[q] # "no" /\ ~served'[q]
                    /\ \A q \in Range(cons'[b]) :
                          at'[q] \in Receiving /\ box'[q] = b /\ sleep'[q] # "no" /\ ~served'[q]
  BY StepEffects DEF Queues, QueueOK
<1> DEFINE Goal == /\ IsInjective(pros'[b]) /\ IsInjective(cons'[b])
                   /\ \A q \in Range(pros'[b]) :
                         at'[q] \in {"send"} /\ box'[q] = b /\ sleep'[q] # "no" /\ ~served'[q]
                   /\ \A q \in Range(cons'[b]) :
                         at'[q] \in Receiving /\ box'[q] = b /\ sleep'[q] # "no" /\ ~served'[q]
<1>1. Range(pros[b]) \subseteq Procs /\ Range(cons[b]) \subseteq Procs
  BY QueueTypes
<1>2. /\ at \in [Procs -> Places] /\ box \in [Procs -> Boxes]
      /\ sleep \in [Procs -> {"no", "soon", "yes"}] /\ served \in [Procs -> BOOLEAN]
      /\ pros \in [Boxes -> Seq(Procs)] /\ cons \in [Boxes -> Seq(Procs)]
  BY DEF TypeOK
<1>3. ASSUME pros'[b] = pros[b], cons'[b] = cons[b] \/ cons'[b] = << >>,
             \A q \in Procs : q \in Range(pros[b]) \/ q \in Range(cons[b]) => Still(q)
      PROVE  Goal
  <2>1. \A q \in Range(pros'[b]) : q \in Range(pros[b]) /\ Still(q)
    BY <1>1, <1>3
  <2>2. \A q \in Range(cons'[b]) : q \in Range(cons[b]) /\ Still(q)
    BY <1>1, <1>3, EmptyContents
  <2>3. /\ IsInjective(pros[b]) => IsInjective(pros'[b])
        /\ IsInjective(cons[b]) => IsInjective(cons'[b])
    BY <1>3, EmptyContents
  <2> QED
    BY <2>1, <2>2, <2>3, QueuesKept
<1>4. CASE Quiet \/ \E x \in Boxes : Made(x)
  <2>1. UNCHANGED <<pros, cons, at, box, sleep, served>>
    BY <1>4 DEF Quiet, Made
  <2> QED
    BY <1>3, <2>1 DEF Still
<1>5. ASSUME NEW p \in Procs, Dozes(p) PROVE Goal
  <2>1. UNCHANGED <<pros, cons>> /\ \A q \in Procs : Still(q)
    BY <1>2, <1>5 DEF Dozes, Still
  <2> QED
    BY <1>3, <2>1
<1>6. ASSUME NEW p \in Procs, Returns(p) \/ Wipes(p) \/ Turns(p) \/ Ends(p)
      PROVE  Goal
  <2>1. at[p] \notin Waiting \/ sleep[p] = "no"
    BY <1>6 DEF Returns, Wipes, Turns, Ends, Waiting, Receiving
  <2>2. p \notin Range(pros[b]) /\ p \notin Range(cons[b])
    BY <2>1, QueuedWaits
  <2>3. \A q \in Procs \ {p} : Still(q)
    BY <1>2, <1>6 DEF Returns, Wipes, Turns, Ends, Still
  <2>4. pros' = pros /\ (cons'[b] = cons[b] \/ cons'[b] = << >>)
    BY <1>2, <1>6 DEF Returns, Wipes, Turns, Ends
  <2> QED
    BY <1>3, <2>2, <2>3, <2>4
<1>7. ASSUME NEW p \in Procs, NEW x \in Boxes, Begins(p, x) PROVE Goal
  <2>1. p \notin Range(pros[b]) /\ p \notin Range(cons[b])
    BY <1>7, QueuedWaits DEF Begins, Waiting, Receiving
  <2>2. (\A q \in Procs \ {p} : Still(q)) /\ UNCHANGED <<pros, cons>>
    BY <1>2, <1>7 DEF Begins, Still
  <2> QED
    BY <1>3, <2>1, <2>2
<1>8. ASSUME NEW p \in Procs, NEW x \in Boxes, Serves(p, x) PROVE Goal
  <2>1. /\ IsInjective(pros'[b]) /\ IsInjective(cons'[b])
        /\ \A q \in Range(pros'[b]) : q \in Range(pros[b]) /\ q # p
        /\ \A q \in Range(cons'[b]) : q \in Range(cons[b]) /\ q # p
    BY <1>8, PopLeaves DEF Serves
  <2>2. \A q \in Procs \ {p} : Still(q)
    BY <1>2, <1>8 DEF Serves, Awake, Still
  <2> QED
    BY <1>1, <2>1, <2>2, QueuesKept
<1>9. ASSUME NEW r \in Procs, NEW p \in Procs, Wakes(r, p) PROVE Goal
  <2>1. PICK x \in Boxes : x = box[r]
    BY <1>2
  <2>2. /\ IsInjective(pros'[b]) /\ IsInjective(cons'[b])
        /\ \A q \in Range(pros'[b]) : q \in Range(pros[b]) /\ q # p
        /\ \A q \in Range(cons'[b]) : q \in Range(cons[b]) /\ q # p
    BY <1>9, <2>1, PopLeaves DEF Wakes
  <2>3. r \notin Range(pros[b]) /\ r \notin Range(cons[b])
    BY <1>9, QueuedWaits DEF Wakes, Waiting, Receiving
  <2>4. \A q \in Procs \ {p, r} : Still(q)
    BY <1>2, <1>9 DEF Wakes, Awake, Still
  <2> QED
    BY <1>1, <2>2, <2>3, <2>4, QueuesKept
<1>10. ASSUME NEW p \in Procs, NEW x \in Boxes, NEW place \in Waiting, Waits(p, x, place)
       PROVE  Goal
  <2>1. /\ p \notin Range(pros[b]) /\ p \notin Range(cons[b])
        /\ at'[p] = place /\ box'[p] = x /\ sleep'[p] # "no" /\ ~served'[p]
        /\ \A q \in Procs \ {p} : Still(q)
        /\ \/ /\ place = "send" /\ cons' = cons
              /\ Range(pros'[x]) = Range(pros[x]) \cup {p} /\ IsInjective(pros'[x])
              /\ \A y \in Boxes \ {x} : pros'[y] = pros[y]
           \/ /\ place \in Receiving /\ pros' = pros
              /\ Range(cons'[x]) = Range(cons[x]) \cup {p} /\ IsInjective(cons'[x])
              /\ \A y \in Boxes \ {x} : cons'[y] = cons[y]
    BY <1>10, JoinEnters
  <2>2. CASE b # x
    <3>1. pros'[b] = pros[b] /\ cons'[b] = cons[b]
      BY <2>1, <2>2
    <3> QED
      BY <1>3, <2>1, <3>1
  <2>3. CASE b = x /\ place = "send"
    <3>1. cons' = cons /\ Range(pros'[b]) = Range(pros[b]) \cup {p} /\ IsInjective(pros'[b])
      BY <2>1, <2>3 DEF Receiving
    <3>2. IsInjective(cons'[b])
      BY <3>1 DEF Queues, QueueOK
    <3>3. \A q \in Range(cons'[b]) :
             at'[q] \in Receiving /\ box'[q] = b /\ sleep'[q] # "no" /\ ~served'[q]
      BY <1>1, <2>1, <3>1 DEF Queues, QueueOK, Still
    <3>4. ASSUME NEW q \in Range(pros'[b])
          PROVE  at'[q] \in {"send"} /\ box'[q] = b /\ sleep'[q] # "no" /\ ~served'[q]
      <4>1. CASE q = p
        BY <2>1, <2>3, <4>1
      <4>2. CASE q # p
        BY <1>1, <2>1, <3>1, <4>2 DEF Queues, QueueOK, Still
      <4> QED
        BY <4>1, <4>2
    <3> QED
      BY <3>1, <3>2, <3>3, <3>4
  <2>4. CASE b = x /\ place \in Receiving
    <3>1. pros' = pros /\ Range(cons'[b]) = Range(cons[b]) \cup {p} /\ IsInjective(cons'[b])
      BY <2>1, <2>4 DEF Receiving
    <3>2. IsInjective(pros'[b])
      BY <3>1 DEF Queues, QueueOK
    <3>3. \A q \in Range(pros'[b]) :
             at'[q] \in {"send"} /\ box'[q] = b /\ sleep'[q] # "no" /\ ~served'[q]
      BY <1>1, <2>1, <3>1 DEF Queues, QueueOK, Still
    <3>4. ASSUME NEW q \in Range(cons'[b])
          PROVE  at'[q] \in Receiving /\ box'[q] = b /\ sleep'[q] # "no" /\ ~served'[q]
      <4>1. CASE q = p
        BY <2>1, <2>4, <4>1
      <4>2. CASE q # p
        BY <1>1, <2>1, <3>1, <4>2 DEF Queues, QueueOK, Still
      <4> QED
        BY <4>1, <4>2
    <3> QED
      BY <3>1, <3>2, <3>3, <3>4
  <2> QED
    BY <2>2, <2>3, <2>4 DEF Waiting
<1> QED
  BY <1>4, <1>5, <1>6, <1>7, <1>8, <1>9, <1>10 DEF Effects

-----------------------------------------------------------------------------
(* A box that is being released keeps that status until the one process that   *)
(* releases it is done, and has no consumers once it has come to the           *)
(* producers.  A box that does not exist has no queue.                         *)

Releases ==
    /\ \A p \in Procs : at[p] \in Ending => status[box[p]] = "RELEASE"
    /\ \A p \in Procs : at[p] \in {"pros", "wipePro"} => cons[box[p]] = << >>
    /\ \A p, q \in Procs : at[p] \in Ending /\ at[q] \in Ending /\ box[p] = box[q] => p = q
    /\ \A b \in Boxes : status[b] = "EMPTY" => cons[b] = << >> /\ pros[b] = << >>

LEMMA ReleasesInit == Init => Releases
<1> SUFFICES ASSUME Init PROVE Releases
  OBVIOUS
<1>1. /\ \A p \in Procs : at[p] = "user"
      /\ \A b \in Boxes : pros[b] = << >> /\ cons[b] = << >>
  BY DEF Init
<1> QED
  BY <1>1 DEF Releases, Ending, Wiping

LEMMA ReleasesStep ==
    ASSUME "dead" \notin Conduct
    PROVE  TypeOK /\ Releases /\ [Next]_vars => Releases'
<1> SUFFICES ASSUME TypeOK, Releases, Effects PROVE Releases'
  BY StepEffects
<1>1. /\ at \in [Procs -> Places] /\ box \in [Procs -> Boxes]
      /\ status \in [Boxes -> {"EMPTY", "ACTIVE", "RELEASE"}]
      /\ pros \in [Boxes -> Seq(Procs)] /\ cons \in [Boxes -> Seq(Procs)]
  BY DEF TypeOK
<1>2. \A b \in Boxes : Usable(b) <=> status[b] = "ACTIVE"
  BY DEF Usable
<1>3. CASE Quiet \/ \E p \in Procs : Dozes(p)
  <2>1. UNCHANGED <<status, pros, cons, at, box>>
    BY <1>3 DEF Quiet, Dozes
  <2> QED
    BY <2>1 DEF Releases
<1>4. ASSUME NEW b \in Boxes, Made(b) PROVE Releases'
  BY <1>1, <1>4 DEF Releases, Made
<1>5. ASSUME NEW p \in Procs, Returns(p) PROVE Releases'
  BY <1>1, <1>5 DEF Releases, Returns, Ending, Wiping
<1>6. ASSUME NEW p \in Procs, Wipes(p) \/ Turns(p) PROVE Releases'
  <2>1. /\ UNCHANGED <<status, pros, cons, box>>
        /\ \A q \in Procs : at'[q] \in Ending => at[q] \in Ending
        /\ \A q \in Procs : at'[q] \in {"pros", "wipePro"} =>
              at[q] \in {"pros", "wipePro"} \/ cons[box[q]] = << >>
    BY <1>1, <1>6 DEF Wipes, Turns, Ending, Wiping
  <2> QED
    BY <2>1 DEF Releases
<1>7. ASSUME NEW p \in Procs, Ends(p) PROVE Releases'
  BY <1>1, <1>7 DEF Releases, Ends, Ending, Wiping
<1>8. ASSUME NEW p \in Procs, NEW b \in Boxes, Begins(p, b) PROVE Releases'
  BY <1>1, <1>2, <1>8 DEF Releases, Begins, Ending, Wiping
<1>9. ASSUME NEW p \in Procs, NEW b \in Boxes, Serves(p, b) PROVE Releases'
  BY <1>1, <1>9 DEF Releases, Serves, Pops
<1>10. ASSUME NEW p \in Procs, NEW b \in Boxes, NEW place \in Waiting, Waits(p, b, place)
       PROVE  Releases'
  BY <1>1, <1>2, <1>10 DEF Releases, Waits, Joins, Ending, Wiping, Waiting, Receiving
<1>11. ASSUME NEW p \in Procs, NEW q \in Procs, Wakes(p, q) PROVE Releases'
  <2>1. PICK b \in Boxes : b = box[p]
    BY <1>1
  <2>2. /\ UNCHANGED <<status, box>>
        /\ \A r \in Procs : at'[r] \in Ending => at[r] \in Ending
        /\ \A r \in Procs : at'[r] \in {"pros", "wipePro"} => at[r] \in {"pros", "wipePro"}
        /\ at[p] \in Ending
    BY <1>1, <1>11 DEF Wakes, Ending, Wiping
  <2>3. /\ \A x \in Boxes \ {b} : pros'[x] = pros[x] /\ cons'[x] = cons[x]
        /\ cons[b] = << >> => cons'[b] = << >>
    BY <1>1, <1>11, <2>1 DEF Wakes, Pops
  <2>4. status[b] = "RELEASE"
    BY <2>1, <2>2 DEF Releases
  <2>5. ASSUME NEW r \in Procs, at'[r] \in {"pros", "wipePro"} PROVE cons'[box'[r]] = << >>
    <3>1. PICK x \in Boxes : x = box[r] /\ x = box'[r]
      BY <1>1, <2>2
    <3>2. cons[x] = << >>
      BY <2>2, <2>5, <3>1 DEF Releases
    <3> QED
      BY <2>3, <3>1, <3>2
  <2>6. ASSUME NEW x \in Boxes, status'[x] = "EMPTY" PROVE cons'[x] = << >> /\ pros'[x] = << >>
    BY <2>2, <2>3, <2>4, <2>6 DEF Releases
  <2> QED
    BY <2>2, <2>5, <2>6 DEF Releases
<1> QED
  BY <1>3, <1>4, <1>5, <1>6, <1>7, <1>8, <1>9, <1>10, <1>11 DEF Effects

-----------------------------------------------------------------------------
(* The slots of the messages.                                                  *)

Used(st) == {s \in Slots : st[s] = "ACTIVE"}

\* Each ACTIVE slot is on the queue sl[b] of its box, once, and the counters are exact.
SlotsOK(sl, st, sb, num, used) ==
    /\ \A b \in Boxes : /\ num[b] = Len(sl[b]) /\ IsInjective(sl[b])
                        /\ \A s \in Range(sl[b]) : st[s] = "ACTIVE" /\ sb[s] = b
    /\ \A s \in Slots : st[s] = "ACTIVE" => \E b \in Boxes : s \in Range(sl[b])
    /\ used = Cardinality(Used(st))

LEMMA UsedFinite ==
    ASSUME NEW st \in [Slots -> {"EMPTY", "ACTIVE"}]
    PROVE  /\ IsFiniteSet(Used(st)) /\ Cardinality(Used(st)) \in 0 .. MAXSLOTS
           /\ Cardinality(Used(st)) # MAXSLOTS => \E s \in Slots : st[s] = "EMPTY"
<1>1. IsFiniteSet(Slots) /\ Cardinality(Slots) = MAXSLOTS
  BY SizeAssumption, FS_Interval DEF Slots
<1>2. Used(st) \subseteq Slots
  BY DEF Used
<1>3. IsFiniteSet(Used(st)) /\ Cardinality(Used(st)) \in Nat /\ Cardinality(Used(st)) <= MAXSLOTS
  BY <1>1, <1>2, FS_Subset, FS_CardinalityType
<1>4. ASSUME \A s \in Slots : st[s] # "EMPTY" PROVE Cardinality(Used(st)) = MAXSLOTS
  <2>1. Used(st) = Slots
    BY <1>4 DEF Used
  <2> QED
    BY <1>1, <2>1
<1> QED
  BY <1>3, <1>4, SizeAssumption

\* Queue_pop and cleanSlot: the slot of the oldest message of b becomes free.
LEMMA FreeKeeps ==
    ASSUME NEW sl \in [Boxes -> Seq(Slots)], NEW st \in [Slots -> {"EMPTY", "ACTIVE"}],
           NEW sb \in [Slots -> Boxes \cup {NoBox}], NEW num \in [Boxes -> Int], NEW used \in Int,
           SlotsOK(sl, st, sb, num, used), NEW b \in Boxes, sl[b] # << >>, NEW s, s = Head(sl[b])
    PROVE  /\ s \in Slots /\ st[s] = "ACTIVE"
           /\ SlotsOK([sl EXCEPT ![b] = Tail(sl[b])], [st EXCEPT ![s] = "EMPTY"], sb,
                      [num EXCEPT ![b] = num[b] - 1], used - 1)
<1> DEFINE sl2 == [sl EXCEPT ![b] = Tail(sl[b])]
           st2 == [st EXCEPT ![s] = "EMPTY"]
           num2 == [num EXCEPT ![b] = num[b] - 1]
<1>1. sl[b] \in Seq(Slots)
  OBVIOUS
<1>2. /\ s \in Slots /\ s \in Range(sl[b]) /\ Len(Tail(sl[b])) = Len(sl[b]) - 1
      /\ Range(sl[b]) = Range(Tail(sl[b])) \cup {s}
      /\ IsInjective(sl[b]) => IsInjective(Tail(sl[b])) /\ s \notin Range(Tail(sl[b]))
  BY <1>1, TailContents
<1>3. /\ \A x \in Boxes : /\ num[x] = Len(sl[x]) /\ IsInjective(sl[x])
                          /\ \A t \in Range(sl[x]) : st[t] = "ACTIVE" /\ sb[t] = x
      /\ \A t \in Slots : st[t] = "ACTIVE" => \E x \in Boxes : t \in Range(sl[x])
      /\ used = Cardinality(Used(st))
  BY DEF SlotsOK
<1>4. st[s] = "ACTIVE" /\ sb[s] = b
  BY <1>2, <1>3
<1>5. ASSUME NEW x \in Boxes
      PROVE  /\ num2[x] = Len(sl2[x]) /\ IsInjective(sl2[x])
             /\ \A t \in Range(sl2[x]) : st2[t] = "ACTIVE" /\ sb[t] = x
  <2>1. CASE x = b
    <3>1. sl2[x] = Tail(sl[b]) /\ num2[x] = num[b] - 1
      BY <2>1
    <3>2. ASSUME NEW t \in Range(sl2[x]) PROVE st2[t] = "ACTIVE" /\ sb[t] = x
      <4>1. t \in Range(sl[b]) /\ t # s
        BY <1>2, <1>3, <3>1
      <4>2. t \in Slots /\ st[t] = "ACTIVE" /\ sb[t] = b
        BY <1>1, <1>3, <4>1, RangeOfSeq
      <4> QED
        BY <2>1, <4>1, <4>2
    <3> QED
      BY <1>2, <1>3, <3>1, <3>2
  <2>2. CASE x # b
    <3>1. sl2[x] = sl[x] /\ num2[x] = num[x]
      BY <2>2
    <3>2. ASSUME NEW t \in Range(sl2[x]) PROVE st2[t] = "ACTIVE" /\ sb[t] = x
      <4>1. st[t] = "ACTIVE" /\ sb[t] = x /\ sl[x] \in Seq(Slots) /\ t \in Range(sl[x])
        BY <1>3, <3>1
      <4>2. t # s /\ t \in Slots
        BY <1>4, <2>2, <4>1, RangeOfSeq
      <4> QED
        BY <4>1, <4>2
    <3> QED
      BY <1>3, <3>1, <3>2
  <2> QED
    BY <2>1, <2>2
<1>6. ASSUME NEW t \in Slots, st2[t] = "ACTIVE" PROVE \E x \in Boxes : t \in Range(sl2[x])
  <2>1. t # s /\ st[t] = "ACTIVE"
    BY <1>6
  <2>2. PICK x \in Boxes : t \in Range(sl[x])
    BY <1>3, <2>1
  <2>3. t \in Range(sl2[x])
    <3>1. CASE x = b
      BY <1>2, <2>1, <2>2, <3>1
    <3>2. CASE x # b
      <4>1. sl2[x] = sl[x]
        BY <3>2
      <4> QED
        BY <2>2, <4>1
    <3> QED
      BY <3>1, <3>2
  <2> QED
    BY <2>3
<1>7. used - 1 = Cardinality(Used(st2))
  <2>1. Used(st2) = Used(st) \ {s} /\ s \in Used(st)
    BY <1>2, <1>4 DEF Used
  <2>2. Cardinality(Used(st) \ {s}) = Cardinality(Used(st)) - 1
    BY <2>1, UsedFinite, FS_RemoveElement
  <2> QED
    BY <1>3, <2>1, <2>2
<1>8. SlotsOK(sl2, st2, sb, num2, used - 1)
  BY <1>5, <1>6, <1>7 DEF SlotsOK
<1> QED
  BY <1>2, <1>4, <1>8

\* createMailSlot: a free slot becomes that of the youngest message of b.
LEMMA FillKeeps ==
    ASSUME NEW sl \in [Boxes -> Seq(Slots)], NEW st \in [Slots -> {"EMPTY", "ACTIVE"}],
           NEW sb \in [Slots -> Boxes \cup {NoBox}], NEW num \in [Boxes -> Int], NEW used \in Int,
           SlotsOK(sl, st, sb, num, used), NEW b \in Boxes, NEW s \in Slots, st[s] = "EMPTY"
    PROVE  SlotsOK([sl EXCEPT ![b] = Append(sl[b], s)], [st EXCEPT ![s] = "ACTIVE"],
                   [sb EXCEPT ![s] = b], [num EXCEPT ![b] = num[b] + 1], used + 1)
<1> DEFINE sl2 == [sl EXCEPT ![b] = Append(sl[b], s)]
           st2 == [st EXCEPT ![s] = "ACTIVE"]
           sb2 == [sb EXCEPT ![s] = b]
           num2 == [num EXCEPT ![b] = num[b] + 1]
<1>1. sl[b] \in Seq(Slots)
  OBVIOUS
<1>2. /\ Len(Append(sl[b], s)) = Len(sl[b]) + 1
      /\ Range(Append(sl[b], s)) = Range(sl[b]) \cup {s}
      /\ IsInjective(sl[b]) /\ s \notin Range(sl[b]) => IsInjective(Append(sl[b], s))
  BY <1>1, AppendContents
<1>3. /\ \A x \in Boxes : /\ num[x] = Len(sl[x]) /\ IsInjective(sl[x])
                          /\ \A t \in Range(sl[x]) : st[t] = "ACTIVE" /\ sb[t] = x
      /\ \A t \in Slots : st[t] = "ACTIVE" => \E x \in Boxes : t \in Range(sl[x])
      /\ used = Cardinality(Used(st))
  BY DEF SlotsOK
<1>4. \A x \in Boxes : s \notin Range(sl[x])
  BY <1>3
<1>5. ASSUME NEW x \in Boxes
      PROVE  /\ num2[x] = Len(sl2[x]) /\ IsInjective(sl2[x])
             /\ \A t \in Range(sl2[x]) : st2[t] = "ACTIVE" /\ sb2[t] = x
  <2>1. sl[x] \in Seq(Slots) /\ Range(sl[x]) \subseteq Slots
    BY RangeOfSeq
  <2>2. ASSUME NEW t \in Range(sl[x]) PROVE st2[t] = "ACTIVE" /\ sb2[t] = x
    <3>1. t # s /\ t \in Slots /\ st[t] = "ACTIVE" /\ sb[t] = x
      BY <1>3, <1>4, <2>1, <2>2
    <3> QED
      BY <3>1
  <2>3. CASE x = b
    <3>1. sl2[x] = Append(sl[b], s) /\ num2[x] = num[b] + 1
      BY <2>3
    <3>2. st2[s] = "ACTIVE" /\ sb2[s] = b
      OBVIOUS
    <3> QED
      BY <1>2, <1>3, <1>4, <2>2, <2>3, <3>1, <3>2
  <2>4. CASE x # b
    <3>1. sl2[x] = sl[x] /\ num2[x] = num[x]
      BY <2>4
    <3> QED
      BY <1>3, <2>2, <3>1
  <2> QED
    BY <2>3, <2>4
<1>6. ASSUME NEW t \in Slots, st2[t] = "ACTIVE" PROVE \E x \in Boxes : t \in Range(sl2[x])
  <2>1. CASE t = s
    <3>1. t \in Range(sl2[b])
      BY <1>2, <2>1
    <3> QED
      BY <3>1
  <2>2. CASE t # s
    <3>1. st[t] = "ACTIVE"
      BY <1>6, <2>2
    <3>2. PICK x \in Boxes : t \in Range(sl[x])
      BY <1>3, <3>1
    <3>3. t \in Range(sl2[x])
      <4>1. CASE x = b
        BY <1>2, <3>2, <4>1
      <4>2. CASE x # b
        <5>1. sl2[x] = sl[x]
          BY <4>2
        <5> QED
          BY <3>2, <5>1
      <4> QED
        BY <4>1, <4>2
    <3> QED
      BY <3>3
  <2> QED
    BY <2>1, <2>2
<1>7. used + 1 = Cardinality(Used(st2))
  <2>1. Used(st2) = Used(st) \cup {s} /\ s \notin Used(st)
    BY DEF Used
  <2> QED
    BY <1>3, <2>1, UsedFinite, FS_AddElement
<1> QED
  BY <1>5, <1>6, <1>7 DEF SlotsOK

SlotsInv ==
    /\ SlotsOK(slots, slotStatus, slotBox, currentNumOfSlots, globalSlotUsed)
    /\ \A b \in Boxes : status[b] # "ACTIVE" => slots[b] = << >>
    /\ \A b \in Boxes : status[b] # "EMPTY" => Len(slots[b]) <= totalSlots[b]

\* What the invariants about slots need of the callers: no message is thrown away, and
\* no box used that is not there.
Careful == Conduct \cap {"drop", "small", "dead"} = {}

LEMMA SlotsInit == Init => SlotsInv
<1> SUFFICES ASSUME Init PROVE SlotsInv
  OBVIOUS
<1>1. /\ \A b \in Boxes : slots[b] = << >> /\ currentNumOfSlots[b] = 0
      /\ \A s \in Slots : slotStatus[s] = "EMPTY"
      /\ globalSlotUsed = 0
  BY DEF Init
<1>2. \A b \in Boxes : status[b] # "EMPTY" => totalSlots[b] = 0
  BY DEF Init
<1>3. Used(slotStatus) = {}
  BY <1>1 DEF Used
<1>4. SlotsOK(slots, slotStatus, slotBox, currentNumOfSlots, globalSlotUsed)
  BY <1>1, <1>3, EmptyContents, FS_EmptySet DEF SlotsOK
<1> QED
  BY <1>1, <1>2, <1>4 DEF SlotsInv

\* A slot is free whenever SendHelper looks for one.
LEMMA SlotFound ==
    ASSUME NEW st \in [Slots -> {"EMPTY", "ACTIVE"}], \E s \in Slots : st[s] = "EMPTY"
    PROVE  NewSlot(st) # -1
<1>1. FreeSlots(st) # {} /\ FreeSlots(st) \in SUBSET Nat
  BY ConstantFacts DEF FreeSlots
<1>2. Min(FreeSlots(st)) \in Slots
  BY <1>1, MinIn DEF FreeSlots
<1> QED
  BY <1>1, <1>2, ConstantFacts DEF NewSlot

\* A message is put into a slot of b.
LEMMA PutKeeps ==
    ASSUME TypeOK, SlotsOK(slots, slotStatus, slotBox, currentNumOfSlots, globalSlotUsed),
           NEW b \in Boxes, NEW m, globalSlotUsed # MAXSLOTS,
           Fill(b, m, slotStatus, slots[b], currentNumOfSlots[b], globalSlotUsed)
    PROVE  /\ SlotsOK(slots', slotStatus', slotBox', currentNumOfSlots', globalSlotUsed')
           /\ Len(slots'[b]) = Len(slots[b]) + 1 /\ \A x \in Boxes \ {b} : slots'[x] = slots[x]
           /\ corrupt' = corrupt
<1>1. /\ slots \in [Boxes -> Seq(Slots)] /\ slotStatus \in [Slots -> {"EMPTY", "ACTIVE"}]
      /\ slotBox \in [Slots -> Boxes \cup {NoBox}] /\ currentNumOfSlots \in [Boxes -> Int]
      /\ globalSlotUsed \in Int
  BY DEF TypeOK
<1>2. \E s \in Slots : slotStatus[s] = "EMPTY"
  BY <1>1, UsedFinite DEF SlotsOK
<1>a. PICK s \in Slots : s = NewSlot(slotStatus) /\ s # -1 /\ slotStatus[s] = "EMPTY"
  BY <1>1, <1>2, SlotFound, NewSlotType
<1>3. /\ slotStatus' = [slotStatus EXCEPT ![s] = "ACTIVE"] /\ slotBox' = [slotBox EXCEPT ![s] = b]
      /\ slots' = [slots EXCEPT ![b] = Append(slots[b], s)]
      /\ currentNumOfSlots' = [currentNumOfSlots EXCEPT ![b] = currentNumOfSlots[b] + 1]
      /\ globalSlotUsed' = globalSlotUsed + 1 /\ corrupt' = corrupt
  BY <1>a DEF Fill
<1>4. SlotsOK([slots EXCEPT ![b] = Append(slots[b], s)], [slotStatus EXCEPT ![s] = "ACTIVE"],
              [slotBox EXCEPT ![s] = b],
              [currentNumOfSlots EXCEPT ![b] = currentNumOfSlots[b] + 1], globalSlotUsed + 1)
  BY <1>1, <1>a, FillKeeps
<1>5. slots'[b] = Append(slots[b], s) /\ slots[b] \in Seq(Slots)
      /\ \A x \in Boxes \ {b} : slots'[x] = slots[x]
  BY <1>1, <1>3
<1> QED
  BY <1>3, <1>4, <1>5, AppendContents

\* The oldest message of b is taken; that of a waiting producer may take its place.
LEMMA TakeKeeps ==
    ASSUME TypeOK, SlotsOK(slots, slotStatus, slotBox, currentNumOfSlots, globalSlotUsed),
           NEW b \in Boxes, NEW p, NEW n, RecvSlot(p, b, n)
    PROVE  /\ SlotsOK(slots', slotStatus', slotBox', currentNumOfSlots', globalSlotUsed')
           /\ Len(slots'[b]) = IF pros[b] = << >> THEN Len(slots[b]) - 1 ELSE Len(slots[b])
           /\ \A x \in Boxes \ {b} : slots'[x] = slots[x]
           /\ corrupt' = corrupt
<1>1. /\ slots \in [Boxes -> Seq(Slots)] /\ slotStatus \in [Slots -> {"EMPTY", "ACTIVE"}]
      /\ slotBox \in [Slots -> Boxes \cup {NoBox}] /\ currentNumOfSlots \in [Boxes -> Int]
      /\ globalSlotUsed \in Int
  BY DEF TypeOK
<1>2. slots[b] # << >> /\ slots[b] \in Seq(Slots)
  BY <1>1 DEF RecvSlot
<1>3. PICK s \in Slots : s = Head(slots[b])
  BY <1>2, TailContents
<1>4. PICK sl, st, num, used :
        /\ sl = [slots EXCEPT ![b] = Tail(slots[b])] /\ st = [slotStatus EXCEPT ![s] = "EMPTY"]
        /\ num = [currentNumOfSlots EXCEPT ![b] = currentNumOfSlots[b] - 1] /\ used = globalSlotUsed - 1
  OBVIOUS
<1>5. SlotsOK(sl, st, slotBox, num, used)
  BY <1>1, <1>2, <1>3, <1>4, FreeKeeps
<1>6. /\ sl[b] = Tail(slots[b]) /\ sl[b] \in Seq(Slots) /\ Len(sl[b]) = Len(slots[b]) - 1
      /\ Len(slots[b]) \in Nat
      /\ \A x \in Boxes \ {b} : sl[x] = slots[x]
  BY <1>1, <1>2, <1>4, TailContents
<1>7. CASE pros[b] = << >>
  <2>1. slots' = sl /\ slotStatus' = st /\ slotBox' = slotBox /\ currentNumOfSlots' = num
        /\ globalSlotUsed' = used /\ corrupt' = corrupt
    BY <1>3, <1>4, <1>7 DEF RecvSlot, FirstOf, Freed
  <2> QED
    BY <1>5, <1>6, <1>7, <2>1
<1>8. CASE pros[b] # << >>
  <2>1. /\ sl \in [Boxes -> Seq(Slots)] /\ st \in [Slots -> {"EMPTY", "ACTIVE"}]
        /\ num \in [Boxes -> Int] /\ used \in Int /\ st[s] = "EMPTY"
    BY <1>1, <1>4, <1>6
  <2>2. PICK m : Fill(b, m, st, sl[b], num[b], used)
    <3>1. Fill(b, proMsg[Head(pros[b])], st, Tail(slots[b]), currentNumOfSlots[b] - 1, globalSlotUsed - 1)
      BY <1>3, <1>4, <1>8 DEF RecvSlot, FirstOf, Freed
    <3>2. num[b] = currentNumOfSlots[b] - 1
      BY <1>1, <1>4
    <3> QED
      BY <1>4, <1>6, <3>1, <3>2
  <2>a. PICK t \in Slots : t = NewSlot(st) /\ t # -1 /\ st[t] = "EMPTY"
    BY <2>1, SlotFound, NewSlotType
  <2>3. /\ slotStatus' = [st EXCEPT ![t] = "ACTIVE"] /\ slotBox' = [slotBox EXCEPT ![t] = b]
        /\ slots' = [slots EXCEPT ![b] = Append(sl[b], t)]
        /\ currentNumOfSlots' = [currentNumOfSlots EXCEPT ![b] = num[b] + 1]
        /\ globalSlotUsed' = used + 1 /\ corrupt' = corrupt
    BY <2>2, <2>a DEF Fill
  <2>4. SlotsOK([sl EXCEPT ![b] = Append(sl[b], t)], [st EXCEPT ![t] = "ACTIVE"],
                [slotBox EXCEPT ![t] = b], [num EXCEPT ![b] = num[b] + 1], used + 1)
    BY <1>1, <1>5, <2>1, <2>a, FillKeeps
  <2>5. slots' = [sl EXCEPT ![b] = Append(sl[b], t)]
    BY <1>1, <1>4, <2>3
  <2>6. currentNumOfSlots' = [num EXCEPT ![b] = num[b] + 1]
    BY <1>1, <1>4, <2>3
  <2>7. slots'[b] = Append(sl[b], t) /\ \A x \in Boxes \ {b} : slots'[x] = slots[x]
    BY <1>1, <2>3
  <2>8. Len(slots'[b]) = Len(slots[b])
    BY <1>6, <2>7, AppendContents
  <2> QED
    BY <1>8, <2>3, <2>4, <2>5, <2>6, <2>7, <2>8
<1> QED
  BY <1>7, <1>8

\* What the steps that take or put no message do to the slots and to the boxes.
LEMMA SlotsLeft ==
    ASSUME TypeOK, Careful, [Next]_vars
    PROVE  \/ /\ UNCHANGED <<slots, slotStatus, slotBox, currentNumOfSlots, globalSlotUsed, totalSlots,
                             status>>
              /\ corrupt' = corrupt \/ \E p \in Procs : WipeConsumer(p) \/ WipeProducer(p)
           \/ \E p \in Procs, g \in Geometries : Create(p, g)
           \/ \E p \in Procs, b \in Boxes : Release(p, b)
           \/ \E p \in Procs : ReleaseEnds(p)
           \/ \E b \in Boxes, m \in Messages : Store(b, m)
           \/ \E p \in Procs, b \in Boxes, n \in BufSizes : RecvSlot(p, b, n)
<1> DEFINE Left == /\ UNCHANGED <<slots, slotStatus, slotBox, currentNumOfSlots, globalSlotUsed,
                                  totalSlots, status>>
                   /\ corrupt' = corrupt \/ \E p \in Procs : WipeConsumer(p) \/ WipeProducer(p)
<1> USE DEF boxVars, queueVars, slotVars, shadows, calls
<1>1. ASSUME NEW p \in Procs, CreateFails(p) \/ Zap(p) \/ BlockMe(p) \/ SendReturns(p) \/ RecvReturns(p)
      PROVE  Left
  BY <1>1 DEF CreateFails, Zap, BlockMe, SendReturns, RecvReturns
<1>2. ASSUME NEW b \in Boxes, NEW m \in Messages, SendRefused(b, m) \/ CondSendFull(b, m) \/ Deliver(b, m)
      PROVE  Left
  BY <1>2 DEF SendRefused, CondSendFull, Deliver
<1>3. ASSUME NEW p \in Procs, NEW b \in Boxes, NEW m \in Messages, SendWait(p, b, m)
      PROVE  Left
  BY <1>3 DEF SendWait
<1>4. ASSUME NEW p \in Procs, NEW b \in Boxes, Rendezvous(p, b)
      PROVE  Left
  BY <1>4 DEF Rendezvous
<1>5. ASSUME NEW p \in Procs, NEW b \in Boxes, NEW n \in BufSizes, RecvWait(p, b, n) \/ CondRecvNothing(p, b, n)
      PROVE  Left
  BY <1>5 DEF RecvWait, CondRecvNothing
<1>6. ASSUME NEW p \in Procs, NEW b \in Boxes, NEW n \in BufSizes, RecvSmall(p, b, n)
      PROVE  FALSE
  BY <1>6 DEF RecvSmall, Careful
<1>7. ASSUME NEW p \in Procs, ReleaseConsumer(p) \/ ConsumersDone(p) \/ ReleaseProducer(p)
      PROVE  Left
  BY <1>7 DEF ReleaseConsumer, ConsumersDone, ReleaseProducer
<1>8. ASSUME NEW p \in Procs, WipeConsumer(p) \/ WipeProducer(p)
      PROVE  Left
  BY <1>8 DEF WipeConsumer, WipeProducer
<1>9. CASE UNCHANGED vars
  BY <1>9 DEF vars
<1> QED
  BY <1>1, <1>2, <1>3, <1>4, <1>5, <1>6, <1>7, <1>8, <1>9 DEF Next, Step, ReleaseStep, Stopped

LEMMA SlotsStep ==
    ASSUME Careful
    PROVE  TypeOK /\ Releases /\ SlotsInv /\ [Next]_vars => SlotsInv'
<1> SUFFICES ASSUME TypeOK, Releases, SlotsInv, [Next]_vars PROVE SlotsInv'
  OBVIOUS
<1>1. /\ slots \in [Boxes -> Seq(Slots)] /\ totalSlots \in [Boxes -> Int]
      /\ status \in [Boxes -> {"EMPTY", "ACTIVE", "RELEASE"}]
      /\ currentNumOfSlots \in [Boxes -> Int] /\ box \in [Procs -> Boxes]
      /\ \A b \in Boxes : Len(slots[b]) \in Nat
  BY DEF TypeOK
<1>2. /\ SlotsOK(slots, slotStatus, slotBox, currentNumOfSlots, globalSlotUsed)
      /\ \A b \in Boxes : status[b] # "ACTIVE" => slots[b] = << >>
      /\ \A b \in Boxes : status[b] # "EMPTY" => Len(slots[b]) <= totalSlots[b]
      /\ \A b \in Boxes : currentNumOfSlots[b] = Len(slots[b])
  BY DEF SlotsInv, SlotsOK
<1>3. \A b \in Boxes : Usable(b) => status[b] = "ACTIVE"
  BY DEF Usable, Careful
<1>4. SUFFICES /\ SlotsOK(slots', slotStatus', slotBox', currentNumOfSlots', globalSlotUsed')
               /\ \A b \in Boxes : status'[b] # "ACTIVE" => slots'[b] = << >>
               /\ \A b \in Boxes : status'[b] # "EMPTY" => Len(slots'[b]) <= totalSlots'[b]
  BY DEF SlotsInv, SlotsOK
<1> DEFINE Goal == /\ SlotsOK(slots', slotStatus', slotBox', currentNumOfSlots', globalSlotUsed')
                   /\ \A b \in Boxes : status'[b] # "ACTIVE" => slots'[b] = << >>
                   /\ \A b \in Boxes : status'[b] # "EMPTY" => Len(slots'[b]) <= totalSlots'[b]
<1>5. CASE UNCHANGED <<slots, slotStatus, slotBox, currentNumOfSlots, globalSlotUsed, totalSlots, status>>
  BY <1>2, <1>5
<1>6. ASSUME NEW p \in Procs, NEW g \in Geometries, Create(p, g) PROVE Goal
  <2>1. PICK b \in Boxes : b = NewBox /\ status[b] = "EMPTY"
    BY <1>6, NewBoxType DEF Create
  <2>2. /\ UNCHANGED <<slots, slotStatus, slotBox, currentNumOfSlots, globalSlotUsed>>
        /\ status' = [status EXCEPT ![b] = "ACTIVE"] /\ totalSlots' = [totalSlots EXCEPT ![b] = g[1]]
    BY <1>6, <2>1 DEF Create, queueVars, slotVars
  <2>3. g[1] >= 0 /\ Len(<< >>) = 0 /\ slots[b] = << >>
    BY <1>2, <2>1, ConstantFacts
  <2>4. \A x \in Boxes : status'[x] # "EMPTY" => Len(slots'[x]) <= totalSlots'[x]
    BY <1>1, <1>2, <2>2, <2>3
  <2>5. \A x \in Boxes : status'[x] # "ACTIVE" => slots'[x] = << >>
    BY <1>1, <1>2, <2>2
  <2> QED
    BY <1>2, <2>2, <2>4, <2>5
<1>7. ASSUME NEW p \in Procs, NEW b \in Boxes, Release(p, b) PROVE Goal
  <2>1. Len(slots[b]) = 0 /\ slots[b] = << >> /\ status[b] = "ACTIVE"
    <3>1. ~(Len(slots[b]) > 0) /\ Usable(b)
      BY <1>7 DEF Release, Careful
    <3>2. slots[b] \in Seq(Slots)
      BY <1>1
    <3> QED
      BY <1>1, <1>3, <3>1, <3>2, EmptySeq
  <2>2. /\ status' = [status EXCEPT ![b] = "RELEASE"] /\ totalSlots' = totalSlots
        /\ slots' = [slots EXCEPT ![b] = << >>]
        /\ UNCHANGED <<slotStatus, slotBox>>
    BY <1>7, <2>1 DEF Release, Releasing
  <2>3. slots' = slots
    BY <1>1, <2>1, <2>2
  <2>4. globalSlotUsed' = globalSlotUsed
    <3>1. globalSlotUsed' = globalSlotUsed - 2 * 0
      BY <1>7, <2>1 DEF Release
    <3> QED
      BY <3>1 DEF TypeOK
  <2>5. currentNumOfSlots' = currentNumOfSlots
    <3>1. currentNumOfSlots' = [x \in Boxes |-> IF x = b THEN currentNumOfSlots[x] - 0
                                                ELSE currentNumOfSlots[x]]
      BY <1>7, <2>1 DEF Release
    <3> QED
      BY <1>1, <3>1
  <2>6. \A x \in Boxes : status'[x] # "EMPTY" => Len(slots'[x]) <= totalSlots'[x]
    BY <1>1, <1>2, <2>1, <2>2, <2>3
  <2>7. \A x \in Boxes : status'[x] # "ACTIVE" => slots'[x] = << >>
    BY <1>1, <1>2, <2>1, <2>2, <2>3
  <2> QED
    BY <1>2, <2>2, <2>3, <2>4, <2>5, <2>6, <2>7
<1>8. ASSUME NEW p \in Procs, ReleaseEnds(p) PROVE Goal
  <2>1. PICK b \in Boxes : b = box[p]
    BY <1>1
  <2>2. slots[b] = << >> /\ currentNumOfSlots[b] = 0
    <3>1. status[b] = "RELEASE"
      BY <1>8, <2>1 DEF ReleaseEnds, Releases, Ending
    <3>2. Len(<< >>) = 0
      OBVIOUS
    <3> QED
      BY <1>2, <3>1, <3>2
  <2>3. /\ status' = [status EXCEPT ![b] = "EMPTY"] /\ totalSlots' = [totalSlots EXCEPT ![b] = -1]
        /\ slots' = [slots EXCEPT ![b] = << >>]
        /\ currentNumOfSlots' = [currentNumOfSlots EXCEPT ![b] = 0]
        /\ UNCHANGED <<slotStatus, slotBox, globalSlotUsed>>
    BY <1>8, <2>1 DEF ReleaseEnds, slotVars
  <2>4. slots' = slots /\ currentNumOfSlots' = currentNumOfSlots
    BY <1>1, <2>2, <2>3
  <2>5. \A x \in Boxes : status'[x] # "EMPTY" => Len(slots'[x]) <= totalSlots'[x]
    BY <1>1, <1>2, <2>3, <2>4
  <2>6. \A x \in Boxes : status'[x] # "ACTIVE" => slots'[x] = << >>
    BY <1>1, <1>2, <2>2, <2>3, <2>4
  <2> QED
    BY <1>2, <2>3, <2>4, <2>5, <2>6
<1>9. ASSUME NEW b \in Boxes, NEW m \in Messages, Store(b, m) PROVE Goal
  <2>1. /\ status[b] = "ACTIVE" /\ globalSlotUsed # MAXSLOTS /\ currentNumOfSlots[b] # totalSlots[b]
        /\ Fill(b, m, slotStatus, slots[b], currentNumOfSlots[b], globalSlotUsed)
        /\ UNCHANGED <<status, totalSlots>>
    BY <1>3, <1>9 DEF Store, Caller, Accepts, Full
  <2>2. /\ SlotsOK(slots', slotStatus', slotBox', currentNumOfSlots', globalSlotUsed')
        /\ Len(slots'[b]) = Len(slots[b]) + 1 /\ \A x \in Boxes \ {b} : slots'[x] = slots[x]
    BY <1>2, <2>1, PutKeeps
  <2>3. Len(slots[b]) + 1 <= totalSlots[b]
    <3>1. PICK n \in Nat, k \in Int : n = Len(slots[b]) /\ k = totalSlots[b]
      BY <1>1
    <3>2. n <= k /\ n # k
      BY <1>2, <2>1, <3>1
    <3>3. n + 1 <= k
      BY <3>2
    <3> QED
      BY <3>1, <3>3
  <2>4. \A x \in Boxes : status'[x] # "EMPTY" => Len(slots'[x]) <= totalSlots'[x]
    BY <1>2, <2>1, <2>2, <2>3
  <2>5. \A x \in Boxes : status'[x] # "ACTIVE" => slots'[x] = << >>
    BY <1>2, <2>1, <2>2
  <2> QED
    BY <2>2, <2>4, <2>5
<1>10. ASSUME NEW p \in Procs, NEW b \in Boxes, NEW n \in BufSizes, RecvSlot(p, b, n) PROVE Goal
  <2>1. status[b] = "ACTIVE" /\ UNCHANGED <<status, totalSlots>>
    BY <1>3, <1>10 DEF RecvSlot, Receiver
  <2>2. /\ SlotsOK(slots', slotStatus', slotBox', currentNumOfSlots', globalSlotUsed')
        /\ Len(slots'[b]) = IF pros[b] = << >> THEN Len(slots[b]) - 1 ELSE Len(slots[b])
        /\ \A x \in Boxes \ {b} : slots'[x] = slots[x]
    BY <1>2, <1>10, TakeKeeps
  <2>3. Len(slots'[b]) <= totalSlots[b]
    <3>1. PICK k \in Nat, t \in Int, j \in Int : k = Len(slots[b]) /\ t = totalSlots[b] /\ j = Len(slots'[b])
      BY <1>1, <2>2
    <3>2. k <= t /\ (j = k \/ j = k - 1)
      BY <1>2, <2>1, <2>2, <3>1
    <3>3. j <= t
      BY <3>2
    <3> QED
      BY <3>1, <3>3
  <2>4. \A x \in Boxes : status'[x] # "EMPTY" => Len(slots'[x]) <= totalSlots'[x]
    BY <1>2, <2>1, <2>2, <2>3
  <2>5. \A x \in Boxes : status'[x] # "ACTIVE" => slots'[x] = << >>
    BY <1>2, <2>1, <2>2
  <2> QED
    BY <2>2, <2>4, <2>5
<1> QED
  BY <1>5, <1>6, <1>7, <1>8, <1>9, <1>10, SlotsLeft

-----------------------------------------------------------------------------
(* Who is woken by a release is on no queue until its entry has been wiped.    *)

Wakers ==
    \A r \in Procs :
        /\ at[r] \notin Wiping => other[r] = r
        /\ at[r] \in Wiping => other[r] # r
        /\ at[r] \in Wiping =>
              \A b \in Boxes : other[r] \notin Range(pros[b]) /\ other[r] \notin Range(cons[b])

LEMMA WakersInit == Init => Wakers
BY DEF Init, Wakers, Wiping

LEMMA WakersStep ==
    ASSUME "again" \notin Conduct
    PROVE  TypeOK /\ Queues /\ Wakers /\ [Next]_vars => Wakers'
<1> SUFFICES ASSUME TypeOK, Queues, Wakers, Effects, NEW r \in Procs
             PROVE  /\ at'[r] \notin Wiping => other'[r] = r
                    /\ at'[r] \in Wiping => other'[r] # r
                    /\ at'[r] \in Wiping =>
                          \A b \in Boxes : other'[r] \notin Range(pros'[b]) /\ other'[r] \notin Range(cons'[b])
  BY StepEffects DEF Wakers
<1> DEFINE Goal == /\ at'[r] \notin Wiping => other'[r] = r
                   /\ at'[r] \in Wiping => other'[r] # r
                   /\ at'[r] \in Wiping =>
                         \A b \in Boxes : other'[r] \notin Range(pros'[b]) /\ other'[r] \notin Range(cons'[b])
<1>1. /\ at \in [Procs -> Places] /\ box \in [Procs -> Boxes] /\ other \in [Procs -> Procs]
      /\ pros \in [Boxes -> Seq(Procs)] /\ cons \in [Boxes -> Seq(Procs)]
  BY DEF TypeOK
<1>2. /\ at[r] \notin Wiping => other[r] = r
      /\ at[r] \in Wiping => other[r] # r
      /\ at[r] \in Wiping =>
            \A b \in Boxes : other[r] \notin Range(pros[b]) /\ other[r] \notin Range(cons[b])
  BY DEF Wakers
<1>3. ASSUME at'[r] = at[r] \/ (at'[r] \notin Wiping /\ at[r] \notin Wiping), other'[r] = other[r],
             \A b \in Boxes : /\ \A q \in Range(pros'[b]) : q \in Range(pros[b])
                              /\ \A q \in Range(cons'[b]) : q \in Range(cons[b])
      PROVE  Goal
  BY <1>2, <1>3
<1>4. CASE Quiet \/ (\E b \in Boxes : Made(b)) \/ (\E p \in Procs : Dozes(p))
  <2>1. UNCHANGED <<at, other, pros, cons>>
    BY <1>4 DEF Quiet, Made, Dozes
  <2> QED
    BY <1>3, <2>1
<1>5. ASSUME NEW p \in Procs, Returns(p) \/ Wipes(p) \/ Turns(p) \/ Ends(p) PROVE Goal
  <2>1. \A b \in Boxes : pros'[b] = pros[b] /\ (cons'[b] = cons[b] \/ cons'[b] = << >>)
    BY <1>1, <1>5 DEF Returns, Wipes, Turns, Ends
  <2>2. \A b \in Boxes : /\ \A q \in Range(pros'[b]) : q \in Range(pros[b])
                         /\ \A q \in Range(cons'[b]) : q \in Range(cons[b])
    BY <2>1, EmptyContents
  <2>3. CASE r = p /\ ~Turns(p)
    <3>1. at'[r] \notin Wiping /\ other'[r] = r
      BY <1>1, <1>5, <2>3 DEF Returns, Wipes, Ends, Wiping
    <3> QED
      BY <3>1
  <2>4. CASE r # p \/ Turns(p)
    <3>1. (at'[r] = at[r] \/ (at'[r] \notin Wiping /\ at[r] \notin Wiping)) /\ other'[r] = other[r]
      BY <1>1, <1>5, <2>4 DEF Returns, Wipes, Turns, Ends, Wiping
    <3> QED
      BY <1>3, <2>2, <3>1
  <2> QED
    BY <2>3, <2>4
<1>6. ASSUME NEW p \in Procs, NEW b \in Boxes, Begins(p, b) PROVE Goal
  <2>1. /\ at'[r] = at[r] \/ (at'[r] \notin Wiping /\ at[r] \notin Wiping)
        /\ UNCHANGED <<other, pros, cons>>
    BY <1>1, <1>6 DEF Begins, Wiping
  <2> QED
    BY <1>3, <2>1
<1>7. ASSUME NEW p \in Procs, NEW b \in Boxes, Serves(p, b) PROVE Goal
  <2>1. UNCHANGED <<at, other>>
    BY <1>7 DEF Serves
  <2>2. \A x \in Boxes : /\ \A q \in Range(pros'[x]) : q \in Range(pros[x])
                         /\ \A q \in Range(cons'[x]) : q \in Range(cons[x])
    BY <1>7, PopLeaves DEF Serves
  <2> QED
    BY <1>3, <2>1, <2>2
<1>8. ASSUME NEW p \in Procs, NEW b \in Boxes, NEW place \in Waiting, Waits(p, b, place) PROVE Goal
  <2>1. /\ at[p] = "user" /\ other' = other /\ p \in Procs
        /\ \A q \in Procs \ {p} : other[q] # p
    BY <1>8 DEF Waits, MayWait
  <2>2. CASE r = p
    BY <1>1, <1>2, <1>8, <2>1, <2>2 DEF Waits, Wiping, Waiting, Receiving
  <2>3. CASE r # p
    <3>1. at'[r] = at[r] /\ other[r] # p
      BY <1>1, <1>8, <2>1, <2>3 DEF Waits
    <3>2. ASSUME NEW x \in Boxes
          PROVE  /\ \A q \in Range(pros'[x]) : q \in Range(pros[x]) \cup {p}
                 /\ \A q \in Range(cons'[x]) : q \in Range(cons[x]) \cup {p}
      <4>1. \/ /\ cons' = cons
               /\ Range(pros'[b]) = Range(pros[b]) \cup {p}
               /\ \A y \in Boxes \ {b} : pros'[y] = pros[y]
            \/ /\ pros' = pros
               /\ Range(cons'[b]) = Range(cons[b]) \cup {p}
               /\ \A y \in Boxes \ {b} : cons'[y] = cons[y]
        BY <1>8, JoinEnters
      <4>2. CASE x = b
        BY <4>1, <4>2
      <4>3. CASE x # b
        <5>1. pros'[x] = pros[x] /\ cons'[x] = cons[x]
          BY <4>1, <4>3
        <5> QED
          BY <5>1
      <4> QED
        BY <4>2, <4>3
    <3> QED
      BY <1>2, <2>1, <3>1, <3>2
  <2> QED
    BY <2>2, <2>3
<1>9. ASSUME NEW w \in Procs, NEW p \in Procs, Wakes(w, p) PROVE Goal
  <2>1. PICK x \in Boxes : x = box[w]
    BY <1>1
  <2>2. \A b \in Boxes : /\ \A q \in Range(pros'[b]) : q \in Range(pros[b]) /\ q # p
                         /\ \A q \in Range(cons'[b]) : q \in Range(cons[b]) /\ q # p
    BY <1>9, <2>1, PopLeaves DEF Wakes
  <2>3. at[p] \in Waiting
    BY <1>9, <2>1, PopLeaves DEF Wakes
  <2>4. CASE r = w
    <3>1. at'[r] \in Wiping /\ other'[r] = p /\ p # r
      BY <1>1, <1>9, <2>3, <2>4 DEF Wakes, Wiping, Waiting, Receiving
    <3> QED
      BY <2>2, <3>1
  <2>5. CASE r # w
    <3>1. at'[r] = at[r] /\ other'[r] = other[r]
      BY <1>1, <1>9, <2>5 DEF Wakes
    <3> QED
      BY <1>3, <2>2, <3>1
  <2> QED
    BY <2>4, <2>5
<1> QED
  BY <1>4, <1>5, <1>6, <1>7, <1>8, <1>9 DEF Effects

\* No entry that is on a queue gets wiped, and createMailSlot finds its slot.
LEMMA IntactStep ==
    ASSUME Careful
    PROVE  TypeOK /\ SlotsInv /\ Wakers /\ ~corrupt /\ [Next]_vars => ~corrupt'
<1> SUFFICES ASSUME TypeOK, SlotsInv, Wakers, ~corrupt, [Next]_vars PROVE ~corrupt'
  OBVIOUS
<1>1. /\ pros \in [Boxes -> Seq(Procs)] /\ cons \in [Boxes -> Seq(Procs)]
      /\ SlotsOK(slots, slotStatus, slotBox, currentNumOfSlots, globalSlotUsed)
  BY DEF TypeOK, SlotsInv
<1>2. ASSUME NEW p \in Procs, WipeConsumer(p) \/ WipeProducer(p) PROVE ~corrupt'
  <2>1. \A b \in Boxes : other[p] \notin Range(pros[b]) /\ other[p] \notin Range(cons[b])
    BY <1>2 DEF WipeConsumer, WipeProducer, Wakers, Wiping
  <2>2. \A b \in Boxes : ~Contains(pros[b], other[p]) /\ ~Contains(cons[b], other[p])
    BY <1>1, <2>1, ContainsIsRange
  <2> QED
    BY <1>2, <2>2 DEF WipeConsumer, WipeProducer, Queued
<1>3. ASSUME NEW p \in Procs, NEW g \in Geometries, Create(p, g) PROVE ~corrupt'
  BY <1>3 DEF Create
<1>4. ASSUME NEW p \in Procs, NEW b \in Boxes, Release(p, b) PROVE ~corrupt'
  <2>1. ~(Len(slots[b]) > 0)
    BY <1>4 DEF Release, Careful
  <2> QED
    BY <1>4, <2>1 DEF Release
<1>5. ASSUME NEW p \in Procs, ReleaseEnds(p) PROVE ~corrupt'
  BY <1>5 DEF ReleaseEnds
<1>6. ASSUME NEW b \in Boxes, NEW m \in Messages, Store(b, m) PROVE ~corrupt'
  BY <1>1, <1>6, PutKeeps DEF Store, Accepts
<1>7. ASSUME NEW p \in Procs, NEW b \in Boxes, NEW n \in BufSizes, RecvSlot(p, b, n) PROVE ~corrupt'
  BY <1>1, <1>7, TakeKeeps
<1> QED
  BY <1>2, <1>3, <1>4, <1>5, <1>6, <1>7, SlotsLeft

LEMMA SlotsAccountedHolds ==
    ASSUME TypeOK, SlotsInv, ~corrupt PROVE SlotsAccounted
<1>1. /\ \A b \in Boxes : slots[b] \in Seq(Slots)
      /\ slotBox \in [Slots -> Boxes \cup {NoBox}]
  BY DEF TypeOK
<1>2. \A b \in Boxes, s \in Slots : Contains(slots[b], s) <=> s \in Range(slots[b])
  BY <1>1, ContainsIsRange
<1>3. /\ \A b \in Boxes : /\ currentNumOfSlots[b] = Len(slots[b]) /\ IsInjective(slots[b])
                          /\ \A s \in Range(slots[b]) : slotStatus[s] = "ACTIVE" /\ slotBox[s] = b
      /\ \A s \in Slots : slotStatus[s] = "ACTIVE" => \E b \in Boxes : s \in Range(slots[b])
      /\ globalSlotUsed = Cardinality({s \in Slots : slotStatus[s] = "ACTIVE"})
  BY DEF SlotsInv, SlotsOK, Used
<1>4. \A s \in Slots : slotStatus[s] = "ACTIVE" <=>
                \E b \in Boxes : Contains(slots[b], s) /\ slotBox[s] = b
  <2>1. ASSUME NEW s \in Slots, slotStatus[s] = "ACTIVE"
        PROVE  \E b \in Boxes : Contains(slots[b], s) /\ slotBox[s] = b
    <3>1. PICK b \in Boxes : s \in Range(slots[b])
      BY <1>3, <2>1
    <3>2. Contains(slots[b], s) /\ slotBox[s] = b
      BY <1>2, <1>3, <3>1
    <3> QED
      BY <3>2
  <2>2. ASSUME NEW s \in Slots, NEW b \in Boxes, Contains(slots[b], s) PROVE slotStatus[s] = "ACTIVE"
    <3>1. s \in Range(slots[b])
      BY <1>2, <2>2
    <3> QED
      BY <1>3, <3>1
  <2> QED
    BY <2>1, <2>2
<1> QED
  BY <1>3, <1>4 DEF SlotsAccounted

\* The counters of the free slots are exact, each ACTIVE slot is on the queue of its box
\* and on no other, and no list is cut and no index leaves its array, as long as the
\* callers release no box that holds messages, give no buffer that is too small, use no
\* box that is not there, and do not wait before a release is done with them.
THEOREM SlotsAccountedCorrect ==
    Conduct \cap {"drop", "small", "dead", "again"} = {} => (Spec => []SlotsAccounted)
<1> SUFFICES ASSUME Conduct \cap {"drop", "small", "dead", "again"} = {}
             PROVE  Spec => []SlotsAccounted
  OBVIOUS
<1>1. Careful /\ "dead" \notin Conduct /\ "again" \notin Conduct
  BY DEF Careful
<1> DEFINE IInv == TypeOK /\ Queues /\ Releases /\ SlotsInv /\ Wakers /\ ~corrupt
<1>2. Init => IInv
  BY TypeInit, QueuesInit, ReleasesInit, SlotsInit, WakersInit DEF Init
<1>3. IInv /\ [Next]_vars => IInv'
  BY <1>1, TypeStep, QueuesStep, ReleasesStep, SlotsStep, WakersStep, IntactStep
<1>4. IInv => SlotsAccounted
  BY SlotsAccountedHolds
<1> QED
  BY <1>2, <1>3, <1>4, PTL DEF Spec

-----------------------------------------------------------------------------
(* Nobody waits without cause.                                                 *)

LEMMA WaitersInit == Init => WaitersHaveCause
BY DEF Init, WaitersHaveCause

LEMMA WaitersStep ==
    ASSUME Careful
    PROVE  TypeOK /\ Releases /\ SlotsInv /\ WaitersHaveCause /\ [Next]_vars => WaitersHaveCause'
<1> SUFFICES ASSUME TypeOK, Releases, SlotsInv, WaitersHaveCause, [Next]_vars, NEW x \in Boxes
             PROVE  /\ pros'[x] # << >> => currentNumOfSlots'[x] = totalSlots'[x]
                    /\ cons'[x] # << >> => slots'[x] = << >> /\ pros'[x] = << >>
  BY DEF WaitersHaveCause, Full
<1> DEFINE Goal == /\ pros'[x] # << >> => currentNumOfSlots'[x] = totalSlots'[x]
                   /\ cons'[x] # << >> => slots'[x] = << >> /\ pros'[x] = << >>
<1>1. /\ slots \in [Boxes -> Seq(Slots)] /\ totalSlots \in [Boxes -> Int]
      /\ pros \in [Boxes -> Seq(Procs)] /\ cons \in [Boxes -> Seq(Procs)]
      /\ currentNumOfSlots \in [Boxes -> Int] /\ box \in [Procs -> Boxes]
      /\ \A b \in Boxes : Len(slots[b]) \in Nat
  BY DEF TypeOK
<1>2. /\ SlotsOK(slots, slotStatus, slotBox, currentNumOfSlots, globalSlotUsed)
      /\ \A b \in Boxes : currentNumOfSlots[b] = Len(slots[b])
      /\ \A b \in Boxes : status[b] # "EMPTY" => currentNumOfSlots[b] <= totalSlots[b]
      /\ \A b \in Boxes : slots[b] = << >> <=> currentNumOfSlots[b] = 0
  <2>1. /\ SlotsOK(slots, slotStatus, slotBox, currentNumOfSlots, globalSlotUsed)
        /\ \A b \in Boxes : currentNumOfSlots[b] = Len(slots[b])
    BY DEF SlotsInv, SlotsOK
  <2>2. \A b \in Boxes : status[b] # "EMPTY" => currentNumOfSlots[b] <= totalSlots[b]
    BY <2>1 DEF SlotsInv
  <2>3. \A b \in Boxes : slots[b] = << >> <=> currentNumOfSlots[b] = 0
    BY <1>1, <2>1, EmptySeq
  <2> QED
    BY <2>1, <2>2, <2>3
<1>3. \A b \in Boxes : /\ pros[b] # << >> => currentNumOfSlots[b] = totalSlots[b]
                       /\ cons[b] # << >> => slots[b] = << >> /\ pros[b] = << >>
  BY DEF WaitersHaveCause, Full
<1>4. \A b \in Boxes : Usable(b) => status[b] = "ACTIVE"
  BY DEF Usable, Careful
<1>5. ASSUME UNCHANGED <<slots, currentNumOfSlots, totalSlots, pros, cons>> PROVE Goal
  BY <1>3, <1>5
<1> USE DEF boxVars, queueVars, slotVars, shadows, calls
<1>6. ASSUME NEW p \in Procs, CreateFails(p) \/ Zap(p) \/ BlockMe(p) \/ SendReturns(p) \/ RecvReturns(p)
      PROVE  Goal
  <2>1. UNCHANGED <<slots, currentNumOfSlots, totalSlots, pros, cons>>
    BY <1>6 DEF CreateFails, Zap, BlockMe, SendReturns, RecvReturns
  <2> QED
    BY <1>5, <2>1
<1>7. ASSUME NEW b \in Boxes, NEW m \in Messages, SendRefused(b, m) \/ CondSendFull(b, m) PROVE Goal
  <2>1. UNCHANGED <<slots, currentNumOfSlots, totalSlots, pros, cons>>
    BY <1>7 DEF SendRefused, CondSendFull
  <2> QED
    BY <1>5, <2>1
<1>8. ASSUME NEW p \in Procs, NEW b \in Boxes, NEW n \in BufSizes,
             CondRecvNothing(p, b, n) \/ RecvSmall(p, b, n) PROVE Goal
  <2>1. UNCHANGED <<slots, currentNumOfSlots, totalSlots, pros, cons>>
    BY <1>8 DEF CondRecvNothing, RecvSmall, Careful
  <2> QED
    BY <1>5, <2>1
<1>9. ASSUME NEW p \in Procs, ConsumersDone(p) \/ WipeConsumer(p) \/ WipeProducer(p) PROVE Goal
  <2>1. UNCHANGED <<slots, currentNumOfSlots, totalSlots, pros, cons>>
    BY <1>9 DEF ConsumersDone, WipeConsumer, WipeProducer
  <2> QED
    BY <1>5, <2>1
<1>10. ASSUME NEW p \in Procs, NEW g \in Geometries, Create(p, g) PROVE Goal
  <2>1. PICK b \in Boxes : b = NewBox /\ status[b] = "EMPTY"
    BY <1>10, NewBoxType DEF Create
  <2>2. pros[b] = << >> /\ cons[b] = << >>
    BY <2>1 DEF Releases
  <2>3. UNCHANGED <<slots, currentNumOfSlots, pros, cons>> /\ totalSlots' = [totalSlots EXCEPT ![b] = g[1]]
    BY <1>10, <2>1 DEF Create
  <2> QED
    BY <1>1, <1>3, <2>2, <2>3
<1>11. ASSUME NEW b \in Boxes, NEW q, Pops(cons, cons', b, q),
              UNCHANGED <<slots, currentNumOfSlots, totalSlots, pros>> PROVE Goal
  <2>1. cons'[x] # << >> => cons[x] # << >>
    BY <1>1, <1>11 DEF Pops
  <2> QED
    BY <1>3, <1>11, <2>1
<1>12. ASSUME NEW b \in Boxes, NEW q, Pops(pros, pros', b, q),
              UNCHANGED <<slots, currentNumOfSlots, totalSlots, cons>> PROVE Goal
  <2>1. /\ pros'[x] # << >> => pros[x] # << >>
        /\ pros[x] = << >> => pros'[x] = << >>
    BY <1>1, <1>12 DEF Pops
  <2> QED
    BY <1>3, <1>12, <2>1
<1>13. ASSUME NEW b \in Boxes, NEW m \in Messages, Deliver(b, m) PROVE Goal
  <2>1. Pops(cons, cons', b, Head(cons[b])) /\ UNCHANGED <<slots, currentNumOfSlots, totalSlots, pros>>
    BY <1>13 DEF Deliver, ConsumerReady, Pops
  <2> QED
    BY <1>11, <2>1
<1>14. ASSUME NEW p \in Procs, ReleaseConsumer(p) PROVE Goal
  <2>1. Pops(cons, cons', box[p], Head(cons[box[p]]))
        /\ UNCHANGED <<slots, currentNumOfSlots, totalSlots, pros>> /\ box[p] \in Boxes
    BY <1>1, <1>14 DEF ReleaseConsumer, Pops
  <2> QED
    BY <1>11, <2>1
<1>15. ASSUME NEW p \in Procs, NEW b \in Boxes, Rendezvous(p, b) PROVE Goal
  <2>1. Pops(pros, pros', b, Head(pros[b])) /\ UNCHANGED <<slots, currentNumOfSlots, totalSlots, cons>>
    BY <1>15 DEF Rendezvous, Pops
  <2> QED
    BY <1>12, <2>1
<1>16. ASSUME NEW p \in Procs, ReleaseProducer(p) PROVE Goal
  <2>1. Pops(pros, pros', box[p], Head(pros[box[p]]))
        /\ UNCHANGED <<slots, currentNumOfSlots, totalSlots, cons>> /\ box[p] \in Boxes
    BY <1>1, <1>16 DEF ReleaseProducer, Pops
  <2> QED
    BY <1>12, <2>1
<1>17. ASSUME NEW p \in Procs, NEW b \in Boxes, NEW m \in Messages, SendWait(p, b, m) PROVE Goal
  <2>1. /\ currentNumOfSlots[b] = totalSlots[b]
        /\ cons[b] # << >> => totalSlots[b] # 0
        /\ pros' = [pros EXCEPT ![b] = Append(@, p)]
        /\ UNCHANGED <<slots, currentNumOfSlots, totalSlots, cons>>
    BY <1>17 DEF SendWait, Full, ConsumerReady
  <2>2. cons[b] = << >>
    BY <1>2, <1>3, <2>1
  <2>3. CASE x = b
    BY <2>1, <2>2, <2>3
  <2>4. CASE x # b
    <3>1. pros'[x] = pros[x]
      BY <1>1, <2>1, <2>4
    <3> QED
      BY <1>3, <2>1, <3>1
  <2> QED
    BY <2>3, <2>4
<1>18. ASSUME NEW p \in Procs, NEW b \in Boxes, NEW n \in BufSizes, RecvWait(p, b, n) PROVE Goal
  <2>1. /\ status[b] = "ACTIVE"
        /\ IF totalSlots[b] = 0 THEN pros[b] = << >> ELSE slots[b] = << >>
        /\ cons' = [cons EXCEPT ![b] = Append(@, p)]
        /\ UNCHANGED <<slots, currentNumOfSlots, totalSlots, pros>>
    BY <1>4, <1>18 DEF RecvWait, Receiver, Nothing
  <2>2. currentNumOfSlots[b] <= totalSlots[b] /\ currentNumOfSlots[b] \in Nat /\ totalSlots[b] \in Int
    BY <1>1, <1>2, <2>1
  <2>3. slots[b] = << >> /\ pros[b] = << >>
    BY <1>2, <1>3, <2>1, <2>2
  <2>4. CASE x = b
    BY <2>1, <2>3, <2>4
  <2>5. CASE x # b
    <3>1. cons'[x] = cons[x]
      BY <1>1, <2>1, <2>5
    <3> QED
      BY <1>3, <2>1, <3>1
  <2> QED
    BY <2>4, <2>5
<1>19. ASSUME NEW b \in Boxes, NEW m \in Messages, Store(b, m) PROVE Goal
  <2>1. /\ status[b] = "ACTIVE" /\ currentNumOfSlots[b] # totalSlots[b]
        /\ cons[b] # << >> => totalSlots[b] # 0 /\ ~(currentNumOfSlots[b] < totalSlots[b])
        /\ Fill(b, m, slotStatus, slots[b], currentNumOfSlots[b], globalSlotUsed)
        /\ globalSlotUsed # MAXSLOTS
        /\ UNCHANGED <<pros, cons, totalSlots>>
    BY <1>4, <1>19 DEF Store, Caller, Full, ConsumerReady, Accepts
  <2>2. currentNumOfSlots[b] <= totalSlots[b] /\ currentNumOfSlots[b] \in Int /\ totalSlots[b] \in Int
    BY <1>1, <1>2, <2>1
  <2>3. cons[b] = << >> /\ pros[b] = << >>
    BY <1>3, <2>1, <2>2
  <2>4. /\ SlotsOK(slots', slotStatus', slotBox', currentNumOfSlots', globalSlotUsed')
        /\ \A y \in Boxes \ {b} : slots'[y] = slots[y]
    BY <1>2, <2>1, PutKeeps
  <2>5. CASE x = b
    BY <2>1, <2>3, <2>5
  <2>6. CASE x # b
    <3>1. slots'[x] = slots[x] /\ currentNumOfSlots'[x] = currentNumOfSlots[x]
      BY <1>2, <2>4, <2>6 DEF SlotsOK
    <3> QED
      BY <1>3, <2>1, <3>1
  <2> QED
    BY <2>5, <2>6
<1>20. ASSUME NEW p \in Procs, NEW b \in Boxes, NEW n \in BufSizes, RecvSlot(p, b, n) PROVE Goal
  <2>1. slots[b] # << >> /\ UNCHANGED <<totalSlots, cons>>
        /\ (pros[b] = << >> => pros' = pros) /\ \A y \in Boxes \ {b} : pros'[y] = pros[y]
    BY <1>1, <1>20 DEF RecvSlot
  <2>2. cons[b] = << >>
    BY <1>3, <2>1
  <2>3. /\ SlotsOK(slots', slotStatus', slotBox', currentNumOfSlots', globalSlotUsed')
        /\ Len(slots'[b]) = IF pros[b] = << >> THEN Len(slots[b]) - 1 ELSE Len(slots[b])
        /\ \A y \in Boxes \ {b} : slots'[y] = slots[y]
    BY <1>2, <1>20, TakeKeeps
  <2>4. \A y \in Boxes : currentNumOfSlots'[y] = Len(slots'[y])
    BY <2>3 DEF SlotsOK
  <2>5. CASE x = b
    <3>1. pros'[b] # << >> => currentNumOfSlots'[b] = currentNumOfSlots[b] /\ pros[b] # << >>
      BY <1>2, <2>1, <2>3, <2>4
    <3> QED
      BY <1>3, <2>1, <2>2, <2>5, <3>1
  <2>6. CASE x # b
    <3>1. slots'[x] = slots[x] /\ currentNumOfSlots'[x] = currentNumOfSlots[x] /\ pros'[x] = pros[x]
      BY <1>2, <2>1, <2>3, <2>4, <2>6
    <3> QED
      BY <1>3, <2>1, <3>1
  <2> QED
    BY <2>5, <2>6
<1>21. ASSUME NEW p \in Procs, NEW b \in Boxes, Release(p, b) PROVE Goal
  <2>1. Len(slots[b]) = 0
    <3>1. ~(Len(slots[b]) > 0)
      BY <1>21 DEF Release, Careful
    <3> QED
      BY <1>1, <3>1
  <2>2. currentNumOfSlots' = [y \in Boxes |-> IF y = b THEN currentNumOfSlots[y] - 0
                                                ELSE currentNumOfSlots[y]]
    BY <1>21, <2>1 DEF Release
  <2>3. currentNumOfSlots' = currentNumOfSlots
    BY <1>1, <2>2
  <2>4. slots' = [slots EXCEPT ![b] = << >>] /\ slots[b] = << >> /\ UNCHANGED <<totalSlots, pros, cons>>
    BY <1>2, <1>21, <2>1 DEF Release
  <2>5. slots' = slots
    BY <1>1, <2>4
  <2> QED
    BY <1>5, <2>3, <2>4, <2>5
<1>22. ASSUME NEW p \in Procs, ReleaseEnds(p) PROVE Goal
  <2>1. PICK b \in Boxes : b = box[p]
    BY <1>1
  <2>2. /\ pros[b] = << >> /\ pros' = pros
        /\ cons' = [cons EXCEPT ![b] = << >>] /\ slots' = [slots EXCEPT ![b] = << >>]
        /\ currentNumOfSlots' = [currentNumOfSlots EXCEPT ![b] = 0]
        /\ totalSlots' = [totalSlots EXCEPT ![b] = -1]
    BY <1>22, <2>1 DEF ReleaseEnds
  <2> QED
    BY <1>1, <1>3, <2>2
<1>23. CASE UNCHANGED vars
  <2>1. UNCHANGED <<slots, currentNumOfSlots, totalSlots, pros, cons>>
    BY <1>23 DEF vars
  <2> QED
    BY <1>5, <2>1
<1> QED
  BY <1>6, <1>7, <1>8, <1>9, <1>10, <1>13, <1>14, <1>15, <1>16, <1>17, <1>18, <1>19, <1>20, <1>21,
     <1>22, <1>23 DEF Next, Step, ReleaseStep, Stopped

\* A producer waits only at a full box and a consumer only at one with no message and no
\* producer, whatever the processes do in between, as long as no message is thrown away and
\* no box used that is not there.
THEOREM WaitersHaveCauseCorrect ==
    Conduct \cap {"drop", "small", "dead"} = {} => (Spec => []WaitersHaveCause)
<1> SUFFICES ASSUME Careful PROVE Spec => []WaitersHaveCause
  BY DEF Careful
<1>1. "dead" \notin Conduct
  BY DEF Careful
<1> DEFINE IInv == TypeOK /\ Releases /\ SlotsInv /\ WaitersHaveCause
<1>2. Init => IInv
  BY TypeInit, ReleasesInit, SlotsInit, WaitersInit
<1>3. IInv /\ [Next]_vars => IInv'
  BY <1>1, TypeStep, ReleasesStep, SlotsStep, WaitersStep
<1> QED
  BY <1>2, <1>3, PTL DEF Spec

-----------------------------------------------------------------------------
(* Nobody sleeps in blockMe who is on no queue.                                *)

OnQueue(p) == p \in Range(pros[box[p]]) \/ p \in Range(cons[box[p]])

\* Without an interrupt just before blockMe, who is queued is in blockMe.
Asleep ==
    \A p \in Procs : sleep[p] # "no" => sleep[p] = "yes" /\ at[p] \in Waiting /\ OnQueue(p)

\* All but the one that leaves a queue stay on it.
LEMMA OthersStay ==
    ASSUME TypeOK, NEW p, NEW x \in Boxes, NEW b \in Boxes,
           \/ Pops(pros, pros', x, p) /\ cons' = cons
           \/ Pops(cons, cons', x, p) /\ pros' = pros
    PROVE  \A q : q # p => /\ q \in Range(pros[b]) => q \in Range(pros'[b])
                           /\ q \in Range(cons[b]) => q \in Range(cons'[b])
<1>1. pros \in [Boxes -> Seq(Procs)] /\ cons \in [Boxes -> Seq(Procs)]
  BY QueueTypes
<1>2. CASE Pops(pros, pros', x, p) /\ cons' = cons
  <2>1. /\ pros[x] \in Seq(Procs) /\ pros[x] # << >> /\ pros'[x] = Tail(pros[x])
        /\ p = Head(pros[x]) /\ \A y \in Boxes \ {x} : pros'[y] = pros[y]
    BY <1>1, <1>2 DEF Pops
  <2>2. Range(pros[x]) = Range(pros'[x]) \cup {p}
    BY <2>1, TailContents
  <2>3. CASE b = x
    BY <1>2, <2>2, <2>3
  <2>4. CASE b # x
    <3>1. pros'[b] = pros[b]
      BY <2>1, <2>4
    <3> QED
      BY <1>2, <3>1
  <2> QED
    BY <2>3, <2>4
<1>3. CASE Pops(cons, cons', x, p) /\ pros' = pros
  <2>1. /\ cons[x] \in Seq(Procs) /\ cons[x] # << >> /\ cons'[x] = Tail(cons[x])
        /\ p = Head(cons[x]) /\ \A y \in Boxes \ {x} : cons'[y] = cons[y]
    BY <1>1, <1>3 DEF Pops
  <2>2. Range(cons[x]) = Range(cons'[x]) \cup {p}
    BY <2>1, TailContents
  <2>3. CASE b = x
    BY <1>3, <2>2, <2>3
  <2>4. CASE b # x
    <3>1. cons'[b] = cons[b]
      BY <2>1, <2>4
    <3> QED
      BY <1>3, <3>1
  <2> QED
    BY <2>3, <2>4
<1> QED
  BY <1>2, <1>3

\* Who joins a queue is on it, and the others stay on theirs.
LEMMA AllJoined ==
    ASSUME TypeOK, NEW p \in Procs, NEW x \in Boxes, NEW place \in Waiting, Waits(p, x, place)
    PROVE  /\ p \in Range(pros'[x]) \/ p \in Range(cons'[x])
           /\ \A b \in Boxes : /\ Range(pros[b]) \subseteq Range(pros'[b])
                               /\ Range(cons[b]) \subseteq Range(cons'[b])
<1>1. pros \in [Boxes -> Seq(Procs)] /\ cons \in [Boxes -> Seq(Procs)]
  BY QueueTypes
<1>2. CASE Joins(pros, pros', x, p) /\ cons' = cons
  <2>1. /\ pros[x] \in Seq(Procs) /\ pros'[x] = Append(pros[x], p)
        /\ \A y \in Boxes \ {x} : pros'[y] = pros[y]
    BY <1>1, <1>2 DEF Joins
  <2>2. Range(pros'[x]) = Range(pros[x]) \cup {p}
    BY <2>1, AppendContents
  <2>3. ASSUME NEW b \in Boxes PROVE Range(pros[b]) \subseteq Range(pros'[b])
    <3>1. b = x \/ pros'[b] = pros[b]
      BY <2>1
    <3> QED
      BY <2>2, <3>1
  <2> QED
    BY <1>2, <2>2, <2>3
<1>3. CASE Joins(cons, cons', x, p) /\ pros' = pros
  <2>1. /\ cons[x] \in Seq(Procs) /\ cons'[x] = Append(cons[x], p)
        /\ \A y \in Boxes \ {x} : cons'[y] = cons[y]
    BY <1>1, <1>3 DEF Joins
  <2>2. Range(cons'[x]) = Range(cons[x]) \cup {p}
    BY <2>1, AppendContents
  <2>3. ASSUME NEW b \in Boxes PROVE Range(cons[b]) \subseteq Range(cons'[b])
    <3>1. b = x \/ cons'[b] = cons[b]
      BY <2>1
    <3> QED
      BY <2>2, <3>1
  <2> QED
    BY <1>3, <2>2, <2>3
<1> QED
  BY <1>2, <1>3 DEF Waits

\* A release that ends finds no consumer to drop.
LEMMA EndsQuietly ==
    ASSUME TypeOK, Releases, NEW p \in Procs, Ends(p)
    PROVE  pros' = pros /\ cons' = cons
<1>1. cons[box[p]] = << >> /\ cons \in [Boxes -> Seq(Procs)] /\ box[p] \in Boxes
  BY DEF Releases, Ends, TypeOK
<1> QED
  BY <1>1 DEF Ends

LEMMA AsleepInit == Init => Asleep
BY DEF Init, Asleep

LEMMA AsleepStep ==
    ASSUME Conduct \cap {"switch", "dead"} = {}
    PROVE  TypeOK /\ Releases /\ Asleep /\ [Next]_vars => Asleep'
<1> SUFFICES ASSUME TypeOK, Releases, Asleep, Effects, NEW q \in Procs, sleep'[q] # "no"
             PROVE  /\ sleep'[q] = "yes" /\ at'[q] \in Waiting
                    /\ q \in Range(pros'[box'[q]]) \/ q \in Range(cons'[box'[q]])
  BY StepEffects DEF Asleep, OnQueue
<1> DEFINE Goal == /\ sleep'[q] = "yes" /\ at'[q] \in Waiting
                   /\ q \in Range(pros'[box'[q]]) \/ q \in Range(cons'[box'[q]])
<1>1. /\ at \in [Procs -> Places] /\ box \in [Procs -> Boxes]
      /\ sleep \in [Procs -> {"no", "soon", "yes"}]
  BY DEF TypeOK
<1>2. ASSUME sleep[q] # "no"
      PROVE  /\ sleep[q] = "yes" /\ at[q] \in Waiting /\ box[q] \in Boxes
             /\ q \in Range(pros[box[q]]) \/ q \in Range(cons[box[q]])
  BY <1>1, <1>2 DEF Asleep, OnQueue
<1>3. ASSUME at'[q] = at[q], box'[q] = box[q], sleep'[q] = sleep[q],
             \A b \in Boxes : /\ q \in Range(pros[b]) => q \in Range(pros'[b])
                              /\ q \in Range(cons[b]) => q \in Range(cons'[b])
      PROVE  Goal
  BY <1>2, <1>3
<1>4. CASE Quiet \/ \E b \in Boxes : Made(b)
  <2>1. UNCHANGED <<at, box, sleep, pros, cons>>
    BY <1>4 DEF Quiet, Made
  <2> QED
    BY <1>3, <2>1
<1>5. ASSUME NEW p \in Procs, Dozes(p) PROVE FALSE
  BY <1>5 DEF Dozes, Asleep
<1>6. ASSUME NEW p \in Procs, Returns(p) \/ Wipes(p) \/ Turns(p) \/ Ends(p) PROVE Goal
  <2>1. UNCHANGED <<pros, cons, sleep>>
    BY <1>6, EndsQuietly DEF Returns, Wipes, Turns, Ends
  <2>2. sleep[p] = "no"
    BY <1>1, <1>6 DEF Returns, Wipes, Turns, Ends, Asleep, Waiting, Receiving
  <2>3. at'[q] = at[q] /\ box'[q] = box[q]
    BY <1>1, <1>6, <2>1, <2>2 DEF Returns, Wipes, Turns, Ends
  <2> QED
    BY <1>3, <2>1, <2>3
<1>7. ASSUME NEW p \in Procs, NEW b \in Boxes, Begins(p, b) PROVE Goal
  <2>1. UNCHANGED <<pros, cons, sleep>> /\ q # p
    BY <1>7 DEF Begins, Asleep, Waiting, Receiving
  <2>2. at'[q] = at[q] /\ box'[q] = box[q]
    BY <1>1, <1>7, <2>1 DEF Begins
  <2> QED
    BY <1>3, <2>1, <2>2
<1>8. ASSUME NEW p \in Procs, sleep' = Awake(p) PROVE q # p /\ sleep'[q] = sleep[q]
  BY <1>1, <1>8 DEF Awake, Asleep
<1>9. ASSUME NEW p \in Procs, NEW b \in Boxes, Serves(p, b) PROVE Goal
  <2>1. UNCHANGED <<at, box>> /\ q # p /\ sleep'[q] = sleep[q]
    BY <1>8, <1>9 DEF Serves
  <2>2. \A x \in Boxes : /\ q \in Range(pros[x]) => q \in Range(pros'[x])
                         /\ q \in Range(cons[x]) => q \in Range(cons'[x])
    BY <1>9, <2>1, OthersStay DEF Serves
  <2> QED
    BY <1>3, <2>1, <2>2
<1>10. ASSUME NEW r \in Procs, NEW p \in Procs, Wakes(r, p) PROVE Goal
  <2>1. box' = box /\ q # p /\ sleep'[q] = sleep[q]
    BY <1>8, <1>10 DEF Wakes
  <2>2. PICK x \in Boxes : x = box[r]
    BY <1>1
  <2>a. \/ Pops(pros, pros', x, p) /\ cons' = cons
        \/ Pops(cons, cons', x, p) /\ pros' = pros
    BY <1>10, <2>2 DEF Wakes
  <2>3. \A y \in Boxes : /\ q \in Range(pros[y]) => q \in Range(pros'[y])
                         /\ q \in Range(cons[y]) => q \in Range(cons'[y])
    BY <2>1, <2>a, OthersStay
  <2>4. at[q] \in Waiting
    BY <1>2, <2>1
  <2>5. q # r
    BY <1>10, <2>4 DEF Wakes, Waiting, Receiving
  <2>6. at'[q] = at[q]
    BY <1>1, <1>10, <2>5 DEF Wakes
  <2> QED
    BY <1>3, <2>1, <2>3, <2>6
<1>11. ASSUME NEW p \in Procs, NEW b \in Boxes, NEW place \in Waiting, Waits(p, b, place) PROVE Goal
  <2>1. /\ p \in Range(pros'[b]) \/ p \in Range(cons'[b])
        /\ \A x \in Boxes : /\ q \in Range(pros[x]) => q \in Range(pros'[x])
                            /\ q \in Range(cons[x]) => q \in Range(cons'[x])
    BY <1>11, AllJoined
  <2>2. CASE q = p
    <3>1. sleep'[p] = "yes" /\ at'[p] = place /\ box'[p] = b
      BY <1>1, <1>11 DEF Waits
    <3> QED
      BY <2>1, <2>2, <3>1
  <2>3. CASE q # p
    <3>1. at'[q] = at[q] /\ box'[q] = box[q] /\ sleep'[q] = sleep[q]
      BY <1>1, <1>11, <2>3 DEF Waits
    <3> QED
      BY <1>3, <2>1, <3>1
  <2> QED
    BY <2>2, <2>3
<1> QED
  BY <1>4, <1>5, <1>6, <1>7, <1>9, <1>10, <1>11 DEF Effects

LEMMA NobodyForgottenHolds ==
    ASSUME TypeOK, Asleep PROVE NobodyForgotten
<1> SUFFICES ASSUME NEW p \in Procs, sleep[p] = "yes"
             PROVE  Contains(pros[box[p]] \o cons[box[p]], p)
  BY DEF NobodyForgotten
<1>1. PICK f, g : f = pros[box[p]] /\ g = cons[box[p]]
  OBVIOUS
<1>2. f \in Seq(Procs) /\ g \in Seq(Procs) /\ (p \in Range(f) \/ p \in Range(g))
  BY <1>1 DEF Asleep, OnQueue, TypeOK
<1>3. Contains(f \o g, p)
  <2>1. Len(f) \in Nat /\ Len(g) \in Nat /\ Len(f \o g) = Len(f) + Len(g)
        /\ f \o g \in Seq(Procs)
        /\ \A i \in 1 .. Len(f) + Len(g) : (f \o g)[i] = IF i <= Len(f) THEN f[i] ELSE g[i - Len(f)]
    BY <1>2
  <2>2. CASE p \in Range(f)
    <3>1. PICK i \in 1 .. Len(f) : f[i] = p
      BY <1>2, <2>2 DEF Range
    <3>2. i \in 1 .. Len(f \o g) /\ (f \o g)[i] = p
      BY <2>1, <3>1
    <3> QED
      BY <3>2 DEF Contains
  <2>3. CASE p \in Range(g)
    <3>1. PICK i \in 1 .. Len(g) : g[i] = p
      BY <1>2, <2>3 DEF Range
    <3>2. Len(f) + i \in 1 .. Len(f \o g) /\ (f \o g)[Len(f) + i] = p
      BY <2>1, <3>1
    <3> QED
      BY <3>2 DEF Contains
  <2> QED
    BY <1>2, <2>2, <2>3
<1> QED
  BY <1>1, <1>3

\* Whoever is asleep in blockMe can be woken: it is on a queue of its box, as long as no
\* interrupt runs others between the queue and blockMe and no box is used that is not there.
THEOREM NobodyForgottenCorrect ==
    Conduct \cap {"switch", "dead"} = {} => (Spec => []NobodyForgotten)
<1> SUFFICES ASSUME Conduct \cap {"switch", "dead"} = {} PROVE Spec => []NobodyForgotten
  OBVIOUS
<1>1. "dead" \notin Conduct
  OBVIOUS
<1> DEFINE IInv == TypeOK /\ Releases /\ Asleep
<1>2. Init => IInv
  BY TypeInit, ReleasesInit, AsleepInit
<1>3. IInv /\ [Next]_vars => IInv'
  BY <1>1, TypeStep, ReleasesStep, AsleepStep
<1>4. IInv => NobodyForgotten
  BY NobodyForgottenHolds
<1> QED
  BY <1>2, <1>3, <1>4, PTL DEF Spec

-----------------------------------------------------------------------------
(* Success is reported only for what happened.                                 *)

\* Boxes are created in the order of their numbers: those from the hint on are new, and
\* nobody stands at one of them.
Hint ==
    nextMBoxID # -1 =>
        \A b \in Boxes : nextMBoxID <= b =>
            status[b] = "EMPTY" /\ \A p \in Procs : at[p] # "user" => box[p] # b

\* Who waits without having been served is still on its queue, or its box is gone.
Unserved ==
    \A p \in Procs : at[p] \in Waiting /\ ~served[p] => OnQueue(p) \/ status[box[p]] # "ACTIVE"

LEMMA HintInit == Init => Hint
<1> SUFFICES ASSUME Init, NEW b \in Boxes, nextMBoxID <= b
             PROVE  status[b] = "EMPTY" /\ \A p \in Procs : at[p] = "user"
  BY DEF Hint
<1>1. nextMBoxID = IOBoxes /\ status[b] = IF b < IOBoxes THEN "ACTIVE" ELSE "EMPTY"
  BY DEF Init
<1>2. ~(b < IOBoxes)
  BY <1>1, SizeAssumption DEF Boxes
<1> QED
  BY <1>1, <1>2 DEF Init

LEMMA HintMoves ==
    ASSUME TypeOK, [Next]_vars
    PROVE  \/ nextMBoxID' = nextMBoxID \/ nextMBoxID' = -1
           \/ \E p \in Procs, g \in Geometries : Create(p, g)
<1> USE DEF boxVars, queueVars, slotVars, shadows, calls
<1>1. ASSUME NEW p \in Procs, CreateFails(p) \/ Zap(p) \/ BlockMe(p) \/ SendReturns(p) \/ RecvReturns(p)
      PROVE  nextMBoxID' = nextMBoxID \/ nextMBoxID' = -1
  BY <1>1 DEF CreateFails, Zap, BlockMe, SendReturns, RecvReturns
<1>2. ASSUME NEW b \in Boxes, NEW m \in Messages,
             SendRefused(b, m) \/ CondSendFull(b, m) \/ Deliver(b, m) \/ Store(b, m)
      PROVE  nextMBoxID' = nextMBoxID
  BY <1>2 DEF SendRefused, CondSendFull, Deliver, Store
<1>3. ASSUME NEW p \in Procs, NEW b \in Boxes, NEW m \in Messages, SendWait(p, b, m)
      PROVE  nextMBoxID' = nextMBoxID
  BY <1>3 DEF SendWait
<1>4. ASSUME NEW p \in Procs, NEW b \in Boxes, Rendezvous(p, b) \/ Release(p, b)
      PROVE  nextMBoxID' = nextMBoxID
  BY <1>4 DEF Rendezvous, Release
<1>5. ASSUME NEW p \in Procs, NEW b \in Boxes, NEW n \in BufSizes,
             RecvWait(p, b, n) \/ CondRecvNothing(p, b, n) \/ RecvSmall(p, b, n) \/ RecvSlot(p, b, n)
      PROVE  nextMBoxID' = nextMBoxID
  BY <1>5 DEF RecvWait, CondRecvNothing, RecvSmall, RecvSlot
<1>6. ASSUME NEW p \in Procs, ReleaseStep(p) PROVE nextMBoxID' = nextMBoxID
  BY <1>6 DEF ReleaseStep, ReleaseConsumer, WipeConsumer, ConsumersDone, ReleaseProducer, WipeProducer,
              ReleaseEnds
<1>7. CASE UNCHANGED vars
  BY <1>7 DEF vars
<1> QED
  BY <1>1, <1>2, <1>3, <1>4, <1>5, <1>6, <1>7 DEF Next, Step, Stopped

LEMMA HintStep ==
    ASSUME Conduct \cap {"dead", "reuse"} = {}
    PROVE  TypeOK /\ Releases /\ Hint /\ [Next]_vars => Hint'
<1> SUFFICES ASSUME TypeOK, Releases, Hint, [Next]_vars,
                    nextMBoxID' # -1, NEW y \in Boxes, nextMBoxID' <= y
             PROVE  status'[y] = "EMPTY" /\ \A q \in Procs : at'[q] # "user" => box'[q] # y
  BY DEF Hint
<1> DEFINE Goal == status'[y] = "EMPTY" /\ \A q \in Procs : at'[q] # "user" => box'[q] # y
<1>1. /\ at \in [Procs -> Places] /\ box \in [Procs -> Boxes] /\ nextMBoxID \in Int
      /\ status \in [Boxes -> {"EMPTY", "ACTIVE", "RELEASE"}]
  BY SizeAssumption DEF TypeOK
<1>2. CASE \E p \in Procs, g \in Geometries : Create(p, g)
  <2>1. PICK p \in Procs, g \in Geometries : Create(p, g)
    BY <1>2
  <2>2. PICK b \in Boxes : b = NewBox /\ b = nextMBoxID
    BY <2>1, NewBoxType DEF Create
  <2>3. b \in Nat /\ y \in Nat /\ nextMBoxID' = b + 1
    BY <2>1, <2>2, ConstantFacts DEF Create
  <2>4. nextMBoxID # -1 /\ nextMBoxID <= y /\ y # b
    BY <2>2, <2>3
  <2>5. status'[y] = status[y] /\ UNCHANGED <<at, box>>
    BY <1>1, <2>1, <2>2, <2>4 DEF Create, calls
  <2> QED
    BY <2>4, <2>5 DEF Hint
<1>3. CASE nextMBoxID' = nextMBoxID
  <2>1. status[y] = "EMPTY" /\ \A q \in Procs : at[q] # "user" => box[q] # y
    BY <1>3 DEF Hint
  <2>2. ASSUME NEW b \in Boxes, Usable(b) PROVE b # y
    BY <2>1, <2>2 DEF Usable
  <2>3. CASE Quiet \/ \E p \in Procs : Dozes(p)
    BY <2>1, <2>3 DEF Quiet, Dozes
  <2>4. ASSUME NEW b \in Boxes, Made(b) PROVE Goal
    <3>1. b = nextMBoxID
      BY <2>4 DEF Made
    <3>2. b \in Nat /\ nextMBoxID' = b + 1
      BY <2>4, ConstantFacts DEF Made
    <3> QED
      BY <1>3, <3>1, <3>2
  <2>5. ASSUME NEW p \in Procs, Returns(p) \/ Wipes(p) \/ Turns(p) PROVE Goal
    <3>1. at[p] # "user"
      BY <2>5 DEF Returns, Wipes, Turns, Waiting, Receiving
    <3> QED
      BY <1>1, <2>1, <2>5, <3>1 DEF Returns, Wipes, Turns
  <2>6. ASSUME NEW p \in Procs, Ends(p) PROVE Goal
    BY <1>1, <2>1, <2>6 DEF Ends
  <2>7. ASSUME NEW p \in Procs, NEW b \in Boxes, Begins(p, b) PROVE Goal
    BY <1>1, <2>1, <2>2, <2>7 DEF Begins
  <2>8. ASSUME NEW p \in Procs, NEW b \in Boxes, Serves(p, b) PROVE Goal
    BY <2>1, <2>8 DEF Serves
  <2>9. ASSUME NEW p \in Procs, NEW b \in Boxes, NEW place \in Waiting, Waits(p, b, place) PROVE Goal
    BY <1>1, <2>1, <2>2, <2>9 DEF Waits
  <2>10. ASSUME NEW p \in Procs, NEW q \in Procs, Wakes(p, q) PROVE Goal
    BY <1>1, <2>1, <2>10 DEF Wakes
  <2> QED
    BY <2>3, <2>4, <2>5, <2>6, <2>7, <2>8, <2>9, <2>10, StepEffects DEF Effects
<1> QED
  BY <1>2, <1>3, HintMoves

LEMMA UnservedInit == Init => Unserved
BY DEF Init, Unserved, Waiting, Receiving

LEMMA UnservedStep ==
    ASSUME Conduct \cap {"dead", "reuse"} = {}
    PROVE  TypeOK /\ Queues /\ Releases /\ Hint /\ Unserved /\ [Next]_vars => Unserved'
<1> SUFFICES ASSUME TypeOK, Queues, Releases, Hint, Unserved, Effects,
                    NEW q \in Procs, at'[q] \in Waiting, ~served'[q], status'[box'[q]] = "ACTIVE"
             PROVE  q \in Range(pros'[box'[q]]) \/ q \in Range(cons'[box'[q]])
  BY StepEffects DEF Unserved, OnQueue
<1> DEFINE Goal == q \in Range(pros'[box'[q]]) \/ q \in Range(cons'[box'[q]])
<1>1. /\ at \in [Procs -> Places] /\ box \in [Procs -> Boxes] /\ served \in [Procs -> BOOLEAN]
      /\ status \in [Boxes -> {"EMPTY", "ACTIVE", "RELEASE"}]
  BY DEF TypeOK
<1>2. ASSUME at[q] \in Waiting, ~served[q], status[box[q]] = "ACTIVE"
      PROVE  q \in Range(pros[box[q]]) \/ q \in Range(cons[box[q]])
  BY <1>2 DEF Unserved, OnQueue
<1>3. ASSUME at'[q] = at[q], box'[q] = box[q], served'[q] = served[q], status'[box[q]] = status[box[q]],
             \A b \in Boxes : /\ q \in Range(pros[b]) => q \in Range(pros'[b])
                              /\ q \in Range(cons[b]) => q \in Range(cons'[b])
      PROVE  Goal
  BY <1>1, <1>2, <1>3
<1>4. CASE Quiet \/ \E p \in Procs : Dozes(p)
  <2>1. UNCHANGED <<at, box, served, status, pros, cons>>
    BY <1>4 DEF Quiet, Dozes
  <2> QED
    BY <1>3, <2>1
<1>5. ASSUME NEW b \in Boxes, Made(b) PROVE Goal
  <2>1. b = nextMBoxID /\ UNCHANGED <<at, box, served, pros, cons>> /\ b \in Nat
    BY <1>5, ConstantFacts DEF Made
  <2>2. box[q] # b
    BY <2>1 DEF Hint, Waiting, Receiving
  <2>3. status'[box[q]] = status[box[q]]
    BY <1>1, <1>5, <2>2 DEF Made
  <2> QED
    BY <1>3, <2>1, <2>3
<1>6. ASSUME NEW p \in Procs, Returns(p) \/ Wipes(p) \/ Turns(p) \/ Ends(p) PROVE Goal
  <2>1. UNCHANGED <<pros, cons>>
    BY <1>6, EndsQuietly DEF Returns, Wipes, Turns
  <2>2. q # p
    BY <1>1, <1>6 DEF Returns, Wipes, Turns, Ends, Waiting, Receiving
  <2>3. at'[q] = at[q] /\ box'[q] = box[q] /\ served'[q] = served[q]
    BY <1>1, <1>6, <2>2 DEF Returns, Wipes, Turns, Ends
  <2>4. status'[box[q]] = status[box[q]]
    BY <1>1, <1>6, <2>3 DEF Returns, Wipes, Turns, Ends
  <2> QED
    BY <1>3, <2>1, <2>3, <2>4
<1>7. ASSUME NEW p \in Procs, NEW b \in Boxes, Begins(p, b) PROVE Goal
  <2>1. q # p /\ UNCHANGED <<pros, cons, served>>
    BY <1>1, <1>7 DEF Begins, Waiting, Receiving
  <2>2. at'[q] = at[q] /\ box'[q] = box[q] /\ status'[box[q]] = status[box[q]]
    BY <1>1, <1>7, <2>1 DEF Begins
  <2> QED
    BY <1>3, <2>1, <2>2
<1>8. ASSUME NEW p \in Procs, NEW b \in Boxes, Serves(p, b) PROVE Goal
  <2>1. UNCHANGED <<at, box, status>> /\ q # p /\ served'[q] = served[q]
    BY <1>1, <1>8 DEF Serves
  <2>2. \A x \in Boxes : /\ q \in Range(pros[x]) => q \in Range(pros'[x])
                         /\ q \in Range(cons[x]) => q \in Range(cons'[x])
    BY <1>8, <2>1, OthersStay DEF Serves
  <2> QED
    BY <1>3, <2>1, <2>2
<1>9. ASSUME NEW r \in Procs, NEW p \in Procs, Wakes(r, p) PROVE Goal
  <2>1. PICK x \in Boxes : x = box[r]
    BY <1>1
  <2>2. status[x] = "RELEASE" /\ UNCHANGED <<box, served, status>>
    BY <1>9, <2>1 DEF Wakes, Releases, Ending, Wiping
  <2>3. box[p] = x
    BY <1>9, <2>1, PopLeaves DEF Wakes
  <2>4. q # p
    BY <2>2, <2>3
  <2>a. \/ Pops(pros, pros', x, p) /\ cons' = cons
        \/ Pops(cons, cons', x, p) /\ pros' = pros
    BY <1>9, <2>1 DEF Wakes
  <2>5. \A y \in Boxes : /\ q \in Range(pros[y]) => q \in Range(pros'[y])
                         /\ q \in Range(cons[y]) => q \in Range(cons'[y])
    BY <2>4, <2>a, OthersStay
  <2>6. at'[q] = at[q]
    BY <1>1, <1>9 DEF Wakes, Waiting, Receiving
  <2> QED
    BY <1>3, <2>2, <2>5, <2>6
<1>10. ASSUME NEW p \in Procs, NEW b \in Boxes, NEW place \in Waiting, Waits(p, b, place) PROVE Goal
  <2>1. /\ p \in Range(pros'[b]) \/ p \in Range(cons'[b])
        /\ \A x \in Boxes : /\ q \in Range(pros[x]) => q \in Range(pros'[x])
                            /\ q \in Range(cons[x]) => q \in Range(cons'[x])
    BY <1>10, AllJoined
  <2>2. CASE q = p
    <3>1. box'[p] = b
      BY <1>1, <1>10 DEF Waits
    <3> QED
      BY <2>1, <2>2, <3>1
  <2>3. CASE q # p
    <3>1. at'[q] = at[q] /\ box'[q] = box[q] /\ served'[q] = served[q] /\ status' = status
      BY <1>1, <1>10, <2>3 DEF Waits
    <3> QED
      BY <1>3, <2>1, <3>1
  <2> QED
    BY <2>2, <2>3
<1> QED
  BY <1>4, <1>5, <1>6, <1>7, <1>8, <1>9, <1>10 DEF Effects

\* A send or a receive that waited reports success only if its message was taken or given:
\* its box cannot have been released and made anew meanwhile, as long as boxes are not
\* created in the place of released ones and no box is used that is not there.
THEOREM SuccessIsRealCorrect ==
    Conduct \cap {"dead", "reuse"} = {} => (Spec => SuccessIsReal)
<1> SUFFICES ASSUME Conduct \cap {"dead", "reuse"} = {} PROVE Spec => SuccessIsReal
  OBVIOUS
<1>1. "dead" \notin Conduct
  OBVIOUS
<1> DEFINE IInv == TypeOK /\ Queues /\ Releases /\ Hint /\ Unserved
           Real == \A p \in Procs : /\ SendReturns(p) /\ ret' = 0 => served[p]
                                    /\ RecvReturns(p) /\ ret' >= 0 => served[p]
<1>2. Init => IInv
  BY TypeInit, QueuesInit, ReleasesInit, HintInit, UnservedInit
<1>3. IInv /\ [Next]_vars => IInv'
  BY <1>1, TypeStep, QueuesStep, ReleasesStep, HintStep, UnservedStep
<1>4. IInv /\ [Next]_vars => [Real]_vars
  <2> SUFFICES ASSUME IInv, NEW p \in Procs, at[p] \in Waiting, sleep[p] = "no", ~served[p]
               PROVE  /\ SendReturns(p) => ret' # 0
                      /\ RecvReturns(p) => ~(ret' >= 0)
    BY DEF SendReturns, RecvReturns, Waiting, Receiving
  <2>1. box[p] \in Boxes
    BY DEF TypeOK
  <2>2. ~OnQueue(p)
    BY <2>1, QueuedWaits DEF OnQueue
  <2>3. status[box[p]] # "ACTIVE"
    BY <2>2 DEF Unserved
  <2>4. SendReturns(p) => ret' = -3
    BY <2>3 DEF SendReturns, Leave, SendResult
  <2>5. RecvReturns(p) => ret' \in {-1, -3}
    BY <2>3 DEF RecvReturns, Leave, RecvResult
  <2> QED
    BY <2>4, <2>5
<1> QED
  BY <1>2, <1>3, <1>4, PTL DEF Spec, SuccessIsReal

-----------------------------------------------------------------------------
(* Each box is a FIFO channel.  Its messages are those of its slots and then   *)
(* those of its producers; the first lemmas say what the operations on these   *)
(* two queues do to the messages.                                              *)

Along(q, f) == [i \in 1 .. Len(q) |-> f[q[i]]]
Maps(f, S, T) == f \in [S -> T]

\* The values of f at the members of q, in order.
LEMMA AlongIs ==
    ASSUME NEW S, NEW T, NEW f, NEW q \in Seq(S), Maps(f, S, T)
    PROVE  /\ Along(q, f) \in Seq(T) /\ Len(Along(q, f)) = Len(q) /\ Len(q) \in Nat
           /\ \A i \in 1 .. Len(q) : Along(q, f)[i] = f[q[i]] /\ q[i] \in S
           /\ Along(q, f) = << >> <=> q = << >>
<1>1. Len(q) \in Nat /\ \A i \in 1 .. Len(q) : q[i] \in S
  BY LenProperties
<1>2. \A i \in 1 .. Len(q) : f[q[i]] \in T
  BY <1>1 DEF Maps
<1>3. Along(q, f) \in [1 .. Len(q) -> T]
  BY <1>2 DEF Along
<1>4. Along(q, f) \in Seq(T) /\ Len(Along(q, f)) = Len(q)
  BY <1>1, <1>3
<1>5. \A i \in 1 .. Len(q) : Along(q, f)[i] = f[q[i]]
  BY DEF Along
<1>6. Along(q, f) = << >> <=> q = << >>
  BY <1>1, <1>4, EmptySeq
<1> QED
  BY <1>1, <1>4, <1>5, <1>6

LEMMA AlongSame ==
    ASSUME NEW S, NEW q \in Seq(S), NEW f, NEW g, \A s \in Range(q) : f[s] = g[s]
    PROVE  Along(q, f) = Along(q, g)
<1>1. \A i \in 1 .. Len(q) : q[i] \in Range(q)
  BY LenProperties DEF Range
<1> QED
  BY <1>1 DEF Along

LEMMA AlongAppend ==
    ASSUME NEW S, NEW T, NEW f, NEW q \in Seq(S), NEW e \in S, Maps(f, S, T)
    PROVE  Along(Append(q, e), f) = Append(Along(q, f), f[e])
<1>1. /\ Append(q, e) \in Seq(S) /\ Len(Append(q, e)) = Len(q) + 1 /\ f[e] \in T
      /\ \A i \in 1 .. Len(q) : Append(q, e)[i] = q[i]
      /\ Append(q, e)[Len(q) + 1] = e
  BY AppendProperties DEF Maps
<1>2. PICK u, v, w : u = Append(q, e) /\ v = Along(q, f) /\ w = Along(u, f)
  OBVIOUS
<1>3. /\ v \in Seq(T) /\ Len(v) = Len(q) /\ Len(q) \in Nat
      /\ \A i \in 1 .. Len(q) : v[i] = f[q[i]]
  BY <1>2, AlongIs
<1>4. /\ w \in Seq(T) /\ Len(w) = Len(q) + 1
      /\ \A i \in 1 .. Len(q) + 1 : w[i] = f[u[i]]
  <2>1. u \in Seq(S) /\ Len(u) = Len(q) + 1
    BY <1>1, <1>2
  <2>2. Along(u, f) \in Seq(T) /\ Len(Along(u, f)) = Len(u)
    BY <2>1, AlongIs
  <2>3. \A i \in 1 .. Len(u) : Along(u, f)[i] = f[u[i]]
    BY DEF Along
  <2> QED
    BY <1>2, <2>1, <2>2, <2>3
<1>5. /\ Append(v, f[e]) \in Seq(T) /\ Len(Append(v, f[e])) = Len(q) + 1
      /\ \A i \in 1 .. Len(q) : Append(v, f[e])[i] = v[i]
      /\ Append(v, f[e])[Len(q) + 1] = f[e]
  BY <1>1, <1>3, AppendProperties
<1>6. ASSUME NEW i \in 1 .. Len(q) + 1 PROVE w[i] = Append(v, f[e])[i]
  <2>1. CASE i \in 1 .. Len(q)
    BY <1>1, <1>2, <1>3, <1>4, <1>5, <2>1
  <2>2. CASE i = Len(q) + 1
    BY <1>1, <1>2, <1>4, <1>5, <2>2
  <2> QED
    BY <1>3, <2>1, <2>2
<1>7. w = Append(v, f[e])
  BY <1>4, <1>5, <1>6, SeqEqual
<1> QED
  BY <1>2, <1>7

LEMMA AlongTail ==
    ASSUME NEW S, NEW T, NEW f, NEW q \in Seq(S), q # << >>, Maps(f, S, T)
    PROVE  /\ Head(Along(q, f)) = f[Head(q)]
           /\ Tail(Along(q, f)) = Along(Tail(q), f)
<1>1. PICK t, v, w : t = Tail(q) /\ v = Along(q, f) /\ w = Along(t, f)
  OBVIOUS
<1>2. /\ t \in Seq(S) /\ Len(t) = Len(q) - 1 /\ Len(q) \in Nat \ {0} /\ Head(q) = q[1]
      /\ \A i \in 1 .. Len(q) - 1 : t[i] = q[i + 1]
  BY <1>1, HeadTailProperties, EmptySeq
<1>3. /\ v \in Seq(T) /\ Len(v) = Len(q) /\ v # << >>
      /\ \A i \in 1 .. Len(q) : v[i] = f[q[i]]
  <2>1. Along(q, f) \in Seq(T) /\ Len(Along(q, f)) = Len(q) /\ Along(q, f) # << >>
    BY AlongIs
  <2>2. \A i \in 1 .. Len(q) : Along(q, f)[i] = f[q[i]]
    BY DEF Along
  <2> QED
    BY <1>1, <2>1, <2>2
<1>4. /\ w \in Seq(T) /\ Len(w) = Len(q) - 1
      /\ \A i \in 1 .. Len(q) - 1 : w[i] = f[t[i]]
  <2>1. t \in Seq(S)
    BY <1>2
  <2>2. Along(t, f) \in Seq(T) /\ Len(Along(t, f)) = Len(t)
    BY <2>1, AlongIs
  <2>3. \A i \in 1 .. Len(t) : Along(t, f)[i] = f[t[i]]
    BY DEF Along
  <2> QED
    BY <1>1, <1>2, <2>2, <2>3
<1>5. /\ Tail(v) \in Seq(T) /\ Len(Tail(v)) = Len(q) - 1 /\ Head(v) = v[1]
      /\ \A i \in 1 .. Len(q) - 1 : Tail(v)[i] = v[i + 1]
  BY <1>3, HeadTailProperties
<1>6. ASSUME NEW i \in 1 .. Len(q) - 1 PROVE w[i] = Tail(v)[i]
  <2>1. i + 1 \in 1 .. Len(q)
    BY <1>2
  <2>2. t[i] = q[i + 1]
    BY <1>2
  <2>3. w[i] = f[q[i + 1]]
    BY <1>4, <2>2
  <2>4. Tail(v)[i] = v[i + 1]
    BY <1>5
  <2>5. v[i + 1] = f[q[i + 1]]
    BY <1>3, <2>1
  <2> QED
    BY <2>3, <2>4, <2>5
<1>7. w = Tail(v)
  BY <1>4, <1>5, <1>6, SeqEqual
<1>8. 1 \in 1 .. Len(q)
  BY <1>2
<1> QED
  BY <1>1, <1>2, <1>3, <1>5, <1>7, <1>8

Values == Messages \cup {NoMsg}

\* What is in a box.
LEMMA BoxIs ==
    ASSUME TypeOK, NEW b \in Boxes
    PROVE  /\ InBox(b) = Along(slots[b], slotMsg) \o Along(pros[b], proMsg)
           /\ Along(slots[b], slotMsg) \in Seq(Values) /\ Along(pros[b], proMsg) \in Seq(Values)
           /\ slots[b] = << >> => Along(slots[b], slotMsg) = << >>
           /\ slots[b] # << >> => Along(slots[b], slotMsg) # << >>
           /\ pros[b] = << >> => Along(pros[b], proMsg) = << >>
           /\ pros[b] # << >> => Along(pros[b], proMsg) # << >>
           /\ InBox(b) = << >> <=> slots[b] = << >> /\ pros[b] = << >>
<1>1. /\ slots[b] \in Seq(Slots) /\ pros[b] \in Seq(Procs)
      /\ Maps(slotMsg, Slots, Values) /\ Maps(proMsg, Procs, Values)
  BY DEF TypeOK, Values, Maps
<1>2. InBox(b) = Along(slots[b], slotMsg) \o Along(pros[b], proMsg)
  BY DEF InBox, Along
<1>3. Along(slots[b], slotMsg) \in Seq(Values) /\ (Along(slots[b], slotMsg) = << >> <=> slots[b] = << >>)
  BY <1>1, AlongIs
<1>4. Along(pros[b], proMsg) \in Seq(Values) /\ (Along(pros[b], proMsg) = << >> <=> pros[b] = << >>)
  BY <1>1, AlongIs
<1>5. InBox(b) = << >> <=> slots[b] = << >> /\ pros[b] = << >>
  BY <1>2, <1>3, <1>4, ConcatEqualIffEmpty
<1> QED
  BY <1>2, <1>3, <1>4, <1>5

\* A box is left alone by a step that changes no entry on its queues.
LEMMA BoxSame ==
    ASSUME TypeOK, NEW b \in Boxes, slots'[b] = slots[b], pros'[b] = pros[b],
           \A s \in Range(slots[b]) : slotMsg'[s] = slotMsg[s],
           \A q \in Range(pros[b]) : proMsg'[q] = proMsg[q]
    PROVE  InBox(b)' = InBox(b)
<1>1. slots[b] \in Seq(Slots) /\ pros[b] \in Seq(Procs)
  BY DEF TypeOK
<1>2. Along(slots[b], slotMsg') = Along(slots[b], slotMsg)
  BY <1>1, AlongSame
<1>3. Along(pros[b], proMsg') = Along(pros[b], proMsg)
  BY <1>1, AlongSame
<1>4. InBox(b) = Along(slots[b], slotMsg) \o Along(pros[b], proMsg)
  BY DEF InBox, Along
<1>5. InBox(b)' = Along(slots'[b], slotMsg') \o Along(pros'[b], proMsg')
  BY DEF InBox, Along
<1> QED
  BY <1>2, <1>3, <1>4, <1>5

\* A message is sent: it comes last.
LEMMA BoxPut ==
    ASSUME TypeOK, TypeOK', NEW b \in Boxes, NEW m \in Values,
           \/ /\ pros[b] = << >> /\ pros'[b] = << >>
              /\ \E s \in Slots : /\ slots'[b] = Append(slots[b], s) /\ slotMsg'[s] = m
                                  /\ \A r \in Range(slots[b]) : slotMsg'[r] = slotMsg[r]
           \/ /\ slots'[b] = slots[b] /\ slotMsg' = slotMsg
              /\ \E p \in Procs : /\ pros'[b] = Append(pros[b], p) /\ proMsg'[p] = m
                                  /\ \A r \in Range(pros[b]) : proMsg'[r] = proMsg[r]
    PROVE  InBox(b)' = Append(InBox(b), m)
<1>1. /\ slots[b] \in Seq(Slots) /\ pros[b] \in Seq(Procs)
      /\ Maps(slotMsg', Slots, Values) /\ Maps(proMsg', Procs, Values)
  BY DEF TypeOK, Values, Maps
<1>2. PICK u \in Seq(Values), v \in Seq(Values) :
        /\ u = Along(slots[b], slotMsg) /\ v = Along(pros[b], proMsg) /\ InBox(b) = u \o v
        /\ pros[b] = << >> => v = << >>
  BY BoxIs
<1>3. InBox(b)' = Along(slots'[b], slotMsg') \o Along(pros'[b], proMsg')
  BY DEF InBox, Along
<1>4. CASE /\ pros[b] = << >> /\ pros'[b] = << >>
           /\ \E s \in Slots : /\ slots'[b] = Append(slots[b], s) /\ slotMsg'[s] = m
                               /\ \A r \in Range(slots[b]) : slotMsg'[r] = slotMsg[r]
  <2>1. PICK s \in Slots : /\ slots'[b] = Append(slots[b], s) /\ slotMsg'[s] = m
                           /\ \A r \in Range(slots[b]) : slotMsg'[r] = slotMsg[r]
    BY <1>4
  <2>2. Along(slots[b], slotMsg') = u
    BY <1>1, <1>2, <2>1, AlongSame
  <2>3. Along(Append(slots[b], s), slotMsg') = Append(u, m)
    BY <1>1, <2>1, <2>2, AlongAppend
  <2>4. Along(pros'[b], proMsg') = << >>
    BY <1>4 DEF Along
  <2>5. InBox(b) = u /\ InBox(b)' = Append(u, m) \o << >> /\ Append(u, m) \in Seq(Values)
    BY <1>2, <1>3, <1>4, <2>1, <2>3, <2>4, ConcatEmptySeq, AppendProperties
  <2>6. Append(u, m) \o << >> = Append(u, m)
    BY <2>5, ConcatEmptySeq
  <2> QED
    BY <2>5, <2>6
<1>5. CASE /\ slots'[b] = slots[b] /\ slotMsg' = slotMsg
           /\ \E p \in Procs : /\ pros'[b] = Append(pros[b], p) /\ proMsg'[p] = m
                               /\ \A r \in Range(pros[b]) : proMsg'[r] = proMsg[r]
  <2>1. PICK p \in Procs : /\ pros'[b] = Append(pros[b], p) /\ proMsg'[p] = m
                           /\ \A r \in Range(pros[b]) : proMsg'[r] = proMsg[r]
    BY <1>5
  <2>2. Along(pros[b], proMsg') = v
    BY <1>1, <1>2, <2>1, AlongSame
  <2>3. Along(Append(pros[b], p), proMsg') = Append(v, m)
    BY <1>1, <2>1, <2>2, AlongAppend
  <2>4. InBox(b)' = u \o Append(v, m)
    BY <1>2, <1>3, <1>5, <2>1, <2>3
  <2>5. u \o Append(v, m) = Append(u \o v, m)
    BY ConcatContents
  <2> QED
    BY <1>2, <2>4, <2>5, Zenon
<1> QED
  BY <1>4, <1>5

\* The oldest message is taken out of its slot.
LEMMA BoxTake ==
    ASSUME TypeOK, NEW b \in Boxes, slots[b] # << >>, slots'[b] = Tail(slots[b]),
           pros'[b] = pros[b], slotMsg' = slotMsg, proMsg' = proMsg
    PROVE  /\ InBox(b) # << >> /\ Head(InBox(b)) = slotMsg[Head(slots[b])]
           /\ InBox(b)' = Tail(InBox(b))
<1>1. slots[b] \in Seq(Slots) /\ Maps(slotMsg, Slots, Values)
  BY DEF TypeOK, Values, Maps
<1>2. PICK u \in Seq(Values), v \in Seq(Values) :
        u = Along(slots[b], slotMsg) /\ v = Along(pros[b], proMsg) /\ InBox(b) = u \o v /\ u # << >>
  BY BoxIs
<1>3. Head(u) = slotMsg[Head(slots[b])] /\ Tail(u) = Along(Tail(slots[b]), slotMsg)
  BY <1>1, <1>2, AlongTail
<1>4. InBox(b)' = Along(slots'[b], slotMsg') \o Along(pros'[b], proMsg')
  BY DEF InBox, Along
<1>5. InBox(b)' = Tail(u) \o v
  BY <1>2, <1>3, <1>4
<1>6. u \o v # << >> /\ Head(u \o v) = Head(u) /\ Tail(u \o v) = Tail(u) \o v
  BY <1>2, ConcatContents
<1> QED
  BY <1>2, <1>3, <1>5, <1>6

\* It is copied from a producer, there being no slots.
LEMMA BoxTakeOver ==
    ASSUME TypeOK, NEW b \in Boxes, slots[b] = << >>, slots'[b] = << >>, pros[b] # << >>,
           pros'[b] = Tail(pros[b]), proMsg' = proMsg
    PROVE  /\ InBox(b) # << >> /\ Head(InBox(b)) = proMsg[Head(pros[b])]
           /\ InBox(b)' = Tail(InBox(b))
<1>1. pros[b] \in Seq(Procs) /\ Maps(proMsg, Procs, Values)
  BY DEF TypeOK, Values, Maps
<1>2. PICK v \in Seq(Values) : v = Along(pros[b], proMsg) /\ InBox(b) = << >> \o v /\ v # << >>
  BY BoxIs
<1>3. Head(v) = proMsg[Head(pros[b])] /\ Tail(v) = Along(Tail(pros[b]), proMsg) /\ Tail(v) \in Seq(Values)
  BY <1>1, <1>2, AlongTail, HeadTailProperties
<1>4. InBox(b)' = Along(slots'[b], slotMsg') \o Along(pros'[b], proMsg')
  BY DEF InBox, Along
<1>5. Along(slots'[b], slotMsg') = << >>
  BY DEF Along
<1>6. InBox(b)' = << >> \o Tail(v)
  BY <1>3, <1>4, <1>5
<1>7. << >> \o v = v /\ << >> \o Tail(v) = Tail(v)
  BY <1>3, ConcatEmptySeq
<1> QED
  BY <1>2, <1>3, <1>6, <1>7

\* It is taken out of its slot, and the message of the first producer is put into one.
LEMMA BoxTakeOn ==
    ASSUME TypeOK, TypeOK', NEW b \in Boxes, slots[b] # << >>, pros[b] # << >>, NEW s \in Slots,
           slots'[b] = Append(Tail(slots[b]), s), pros'[b] = Tail(pros[b]), proMsg' = proMsg,
           slotMsg'[s] = proMsg[Head(pros[b])],
           \A r \in Range(Tail(slots[b])) : slotMsg'[r] = slotMsg[r]
    PROVE  /\ InBox(b) # << >> /\ Head(InBox(b)) = slotMsg[Head(slots[b])]
           /\ InBox(b)' = Tail(InBox(b))
<1>1. /\ slots[b] \in Seq(Slots) /\ pros[b] \in Seq(Procs)
      /\ Maps(slotMsg, Slots, Values) /\ Maps(slotMsg', Slots, Values) /\ Maps(proMsg, Procs, Values)
  BY DEF TypeOK, Values, Maps
<1>2. PICK u \in Seq(Values), v \in Seq(Values) :
        /\ u = Along(slots[b], slotMsg) /\ v = Along(pros[b], proMsg) /\ InBox(b) = u \o v
        /\ u # << >> /\ v # << >>
  BY BoxIs
<1>3. Head(u) = slotMsg[Head(slots[b])] /\ Tail(u) = Along(Tail(slots[b]), slotMsg)
  BY <1>1, <1>2, AlongTail
<1>4. Head(v) = proMsg[Head(pros[b])] /\ Tail(v) = Along(Tail(pros[b]), proMsg)
  BY <1>1, <1>2, AlongTail
<1>5. Tail(slots[b]) \in Seq(Slots) /\ Tail(u) \in Seq(Values)
  BY <1>1, <1>2, HeadTailProperties
<1>6. Along(Tail(slots[b]), slotMsg') = Tail(u)
  BY <1>3, <1>5, AlongSame
<1>7. Along(slots'[b], slotMsg') = Append(Tail(u), Head(v))
  <2>1. PICK r \in Seq(Slots), f \in [Slots -> Values] : r = Tail(slots[b]) /\ f = slotMsg'
    BY <1>1, <1>5 DEF Maps
  <2>2. Maps(f, Slots, Values)
    BY DEF Maps
  <2>3. Along(Append(r, s), f) = Append(Along(r, f), f[s])
    BY <2>2, AlongAppend
  <2> QED
    BY <1>4, <1>6, <2>1, <2>3
<1>8. InBox(b)' = Along(slots'[b], slotMsg') \o Along(pros'[b], proMsg')
  BY DEF InBox, Along
<1>9. InBox(b)' = Append(Tail(u), Head(v)) \o Tail(v)
  BY <1>4, <1>7, <1>8
<1>10. Append(Tail(u), Head(v)) \o Tail(v) = Tail(u) \o v
  BY <1>2, <1>5, ConcatContents
<1>11. u \o v # << >> /\ Head(u \o v) = Head(u) /\ Tail(u \o v) = Tail(u) \o v
  BY <1>2, ConcatContents
<1> QED
  BY <1>2, <1>3, <1>9, <1>10, <1>11

\* All boxes but one are left alone.
LEMMA ContentsMove ==
    ASSUME NEW b \in Boxes, \A x \in Boxes \ {b} : InBox(x)' = InBox(x)
    PROVE  Contents' = [Contents EXCEPT ![b] = InBox(b)'] /\ Contents[b] = InBox(b)
BY DEF Contents

\* What the rest of the proof needs of the invariants.
LEMMA BoxFacts ==
    ASSUME Careful, TypeOK, Queues, Releases, SlotsInv, WaitersHaveCause, NEW b \in Boxes
    PROVE  /\ cons[b] # << >> => slots[b] = << >> /\ pros[b] = << >>
           /\ pros[b] # << >> => Full(b)
           /\ status[b] # "ACTIVE" => slots[b] = << >>
           /\ Usable(b) => status[b] = "ACTIVE" /\ (totalSlots[b] = 0 => slots[b] = << >>)
           /\ Usable(b) /\ ~ConsumerReady(b) => cons[b] = << >>
           /\ Usable(b) /\ Nothing(b) => slots[b] = << >> /\ pros[b] = << >>
<1>1. /\ slots[b] \in Seq(Slots) /\ Len(slots[b]) \in Nat /\ totalSlots[b] \in Int
      /\ slots[b] = << >> <=> Len(slots[b]) = 0
      /\ currentNumOfSlots[b] = Len(slots[b])
  <2>1. slots[b] \in Seq(Slots) /\ totalSlots[b] \in Int
    BY DEF TypeOK
  <2>2. Len(slots[b]) \in Nat /\ (slots[b] = << >> <=> Len(slots[b]) = 0)
    BY <2>1, EmptySeq
  <2> QED
    BY <2>1, <2>2 DEF SlotsInv, SlotsOK
<1>2. /\ cons[b] # << >> => slots[b] = << >> /\ pros[b] = << >>
      /\ pros[b] # << >> => Len(slots[b]) = totalSlots[b]
  BY <1>1 DEF WaitersHaveCause, Full
<1>3. Usable(b) => status[b] = "ACTIVE" /\ Len(slots[b]) <= totalSlots[b]
  BY DEF Usable, Careful, SlotsInv
<1>4. Usable(b) /\ totalSlots[b] = 0 => slots[b] = << >>
  BY <1>1, <1>3
<1>5. ASSUME Usable(b), ~ConsumerReady(b), cons[b] # << >> PROVE FALSE
  <2>1. totalSlots[b] # 0 /\ ~(Len(slots[b]) < totalSlots[b])
    BY <1>1, <1>5 DEF ConsumerReady
  <2>2. Len(slots[b]) = 0 /\ Len(slots[b]) <= totalSlots[b]
    BY <1>1, <1>2, <1>3, <1>5
  <2> QED
    BY <1>1, <2>1, <2>2
<1>6. ASSUME Usable(b), Nothing(b) PROVE slots[b] = << >> /\ pros[b] = << >>
  <2>1. CASE totalSlots[b] = 0
    BY <1>4, <1>6, <2>1 DEF Nothing
  <2>2. CASE totalSlots[b] # 0
    <3>1. slots[b] = << >> /\ Len(slots[b]) = 0
      BY <1>1, <1>6, <2>2 DEF Nothing
    <3> QED
      BY <1>2, <2>2, <3>1
  <2> QED
    BY <2>1, <2>2
<1> QED
  BY <1>1, <1>2, <1>3, <1>4, <1>5, <1>6 DEF SlotsInv, WaitersHaveCause

\* Each step is one of a channel, or changes neither the messages nor the receivers.
LEMMA FifoStep ==
    ASSUME Careful, TypeOK, TypeOK', Queues, Releases, SlotsInv, Wakers, WaitersHaveCause, [Next]_vars
    PROVE  [Fifo!Next]_<<Contents, cons, got>>
<1> DEFINE Goal == [Fifo!Next]_<<Contents, cons, got>>
           Same(x) == InBox(x)' = InBox(x)
<1>1. /\ pros \in [Boxes -> Seq(Procs)] /\ cons \in [Boxes -> Seq(Procs)]
      /\ slots \in [Boxes -> Seq(Slots)] /\ box \in [Procs -> Boxes]
      /\ proMsg \in [Procs -> Values] /\ slotMsg \in [Slots -> Values]
      /\ \A b \in Boxes : Range(pros[b]) \subseteq Procs
  BY QueueTypes DEF TypeOK, Values
<1>2. ASSUME UNCHANGED <<cons, got>>, \A x \in Boxes : Same(x) PROVE Goal
  BY <1>2 DEF Contents
<1>3. ASSUME NEW b \in Boxes, NEW m \in Messages, cons[b] = << >>, UNCHANGED <<cons, got>>,
             InBox(b)' = Append(InBox(b), m), \A x \in Boxes \ {b} : Same(x)
      PROVE  Goal
  <2>1. Contents' = [Contents EXCEPT ![b] = Append(Contents[b], m)]
    BY <1>3, ContentsMove
  <2>2. Fifo!Put(b, m)
    BY <1>3, <2>1 DEF Fifo!Put
  <2> QED
    BY <2>2 DEF Fifo!Next
<1>4. ASSUME NEW b \in Boxes, NEW p \in Procs, UNCHANGED cons, InBox(b) # << >>,
             got' = <<p, Head(InBox(b))>>, InBox(b)' = Tail(InBox(b)),
             \A x \in Boxes \ {b} : Same(x)
      PROVE  Goal
  <2>1. Contents' = [Contents EXCEPT ![b] = Tail(Contents[b])] /\ Contents[b] = InBox(b)
    BY <1>4, ContentsMove
  <2>2. Fifo!Take(b, p)
    BY <1>4, <2>1 DEF Fifo!Take
  <2> QED
    BY <2>2 DEF Fifo!Next
<1>5. ASSUME UNCHANGED <<slots, pros, slotMsg, proMsg>> PROVE \A x \in Boxes : Same(x)
  BY <1>5 DEF InBox
<1>6. ASSUME NEW p \in Procs, UNCHANGED <<slots, pros, slotMsg>>,
             \A r \in Procs \ {p} : proMsg'[r] = proMsg[r],
             \A b \in Boxes : p \notin Range(pros[b])
      PROVE  \A x \in Boxes : Same(x)
  BY <1>1, <1>6, BoxSame
<1>7. ASSUME NEW p \in Procs, NEW value, Leave(p, value), UNCHANGED <<slots, pros, slotMsg, cons, got>>,
             at[p] \notin Waiting \/ sleep[p] = "no"
      PROVE  Goal
  <2>1. \A r \in Procs \ {p} : proMsg'[r] = proMsg[r]
    BY <1>1, <1>7 DEF Leave
  <2> QED
    BY <1>2, <1>6, <1>7, <2>1, QueuedWaits
<1> USE DEF boxVars, queueVars, slotVars, shadows, calls
<1>8. ASSUME NEW p \in Procs, CreateFails(p) \/ Zap(p) \/ BlockMe(p) \/ ConsumersDone(p) \/ WipeConsumer(p)
      PROVE  Goal
  <2>1. UNCHANGED <<slots, pros, slotMsg, proMsg, cons, got>>
    BY <1>8 DEF CreateFails, Zap, BlockMe, ConsumersDone, WipeConsumer
  <2> QED
    BY <1>2, <1>5, <2>1
<1>9. ASSUME NEW b \in Boxes, NEW m \in Messages, SendRefused(b, m) \/ CondSendFull(b, m)
      PROVE  Goal
  <2>1. UNCHANGED <<slots, pros, slotMsg, proMsg, cons, got>>
    BY <1>9 DEF SendRefused, CondSendFull
  <2> QED
    BY <1>2, <1>5, <2>1
<1>10. ASSUME NEW p \in Procs, NEW b \in Boxes, NEW n \in BufSizes,
              CondRecvNothing(p, b, n) \/ RecvSmall(p, b, n)
       PROVE  Goal
  <2>1. UNCHANGED <<slots, pros, slotMsg, proMsg, cons, got>>
    BY <1>10 DEF CondRecvNothing, RecvSmall, Careful
  <2> QED
    BY <1>2, <1>5, <2>1
<1>11. ASSUME NEW p \in Procs, NEW g \in Geometries, Create(p, g) PROVE Goal
  <2>1. UNCHANGED <<slots, pros, slotMsg, proMsg, cons, got>>
    BY <1>11 DEF Create
  <2> QED
    BY <1>2, <1>5, <2>1
<1>12. ASSUME NEW p \in Procs, SendReturns(p) \/ RecvReturns(p) PROVE Goal
  <2>1. CASE SendReturns(p)
    BY <1>7, <2>1 DEF SendReturns
  <2>2. CASE RecvReturns(p)
    BY <1>7, <2>2 DEF RecvReturns
  <2> QED
    BY <1>12, <2>1, <2>2
<1>13. ASSUME NEW p \in Procs, WipeProducer(p) PROVE Goal
  <2>1. \A b \in Boxes : other[p] \notin Range(pros[b])
    BY <1>13 DEF WipeProducer, Wakers, Wiping
  <2>2. /\ other[p] \in Procs /\ \A r \in Procs \ {other[p]} : proMsg'[r] = proMsg[r]
        /\ UNCHANGED <<slots, pros, slotMsg, cons, got>>
    BY <1>1, <1>13 DEF WipeProducer, TypeOK
  <2> QED
    BY <1>2, <1>6, <2>1, <2>2
<1>14. ASSUME NEW b \in Boxes, NEW m \in Messages, Deliver(b, m) PROVE Goal
  <2>1. /\ cons[b] # << >> /\ cons' = [cons EXCEPT ![b] = Tail(@)] /\ got' = <<Head(cons[b]), m>>
        /\ UNCHANGED <<slots, pros, slotMsg, proMsg>>
    BY <1>14 DEF Deliver, ConsumerReady
  <2>2. Contents' = Contents
    BY <1>5, <2>1 DEF Contents
  <2>3. Fifo!Hand(b, m)
    BY <2>1, <2>2 DEF Fifo!Hand
  <2> QED
    BY <2>3 DEF Fifo!Next
<1>15. ASSUME NEW p \in Procs, NEW b \in Boxes, NEW n \in BufSizes, RecvWait(p, b, n) PROVE Goal
  <2>1. /\ Usable(b) /\ Nothing(b) /\ cons' = [cons EXCEPT ![b] = Append(@, p)]
        /\ UNCHANGED <<slots, pros, slotMsg, proMsg, got>>
    BY <1>15 DEF RecvWait, Receiver
  <2>2. InBox(b) = << >>
    BY <2>1, BoxFacts, BoxIs
  <2>3. Contents' = Contents /\ Contents[b] = << >>
    BY <1>5, <2>1, <2>2 DEF Contents
  <2>4. Fifo!Wait(b, p)
    BY <2>1, <2>3 DEF Fifo!Wait
  <2> QED
    BY <2>4 DEF Fifo!Next
<1>16. ASSUME NEW p \in Procs, NEW b \in Boxes, NEW m \in Messages, SendWait(p, b, m) PROVE Goal
  <2>1. /\ at[p] = "user" /\ Usable(b) /\ ~ConsumerReady(b)
        /\ proMsg' = [proMsg EXCEPT ![p] = m] /\ pros' = [pros EXCEPT ![b] = Append(@, p)]
        /\ UNCHANGED <<slots, cons, slotMsg, got>>
    BY <1>16 DEF SendWait, Calls
  <2>2. \A x \in Boxes : p \notin Range(pros[x])
    BY <2>1, QueuedWaits DEF Waiting, Receiving
  <2>3. /\ pros'[b] = Append(pros[b], p) /\ proMsg'[p] = m
        /\ \A r \in Procs \ {p} : proMsg'[r] = proMsg[r]
        /\ \A x \in Boxes \ {b} : pros'[x] = pros[x]
    BY <1>1, <2>1
  <2>4. \A x \in Boxes : \A r \in Range(pros[x]) : proMsg'[r] = proMsg[r]
    BY <1>1, <2>2, <2>3
  <2>5. InBox(b)' = Append(InBox(b), m)
    BY <2>1, <2>3, <2>4, BoxPut DEF Values
  <2>6. \A x \in Boxes \ {b} : Same(x)
    BY <2>1, <2>3, <2>4, BoxSame
  <2>7. cons[b] = << >>
    BY <2>1, BoxFacts
  <2> QED
    BY <1>3, <2>1, <2>5, <2>6, <2>7
<1>17. ASSUME NEW b \in Boxes, NEW m \in Messages, Store(b, m) PROVE Goal
  <2>1. /\ Usable(b) /\ ~ConsumerReady(b) /\ ~Full(b)
        /\ globalSlotUsed # MAXSLOTS
        /\ Fill(b, m, slotStatus, slots[b], currentNumOfSlots[b], globalSlotUsed)
        /\ UNCHANGED <<pros, cons, proMsg, got>>
    BY <1>17 DEF Store, Caller, Accepts
  <2>2. slotStatus \in [Slots -> {"EMPTY", "ACTIVE"}] /\ globalSlotUsed = Cardinality(Used(slotStatus))
    BY DEF TypeOK, SlotsInv, SlotsOK
  <2>3. \E s \in Slots : slotStatus[s] = "EMPTY"
    BY <2>1, <2>2, UsedFinite
  <2>4. PICK s \in Slots : s = NewSlot(slotStatus) /\ s # -1 /\ slotStatus[s] = "EMPTY"
    BY <2>2, <2>3, SlotFound, NewSlotType
  <2>5. slotMsg' = [slotMsg EXCEPT ![s] = m] /\ slots' = [slots EXCEPT ![b] = Append(slots[b], s)]
    BY <2>1, <2>4 DEF Fill
  <2>6. \A x \in Boxes : \A r \in Range(slots[x]) : slotStatus[r] = "ACTIVE"
    BY DEF SlotsInv, SlotsOK
  <2>7. /\ slots'[b] = Append(slots[b], s) /\ slotMsg'[s] = m
        /\ \A x \in Boxes \ {b} : slots'[x] = slots[x]
    BY <1>1, <2>5
  <2>8. \A x \in Boxes : \A r \in Range(slots[x]) : slotMsg'[r] = slotMsg[r]
    BY <1>1, <2>4, <2>5, <2>6
  <2>9. cons[b] = << >> /\ pros[b] = << >>
    BY <2>1, BoxFacts
  <2>10. InBox(b)' = Append(InBox(b), m)
    BY <2>1, <2>7, <2>8, <2>9, BoxPut DEF Values
  <2>11. \A x \in Boxes \ {b} : Same(x)
    BY <2>1, <2>7, <2>8, BoxSame
  <2> QED
    BY <1>3, <2>1, <2>9, <2>10, <2>11
<1>18. ASSUME NEW p \in Procs, NEW b \in Boxes, Rendezvous(p, b) PROVE Goal
  <2>1. /\ Usable(b) /\ totalSlots[b] = 0 /\ pros[b] # << >>
        /\ pros' = [pros EXCEPT ![b] = Tail(@)] /\ got' = <<p, proMsg[Head(pros[b])]>>
        /\ UNCHANGED <<slots, cons, slotMsg, proMsg>>
    BY <1>18 DEF Rendezvous, Receiver
  <2>2. slots[b] = << >> /\ slots'[b] = << >>
    BY <2>1, BoxFacts
  <2>3. pros'[b] = Tail(pros[b]) /\ \A x \in Boxes \ {b} : pros'[x] = pros[x]
    BY <1>1, <2>1
  <2>4. InBox(b) # << >> /\ Head(InBox(b)) = proMsg[Head(pros[b])] /\ InBox(b)' = Tail(InBox(b))
    BY <2>1, <2>2, <2>3, BoxTakeOver
  <2>5. \A x \in Boxes \ {b} : Same(x)
    BY <2>1, <2>3, BoxSame
  <2> QED
    BY <1>4, <2>1, <2>4, <2>5
<1>19. ASSUME NEW p \in Procs, ReleaseConsumer(p) PROVE Goal
  <2>1. PICK b \in Boxes : b = box[p]
    BY <1>1
  <2>2. /\ cons[b] # << >> /\ cons' = [cons EXCEPT ![b] = Tail(@)]
        /\ UNCHANGED <<slots, pros, slotMsg, proMsg, got>>
    BY <1>19, <2>1 DEF ReleaseConsumer
  <2>3. Contents' = Contents /\ Contents[b] = << >>
    <3>1. InBox(b) = << >>
      BY <2>2, BoxFacts, BoxIs
    <3> QED
      BY <1>5, <2>2, <3>1 DEF Contents
  <2>4. cons[b] \in Seq(Procs)
    BY <1>1
  <2>5. Tail(cons[b]) = SubSeq(cons[b], 1 + 1, Len(cons[b])) /\ Len(cons[b]) \in Nat \ {0}
    BY <2>2, <2>4, TailIsSubSeq, EmptySeq
  <2>6. cons' = [cons EXCEPT ![b] = SubSeq(@, 1 + 1, Len(@))]
    BY <2>2, <2>5
  <2>7. 1 \in 1 .. Len(Contents[b]) + Len(cons[b])
    BY <2>3, <2>5
  <2>8. Fifo!GiveUp(b, 1)
    BY <2>2, <2>3, <2>6 DEF Fifo!GiveUp
  <2> QED
    BY <2>7, <2>8 DEF Fifo!Next
<1>20. ASSUME NEW p \in Procs, ReleaseProducer(p) PROVE Goal
  <2>1. PICK b \in Boxes : b = box[p]
    BY <1>1
  <2>2. /\ at[p] = "pros" /\ pros[b] # << >> /\ pros' = [pros EXCEPT ![b] = Tail(@)]
        /\ UNCHANGED <<slots, cons, slotMsg, proMsg, got>>
    BY <1>20, <2>1 DEF ReleaseProducer
  <2>3. slots[b] = << >> /\ slots'[b] = << >> /\ cons[b] = << >>
    <3>1. status[b] = "RELEASE"
      BY <2>1, <2>2 DEF Releases, Ending
    <3> QED
      BY <2>2, <3>1, BoxFacts
  <2>4. pros'[b] = Tail(pros[b]) /\ \A x \in Boxes \ {b} : pros'[x] = pros[x]
    BY <1>1, <2>2
  <2>5. InBox(b) # << >> /\ InBox(b)' = Tail(InBox(b))
    BY <2>2, <2>3, <2>4, BoxTakeOver
  <2>6. \A x \in Boxes \ {b} : Same(x)
    BY <2>2, <2>4, BoxSame
  <2>7. Contents' = [Contents EXCEPT ![b] = Tail(InBox(b))] /\ Contents[b] = InBox(b)
    BY <2>5, <2>6, ContentsMove
  <2>8. InBox(b) \in Seq(Values)
    BY BoxIs, ConcatProperties
  <2>9. Tail(InBox(b)) = SubSeq(InBox(b), 1 + 1, Len(InBox(b))) /\ Len(InBox(b)) \in Nat \ {0}
    BY <2>5, <2>8, TailIsSubSeq, EmptySeq
  <2>10. Contents' = [Contents EXCEPT ![b] = SubSeq(@, 1 + 1, Len(@))]
    BY <2>7, <2>9
  <2>11. 1 \in 1 .. Len(Contents[b]) + Len(cons[b])
    BY <2>3, <2>7, <2>9, EmptySeq
  <2>12. Fifo!GiveUp(b, 1)
    BY <2>2, <2>10 DEF Fifo!GiveUp
  <2> QED
    BY <2>11, <2>12 DEF Fifo!Next
<1>21. ASSUME NEW p \in Procs, NEW b \in Boxes, Release(p, b) PROVE Goal
  <2>1. /\ ~(Len(slots[b]) > 0) /\ slots' = [slots EXCEPT ![b] = << >>]
        /\ UNCHANGED <<pros, slotMsg, proMsg, cons, got>>
    BY <1>21 DEF Release, Careful
  <2>2. slots[b] = << >>
    <3>1. slots[b] \in Seq(Slots)
      BY <1>1
    <3> QED
      BY <2>1, <3>1, EmptySeq
  <2>3. slots' = slots
    BY <1>1, <2>1, <2>2
  <2> QED
    BY <1>2, <1>5, <2>1, <2>3
<1>22. ASSUME NEW p \in Procs, ReleaseEnds(p) PROVE Goal
  <2>1. PICK b \in Boxes : b = box[p]
    BY <1>1
  <2>2. /\ at[p] = "pros" /\ slots' = [slots EXCEPT ![b] = << >>] /\ cons' = [cons EXCEPT ![b] = << >>]
        /\ Leave(p, 0) /\ UNCHANGED <<pros, slotMsg, got>>
    BY <1>22, <2>1 DEF ReleaseEnds
  <2>3. slots[b] = << >> /\ cons[b] = << >>
    <3>1. status[b] = "RELEASE" /\ cons[b] = << >>
      BY <2>1, <2>2 DEF Releases, Ending
    <3> QED
      BY <3>1, BoxFacts
  <2>4. slots' = slots /\ cons' = cons
    BY <1>1, <2>2, <2>3
  <2> QED
    BY <1>7, <2>2, <2>4 DEF Waiting, Receiving
<1>23. CASE UNCHANGED vars
  <2>1. UNCHANGED <<slots, pros, slotMsg, proMsg, cons, got>>
    BY <1>23 DEF vars
  <2> QED
    BY <1>2, <1>5, <2>1
<1>24. ASSUME NEW p \in Procs, NEW b \in Boxes, NEW n \in BufSizes, RecvSlot(p, b, n) PROVE Goal
  <2>1. PICK s \in Slots : s = Head(slots[b]) /\ slots[b] # << >> /\ slots[b] \in Seq(Slots)
    BY <1>1, <1>24, TailContents DEF RecvSlot
  <2>2. got' = <<p, slotMsg[s]>> /\ UNCHANGED <<cons, proMsg>>
    BY <1>24, <2>1 DEF RecvSlot, FirstOf
  <2>3. CASE pros[b] = << >>
    <3>1. slots' = [slots EXCEPT ![b] = Tail(slots[b])] /\ UNCHANGED <<pros, slotMsg>>
      BY <1>24, <2>3 DEF RecvSlot
    <3>2. slots'[b] = Tail(slots[b]) /\ \A x \in Boxes \ {b} : slots'[x] = slots[x]
      BY <1>1, <3>1
    <3>3. InBox(b) # << >> /\ Head(InBox(b)) = slotMsg[s] /\ InBox(b)' = Tail(InBox(b))
      BY <2>1, <2>2, <3>1, <3>2, BoxTake
    <3>4. \A x \in Boxes \ {b} : Same(x)
      BY <2>2, <3>1, <3>2, BoxSame
    <3> QED
      BY <1>4, <2>2, <3>3, <3>4
  <2>4. CASE pros[b] # << >>
    <3>1. PICK st, m : st = [slotStatus EXCEPT ![s] = "EMPTY"] /\ m = proMsg[Head(pros[b])]
      OBVIOUS
    <3>2. /\ pros' = [pros EXCEPT ![b] = Tail(@)]
          /\ Fill(b, m, st, Tail(slots[b]), currentNumOfSlots[b] - 1, globalSlotUsed - 1)
      BY <1>24, <2>1, <2>4, <3>1 DEF RecvSlot, FirstOf, Freed
    <3>3. st \in [Slots -> {"EMPTY", "ACTIVE"}] /\ st[s] = "EMPTY"
      BY <3>1 DEF TypeOK
    <3>4. PICK t \in Slots : t = NewSlot(st) /\ t # -1 /\ st[t] = "EMPTY"
      BY <3>3, SlotFound, NewSlotType
    <3>5. slotMsg' = [slotMsg EXCEPT ![t] = m] /\ slots' = [slots EXCEPT ![b] = Append(Tail(slots[b]), t)]
      BY <3>2, <3>4 DEF Fill
    <3>6. /\ slots'[b] = Append(Tail(slots[b]), t) /\ pros'[b] = Tail(pros[b]) /\ slotMsg'[t] = m
          /\ \A x \in Boxes \ {b} : slots'[x] = slots[x] /\ pros'[x] = pros[x]
      BY <1>1, <3>2, <3>5
    <3>7. /\ IsInjective(slots[b])
          /\ \A x \in Boxes : \A r \in Range(slots[x]) :
                r \in Slots /\ slotStatus[r] = "ACTIVE" /\ slotBox[r] = x
      BY <1>1, RangeOfSeq DEF SlotsInv, SlotsOK
    <3>8. s \in Range(slots[b]) /\ s \notin Range(Tail(slots[b]))
          /\ Range(Tail(slots[b])) \subseteq Range(slots[b])
      BY <2>1, <3>7, TailContents
    <3>9. \A r \in Range(Tail(slots[b])) : r # t
      <4>1. ASSUME NEW r \in Range(Tail(slots[b])) PROVE st[r] # "EMPTY"
        <5>1. r \in Slots /\ r # s /\ slotStatus[r] = "ACTIVE"
          BY <3>7, <3>8
        <5> QED
          BY <3>1, <5>1 DEF TypeOK
      <4> QED
        BY <3>4, <4>1
    <3>10. \A x \in Boxes \ {b} : \A r \in Range(slots[x]) : r # t
      <4>1. ASSUME NEW x \in Boxes \ {b}, NEW r \in Range(slots[x]) PROVE st[r] # "EMPTY"
        <5>1. r \in Slots /\ slotBox[r] = x /\ slotStatus[r] = "ACTIVE" /\ slotBox[s] = b
          BY <3>7, <3>8
        <5>2. r # s
          BY <5>1
        <5> QED
          BY <3>1, <5>1, <5>2 DEF TypeOK
      <4> QED
        BY <3>4, <4>1
    <3>11. \A r \in Slots : r # t => slotMsg'[r] = slotMsg[r]
      BY <1>1, <3>5
    <3>12. InBox(b) # << >> /\ Head(InBox(b)) = slotMsg[s] /\ InBox(b)' = Tail(InBox(b))
      BY <2>1, <2>2, <2>4, <3>1, <3>6, <3>7, <3>8, <3>9, <3>11, BoxTakeOn
    <3>13. \A x \in Boxes \ {b} : Same(x)
      BY <2>2, <3>6, <3>7, <3>10, <3>11, BoxSame
    <3> QED
      BY <1>4, <2>2, <3>12, <3>13
  <2> QED
    BY <2>3, <2>4
<1> QED
  BY <1>8, <1>9, <1>10, <1>11, <1>12, <1>13, <1>14, <1>15, <1>16, <1>17, <1>18, <1>19, <1>20, <1>21,
     <1>22, <1>23, <1>24 DEF Next, Step, ReleaseStep, Stopped

\* Mailboxes are FIFO channels: a message sent is handed over once, the messages of a box
\* in the order of the sends and its receivers in theirs, and only a release gives up
\* receivers or the messages of waiting producers; as long as no message is thrown away, no
\* box used that is not there, and nobody waits before a release is done with him.
THEOREM FifoChannelsCorrect ==
    Conduct \cap {"drop", "small", "dead", "again"} = {} => (Spec => FifoChannels)
<1> SUFFICES ASSUME Conduct \cap {"drop", "small", "dead", "again"} = {}
             PROVE  Spec => FifoChannels
  OBVIOUS
<1>1. Careful /\ "dead" \notin Conduct /\ "again" \notin Conduct
  BY DEF Careful
<1> DEFINE IInv == TypeOK /\ Queues /\ Releases /\ SlotsInv /\ Wakers /\ WaitersHaveCause
<1>2. Init => IInv
  BY TypeInit, QueuesInit, ReleasesInit, SlotsInit, WakersInit, WaitersInit
<1>3. IInv /\ [Next]_vars => IInv'
  BY <1>1, TypeStep, QueuesStep, ReleasesStep, SlotsStep, WakersStep, WaitersStep
<1>4. Init => Fifo!Init
  <2> SUFFICES ASSUME Init PROVE Fifo!Init
    OBVIOUS
  <2>1. \A b \in Boxes : slots[b] = << >> /\ pros[b] = << >>
    BY DEF Init
  <2>2. \A b \in Boxes : InBox(b) = << >>
    BY <2>1, BoxIs, TypeInit
  <2> QED
    BY <2>2 DEF Init, Fifo!Init, Fifo!Nobody, Contents
<1>5. IInv /\ IInv' /\ [Next]_vars => [Fifo!Next]_<<Contents, cons, got>>
  BY <1>1, FifoStep
<1> QED
  BY <1>2, <1>3, <1>4, <1>5, PTL DEF Spec, FifoChannels, Fifo!Spec
=============================================================================
