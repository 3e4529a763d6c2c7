------------------------------ MODULE Channel ------------------------------
(***************************************************************************)
(* What a mailbox promises: each box is a FIFO queue of messages and a     *)
(* FIFO queue of receivers, never both non-empty; a message is handed to   *)
(* one receiver, once; only the release of the box loses one.              *)
(***************************************************************************)
EXTENDS Sequences, SequencesExt

CONSTANTS Procs, Boxes, Messages

VARIABLES
    chan,     \* the messages sent to each box and not yet received
    waiting,  \* the receivers waiting at each box
    last      \* the message handed over last, and to whom

Nobody == << >>

Init == /\ chan = [b \in Boxes |-> << >>]
        /\ waiting = [b \in Boxes |-> << >>]
        /\ last = Nobody

Put(b, m) ==
    /\ waiting[b] = << >>
    /\ chan' = [chan EXCEPT ![b] = Append(@, m)]
    /\ UNCHANGED <<waiting, last>>

Take(b, p) ==
    /\ chan[b] # << >>
    /\ last' = <<p, Head(chan[b])>>
    /\ chan' = [chan EXCEPT ![b] = Tail(@)]
    /\ UNCHANGED waiting

Wait(b, p) ==
    /\ chan[b] = << >>
    /\ waiting' = [waiting EXCEPT ![b] = Append(@, p)]
    /\ UNCHANGED <<chan, last>>

Hand(b, m) ==
    /\ waiting[b] # << >>
    /\ last' = <<Head(waiting[b]), m>>
    /\ waiting' = [waiting EXCEPT ![b] = Tail(@)]
    /\ UNCHANGED chan

\* Release: the oldest n messages or receivers are given up.
GiveUp(b, n) ==
    /\ \/ chan' = [chan EXCEPT ![b] = SubSeq(@, n + 1, Len(@))] /\ waiting' = waiting
       \/ waiting' = [waiting EXCEPT ![b] = SubSeq(@, n + 1, Len(@))] /\ chan' = chan
    /\ UNCHANGED last

Next ==
    \E b \in Boxes :
       \/ \E m \in Messages : Put(b, m) \/ Hand(b, m)
       \/ \E p \in Procs : Take(b, p) \/ Wait(b, p)
       \/ \E n \in 1 .. Len(chan[b]) + Len(waiting[b]) : GiveUp(b, n)

Spec == Init /\ [][Next]_<<chan, waiting, last>>
=============================================================================
