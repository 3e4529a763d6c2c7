------------------------------- MODULE Terminal -------------------------------
(***************************************************************************)
(* One terminal of phase4b/phase4.c: its driver, TermRead and TermWrite.   *)
(* The driver collects the characters that are typed into lines, which it  *)
(* sends to a mailbox for the readers, and passes on the news that the     *)
(* terminal is ready for output as a token, in a mailbox of one slot.      *)
(*                                                                         *)
(* The mailboxes, waitDevice and the terminal are external: a message goes *)
(* to a receiver that waits and into a slot otherwise, an interrupt that   *)
(* nobody waits for is dropped, and the terminal refuses a character while *)
(* it is busy with one, which kernTermWrite does not look at.              *)
(***************************************************************************)
EXTENDS Integers, Sequences, SequencesExt

CONSTANTS
    Writers, Readers,  \* the processes
    Sizes,             \* of the texts that are written
    MAXLINE,           \* the characters of a line
    LineSlots,         \* the lines the mailbox for the readers has room for (10)
    MaxTyped           \* bound of the model: the characters typed

ASSUME TerminalAssumption ==
    Sizes \subseteq Nat /\ {MAXLINE, LineSlots} \subseteq Nat \ {0} /\ MaxTyped \in Nat

VARIABLES
    terminalLine,      \* terminalLines[unit], terminalLineMbox[unit] characters long
    terminalReadMbox,  \* the lines in the mailbox
    terminalWrite,     \* the tokens in the mailbox, 0 or 1
    writeLock,         \* the process whose message is in the mailbox, or Nobody
    driverAt,          \* top of the loop, in waitDevice ("wait"), with a character
                       \* ("got"), or in MboxSend ("send")
    status,            \* the driver's: the character received, and the output's state
    xmit,              \* the terminal: "ready" or "busy"
    writerAt, written, size,   \* of a call of kernTermWrite: i and bufferSize
    readerAt,
    typed,             \* history: how many characters were typed
    taken,             \* history: the characters the driver was told of
    handed,            \* history: the lines the readers were given
    screen,            \* history: what was shown since the lock was taken
    refused,           \* history: did the terminal refuse a character?
    missed             \* history: has the driver not heard that the terminal was ready?

termVars == <<terminalLine, terminalReadMbox, terminalWrite, writeLock, driverAt, status,
              xmit, writerAt, written, size, readerAt, typed, taken, handed, screen, refused,
              missed>>

readVars  == <<terminalLine, terminalReadMbox, readerAt, handed>>
writeVars == <<terminalWrite, writeLock, writerAt, written, size, screen, refused>>

Nobody == "nobody"
ASSUME NobodyAssumption == Nobody \notin Writers

NoChar == [nth |-> 0, newline |-> FALSE]

\* The driver looks at its status before it has received one: whatever was there.
TermInit ==
    /\ terminalLine = << >> /\ terminalReadMbox = << >> /\ terminalWrite = 0
    /\ writeLock = Nobody /\ driverAt = "top" /\ xmit = "ready"
    /\ status \in [char : {NoChar}, xmit : {"ready", "busy"}]
    /\ writerAt = [w \in Writers |-> "user"] /\ written = [w \in Writers |-> 0]
    /\ size = [w \in Writers |-> 0] /\ readerAt = [r \in Readers |-> "user"]
    /\ typed = 0 /\ taken = << >> /\ handed = << >> /\ screen = << >> /\ refused = FALSE
    /\ missed = (status.xmit = "busy")

-----------------------------------------------------------------------------
(* The terminal (external). *)

\* The interrupt: the driver hears of it if it is in waitDevice.
Interrupt(char) ==
    IF driverAt = "wait" THEN
        /\ status' = [char |-> char, xmit |-> xmit']
        /\ taken' = IF char = NoChar THEN taken ELSE Append(taken, char)
        /\ driverAt' = "got"
    ELSE UNCHANGED <<status, taken, driverAt>>

CharTyped(newline) ==
    /\ typed < MaxTyped /\ typed' = typed + 1
    /\ UNCHANGED xmit /\ Interrupt([nth |-> typed', newline |-> newline])
    /\ UNCHANGED <<readVars, writeVars, missed>>

XmitDone ==
    /\ xmit = "busy" /\ xmit' = "ready" /\ Interrupt(NoChar)
    /\ missed' = (missed \/ driverAt # "wait")
    /\ UNCHANGED <<readVars, writeVars, typed>>

-----------------------------------------------------------------------------
(* termDriver *)

\* MboxCondSend: to a writer that waits, else into the slot, else nowhere.
GivesToken ==
    IF \E w \in Writers : writerAt[w] = "token" THEN
        /\ \E w \in Writers : writerAt[w] = "token" /\ writerAt' = [writerAt EXCEPT ![w] = "out"]
        /\ UNCHANGED terminalWrite
    ELSE terminalWrite' = 1 /\ UNCHANGED writerAt

\* Mutant: the end of an output is not passed on.
ReadyWithChar == status.xmit = "ready" /\ status.char # NoChar

TerminalReady == status.xmit = "ready"

DriverTop ==
    /\ driverAt = "top" /\ driverAt' = "wait"
    /\ IF TerminalReady THEN GivesToken ELSE UNCHANGED <<terminalWrite, writerAt>>
    /\ UNCHANGED <<readVars, writeLock, written, size, screen, refused, status, xmit, typed,
                   taken, missed>>

\* Mutant: a character that finds the line full is kept for the next one.
EndsLine(char) == char.newline \/ Len(terminalLine) = MAXLINE - 1

\* A character that finds the line full ends it, and is dropped.
LineEnds(char) == char.newline \/ Len(terminalLine) = MAXLINE

DriverGot ==
    /\ driverAt = "got"
    /\ terminalLine' = IF status.char = NoChar \/ Len(terminalLine) = MAXLINE THEN terminalLine
                       ELSE Append(terminalLine, status.char)
    /\ driverAt' = IF status.char # NoChar /\ LineEnds(status.char) THEN "send" ELSE "top"
    /\ UNCHANGED <<terminalReadMbox, readerAt, handed, writeVars, status, xmit, typed, taken,
                   missed>>

LineCleared == terminalLine' = << >>

\* MboxSend: to a reader that waits, else into a slot; it waits for one.
DriverSends ==
    /\ driverAt = "send"
    /\ \/ \E r \in Readers :
            /\ readerAt[r] = "wait" /\ readerAt' = [readerAt EXCEPT ![r] = "user"]
            /\ handed' = Append(handed, terminalLine) /\ UNCHANGED terminalReadMbox
       \/ /\ \A r \in Readers : readerAt[r] # "wait"
          /\ Len(terminalReadMbox) < LineSlots
          /\ terminalReadMbox' = Append(terminalReadMbox, terminalLine)
          /\ UNCHANGED <<readerAt, handed>>
    /\ LineCleared /\ driverAt' = "top"
    /\ UNCHANGED <<writeVars, status, xmit, typed, taken, missed>>

termDriver == DriverTop \/ DriverGot \/ DriverSends

-----------------------------------------------------------------------------
(* TermRead.  The line is cut to the reader's buffer, and the rest of it is lost. *)

kernTermRead(r) ==
    /\ readerAt[r] = "user"
    /\ IF terminalReadMbox = << >> THEN
            /\ readerAt' = [readerAt EXCEPT ![r] = "wait"]
            /\ UNCHANGED <<terminalReadMbox, handed>>
       ELSE /\ handed' = Append(handed, Head(terminalReadMbox))
            /\ terminalReadMbox' = Tail(terminalReadMbox) /\ UNCHANGED readerAt
    /\ UNCHANGED <<terminalLine, writeVars, driverAt, status, xmit, typed, taken, missed>>

-----------------------------------------------------------------------------
(* TermWrite *)

WriterOnly == UNCHANGED <<readVars, driverAt, status, typed, taken, missed>>

kernTermWrite(w, n) ==
    /\ writerAt[w] = "user" /\ n >= 0
    /\ size' = [size EXCEPT ![w] = n] /\ written' = [written EXCEPT ![w] = 0]
    /\ writerAt' = [writerAt EXCEPT ![w] = "lock"]
    /\ WriterOnly /\ UNCHANGED <<terminalWrite, writeLock, screen, refused, xmit>>

\* Mutant: the lock is not waited for.
NoLock == TRUE

LockFree == writeLock = Nobody

\* MboxSend(writeLock[unit]).
TakesLock(w) ==
    /\ writerAt[w] = "lock" /\ LockFree /\ writeLock' = w /\ screen' = << >>
    /\ writerAt' = [writerAt EXCEPT ![w] = "next"]
    /\ WriterOnly /\ UNCHANGED <<terminalWrite, written, size, refused, xmit>>

\* The top of the loop up to MboxRecv(terminalWrite[unit]).
NextChar(w) ==
    /\ writerAt[w] = "next"
    /\ writerAt' = [writerAt EXCEPT ![w] =
            CASE written[w] = size[w] -> "unlock"
              [] written[w] < size[w] /\ terminalWrite = 0 -> "token"
              [] OTHER -> "out"]
    /\ terminalWrite' = IF writerAt'[w] = "out" THEN 0 ELSE terminalWrite
    /\ WriterOnly /\ UNCHANGED <<writeLock, written, size, screen, refused, xmit>>

\* USLOSS_DeviceOutput.
Outputs(w) ==
    /\ writerAt[w] = "out" /\ writerAt' = [writerAt EXCEPT ![w] = "next"]
    /\ written' = [written EXCEPT ![w] = @ + 1]
    /\ IF xmit = "ready" THEN /\ screen' = Append(screen, <<w, written'[w]>>)
                              /\ xmit' = "busy" /\ UNCHANGED refused
       ELSE refused' = TRUE /\ UNCHANGED <<screen, xmit>>
    /\ WriterOnly /\ UNCHANGED <<terminalWrite, writeLock, size>>

\* MboxRecv(writeLock[unit]).
Unlocks(w) ==
    /\ writerAt[w] = "unlock" /\ writerAt' = [writerAt EXCEPT ![w] = "user"]
    /\ writeLock' = Nobody
    /\ WriterOnly /\ UNCHANGED <<terminalWrite, written, size, screen, refused, xmit>>

Writes(w) == TakesLock(w) \/ NextChar(w) \/ Outputs(w) \/ Unlocks(w)

TermNext ==
    \/ \E newline \in BOOLEAN : CharTyped(newline)
    \/ XmitDone \/ termDriver
    \/ \E r \in Readers : kernTermRead(r)
    \/ \E w \in Writers : Writes(w) \/ \E n \in Sizes : kernTermWrite(w, n)

TermSpec == TermInit /\ [][TermNext]_termVars

-----------------------------------------------------------------------------

\* A line that starts with the i-th character of a text ends with a newline, or, if
\* it has MAXLINE characters before, with the one after them, which is dropped.  A
\* line that is not ended would end behind the text.
LineEnd(text, i) ==
    Min({j \in i .. Len(text) + 1 : j > Len(text) \/ text[j].newline \/ j - i = MAXLINE})

Line(text, i) ==
    LET end == LineEnd(text, i) IN
    SubSeq(text, i, IF end - i = MAXLINE \/ end > Len(text) THEN end - 1 ELSE end)

\* Where the first n lines start: each behind the end of the one before.
Starts(text, n) ==
    LET start[k \in 1 .. n] == IF k = 1 THEN 1 ELSE LineEnd(text, start[k - 1]) + 1
    IN  start

\* The lines of a text, of which the last one, and no other, is not ended.
AreLines(lines, text) ==
    \A k \in DOMAIN lines :
        LET i == Starts(text, Len(lines))[k] IN
        /\ k < Len(lines) <=> LineEnd(text, i) <= Len(text)
        /\ lines[k] = Line(text, i)

\* What the driver was told of and has put into a line, the lines it has sent, and the
\* one it is at.
Collected == IF driverAt = "got" /\ status.char # NoChar THEN Front(taken) ELSE taken
Delivered == handed \o terminalReadMbox
LastLine  == IF driverAt = "send" THEN <<terminalLine, << >>>> ELSE <<terminalLine>>

\* The readers get what the driver was told of, in order, line by line: no line is
\* lost, doubled, cut or joined to another on the way through buffer and mailbox.
LinesAsTyped == AreLines(Delivered \o LastLine, Collected)

\* A text is on the screen as a whole and by itself when its writer gives back the
\* lock, unless the terminal refused a part of it; and that takes characters that
\* are typed: a token is passed on with the interrupt of each, the output of the one
\* before it under way or not.
WriteIntact ==
    /\ refused => typed > 0
    /\ \A w \in Writers : writerAt[w] = "unlock" /\ ~refused =>
            screen = [i \in 1 .. size[w] |-> <<w, i>>]

\* A writer waits for nothing only if the driver did not hear of the terminal being
\* ready: it waited for room for a line or was preempted, or took the terminal for
\* busy when it first looked, at a status nobody had written.
WriterHasCause == \A w \in Writers : writerAt[w] = "token" /\ ~missed =>
    \/ xmit = "busy"
    \/ driverAt # "wait" /\ status.xmit = "ready"
=============================================================================
