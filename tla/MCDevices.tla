------------------------------ MODULE MCDevices ------------------------------
EXTENDS Devices

Ask(op, t, f, n) == [op |-> op, track |-> t, first |-> f, sectors |-> n]

\* Within a track, across its end, beyond the last track, and nothing at all.
SomeRequests == {Ask("write", 0, 1, 2), Ask("read", 1, 0, 1), Ask("read", 2, 0, 2),
                 Ask("read", 3, 2, 0)}

\* What a finished call leaves in its process's entries is overwritten before it is
\* read, and does not tell two states apart.
Asked == [p \in Users |-> IF userAt[p] \in {"user", "size"} THEN << >> ELSE diskTable[p]]
Shown == IF writeLock = Nobody THEN << >> ELSE screen
Texts == [w \in Writers |-> IF writerAt[w] = "user" THEN << >> ELSE <<written[w], size[w]>>]

View == <<device, readVars, terminalWrite, writeLock, writerAt, Texts, Shown, refused, missed,
          driverAt, status, xmit, typed, taken, diskReq, Asked, diskBox, qLock, trackBox,
          procBox, userAt, driverVars>>

\* Writers and users differ by name only.
Symmetry == Permutations(Writers) \cup Permutations(Users)
=============================================================================
