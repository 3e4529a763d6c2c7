----------------------------- MODULE MCMailbox -----------------------------
EXTENDS Mailbox, TLC

\* Two messages of sizes 1 and 2.
TwoMessages == {[id |-> 1, size |-> 1], [id |-> 2, size |-> 2]}

OneMessage == {[id |-> 1, size |-> 2]}

\* One or two slots, two, zero or one: of size 2.
OneOrTwo == {<<1, 2>>, <<2, 2>>}
TwoSlots == {<<2, 2>>}
ZeroOrOne == {<<0, 2>>, <<1, 2>>}

\* The processes are interchangeable.
Symmetry == Permutations(Procs)

\* No guard reads ret and got: what they were does not tell two states apart.
View == <<boxVars, queueVars, slotVars, nextMBoxID, shadows, calls, zapped, corrupt>>
=============================================================================
