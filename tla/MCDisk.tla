------------------------------- MODULE MCDisk -------------------------------
EXTENDS Disk

\* One sector of each of two tracks.
OneSectorEach == {[op |-> "read", track |-> t, first |-> 0, sectors |-> 1] : t \in {0, 1}}
=============================================================================
