------------------------------- MODULE Devices -------------------------------
(***************************************************************************)
(* The drivers of phase4b/phase4.c that serve the processes: a terminal    *)
(* and a disk.  They share no variable of the program and no mailbox, and  *)
(* a process is in one call at a time, so that what one of them does is    *)
(* independent of the other: each behaviour is about one of them.          *)
(***************************************************************************)
EXTENDS Terminal, Disk

VARIABLE device

DevicesInit ==
    /\ device \in {"terminal", "disk"} /\ TermInit /\ DiskInit
    /\ device = "disk" => ~missed

DevicesNext ==
    /\ UNCHANGED device
    /\ \/ device = "terminal" /\ TermNext /\ UNCHANGED diskVars
       \/ device = "disk" /\ DiskNext /\ UNCHANGED termVars

DevicesSpec == DevicesInit /\ [][DevicesNext]_<<device, termVars, diskVars>>
=============================================================================
