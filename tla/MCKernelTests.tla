---------------------------- MODULE MCKernelTests ----------------------------
EXTENDS KernelTests

AllPrograms == DOMAIN Tests \cup {"free"}
=============================================================================
