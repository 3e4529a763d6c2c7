----------------------------- MODULE MCUserTests -----------------------------
EXTENDS UserTests

AllPrograms == DOMAIN Tests \cup {"free"}
=============================================================================
