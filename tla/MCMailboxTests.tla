---------------------------- MODULE MCMailboxTests ----------------------------
EXTENDS MailboxTests

AllPrograms == DOMAIN Tests \cup {"free"}
=============================================================================
