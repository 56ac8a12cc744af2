-------------------------- MODULE MCShareStackSize --------------------------
EXTENDS ShareStackSize

\* Every size from 0 to beyond four pages of 64 bytes.
AllRequests == 0 .. 300

=============================================================================
