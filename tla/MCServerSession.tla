-------------------------- MODULE MCServerSession --------------------------
EXTENDS ServerSession

CONSTANTS q1, q2
=============================================================================
