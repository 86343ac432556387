-------------------------- MODULE MCClientProcess --------------------------
EXTENDS ClientProcess
=============================================================================
