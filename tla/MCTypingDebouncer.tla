------------------------ MODULE MCTypingDebouncer ------------------------
EXTENDS TypingDebouncer
==========================================================================
