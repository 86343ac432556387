------------------------ MODULE MCPromptAppService ------------------------
EXTENDS PromptAppServiceProofs

CONSTANTS h1, h2, a

(* The prompt app sends a fresh uuid with every query; a caller may also   *)
(* leave the session id empty.                                             *)
UniqueSids == [h \in Handlers |-> IF h = h1 THEN a ELSE NoSid]
=============================================================================
