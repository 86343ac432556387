------------------------- MODULE MCCapturePipeline -------------------------
EXTENDS CapturePipeline

CONSTANTS a, b

(* b shows other things than a.                                            *)
MCDct  == [s \in Scenes |-> [c \in Coeffs |-> IF s = a THEN c ELSE 3 - c]]
MCGray == [s \in Scenes |-> [x \in Pixels |-> IF s = a THEN 0 ELSE 100 * x]]
=============================================================================
