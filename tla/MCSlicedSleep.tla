--------------------------- MODULE MCSlicedSleep ---------------------------
(* Two ticks to a second, so that readings are cut and slices end late; a   *)
(* setting of the clock goes one and a half seconds.                        *)
EXTENDS SlicedSleep

OddAndEven == {8, 9}
=============================================================================
