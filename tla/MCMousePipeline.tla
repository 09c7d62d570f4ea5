-------------------------- MODULE MCMousePipeline --------------------------
(***************************************************************************)
(* Two phones of the old protocol and one of the new one.  With two units  *)
(* to a pixel, a movement of -1 unit is a fraction, for the old phones     *)
(* rounded to a pixel; one of 9 units is 5 pixels for them, fast enough    *)
(* for acceleration.  A scale of 5 per cent is raised to the least one.    *)
(***************************************************************************)
EXTENDS MousePipeline

TwoOldOneNew == <<2, 2, 3>>
SomeMoves == {-1, 9}
SomeScales == {5}
============================================================================
