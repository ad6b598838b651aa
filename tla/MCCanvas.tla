------------------------------ MODULE MCCanvas ------------------------------
(* Two shapes and a video, two places on the screen, and a history of two   *)
(* commands, so that old ones are forgotten.                                 *)
EXTENDS Canvas

CONSTANTS home, away

MCPlaces == {home, away}
=============================================================================
