---------------------------- MODULE MCAnnotation ----------------------------
(* Two documents, the window may be started without one; two places and two  *)
(* strokes, merged when the second is there; a page with one stroke, so that *)
(* two operations can make a second one and erase, and without ink once it   *)
(* was erased or cleared; one failed write.                                  *)
EXTENDS Annotation

CONSTANT lesson

MCDocs == {NoDoc, lesson}
MCPlaces == {0, 1}
MCLayers == {<<<<0, 1>>>>}
=============================================================================
