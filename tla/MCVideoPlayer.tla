---------------------------- MODULE MCVideoPlayer ----------------------------
(* Two frames and a channel for one, so that the decoder blocks on it; any   *)
(* number of restarts, of which one superseded stream may be ending while    *)
(* the next one runs and a further seek is merged.                           *)
EXTENDS VideoPlayer
=============================================================================
