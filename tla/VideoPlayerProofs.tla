-------------------------- MODULE VideoPlayerProofs --------------------------
(***************************************************************************)
(* The safety of the video player, for every length of video, capacity of  *)
(* the frame channel and number of streams still ending.                   *)
(***************************************************************************)
EXTENDS VideoPlayer, TLAPS

Decs == {"none", "check", "read", "send", "done"}

\* What an upcoming picture is, of a stream record.
UpcomingOf(s) == s.next - s.queued - (IF s.dec = "send" THEN 1 ELSE 0)

\* A player that shows a stream shows one whose channel is open.
NowOpen == ui \in {"idle", "seek"} /\ HasStream => strm[Now].open

\* No target waits while a restart is being made.
SeekTakesTarget == ui = "seek" => pending = NoTarget

\* The clock names the next picture unless a drag has dropped frames, and then
\* the target of the drag is waiting.
ClockRuns ==
    ui = "idle" /\ HasStream /\ exe /\ ~scrub /\ pending = NoTarget => framesShown = Upcoming(Now)

Inv == /\ TypeOK /\ NowOpen /\ SeekTakesTarget
       /\ SeekingHasStream /\ PendingOnlyWhileSeeking /\ LastSeekWins
       /\ ClockRuns /\ RestartEndsWithPicture

\* The held stream is none of the superseded ones.
LEMMA NowFacts == /\ Now \in Streams /\ Now \notin Old /\ Old \subseteq Streams
                  /\ NoTarget \notin Positions /\ 0 \in Positions
  BY PlayerAssumption DEF PlayerAssumption, Now, Streams, Old, Positions

LEMMA RecordTypes ==
    /\ \A p \in Positions : Launched(p) \in StreamRec /\ Launched(p).open
                            /\ UpcomingOf(Launched(p)) = p
    /\ NoStream \in StreamRec /\ ~NoStream.open
    /\ NoAudio \in AudioRec /\ \A p \in BOOLEAN : PlayingAudio(p) \in AudioRec
    /\ \A s \in StreamRec : Ended(s) \in StreamRec
<1>1. 0 \in 0 .. PreloadFrames /\ 0 \in Positions
  BY PlayerAssumption, NowFacts DEF PlayerAssumption
<1>2. ASSUME NEW p \in Positions
      PROVE Launched(p) \in StreamRec /\ Launched(p).open /\ UpcomingOf(Launched(p)) = p
  BY <1>1, PlayerAssumption DEF Launched, StreamRec, UpcomingOf, Positions, PlayerAssumption
<1>3. NoStream \in StreamRec /\ ~NoStream.open
  BY <1>1 DEF NoStream, StreamRec
<1>4. NoAudio \in AudioRec /\ \A p \in BOOLEAN : PlayingAudio(p) \in AudioRec
  BY DEF NoAudio, PlayingAudio, AudioRec
<1>5. \A s \in StreamRec : Ended(s) \in StreamRec
  BY <1>1 DEF Ended, StreamRec
<1>6. QED
  BY <1>2, <1>3, <1>4, <1>5

LEMMA InitInv == Init => Inv
<1> SUFFICES ASSUME Init PROVE Inv
  OBVIOUS
<1> USE NowFacts, RecordTypes DEF Init
<1>1. strm \in [Streams -> StreamRec] /\ strm[Now] = Launched(0)
  OBVIOUS
<1>2. TypeOK
  BY <1>1 DEF TypeOK
<1>3. HasStream /\ strm[Now].open /\ Upcoming(Now) = 0
  BY <1>1 DEF HasStream, Upcoming, UpcomingOf
<1>4. QED
  BY <1>2, <1>3 DEF Inv, NowOpen, SeekTakesTarget, SeekingHasStream, PendingOnlyWhileSeeking,
     LastSeekWins, ClockRuns, RestartEndsWithPicture

\* A step of a decoder keeps the stream open and the picture that comes next.
LEMMA DecoderInv ==
  ASSUME Inv, NEW g \in Streams, DecoderCheck(g) \/ DecoderRead(g) \/ DecoderSend(g)
  PROVE  Inv'
<1> USE NowFacts
<1>1. strm \in [Streams -> StreamRec] /\ strm[g] \in StreamRec /\ strm[Now] \in StreamRec
  BY DEF Inv, TypeOK
<1>2. UNCHANGED <<ui, player, reaper, audio, scrub, want, exe>>
  BY DEF DecoderCheck, DecoderRead, DecoderSend
<1>3. /\ strm'[g] \in StreamRec /\ strm'[g].open = strm[g].open
      /\ strm[g].open => UpcomingOf(strm'[g]) = UpcomingOf(strm[g])
      /\ strm[g] # NoStream
      /\ strm' = [strm EXCEPT ![g] = strm'[g]]
  <2>1. CASE DecoderCheck(g)
    <3>1. \E d \in {"read", "done"} : strm' = [strm EXCEPT ![g].dec = d]
      BY <2>1 DEF DecoderCheck, Set
    <3>2. PICK d \in {"read", "done"} : strm' = [strm EXCEPT ![g].dec = d]
      BY <3>1
    <3>3. strm'[g] = [strm[g] EXCEPT !.dec = d] /\ strm[g].dec = "check"
      BY <1>1, <2>1, <3>2 DEF DecoderCheck
    <3>4. /\ strm'[g] \in StreamRec /\ strm'[g].open = strm[g].open
          /\ strm'[g].next = strm[g].next /\ strm'[g].queued = strm[g].queued
          /\ strm'[g].dec # "send" /\ strm[g].dec # "send"
      BY <1>1, <3>2, <3>3 DEF StreamRec
    <3>5. strm[g] # NoStream
      BY <3>3 DEF NoStream
    <3>6. QED
      BY <1>1, <3>2, <3>3, <3>4, <3>5 DEF UpcomingOf
  <2>2. CASE DecoderRead(g)
    <3>1. strm[g].dec = "read" /\ strm[g] # NoStream
      BY <2>2 DEF DecoderRead, NoStream
    <3>2. CASE strm[g].next < EndFrame
               /\ strm' = [strm EXCEPT ![g].next = @ + 1, ![g].dec = "send"]
      <4>1. /\ strm'[g] = [[strm[g] EXCEPT !.next = @ + 1] EXCEPT !.dec = "send"]
            /\ strm' = [strm EXCEPT ![g] = strm'[g]]
        BY <1>1, <3>2
      <4>2. strm[g].next \in Nat /\ strm[g].queued \in Nat /\ strm[g].next + 1 \in Positions
        BY <1>1, <3>2, PlayerAssumption DEF StreamRec, Positions, PlayerAssumption
      <4>3. /\ strm'[g] \in StreamRec /\ strm'[g].open = strm[g].open
            /\ strm'[g].next = strm[g].next + 1 /\ strm'[g].queued = strm[g].queued
            /\ strm'[g].dec = "send"
        BY <1>1, <4>1, <4>2 DEF StreamRec
      <4>4. QED
        BY <3>1, <4>1, <4>2, <4>3 DEF UpcomingOf
    <3>3. CASE strm' = [strm EXCEPT ![g].dec = "done"]
      <4>1. strm'[g] = [strm[g] EXCEPT !.dec = "done"] /\ strm' = [strm EXCEPT ![g] = strm'[g]]
        BY <1>1, <3>3
      <4>2. /\ strm'[g] \in StreamRec /\ strm'[g].open = strm[g].open
            /\ strm'[g].next = strm[g].next /\ strm'[g].queued = strm[g].queued
            /\ strm'[g].dec # "send"
        BY <1>1, <4>1 DEF StreamRec
      <4>3. QED
        BY <3>1, <4>1, <4>2 DEF UpcomingOf
    <3>4. QED
      BY <2>2, <3>2, <3>3 DEF DecoderRead, Set
  <2>3. CASE DecoderSend(g)
    <3>1. strm[g].dec = "send" /\ strm[g] # NoStream
      BY <2>3 DEF DecoderSend, NoStream
    <3>2. CASE ~strm[g].open /\ strm' = [strm EXCEPT ![g].dec = "done"]
      <4>1. strm'[g] = [strm[g] EXCEPT !.dec = "done"] /\ strm' = [strm EXCEPT ![g] = strm'[g]]
        BY <1>1, <3>2
      <4>2. strm'[g] \in StreamRec /\ strm'[g].open = strm[g].open
        BY <1>1, <4>1 DEF StreamRec
      <4>3. QED
        BY <3>1, <3>2, <4>1, <4>2
    <3>3. CASE strm[g].queued < PreloadFrames
               /\ strm' = [strm EXCEPT ![g].queued = @ + 1, ![g].dec = "check"]
      <4>1. /\ strm'[g] = [[strm[g] EXCEPT !.queued = @ + 1] EXCEPT !.dec = "check"]
            /\ strm' = [strm EXCEPT ![g] = strm'[g]]
        BY <1>1, <3>3
      <4>2. strm[g].next \in Nat /\ strm[g].queued \in Nat
            /\ strm[g].queued + 1 \in 0 .. PreloadFrames
        BY <1>1, <3>3, PlayerAssumption DEF StreamRec, Positions, PlayerAssumption
      <4>3. /\ strm'[g] \in StreamRec /\ strm'[g].open = strm[g].open
            /\ strm'[g].next = strm[g].next /\ strm'[g].queued = strm[g].queued + 1
            /\ strm'[g].dec = "check"
        BY <1>1, <4>1, <4>2 DEF StreamRec
      <4>4. QED
        BY <3>1, <4>1, <4>2, <4>3 DEF UpcomingOf
    <3>4. QED
      BY <2>3, <3>2, <3>3 DEF DecoderSend, Set
  <2>4. QED
    BY <2>1, <2>2, <2>3
<1>4. /\ strm' \in [Streams -> StreamRec]
      /\ strm'[Now].open = strm[Now].open
      /\ strm[Now].open => UpcomingOf(strm'[Now]) = UpcomingOf(strm[Now])
  BY <1>1, <1>3
<1>5. TypeOK'
  BY <1>2, <1>4 DEF Inv, TypeOK, player
<1>6. HasStream' => HasStream
  BY <1>1, <1>3 DEF HasStream
<1>7. strm[Now].open => HasStream'
  BY <1>4, RecordTypes DEF HasStream
<1>8. NowOpen' /\ SeekTakesTarget' /\ SeekingHasStream'
  BY <1>2, <1>4, <1>6, <1>7 DEF Inv, NowOpen, SeekTakesTarget, SeekingHasStream, player
<1>9. ClockRuns'
  BY <1>2, <1>4, <1>6 DEF Inv, ClockRuns, NowOpen, Upcoming, UpcomingOf, player
<1>10. PendingOnlyWhileSeeking' /\ LastSeekWins' /\ RestartEndsWithPicture'
  BY <1>2 DEF Inv, PendingOnlyWhileSeeking, LastSeekWins, RestartEndsWithPicture, player
<1>11. QED
  BY <1>5, <1>8, <1>9, <1>10 DEF Inv

\* Reapers and audio threads touch nothing the player shows.
LEMMA BackgroundInv ==
  ASSUME Inv, (\E g \in Old : Reap(g)) \/ AudioRead \/ SyncEnds \/ FillPcm
  PROVE  Inv'
<1> USE NowFacts, RecordTypes
<1>1. /\ UNCHANGED <<ui, player, scrub, want, exe>>
      /\ strm \in [Streams -> StreamRec] /\ reaper \in [Old -> {"none", "end", "join"}]
      /\ audio \in AudioRec
  BY DEF Inv, TypeOK, Reap, AudioRead, SyncEnds, FillPcm
<1>2. /\ strm' \in [Streams -> StreamRec] /\ strm'[Now] = strm[Now]
      /\ reaper' \in [Old -> {"none", "end", "join"}]
  <2>1. CASE \E g \in Old : Reap(g)
    <3>1. PICK g \in Old : Reap(g)
      BY <2>1
    <3>2. /\ \E s \in StreamRec : strm' = [strm EXCEPT ![g] = s]
          /\ \E s \in {"none", "join"} : reaper' = [reaper EXCEPT ![g] = s]
      <4>1. strm[g] \in StreamRec
        BY <1>1
      <4>2. Ended(strm[g]) \in StreamRec
        BY <4>1
      <4>3. QED
        BY <1>1, <3>1, <4>2 DEF Reap
    <3>3. QED
      BY <1>1, <3>2
  <2>2. CASE AudioRead \/ SyncEnds \/ FillPcm
    BY <1>1, <2>2 DEF AudioRead, SyncEnds, FillPcm, streams
  <2>3. QED
    BY <2>1, <2>2
<1>3. audio' \in AudioRec
  BY <1>1 DEF AudioRec, Reap, AudioRead, SyncEnds, FillPcm
<1>4. TypeOK'
  BY <1>1, <1>2, <1>3 DEF Inv, TypeOK, player
<1>5. HasStream' = HasStream /\ Upcoming(Now)' = Upcoming(Now)
  BY <1>2 DEF HasStream, Upcoming
<1>6. NowOpen' /\ SeekTakesTarget' /\ SeekingHasStream' /\ ClockRuns'
  BY <1>1, <1>2, <1>5 DEF Inv, NowOpen, SeekTakesTarget, SeekingHasStream, ClockRuns, player
<1>7. PendingOnlyWhileSeeking' /\ LastSeekWins' /\ RestartEndsWithPicture'
  BY <1>1 DEF Inv, PendingOnlyWhileSeeking, LastSeekWins, RestartEndsWithPicture, player
<1>8. QED
  BY <1>4, <1>6, <1>7 DEF Inv

\* The stream it held goes to a reaper, and another takes its place.
LEMMA SupersedeTypes ==
  ASSUME Inv, NEW s \in StreamRec, Supersede(s)
  PROVE  /\ strm' \in [Streams -> StreamRec] /\ strm'[Now] = s
         /\ reaper' \in [Old -> {"none", "end", "join"}]
<1> USE NowFacts
<1>1. /\ strm \in [Streams -> StreamRec] /\ strm[Now] \in StreamRec
      /\ reaper \in [Old -> {"none", "end", "join"}]
  BY DEF Inv, TypeOK
<1>2. CASE HasStream
  <2>1. PICK g \in Free : /\ strm' = [strm EXCEPT ![g] = strm[Now], ![Now] = s]
                          /\ reaper' = [reaper EXCEPT ![g] = "end"]
    BY <1>2 DEF Supersede
  <2>2. g \in Old
    BY DEF Free
  <2>3. strm' = [[strm EXCEPT ![g] = strm[Now]] EXCEPT ![Now] = s]
    BY <2>1
  <2>4. QED
    BY <1>1, <2>1, <2>2, <2>3
<1>3. CASE ~HasStream
  BY <1>1, <1>3 DEF Supersede
<1>4. QED
  BY <1>2, <1>3

\* A restart ends with the new stream, or with none.
LEMMA RelaunchInv == ASSUME Inv, Relaunch \/ RelaunchFails PROVE Inv'
<1> USE NowFacts, RecordTypes
<1>1. /\ ui = "seek" /\ ui' = "idle" /\ pending = NoTarget
      /\ UNCHANGED <<paused, pending, base, scrub, want, exe>>
      /\ base \in Positions /\ paused \in BOOLEAN /\ audio' \in AudioRec
  BY DEF Inv, TypeOK, SeekTakesTarget, Relaunch, RelaunchFails
<1>2. CASE Relaunch
  <2>1. /\ strm' \in [Streams -> StreamRec] /\ strm'[Now] = Launched(base)
        /\ reaper' \in [Old -> {"none", "end", "join"}]
    BY <1>1, <1>2, SupersedeTypes DEF Relaunch
  <2>2. framesShown' = base /\ seeking' = seeking
    BY <1>2 DEF Relaunch
  <2>3. HasStream' /\ strm'[Now].open /\ Upcoming(Now)' = base
    BY <1>1, <2>1 DEF HasStream, Upcoming, UpcomingOf
  <2>4. base \in Nat
    BY <1>1 DEF Positions
  <2>5. TypeOK'
    BY <1>1, <2>1, <2>2, <2>4 DEF Inv, TypeOK
  <2>6. QED
    BY <1>1, <2>2, <2>3, <2>5 DEF Inv, NowOpen, SeekTakesTarget, SeekingHasStream,
       PendingOnlyWhileSeeking, LastSeekWins, ClockRuns, RestartEndsWithPicture
<1>3. CASE RelaunchFails
  <2>1. /\ strm' \in [Streams -> StreamRec] /\ strm'[Now] = NoStream
        /\ reaper' \in [Old -> {"none", "end", "join"}]
    BY <1>3, SupersedeTypes DEF RelaunchFails
  <2>2. framesShown' = framesShown /\ seeking' = FALSE /\ ~HasStream'
    BY <1>3, <2>1 DEF RelaunchFails, HasStream
  <2>3. TypeOK'
    BY <1>1, <2>1, <2>2 DEF Inv, TypeOK
  <2>4. QED
    BY <1>1, <2>2, <2>3 DEF Inv, NowOpen, SeekTakesTarget, SeekingHasStream,
       PendingOnlyWhileSeeking, LastSeekWins, ClockRuns, RestartEndsWithPicture
<1>4. QED
  BY <1>2, <1>3

\* The player of a deleted element shows nothing any more.
LEMMA DropInv == ASSUME Inv, Drop \/ DropStream \/ DropJoin PROVE Inv'
<1> USE NowFacts, RecordTypes
<1>1. /\ UNCHANGED <<player, reaper, scrub, want, exe>> /\ ui' \in {"drop", "join", "gone"}
      /\ strm \in [Streams -> StreamRec] /\ strm[Now] \in StreamRec /\ audio \in AudioRec
  BY DEF Inv, TypeOK, Drop, DropStream, DropJoin, streams
<1>2. strm' \in [Streams -> StreamRec]
  <2>1. CASE Drop
    <3>1. [strm[Now] EXCEPT !.stop = TRUE] \in StreamRec
      BY <1>1 DEF StreamRec
    <3>2. QED
      BY <1>1, <2>1, <3>1 DEF Drop, Set
  <2>2. CASE DropStream
    BY <1>1, <2>2 DEF DropStream
  <2>3. CASE DropJoin
    BY <1>1, <2>3 DEF DropJoin, streams
  <2>4. QED
    BY <2>1, <2>2, <2>3
<1>3. audio' \in AudioRec
  BY <1>1 DEF Drop, DropStream, DropJoin, AudioDrop, AudioRec, streams
<1>4. TypeOK'
  BY <1>1, <1>2, <1>3 DEF Inv, TypeOK, player
<1>5. QED
  BY <1>1, <1>4 DEF Inv, NowOpen, SeekTakesTarget, SeekingHasStream, PendingOnlyWhileSeeking,
     LastSeekWins, ClockRuns, RestartEndsWithPicture, player

\* A frame takes a picture; the first one of a restart starts what was waiting.
LEMMA FrameInv == ASSUME Inv, Frame PROVE Inv'
<1> USE NowFacts
<1>1. /\ ui = "idle" /\ ~scrub /\ HasStream /\ strm[Now].queued > 0
      /\ strm' = [strm EXCEPT ![Now].queued = @ - 1]
      /\ framesShown' = framesShown + 1
      /\ UNCHANGED <<paused, reaper, scrub, want, exe>>
      /\ strm \in [Streams -> StreamRec] /\ strm[Now] \in StreamRec /\ audio \in AudioRec
      /\ framesShown \in Nat /\ base \in Positions /\ want \in Positions
      /\ pending \in Positions \cup {NoTarget}
  BY DEF Inv, TypeOK, Frame
<1>2. strm'[Now] = [strm[Now] EXCEPT !.queued = @ - 1]
  BY <1>1
<1>3. strm[Now].next \in Nat /\ strm[Now].queued \in Nat /\ strm[Now].queued - 1 \in 0 .. PreloadFrames
  BY <1>1, PlayerAssumption DEF StreamRec, Positions, PlayerAssumption
<1>4. /\ strm'[Now] \in StreamRec /\ strm'[Now].open = strm[Now].open
      /\ strm'[Now].next = strm[Now].next /\ strm'[Now].queued = strm[Now].queued - 1
      /\ strm'[Now].dec = strm[Now].dec
  BY <1>1, <1>2, <1>3 DEF StreamRec
<1>5. /\ strm' \in [Streams -> StreamRec] /\ Upcoming(Now)' = Upcoming(Now) + 1
      /\ framesShown' \in Nat
  BY <1>1, <1>3, <1>4 DEF Upcoming
<1>6. strm[Now].open /\ HasStream'
  BY <1>1, <1>4, RecordTypes DEF Inv, NowOpen, HasStream
<1>7. CASE seeking /\ pending # NoTarget
  <2>1. /\ pending' = NoTarget /\ base' = pending
        /\ IF exe THEN seeking' = TRUE /\ ui' = "seek" /\ AudioDrop
                  ELSE seeking' = FALSE /\ ui' = ui /\ audio' = audio
    BY <1>7 DEF Frame, SeekNow
  <2>2. audio' \in AudioRec
    BY <1>1, <2>1 DEF AudioDrop, AudioRec
  <2>3. TypeOK'
    BY <1>1, <1>5, <1>7, <2>1, <2>2 DEF Inv, TypeOK
  <2>4. want = pending
    BY <1>7 DEF Inv, LastSeekWins
  <2>5. QED
    BY <1>1, <1>4, <1>6, <2>1, <2>3, <2>4 DEF Inv, NowOpen, SeekTakesTarget, SeekingHasStream,
       PendingOnlyWhileSeeking, LastSeekWins, ClockRuns, RestartEndsWithPicture
<1>8. CASE ~(seeking /\ pending # NoTarget)
  <2>1. seeking' = FALSE /\ UNCHANGED <<ui, pending, base, audio>>
    BY <1>8 DEF Frame
  <2>2. pending = NoTarget
    BY <1>1, <1>8 DEF Inv, PendingOnlyWhileSeeking
  <2>3. TypeOK'
    BY <1>1, <1>5, <2>1 DEF Inv, TypeOK
  <2>4. ClockRuns'
    BY <1>1, <1>5, <1>6, <2>1, <2>2 DEF Inv, ClockRuns
  <2>5. QED
    BY <1>1, <1>4, <1>6, <2>1, <2>2, <2>3, <2>4 DEF Inv, NowOpen, SeekTakesTarget,
       SeekingHasStream, PendingOnlyWhileSeeking, LastSeekWins, RestartEndsWithPicture
<1>9. QED
  BY <1>7, <1>8

\* The controls: pause, the begin and the end of a drag.
LEMMA ControlInv ==
  ASSUME Inv, TogglePaused \/ BeginScrub \/ \E t \in Positions : Release(t)
  PROVE  Inv'
<1> USE NowFacts
<1>0. /\ strm \in [Streams -> StreamRec] /\ strm[Now] \in StreamRec /\ audio \in AudioRec
  BY DEF Inv, TypeOK
<1>1. CASE TogglePaused
  <2>1. /\ UNCHANGED <<ui, seeking, pending, base, framesShown, strm, reaper, scrub, want, exe>>
        /\ paused' \in BOOLEAN
    BY <1>1 DEF TogglePaused, streams
  <2>2. audio' \in AudioRec
    BY <1>0, <1>1 DEF TogglePaused, AudioRec, Inv, TypeOK
  <2>3. TypeOK'
    BY <2>1, <2>2 DEF Inv, TypeOK
  <2>4. QED
    BY <2>1, <2>3 DEF Inv, NowOpen, SeekTakesTarget, SeekingHasStream, PendingOnlyWhileSeeking,
       LastSeekWins, ClockRuns, RestartEndsWithPicture, HasStream, Upcoming
<1>2. CASE BeginScrub
  <2>1. /\ UNCHANGED <<ui, paused, seeking, pending, base, framesShown, reaper, audio, want, exe>>
        /\ scrub' = TRUE /\ ui = "idle"
    BY <1>2 DEF BeginScrub, player
  <2>2. [strm[Now] EXCEPT !.queued = 0] \in StreamRec
    BY <1>0, PlayerAssumption DEF StreamRec, PlayerAssumption
  <2>3. /\ strm' \in [Streams -> StreamRec] /\ strm'[Now].open = strm[Now].open
        /\ HasStream' => HasStream
    BY <1>0, <1>2, <2>2 DEF BeginScrub, Set, HasStream, StreamRec
  <2>4. strm[Now].open => HasStream'
    BY <2>3, RecordTypes DEF HasStream
  <2>5. TypeOK'
    BY <2>1, <2>3 DEF Inv, TypeOK
  <2>6. QED
    BY <2>1, <2>3, <2>4, <2>5 DEF Inv, NowOpen, SeekTakesTarget, SeekingHasStream,
       PendingOnlyWhileSeeking, LastSeekWins, ClockRuns, RestartEndsWithPicture
<1>3. CASE \E t \in Positions : Release(t)
  <2>0. PICK t \in Positions : Release(t)
    BY <1>3
  <2>1. /\ ui = "idle" /\ scrub' = FALSE /\ want' = t
        /\ UNCHANGED <<paused, framesShown, strm, reaper, exe>>
    BY <2>0 DEF Release, streams
  <2>2. CASE seeking
    <3>1. pending' = t /\ UNCHANGED <<ui, seeking, base, audio>>
      BY <2>0, <2>2 DEF Release, Seek
    <3>2. TypeOK'
      BY <2>1, <3>1 DEF Inv, TypeOK
    <3>3. QED
      BY <2>1, <2>2, <3>1, <3>2 DEF Inv, NowOpen, SeekTakesTarget, SeekingHasStream, HasStream,
         PendingOnlyWhileSeeking, LastSeekWins, ClockRuns, RestartEndsWithPicture
  <2>3. CASE ~seeking
    <3>1. /\ pending' = NoTarget /\ base' = t
          /\ IF exe THEN seeking' = TRUE /\ ui' = "seek" /\ AudioDrop
                    ELSE seeking' = FALSE /\ ui' = ui /\ audio' = audio
      BY <2>0, <2>3 DEF Release, Seek, SeekNow
    <3>2. audio' \in AudioRec
      BY <1>0, <3>1 DEF AudioDrop, AudioRec
    <3>3. TypeOK'
      BY <2>1, <3>1, <3>2 DEF Inv, TypeOK
    <3>4. QED
      BY <2>1, <3>1, <3>3 DEF Inv, NowOpen, SeekTakesTarget, SeekingHasStream, HasStream,
         PendingOnlyWhileSeeking, LastSeekWins, ClockRuns, RestartEndsWithPicture
  <2>4. QED
    BY <2>2, <2>3
<1>4. QED
  BY <1>1, <1>2, <1>3

LEMMA InvInductive == Inv /\ [Next]_vars => Inv'
<1> SUFFICES ASSUME Inv, [Next]_vars PROVE Inv'
  OBVIOUS
<1>1. CASE \E g \in Streams : DecoderCheck(g) \/ DecoderRead(g) \/ DecoderSend(g)
  BY <1>1, DecoderInv
<1>2. CASE (\E g \in Old : Reap(g)) \/ AudioRead \/ SyncEnds \/ FillPcm
  BY <1>2, BackgroundInv
<1>3. CASE Relaunch \/ RelaunchFails
  BY <1>3, RelaunchInv
<1>4. CASE Drop \/ DropStream \/ DropJoin
  BY <1>4, DropInv
<1>5. CASE Frame
  BY <1>5, FrameInv
<1>6. CASE TogglePaused \/ BeginScrub \/ \E t \in Positions : Release(t)
  BY <1>6, ControlInv
<1>7. CASE Quiet \/ UNCHANGED vars
  <2>1. UNCHANGED <<ui, paused, seeking, pending, base, framesShown, strm, reaper, audio,
                    scrub, want, exe>>
    BY <1>7 DEF Quiet, vars, player, streams
  <2>2. TypeOK'
    BY <2>1 DEF Inv, TypeOK
  <2>3. QED
    BY <2>1, <2>2 DEF Inv, NowOpen, SeekTakesTarget, SeekingHasStream, PendingOnlyWhileSeeking,
       LastSeekWins, ClockRuns, RestartEndsWithPicture, HasStream, Upcoming
<1>8. QED
  BY <1>1, <1>2, <1>3, <1>4, <1>5, <1>6, <1>7 DEF Next

LEMMA InvHolds == Spec => []Inv
<1>1. QED
  BY InitInv, InvInductive, PTL DEF Spec

\* Every variable keeps its type: the frame channel never holds more pictures
\* than its capacity, and no decoder reads past the end of the video.
THEOREM TypeCorrect == Spec => []TypeOK
<1>1. Inv => TypeOK
  BY DEF Inv
<1>2. QED
  BY <1>1, InvHolds, PTL

\* A player in the middle of a restart always has a stream whose first picture
\* can end it.
THEOREM RestartsCanEnd == Spec => []SeekingHasStream
<1>1. Inv => SeekingHasStream
  BY DEF Inv
<1>2. QED
  BY <1>1, InvHolds, PTL

\* No merged seek is left behind once the restart it waited for is over.
THEOREM NoTargetLeftBehind == Spec => []PendingOnlyWhileSeeking
<1>1. Inv => PendingOnlyWhileSeeking
  BY DEF Inv
<1>2. QED
  BY <1>1, InvHolds, PTL

\* However many seeks are merged, the position asked for last is the one the
\* player restarts at.
THEOREM TheLastSeekWins == Spec => []LastSeekWins
<1>1. Inv => LastSeekWins
  BY DEF Inv
<1>2. QED
  BY <1>1, InvHolds, PTL

\* The video clock names the picture that comes next.
THEOREM TheClockNamesTheFrame == Spec => []ClockNamesFrame
<1>1. Inv => ClockNamesFrame
  BY DEF Inv, ClockRuns, PendingOnlyWhileSeeking, ClockNamesFrame
<1>2. QED
  BY <1>1, InvHolds, PTL

\* The clock stands at the target until the first picture ends the restart.
THEOREM TheClockWaits == Spec => []RestartEndsWithPicture
<1>1. Inv => RestartEndsWithPicture
  BY DEF Inv
<1>2. QED
  BY <1>1, InvHolds, PTL

=============================================================================
