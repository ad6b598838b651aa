----------------------------- MODULE VideoPlayer -----------------------------
(***************************************************************************)
(* One video element of the desktop application (video_player.rs and its   *)
(* controls in app.rs): the UI thread, one decoder thread and one ffmpeg   *)
(* process per stream, the reaper that ends a superseded stream, and the   *)
(* threads of the audio pipeline.  A seek restarts both processes; seeks   *)
(* that arrive before the first frame of the new stream are merged.        *)
(* A position is the number of a frame.                                    *)
(***************************************************************************)
EXTENDS Naturals, Sequences

CONSTANTS
    EndFrame,       \* frames in the video; a seek to EndFrame finds none
    PreloadFrames,  \* capacity of the frame channel, 6 in the code
    MaxOld,         \* bound: superseded streams that are still ending
    NoTarget

ASSUME PlayerAssumption ==
    /\ EndFrame \in Nat /\ PreloadFrames \in Nat \ {0}
    /\ MaxOld \in Nat \ {0} /\ NoTarget \notin Nat

VARIABLES
    ui,         \* where the UI thread is: idle, or inside seek or drop
    paused, seeking, pending, base, framesShown,    \* VideoPlayer
    strm,       \* the stream it holds (Now) and those handed to reapers
    reaper,     \* the reaper of each superseded stream
    audio,      \* the audio pipeline
    scrub,      \* VideoInstance: the progress bar is dragged
    exe,        \* a seek still finds ffmpeg where the opened player found it
    want        \* history: the position the user asked for last

player  == <<paused, seeking, pending, base, framesShown>>
streams == <<strm, reaper>>
vars    == <<ui, player, streams, audio, scrub, want, exe>>

Positions == 0 .. EndFrame
Now     == 0
Old     == 1 .. MaxOld
Streams == {Now} \cup Old

\* A stream that starts at position p: next frame to read, the decoder thread,
\* the channel, its stop flag, whether its receiver is open, its process.
Launched(p) == [next |-> p, dec |-> "check", queued |-> 0,
                stop |-> FALSE, open |-> TRUE, child |-> TRUE]

\* A stream not launched yet, or of which nothing is left.
NoStream == [next |-> 0, dec |-> "none", queued |-> 0,
                stop |-> FALSE, open |-> FALSE, child |-> FALSE]

NoAudio == [on |-> FALSE, stop |-> FALSE, paused |-> FALSE,
            reader |-> "done", reports |-> FALSE, sync |-> "done"]

\* A new pipeline; p is the pause state applied to it.
PlayingAudio(p) == [on |-> TRUE, stop |-> FALSE, paused |-> p,
                    reader |-> "read", reports |-> TRUE, sync |-> "wait"]

\* Where the next stream can be: a restart begins only when there is room for
\* it, so that never more than MaxOld streams are ending.
Free == {g \in Old : strm[g] = NoStream}

HasStream == strm[Now] # NoStream

\* The next position of stream g that the channel delivers.
Upcoming(g) ==
    strm[g].next - strm[g].queued - (IF strm[g].dec = "send" THEN 1 ELSE 0)

Init ==
    /\ ui = "idle" /\ paused = FALSE /\ seeking = FALSE /\ pending = NoTarget
    /\ base = 0 /\ framesShown = 0
    /\ strm = [g \in Streams |-> IF g = Now THEN Launched(0) ELSE NoStream]
    /\ reaper = [g \in Old |-> "none"]
    /\ audio \in {NoAudio, PlayingAudio(FALSE)}
    /\ scrub = FALSE /\ want = 0 /\ exe \in BOOLEAN

-----------------------------------------------------------------------------
(* Decoder threads, reapers and the audio threads *)

Set(g, field, value) == strm' = [strm EXCEPT ![g][field] = value]

\* Mutant: a paused decoder ends, as when pause and stop were one flag.
DecoderCheckPauseStops(g) ==
    /\ strm[g].dec = "check"
    /\ Set(g, "dec", IF strm[g].stop \/ paused THEN "done" ELSE "read")
    /\ UNCHANGED <<ui, player, reaper, audio, scrub, want, exe>>

\* The loop head: a set stop flag ends the thread, pause puts it to sleep.
DecoderCheck(g) ==
    /\ strm[g].dec = "check"
    /\ strm[g].stop \/ ~paused
    /\ Set(g, "dec", IF strm[g].stop THEN "done" ELSE "read")
    /\ UNCHANGED <<ui, player, reaper, audio, scrub, want, exe>>

\* One whole frame from the process, or the end of the stream.
DecoderRead(g) ==
    /\ strm[g].dec = "read"
    /\ \/ /\ strm[g].next < EndFrame
          /\ strm' = [strm EXCEPT ![g].next = @ + 1, ![g].dec = "send"]
       \/ /\ strm[g].next = EndFrame \/ ~strm[g].child
          /\ Set(g, "dec", "done")
    /\ UNCHANGED <<ui, player, reaper, audio, scrub, want, exe>>

\* Mutant: the channel has no capacity.
DecoderSendUnbounded(g) ==
    /\ strm[g].dec = "send"
    /\ IF strm[g].open THEN strm' = [strm EXCEPT ![g].queued = @ + 1, ![g].dec = "check"]
                       ELSE Set(g, "dec", "done")
    /\ UNCHANGED <<ui, player, reaper, audio, scrub, want, exe>>

\* send blocks while the channel is full and fails when the receiver is gone.
DecoderSend(g) ==
    /\ strm[g].dec = "send"
    /\ \/ ~strm[g].open /\ Set(g, "dec", "done")
       \/ /\ strm[g].open /\ strm[g].queued < PreloadFrames
          /\ strm' = [strm EXCEPT ![g].queued = @ + 1, ![g].dec = "check"]
    /\ UNCHANGED <<ui, player, reaper, audio, scrub, want, exe>>

Ended(s) == [s EXCEPT !.stop = TRUE, !.open = FALSE, !.queued = 0, !.child = FALSE]

\* Mutant: the thread is joined before its receiver is closed.
ReapJoiningFirst(g) ==
    /\ \/ /\ reaper[g] = "end" /\ reaper' = [reaper EXCEPT ![g] = "join"]
          /\ strm' = [strm EXCEPT ![g].stop = TRUE, ![g].child = FALSE]
       \/ /\ reaper[g] = "join" /\ strm[g].dec = "done"
          /\ reaper' = [reaper EXCEPT ![g] = "none"]
          /\ strm' = [strm EXCEPT ![g] = NoStream]
    /\ UNCHANGED <<ui, player, audio, scrub, want, exe>>

\* The reaper of a superseded stream: the stop flag, the receiver and the
\* process go, one after the other and without waiting for the decoder; the
\* join of its thread comes last.
Reap(g) ==
    /\ \/ /\ reaper[g] = "end" /\ reaper' = [reaper EXCEPT ![g] = "join"]
          /\ strm' = [strm EXCEPT ![g] = Ended(@)]
       \/ /\ reaper[g] = "join" /\ strm[g].dec = "done"
          /\ reaper' = [reaper EXCEPT ![g] = "none"]
          /\ strm' = [strm EXCEPT ![g] = NoStream]
    /\ UNCHANGED <<ui, player, audio, scrub, want, exe>>

\* Mutant: a reader with sound in hand waits for room whatever the stop flag.
AudioReadIgnoringStop ==
    /\ audio.on /\ audio.reader = "read"
    /\ IF audio.stop
       THEN audio' = [audio EXCEPT !.reader = "done"]
       ELSE ~audio.paused /\ \E r \in {"full", "done"} : audio' = [audio EXCEPT !.reader = r]
    /\ UNCHANGED <<ui, player, streams, scrub, want, exe>>

\* audio_reader_loop: it fills the ring until the ring is full or the sound
\* ends.  Paused it neither reads nor ends; stopped it ends, also at a full ring.
AudioRead ==
    /\ audio.on
    /\ \/ /\ audio.stop /\ audio.reader # "done"
          /\ audio' = [audio EXCEPT !.reader = "done"]
       \/ /\ ~audio.stop /\ ~audio.paused /\ audio.reader = "read"
          /\ \E r \in {"full", "done"} : audio' = [audio EXCEPT !.reader = r]
    /\ UNCHANGED <<ui, player, streams, scrub, want, exe>>

\* The drift thread ends when the reporting end of its channel is dropped.
SyncEnds ==
    /\ audio.on /\ audio.sync = "wait" /\ ~audio.reports
    /\ audio' = [audio EXCEPT !.sync = "done"]
    /\ UNCHANGED <<ui, player, streams, scrub, want, exe>>

\* The sound card takes sound from a full ring; stopped or paused it plays
\* silence.
FillPcm ==
    /\ audio.on /\ ~audio.stop /\ ~audio.paused /\ audio.reader = "full"
    /\ audio' = [audio EXCEPT !.reader = "read"]
    /\ UNCHANGED <<ui, player, streams, scrub, want, exe>>

-----------------------------------------------------------------------------
(* The UI thread inside seek and drop *)

\* What dropping the audio pipeline does before it joins its threads.
AudioDrop == audio' = [audio EXCEPT !.stop = TRUE, !.reports = FALSE]

AudioJoined == audio.on => audio.reader = "done" /\ audio.sync = "done"

\* seek(t) once it is not merged, up to the join of the audio threads.
SeekNow(t) ==
    /\ pending' = NoTarget
    /\ base' = t
    /\ IF exe THEN seeking' = TRUE /\ ui' = "seek" /\ AudioDrop
              ELSE seeking' = FALSE /\ UNCHANGED <<ui, audio>>

\* Mutant: the first of the merged targets is kept.
SeekKeepingFirst(t) ==
    \/ /\ seeking
       /\ pending' = IF pending = NoTarget THEN t ELSE pending
       /\ UNCHANGED <<ui, seeking, base, audio>>
    \/ ~seeking /\ SeekNow(t)

\* A seek while a restart waits for its first frame only records the target.
Seek(t) ==
    \/ /\ seeking
       /\ pending' = t
       /\ UNCHANGED <<ui, seeking, base, audio>>
    \/ ~seeking /\ SeekNow(t)

\* The stream it held goes to a reaper; s takes its place.
Supersede(s) ==
    IF HasStream
    THEN \E g \in Free : /\ strm' = [strm EXCEPT ![g] = strm[Now], ![Now] = s]
                         /\ reaper' = [reaper EXCEPT ![g] = "end"]
    ELSE strm' = [strm EXCEPT ![Now] = s] /\ UNCHANGED reaper

\* Mutant: the video clock is not moved to the target.
RelaunchKeepingClock ==
    /\ ui = "seek" /\ AudioJoined
    /\ ui' = "idle"
    /\ Supersede(Launched(base))
    /\ audio' \in {NoAudio, PlayingAudio(paused)}
    /\ UNCHANGED <<paused, seeking, pending, base, framesShown, scrub, want, exe>>

\* The rest of seek: the old stream goes to a reaper, a new one is launched,
\* and the audio pipeline, when it can be built, gets the pause state again.
Relaunch ==
    /\ ui = "seek" /\ AudioJoined
    /\ ui' = "idle"
    /\ Supersede(Launched(base))
    /\ framesShown' = base
    /\ audio' \in {NoAudio, PlayingAudio(paused)}
    /\ UNCHANGED <<paused, seeking, pending, base, scrub, want, exe>>

\* Mutant: a failed restart leaves the player in the middle of a seek.
RelaunchFailsSeeking ==
    /\ ui = "seek" /\ AudioJoined
    /\ ui' = "idle"
    /\ Supersede(NoStream)
    /\ audio' = NoAudio
    /\ UNCHANGED <<paused, seeking, pending, base, framesShown, scrub, want, exe>>

\* The new process or thread cannot be started: the player has no stream.
RelaunchFails ==
    /\ ui = "seek" /\ AudioJoined
    /\ ui' = "idle"
    /\ Supersede(NoStream)
    /\ audio' = NoAudio /\ seeking' = FALSE
    /\ UNCHANGED <<paused, pending, base, framesShown, scrub, want, exe>>

\* The element is deleted: the decoder is told to stop, the audio goes first.
Drop ==
    /\ ui = "idle"
    /\ ui' = "drop"
    /\ IF HasStream THEN Set(Now, "stop", TRUE) ELSE UNCHANGED strm
    /\ AudioDrop
    /\ UNCHANGED <<player, reaper, scrub, want, exe>>

DropStream ==
    /\ ui = "drop" /\ AudioJoined
    /\ ui' = "join" /\ audio' = NoAudio
    /\ IF HasStream THEN strm' = [strm EXCEPT ![Now] = Ended(@)] ELSE UNCHANGED strm
    /\ UNCHANGED <<player, reaper, scrub, want, exe>>

DropJoin ==
    /\ ui = "join"
    /\ HasStream => strm[Now].dec = "done"
    /\ ui' = "gone"
    /\ UNCHANGED <<player, streams, audio, scrub, want, exe>>

-----------------------------------------------------------------------------
(* The UI thread between frames *)

\* Mutant: the first frame of the new stream does not end the restart.
FrameStillSeeking ==
    /\ ui = "idle" /\ ~scrub /\ HasStream
    /\ strm[Now].queued > 0 /\ (pending = NoTarget \/ Free # {})
    /\ strm' = [strm EXCEPT ![Now].queued = @ - 1]
    /\ framesShown' = framesShown + 1
    /\ UNCHANGED <<ui, seeking, pending, base, audio, paused, reaper, scrub, want, exe>>

\* Mutant: the waiting target is started and not taken.
FrameLeavingTarget ==
    /\ ui = "idle" /\ ~scrub /\ HasStream
    /\ strm[Now].queued > 0 /\ (pending = NoTarget \/ Free # {})
    /\ strm' = [strm EXCEPT ![Now].queued = @ - 1]
    /\ framesShown' = framesShown + 1
    /\ seeking' = FALSE
    /\ UNCHANGED <<ui, pending, base, audio, paused, reaper, scrub, want, exe>>

\* A frame of the UI takes one picture.  The first one after a restart ends
\* the restart and starts the one that was waiting.
Frame ==
    /\ ui = "idle" /\ ~scrub /\ HasStream
    /\ strm[Now].queued > 0 /\ (pending = NoTarget \/ Free # {})
    /\ strm' = [strm EXCEPT ![Now].queued = @ - 1]
    /\ framesShown' = framesShown + 1
    /\ IF seeking /\ pending # NoTarget
       THEN SeekNow(pending)
       ELSE seeking' = FALSE /\ UNCHANGED <<ui, pending, base, audio>>
    /\ UNCHANGED <<paused, reaper, scrub, want, exe>>

\* The pause button or the space bar.
TogglePaused ==
    /\ ui = "idle"
    /\ paused' = ~paused
    /\ audio' = IF audio.on THEN [audio EXCEPT !.paused = ~paused] ELSE audio
    /\ UNCHANGED <<ui, seeking, pending, base, framesShown, streams, scrub, want, exe>>

\* The mouse goes down on the progress bar: frames decoded ahead are dropped,
\* and until the release only the handle and its label follow the mouse.
BeginScrub ==
    /\ ui = "idle" /\ ~scrub
    /\ scrub' = TRUE
    /\ IF HasStream THEN Set(Now, "queued", 0) ELSE UNCHANGED strm
    /\ UNCHANGED <<ui, player, reaper, audio, want, exe>>

\* The release seeks to where the mouse was last.  Only a video that is selected
\* takes it: one that was deselected during the drag stands still until it is
\* selected again, if ever, so nothing owes this action.
Release(t) ==
    /\ ui = "idle" /\ scrub
    /\ seeking \/ Free # {}
    /\ scrub' = FALSE
    /\ Seek(t)
    /\ want' = t
    /\ UNCHANGED <<paused, framesShown, streams, exe>>

Quiet ==
    /\ ui = "gone"
    /\ \A g \in Old : reaper[g] = "none"
    /\ UNCHANGED vars

Next ==
    \/ \E g \in Streams : DecoderCheck(g) \/ DecoderRead(g) \/ DecoderSend(g)
    \/ \E g \in Old : Reap(g)
    \/ AudioRead \/ SyncEnds \/ FillPcm
    \/ Relaunch \/ RelaunchFails \/ Drop \/ DropStream \/ DropJoin
    \/ Frame \/ TogglePaused \/ BeginScrub
    \/ \E t \in Positions : Release(t)
    \/ Quiet

\* Threads are scheduled, and the UI redraws as long as a video is on the page;
\* no key, click or failure is owed by anyone.
Fairness ==
    /\ \A g \in Streams : WF_vars(DecoderCheck(g) \/ DecoderRead(g) \/ DecoderSend(g))
    /\ \A g \in Old : WF_vars(Reap(g))
    /\ WF_vars(AudioRead) /\ WF_vars(SyncEnds)
    /\ WF_vars(Relaunch \/ RelaunchFails) /\ WF_vars(DropStream) /\ WF_vars(DropJoin)
    /\ WF_vars(Frame)

Spec == Init /\ [][Next]_vars /\ Fairness

-----------------------------------------------------------------------------
(* Properties *)

StreamRec == [next : Positions, queued : 0 .. PreloadFrames,
              dec : {"none", "check", "read", "send", "done"},
              stop : BOOLEAN, open : BOOLEAN, child : BOOLEAN]

AudioRec == [on : BOOLEAN, stop : BOOLEAN, paused : BOOLEAN,
             reader : {"read", "full", "done"}, reports : BOOLEAN, sync : {"wait", "done"}]

\* Every variable keeps its type; the channel never exceeds its capacity and a
\* stream that was not launched has no thread.
TypeOK ==
    /\ ui \in {"idle", "seek", "drop", "join", "gone"}
    /\ paused \in BOOLEAN /\ seeking \in BOOLEAN /\ scrub \in BOOLEAN /\ exe \in BOOLEAN
    /\ pending \in Positions \cup {NoTarget} /\ base \in Positions
    /\ framesShown \in Nat
    /\ strm \in [Streams -> StreamRec]
    /\ reaper \in [Old -> {"none", "end", "join"}]
    /\ audio \in AudioRec
    /\ want \in Positions

\* A player that waits for the first frame of a restart has a stream that can
\* send one: no failed restart leaves it merging every later seek for ever.
SeekingHasStream == seeking /\ ui = "idle" => HasStream /\ strm[Now].open

\* Between frames a player never holds a waiting target unless a restart is
\* under way: no target is left behind when the restart is over.
PendingOnlyWhileSeeking == ui = "idle" /\ pending # NoTarget => seeking

\* The seek that counts is the last one: however seeks are merged, the player
\* is at, or waits to restart at, the position the user asked for last.
LastSeekWins == want = IF pending = NoTarget THEN base ELSE pending

\* The video clock, which audio is corrected against, names exactly the frame
\* that comes next, except while frames are dropped for a drag or a restart.
ClockNamesFrame ==
    ui = "idle" /\ HasStream /\ exe /\ ~scrub /\ ~seeking => framesShown = Upcoming(Now)

\* A restart lasts exactly until the first picture of the new stream: until
\* then the clock stands at the target, and the first picture ends it.
RestartEndsWithPicture == ui = "idle" /\ seeking => framesShown = base

\* A seek or a deletion never keeps the UI thread for ever.
UIReturns == ui \in {"seek", "drop", "join"} ~> ui \in {"idle", "gone"}

\* Every superseded stream ends: its thread and its process.
OldStreamsEnd ==
    \A g \in Old : reaper[g] = "end" ~> strm[g] = NoStream

\* A video that is not paused plays on: the next picture comes, unless the
\* user pauses, drags or deletes, or a restart is begun.
PlaysOn ==
    \A p \in Positions :
        ui = "idle" /\ HasStream /\ Upcoming(Now) = p /\ p < EndFrame
            ~> Upcoming(Now) # p \/ paused \/ scrub \/ ui # "idle"

==============================================================================
