----------------------------- MODULE Annotation -----------------------------
(***************************************************************************)
(* The ink of the teaching window (drafftink-display, annotation/): the    *)
(* strokes on the board, their spatial index, and the places that keep     *)
(* them: the cache file written at the end of a frame, the patch file      *)
(* written by the S key, and, when the window is the teaching mode of the  *)
(* desktop application, the annotation layer of the page it came from.     *)
(* The cache file is named after the document the window was started on,   *)
(* the patch file after the one it shows.                                  *)
(* A place on the screen is a number, a stroke a sequence of places; the   *)
(* eraser removes the marks of one place.                                  *)
(***************************************************************************)
EXTENDS Naturals, Sequences, SequencesExt, Lists

CONSTANTS
    Docs, NoDoc,    \* documents by path and contents; NoDoc stands for none
    Places,         \* where the pen and the eraser can be
    MergeEvery,     \* strokes are merged at multiples of it, 20 in the code
    Layers,         \* annotation layers of the page in a saved document
    MaxMarks,       \* bound: marks of a stroke being drawn
    MaxStrokes,     \* bound: strokes on the board
    MaxOps,         \* bound: strokes, erasures, clears and saves of one history
    MaxFails,       \* bound: failed writes and power failures
    NoFile, Torn

Strokes == Seq(Places)
Visible == {s \in Strokes : Len(s) >= 2}

\* A layer comes from a board or from the pen of the editor, which keeps strokes
\* of two points and more only.  The editor's eraser would keep a stroke it has
\* emptied (drafftink-edit, annotation.rs:829-841), but no tool selects it.
ASSUME AnnotationAssumption ==
    /\ NoDoc \in Docs
    /\ Places \subseteq Nat /\ MergeEvery \in Nat \ {0}
    /\ Layers \subseteq Seq(Visible)
    /\ MaxMarks \in Nat /\ MaxStrokes \in Nat /\ MaxOps \in Nat /\ MaxFails \in Nat
    /\ NoFile \notin Seq(Strokes) \cup [board : Seq(Strokes), home : Docs]
    /\ Torn \notin Seq(Strokes) \cup {NoFile}

VARIABLES
    host,       \* who shows the board: nobody, display.exe or the desktop
    pc,         \* where the UI thread is in its frame
    then,       \* where it goes after the flush it is in
    doc,        \* doc_path: the document shown
    home,       \* doc_hash: the document the cache file is named after
    strokes, current, modified, dirty,  \* AnnotationSystem
    index,      \* Quadtree: the bounds of each stroke it was built from
    pending, elapsed,   \* AnnotationCache: pending_count > 0; 3 s are over
    file,       \* the cache file of each document: NoFile, Torn or a board
    patch,      \* the .drfp file beside the document shown, as written since
                \* it is shown; the window never reads it
    page,       \* the annotation layer the desktop holds for the page
    failed,     \* history: the last attempt to write the cache file failed
    left,       \* history: the board an Exit wrote before it ended the program,
                \* and the document the window had been started on
    ops, fails  \* counted against MaxOps and MaxFails

ink    == <<strokes, current, modified, dirty, index>>
cache  == <<pending, elapsed, file>>
bounds == <<ops, fails>>
thread == <<host, pc, then>>
shown  == <<doc, home>>
vars   == <<thread, shown, ink, cache, patch, page, failed, left, bounds>>

\* Points of the UI thread: between two frames, after the Escape key of a
\* frame, before the write of the temporary file and before its renaming, and
\* at the end of the frame in which the desktop returns to preparation.  A
\* flush that is the frame's own goes on to "idle" or "return", that of Escape
\* to "keyed", that of Exit to the end of the program.
Points == {"idle", "keyed", "tmp", "rename", "return"}
Afters == {"idle", "keyed", "return", "end"}
OwnFlush == then \in {"idle", "return"}

Marks(s) == {s[i] : i \in DOMAIN s}

\* The bounding boxes of the strokes that can be seen.
IndexOf(b) ==
    [i \in {j \in DOMAIN b : Len(b[j]) >= 2} |->
        [lo |-> CHOOSE m \in Marks(b[i]) : \A n \in Marks(b[i]) : m <= n,
         hi |-> CHOOSE m \in Marks(b[i]) : \A n \in Marks(b[i]) : m >= n]]

\* The strokes whose box the eraser touches at m.
Candidates(ix, m) == {i \in DOMAIN ix : ix[i].lo <= m /\ m <= ix[i].hi}

Init ==
    /\ host = "none" /\ pc = "idle" /\ then = "idle"
    /\ doc = NoDoc /\ home = NoDoc
    /\ strokes = <<>> /\ current = <<>> /\ modified = FALSE
    /\ dirty = TRUE /\ index = <<>>
    /\ pending = FALSE /\ elapsed = FALSE
    /\ file = [d \in Docs |-> NoFile] /\ patch = NoFile
    /\ page \in Layers
    /\ failed = FALSE /\ left = NoFile
    /\ ops = 0 /\ fails = 0

Showing == host # "none"
Work    == ops < MaxOps /\ ops' = ops + 1
CanFail == fails < MaxFails /\ fails' = fails + 1

-----------------------------------------------------------------------------
(* Opening and ending the window *)

\* What scan_and_load returns.
Recovered(d) == IF file[d] \in {NoFile, Torn} THEN <<>> ELSE file[d]

\* Removing the cache file of d; an error is not noticed.
Removed(d) ==
    \/ file' = [file EXCEPT ![d] = NoFile] /\ UNCHANGED fails
    \/ CanFail /\ UNCHANGED file

\* Mutant: the checksum is not looked at.
StartUnchecked(h, d) ==
    /\ host = "none"
    /\ host' = h /\ pc' = "idle" /\ then' = "idle"
    /\ doc' = d /\ home' = d
    /\ strokes' = IF h = "desktop" THEN page ELSE IF file[d] = NoFile THEN <<>> ELSE file[d]
    /\ current' = <<>> /\ modified' = FALSE /\ dirty' = TRUE /\ index' = <<>>
    /\ pending' = FALSE /\ elapsed' = FALSE
    /\ failed' = FALSE /\ left' = NoFile
    /\ patch' = NoFile
    /\ UNCHANGED <<file, page, bounds>>

\* The window opens on what the cache file of d holds, and a torn file is
\* removed.  The desktop then replaces these strokes by the layer of its
\* page.
Start(h, d) ==
    /\ host = "none"
    /\ host' = h /\ pc' = "idle" /\ then' = "idle"
    /\ doc' = d /\ home' = d
    /\ strokes' = IF h = "desktop" THEN page ELSE Recovered(d)
    /\ current' = <<>> /\ modified' = FALSE /\ dirty' = TRUE /\ index' = <<>>
    /\ pending' = FALSE /\ elapsed' = FALSE
    /\ IF file[d] = Torn THEN Removed(d) ELSE UNCHANGED <<file, fails>>
    /\ failed' = FALSE /\ left' = NoFile
    /\ patch' = NoFile
    /\ UNCHANGED <<page, ops>>

\* The window is gone, and with it everything that was only in memory.
Gone ==
    /\ host' = "none" /\ pc' = "idle" /\ then' = "idle"
    /\ doc' = NoDoc /\ home' = NoDoc /\ patch' = NoFile
    /\ strokes' = <<>> /\ current' = <<>> /\ modified' = FALSE
    /\ dirty' = TRUE /\ index' = <<>>
    /\ pending' = FALSE /\ elapsed' = FALSE
    /\ failed' = FALSE

\* exit_teach: the layer of the page becomes the strokes of the board.
ExitTeach ==
    /\ Showing /\ pc = "return"
    /\ page' = strokes
    /\ Gone
    /\ UNCHANGED <<file, left, bounds>>

\* The process ends at any point; a document opened later has a saved layer.
Crash ==
    /\ Showing
    /\ page' \in IF host = "desktop" THEN Layers ELSE {page}
    /\ Gone
    /\ left' = NoFile
    /\ UNCHANGED <<file, bounds>>

\* The power fails: nothing was synchronised, so the cache file the window
\* writes can be whole, torn or not there.
PowerLoss ==
    /\ Showing /\ CanFail
    /\ \E f \in {file[home], Torn, NoFile} : file' = [file EXCEPT ![home] = f]
    /\ page' \in Layers
    /\ Gone
    /\ left' = NoFile
    /\ UNCHANGED ops

-----------------------------------------------------------------------------
(* The flush of the cache *)

\* A flush ends: the frame goes on, or the program ends after Exit.
FlushEnds(ok) ==
    IF then = "end"
    THEN /\ Gone
         /\ left' = IF ok THEN [board |-> strokes, home |-> home] ELSE NoFile
         /\ page' \in IF host = "desktop" THEN Layers ELSE {page}
    ELSE /\ pc' = then /\ then' = "idle"
         /\ failed' = ~ok
         /\ UNCHANGED <<host, shown, patch, left, page, strokes, current, dirty, index>>

\* Mutant: a failed flush of the frame counts as done.
FlushFailsUnnoticed ==
    /\ pc \in {"tmp", "rename"} /\ CanFail
    /\ FlushEnds(FALSE)
    /\ then # "end" => modified' = FALSE /\ UNCHANGED <<pending, elapsed>>
    /\ UNCHANGED <<file, ops>>

\* The write of the temporary file or its renaming fails.
FlushFails ==
    /\ pc \in {"tmp", "rename"} /\ CanFail
    /\ FlushEnds(FALSE)
    /\ then # "end" => UNCHANGED <<modified, pending, elapsed>>
    /\ UNCHANGED <<file, ops>>

\* Mutant: the cache file itself is written.
WriteInPlace ==
    /\ pc = "tmp"
    /\ pc' = "rename"
    /\ file' = [file EXCEPT ![home] = Torn]
    /\ UNCHANGED <<host, then, shown, ink, pending, elapsed, patch, page, failed, left, bounds>>

WriteTmp ==
    /\ pc = "tmp"
    /\ pc' = "rename"
    /\ UNCHANGED <<host, then, shown, ink, cache, patch, page, failed, left, bounds>>

\* The file takes the place of the old one.  Only the flush of a frame also
\* notes that the board is saved.
Rename ==
    /\ pc = "rename"
    /\ file' = [file EXCEPT ![home] = strokes]
    /\ FlushEnds(TRUE)
    /\ then # "end" =>
          /\ pending' = FALSE /\ elapsed' = FALSE
          /\ modified' = (modified /\ ~OwnFlush)
    /\ UNCHANGED bounds

\* The flush interval is over.
Tick ==
    /\ Showing /\ ~elapsed
    /\ elapsed' = TRUE
    /\ UNCHANGED <<thread, shown, ink, pending, file, patch, page, failed, left, bounds>>

-----------------------------------------------------------------------------
(* One frame of AnnotationSystem::update *)

\* Mutant: with ink on the board it waits for the interval as well.
ShouldFlushLate(b, p) == p /\ elapsed /\ b # <<>>

ShouldFlush(b, p) == p /\ (elapsed \/ b # <<>>)

\* The index at the head of the frame.
Rebuilt == IF dirty THEN IndexOf(strokes) ELSE index

\* The frame leaves the board b; changed says whether its input changed it.
\* The keys of a frame come before it, a return to preparation after it.
Update(b, changed) ==
    /\ Showing /\ pc \in {"idle", "keyed"}
    /\ strokes' = b
    /\ index' = Rebuilt /\ dirty' = changed
    /\ modified' = (modified \/ changed)
    /\ pending' = (pending \/ changed)
    /\ LET after == IF pc = "keyed" /\ host = "desktop" THEN "return" ELSE "idle"
       IN  IF modified' /\ ShouldFlush(b, pending')
           THEN pc' = "tmp" /\ then' = after
           ELSE pc' = after /\ UNCHANGED then
    /\ UNCHANGED <<host, shown, elapsed, file, patch, page, failed, left, fails>>

\* A frame without input to the board.
Rest ==
    /\ dirty \/ modified \/ pc = "keyed"
    /\ Update(strokes, FALSE)
    /\ UNCHANGED <<current, ops>>

\* The pen is dragged over m: a stroke begins or goes on.  A place too close
\* to the last one leaves no mark.
Draw(m) ==
    /\ Len(current) < MaxMarks
    /\ current # <<>> => m # Last(current)
    /\ current' = Append(current, m)
    /\ Update(strokes, FALSE)
    /\ UNCHANGED ops

\* merge_adjacent_strokes: neighbours where one ends close to where the next
\* begins become one; colour, tool and time decide which of them, J.
Joints(b) == {i \in DOMAIN b : i > 1 /\ b[i - 1] # <<>> /\ b[i] # <<>>
                                     /\ Last(b[i - 1]) = Head(b[i])}

Merged(b, J) ==
    LET upTo[i \in 0..Len(b)] ==
            IF i = 0 THEN <<>>
            ELSE LET board == upTo[i - 1]
                 IN  IF i \in J THEN [board EXCEPT ![Len(board)] = @ \o b[i]]
                                ELSE Append(board, b[i])
    IN  upTo[Len(b)]

AfterPush(b) ==
    IF Len(b) % MergeEvery = 0 THEN {Merged(b, J) : J \in SUBSET Joints(b)} ELSE {b}

\* Mutant: the index is not marked.
LiftKeepingIndex(m) ==
    /\ current # <<>>
    /\ current' = <<>>
    /\ \/ /\ Len(current) < 2
          /\ Update(strokes, FALSE) /\ UNCHANGED ops
       \/ /\ Len(current) >= 2 /\ Len(strokes) < MaxStrokes /\ Work
          /\ \E b \in AfterPush(Append(strokes, Append(current, m))) :
                /\ strokes' = b /\ index' = Rebuilt /\ dirty' = FALSE
                /\ Showing /\ pc = "idle"
                /\ modified' = TRUE /\ pending' = TRUE
                /\ UNCHANGED <<thread, shown, elapsed, file, patch, page, failed, left, fails>>

\* The pen is lifted at m: a stroke of one mark is dropped, another is added.
Lift(m) ==
    /\ current # <<>>
    /\ current' = <<>>
    /\ \/ /\ Len(current) < 2
          /\ Update(strokes, FALSE) /\ UNCHANGED ops
       \/ /\ Len(current) >= 2 /\ Len(strokes) < MaxStrokes /\ Work
          /\ \E b \in AfterPush(Append(strokes, Append(current, m))) : Update(b, TRUE)

\* The candidate strokes with a mark where the eraser is, and what it leaves
\* of all strokes.
Hit(ix, m) == {i \in DOMAIN strokes \cap Candidates(ix, m) : m \in Marks(strokes[i])}

Wiped(ix, m) ==
    [i \in DOMAIN strokes |->
        IF i \in Hit(ix, m) THEN Sift(strokes[i], Places \ {m}) ELSE strokes[i]]

\* Once a stroke has fewer than two marks left, all such strokes go.
Compacted(b, hit) ==
    IF \E i \in hit : Len(b[i]) < 2 THEN Sift(b, Visible) ELSE b

\* Mutant: what remains of a stroke stays, however little.
EraseLeavingStubs(m) ==
    /\ Work
    /\ current' = <<>>
    /\ LET hit == Hit(Rebuilt, m)
       IN  IF hit = {} THEN Update(strokes, FALSE) ELSE Update(Wiped(Rebuilt, m), TRUE)

\* Mutant: the strokes are looked up before the index is rebuilt.
EraseBeforeRebuild(m) ==
    /\ Work
    /\ current' = <<>>
    /\ LET hit == Hit(index, m)
       IN  IF hit = {} THEN Update(strokes, FALSE) ELSE Update(Compacted(Wiped(index, m), hit), TRUE)

\* The eraser at m.
Erase(m) ==
    /\ Work
    /\ current' = <<>>
    /\ LET hit == Hit(Rebuilt, m)
       IN  IF hit = {} THEN Update(strokes, FALSE) ELSE Update(Compacted(Wiped(Rebuilt, m), hit), TRUE)

-----------------------------------------------------------------------------
(* The rest of a frame of the window *)

\* AnnotationSystem::clear: the board and the cache file go.
Cleared ==
    /\ Showing /\ pc = "idle" /\ Work
    /\ strokes' = <<>> /\ current' = <<>>
    /\ modified' = TRUE /\ dirty' = TRUE
    /\ Removed(home)
    /\ UNCHANGED <<thread, home, index, pending, elapsed, page, failed, left>>

\* 清除批注, 清空白板 and a new page clear the board.
Clear == Cleared /\ UNCHANGED <<doc, patch>>

\* 打开课件 does so too, and shows d; the cache keeps its name.
Open(d) == d # NoDoc /\ Cleared /\ doc' = d /\ patch' = NoFile

\* The S key: the patch file is written, and then the cache file removed.
Save ==
    /\ Showing /\ pc = "idle" /\ doc # NoDoc /\ strokes # <<>> /\ Work
    /\ patch' = strokes
    /\ Removed(home)
    /\ UNCHANGED <<thread, shown, ink, pending, elapsed, page, failed, left>>

\* The patch file is written in place: a failure can leave it torn.
SaveFails ==
    /\ Showing /\ pc = "idle" /\ doc # NoDoc /\ strokes # <<>> /\ CanFail
    /\ patch' \in {patch, Torn}
    /\ UNCHANGED <<thread, shown, ink, cache, page, failed, left, ops>>

\* The Escape key: the board is flushed unless it is empty.  The rest of the
\* frame follows; then the desktop returns to preparation.
Escape ==
    /\ Showing /\ pc = "idle"
    /\ IF strokes # <<>> THEN pc' = "tmp" /\ then' = "keyed"
                         ELSE pc' = "keyed" /\ UNCHANGED then
    /\ UNCHANGED <<host, shown, ink, cache, patch, page, failed, left, bounds>>

\* Mutant: the program ends without a flush.
ExitUnflushed ==
    /\ Showing /\ pc = "idle"
    /\ left' = IF strokes # <<>> THEN [board |-> strokes, home |-> home] ELSE NoFile
    /\ page' \in IF host = "desktop" THEN Layers ELSE {page}
    /\ Gone
    /\ UNCHANGED <<file, bounds>>

\* The Exit button of the toolbar, in either host: the board is flushed unless
\* it is empty, and the process ends.
Exit ==
    /\ Showing /\ pc = "idle"
    /\ IF strokes # <<>>
       THEN /\ pc' = "tmp" /\ then' = "end"
            /\ UNCHANGED <<host, shown, ink, pending, elapsed, patch, page, failed, left>>
       ELSE /\ Gone
            /\ left' = NoFile
            /\ page' \in IF host = "desktop" THEN Layers ELSE {page}
    /\ UNCHANGED <<file, bounds>>

Next ==
    \/ \E h \in {"display", "desktop"}, d \in Docs : Start(h, d)
    \/ ExitTeach \/ Crash \/ PowerLoss
    \/ WriteTmp \/ Rename \/ FlushFails \/ Tick \/ Rest
    \/ \E m \in Places : Draw(m) \/ Lift(m) \/ Erase(m)
    \/ \E d \in Docs : Open(d)
    \/ Clear \/ Save \/ SaveFails \/ Escape \/ Exit

Spec == Init /\ [][Next]_vars

-----------------------------------------------------------------------------
(* Properties *)

\* Every variable keeps its type; a torn copy is never put on the board.
TypeOK ==
    /\ host \in {"none", "display", "desktop"} /\ pc \in Points /\ then \in Afters
    /\ doc \in Docs /\ home \in Docs
    /\ strokes \in Seq(Strokes) /\ current \in Strokes
    /\ modified \in BOOLEAN /\ dirty \in BOOLEAN
    /\ \A i \in DOMAIN index : i \in Nat /\ index[i] \in [lo : Places, hi : Places]
    /\ pending \in BOOLEAN /\ elapsed \in BOOLEAN
    /\ file \in [Docs -> Seq(Strokes) \cup {NoFile, Torn}]
    /\ patch \in Seq(Strokes) \cup {NoFile, Torn} /\ page \in Seq(Strokes)
    /\ left \in [board : Seq(Strokes), home : Docs] \cup {NoFile}
    /\ failed \in BOOLEAN /\ ops \in 0 .. MaxOps /\ fails \in 0 .. MaxFails

\* Whenever the index is not marked for rebuilding it is the index of the
\* strokes on the board: what the renderer and the eraser look up in it are
\* positions of this board and of no earlier one.
IndexFresh == ~dirty => index = IndexOf(strokes)

\* Every stroke on the board can be seen and found: erasing and merging leave
\* none of fewer than two marks, which no index would hold.
NoStub == \A i \in DOMAIN strokes : Len(strokes[i]) >= 2

\* Where the eraser has been no stroke has a mark, whatever the index knew.
EraserReachesAll ==
    [][\A m \in Places : Erase(m) => \A i \in DOMAIN strokes' : m \notin Marks(strokes'[i])]_vars

\* Where the board would be found again: the cache file, which is named after
\* the document the window was started on, the patch file of the one it shows,
\* and the page.
Kept == strokes \in {file[home], patch, page}

\* A board with ink that the program takes for saved is whole in some place
\* that outlives the window, unless a save tore the patch file.
BoardIsKept == Showing /\ ~modified /\ strokes # <<>> /\ patch # Torn => Kept

\* Between frames a board with ink lags behind no place that keeps it, unless
\* the last write failed or a save tore the patch file: the cache waits for
\* the interval only with an empty board.
SavedAtFrameEnd ==
    Showing /\ pc = "idle" /\ strokes # <<>> /\ patch # Torn => failed \/ Kept

\* No failed write and no end of the program tears a cache file, and neither
\* does a file that could not be removed: only a power failure does.
CopyIsWhole == [][\A d \in Docs : file'[d] = Torn => file[d] = Torn \/ PowerLoss]_vars

\* A board with ink that was there when the Exit button wrote it is the one
\* that the next window finds under the document this one was started on,
\* whatever was shown, cleared, saved or torn before.  After 打开课件 that is
\* not the document the ink belongs to.
ExitKeepsBoard == host = "none" /\ left # NoFile => Recovered(left.home) = left.board

=============================================================================
