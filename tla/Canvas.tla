------------------------------- MODULE Canvas -------------------------------
(***************************************************************************)
(* The preparation canvas of the desktop application (drafftink-desktop:   *)
(* app.rs, undo.rs, interactive_rect.rs): overlay elements that are drawn, *)
(* selected, dragged and deleted, one global drag guard, and a bounded     *)
(* undo history.  Everything runs on the UI thread; one action is one      *)
(* frame with one input event in it.  In every frame only the selected     *)
(* element runs the interaction that claims and frees the guard.           *)
(***************************************************************************)
EXTENDS Naturals, Sequences, FiniteSets, Lists

CONSTANTS
    Shapes,         \* ids of shapes
    Videos,         \* ids of local videos, rebuilt from a record
    Places, Home,   \* rectangles on the screen; Home is where the camera shows
                    \* an element's own world rectangle
    Loose,          \* no user_rect: the element is where its world rectangle is
    Absent, NoOne,
    MaxDepth,       \* 100 in the code
    KeysDuringDrag, \* are keys used while the mouse button is down?
    MenuOverlaps,   \* may the toolbar or one of its menus cover an element?
    OverButtons,    \* may the mouse be over a selected video's own buttons
                    \* when its button goes down or up?
    MaxOps          \* bound: clicks, keys and dialogs

Elements == Shapes \cup Videos

ASSUME CanvasAssumption ==
    /\ Shapes \cap Videos = {} /\ Absent \notin [at : Places \cup {Loose}, z : Nat]
    /\ NoOne \notin Elements /\ Home \in Places /\ Loose \notin Places
    /\ MaxDepth \in Nat \ {0} /\ MaxOps \in Nat
    /\ KeysDuringDrag \in BOOLEAN /\ MenuOverlaps \in BOOLEAN
    /\ OverButtons \in BOOLEAN

VARIABLES
    canvas,     \* shape_instances and video_instances: user_rect and z_index
    records,    \* inserted_videos, what a saved file lists
    nextZ,      \* next_z_index
    born,       \* ids drawn so far
    sel,        \* selected_element_id
    guard,      \* active_drag: the element being dragged
    snap,       \* drag_snapshot: the element and its user_rect at the claim
    undo, redo, \* UndoHistory
    pending,    \* an insertion waiting for the mouse
    mode,       \* prepare or teach
    down,       \* the mouse button
    ops

drag    == <<sel, guard, snap>>
content == <<canvas, records, nextZ, born>>
history == <<undo, redo>>
vars    == <<content, drag, history, pending, mode, down, ops>>

OnCanvas(e) == canvas[e] # Absent
Inst        == [at : Places \cup {Loose}, z : Nat]
NoSnap      == [el |-> NoOne, old |-> Loose]

\* One more use of the mouse or the keyboard.
Op == ops < MaxOps /\ ops' = ops + 1

Key == KeysDuringDrag \/ ~down

-----------------------------------------------------------------------------
(* UndoHistory *)

Insertion(e, inst) == [op |-> "insert", el |-> e, inst |-> inst]
Removal(e, inst)   == [op |-> "remove", el |-> e, inst |-> inst]
Movement(e, a, b)  == [op |-> "move", el |-> e, old |-> a, new |-> b]

\* Mutant: one command too many is kept.
CappedLate(s) == IF Len(s) > MaxDepth + 1 THEN Tail(s) ELSE s

Capped(s) == IF Len(s) > MaxDepth THEN Tail(s) ELSE s

\* Mutant: a new command leaves the redo stack alone.
PushKeepingRedo(cmd) ==
    /\ undo' = Capped(Append(undo, cmd))
    /\ redo' = redo

Push(cmd) ==
    /\ undo' = Capped(Append(undo, cmd))
    /\ redo' = <<>>

PushBoth(cmd, next) ==
    /\ undo' = Capped(Append(Capped(Append(undo, cmd)), next))
    /\ redo' = <<>>

\* A video comes back as its record describes it, above everything else.
Rebuilt == [at |-> Loose, z |-> nextZ]

Restored(cmd) == IF cmd.el \in Videos THEN Rebuilt ELSE cmd.inst

\* set_overlay_user_rect
Moved(c, e, place) == IF c[e] = Absent THEN c ELSE [c EXCEPT ![e].at = place]

\* apply_undo and apply_redo, on the canvas
Reverted(c, cmd) ==
    CASE cmd.op = "insert" -> [c EXCEPT ![cmd.el] = Absent]
      [] cmd.op = "remove" -> [c EXCEPT ![cmd.el] = Restored(cmd)]
      [] cmd.op = "move"   -> Moved(c, cmd.el, cmd.old)

Reapplied(c, cmd) ==
    CASE cmd.op = "insert" -> [c EXCEPT ![cmd.el] = Restored(cmd)]
      [] cmd.op = "remove" -> [c EXCEPT ![cmd.el] = Absent]
      [] cmd.op = "move"   -> Moved(c, cmd.el, cmd.new)

\* Mutant: undoing an insertion forgets the list of videos.
RecordsAfterShownOnly(cmd, shows) ==
    IF cmd.op = "move" \/ cmd.el \notin Videos \/ ~shows THEN records
    ELSE Append(records, cmd.el)

\* The list of videos after an undo or a redo that shows or hides a video.
RecordsAfter(cmd, shows) ==
    IF cmd.op = "move" \/ cmd.el \notin Videos THEN records
    ELSE IF shows THEN Append(records, cmd.el)
    ELSE Sift(records, Videos \ {cmd.el})

ZAfter(cmd, shows) ==
    IF cmd.op # "move" /\ cmd.el \in Videos /\ shows THEN nextZ + 1 ELSE nextZ

Undo ==
    LET cmd   == undo[Len(undo)]
        shows == cmd.op = "remove"
    IN
    /\ mode = "prepare" /\ Key /\ Op /\ undo # <<>>
    /\ undo' = SubSeq(undo, 1, Len(undo) - 1)
    /\ redo' = Capped(Append(redo, cmd))
    /\ canvas' = Reverted(canvas, cmd)
    /\ records' = RecordsAfter(cmd, shows)
    /\ nextZ' = ZAfter(cmd, shows)
    /\ sel' = NoOne
    /\ UNCHANGED <<born, guard, snap, pending, mode, down>>

Redo ==
    LET cmd   == redo[Len(redo)]
        shows == cmd.op = "insert"
    IN
    /\ mode = "prepare" /\ Key /\ Op /\ redo # <<>>
    /\ redo' = SubSeq(redo, 1, Len(redo) - 1)
    /\ undo' = Capped(Append(undo, cmd))
    /\ canvas' = Reapplied(canvas, cmd)
    /\ records' = RecordsAfter(cmd, shows)
    /\ nextZ' = ZAfter(cmd, shows)
    /\ sel' = NoOne
    /\ UNCHANGED <<born, guard, snap, pending, mode, down>>

-----------------------------------------------------------------------------
(* Selecting and dragging *)

\* RectInteraction::update on a press inside e: e claims the guard, and its
\* rectangle on the screen is stored even before the mouse moves.
Claim(e) ==
    /\ guard' = e
    /\ snap' = [el |-> e, old |-> canvas[e].at]
    /\ canvas' = [canvas EXCEPT ![e].at = IF @ = Loose THEN Home ELSE @]

\* A selected video shows a pause and a mute button.  In a frame in which the
\* mouse is over one of them its interaction is skipped: it claims nothing,
\* frees nothing and stays where it is.
OnButton(e) == OverButtons /\ e \in Videos

\* handle_canvas_click, then the overlays: the element under the mouse is
\* selected and claims the guard, unless the guard is taken.
Press ==
    /\ mode = "prepare" /\ ~down /\ Op /\ pending = "none"
    /\ down' = TRUE
    /\ IF guard # NoOne
       THEN UNCHANGED <<canvas, drag>>
       ELSE \E e \in {x \in Elements : OnCanvas(x)} \cup {NoOne} :
               /\ sel' = e
               /\ \/ e # NoOne /\ Claim(e)
                  \/ (e = NoOne \/ OnButton(e)) /\ UNCHANGED <<canvas, guard, snap>>
    /\ UNCHANGED <<records, nextZ, born, history, pending, mode>>

\* The owner of the guard follows the mouse while it is selected.
Drag ==
    /\ mode = "prepare" /\ down /\ guard # NoOne /\ guard = sel
    /\ \E p \in Places : canvas' = [canvas EXCEPT ![sel].at = p]
    /\ UNCHANGED <<records, nextZ, born, drag, history, pending, mode, down, ops>>

\* Mutant: the guard is freed only when something moved.
FreeIfMoved ==
    IF guard = NoOne \/ guard # sel THEN UNCHANGED <<guard, snap, history>>
    ELSE /\ snap' = NoSnap
         /\ IF snap.old # canvas[guard].at
            THEN guard' = NoOne /\ Push(Movement(snap.el, snap.old, canvas[guard].at))
            ELSE UNCHANGED <<guard, history>>

\* The selected owner sees the button up: it frees the guard, and a change of
\* user_rect since the claim goes to the history.  Nobody else frees it.
Free ==
    IF guard = NoOne \/ guard # sel THEN UNCHANGED <<guard, snap, history>>
    ELSE /\ guard' = NoOne
         /\ snap' = NoSnap
         /\ IF snap.old # canvas[guard].at
            THEN Push(Movement(snap.el, snap.old, canvas[guard].at))
            ELSE UNCHANGED history

\* The button goes up, over a button of the selected video or elsewhere.
LetGo ==
    \/ Free
    \/ OnButton(sel) /\ UNCHANGED <<guard, snap, history>>

\* The mouse leaves the buttons of a video let go there: its interaction runs
\* again.  It takes a frame before it can go down on anything else.
Leave ==
    /\ mode = "prepare" /\ ~down /\ guard # NoOne /\ guard = sel
    /\ Free
    /\ UNCHANGED <<content, sel, pending, mode, down, ops>>

Release ==
    /\ down /\ (mode = "prepare" => pending # "drawing")
    /\ down' = FALSE
    /\ IF mode = "prepare" THEN LetGo ELSE UNCHANGED <<guard, snap, history>>
    /\ UNCHANGED <<content, sel, pending, mode, ops>>

-----------------------------------------------------------------------------
(* Inserting and deleting *)

\* The click on the insert button ends; handle_canvas_click has seen its
\* press like any other, whatever covers the canvas there.
ChooseShape ==
    /\ mode = "prepare" /\ down /\ pending = "none"
    /\ MenuOverlaps \/ sel = NoOne
    /\ down' = FALSE
    /\ LetGo
    /\ pending' = "armed"
    /\ UNCHANGED <<content, sel, mode, ops>>

\* The click on a teaching tool's menu item ends: the tool comes up and the
\* selection is dropped before the overlays run.
ChooseTool ==
    /\ mode = "prepare" /\ down /\ pending = "none"
    /\ MenuOverlaps \/ sel = NoOne
    /\ down' = FALSE
    /\ sel' = NoOne
    /\ UNCHANGED <<content, guard, snap, history, pending, mode, ops>>

\* The same tools have keys.
ToolKey ==
    /\ mode = "prepare" /\ Key /\ Op
    /\ sel' = NoOne
    /\ UNCHANGED <<content, guard, snap, history, pending, mode, down>>

\* Drawing starts.  No click is handled, but the selected element still runs
\* its interaction, and claims the guard if the mouse is inside it.
PressDraw ==
    /\ mode = "prepare" /\ ~down /\ Op /\ pending \in {"armed", "drawing"}
    /\ down' = TRUE
    /\ pending' = "drawing"
    /\ \/ UNCHANGED <<canvas, guard, snap>>
       \/ guard = NoOne /\ sel # NoOne /\ Claim(sel)
    /\ UNCHANGED <<records, nextZ, born, sel, history, mode>>

\* commit_shape_geom: the new instance and its command
NewShape(e) ==
    LET inst == [at |-> Loose, z |-> nextZ] IN <<inst, Insertion(e, inst)>>

\* Drawing ends: a shape is inserted and the selection dropped before the
\* other shapes run their interaction.  Videos have run theirs by then, so a
\* video that is dragged along frees the guard first.
ReleaseDraw ==
    LET e   == CHOOSE x \in Shapes \ born : TRUE
        new == NewShape(e)
    IN
    /\ mode = "prepare" /\ down /\ pending = "drawing"
    /\ Shapes \ born # {}
    /\ canvas' = [canvas EXCEPT ![e] = new[1]]
    /\ nextZ' = nextZ + 1
    /\ born' = born \cup {e}
    /\ \/ /\ guard \in Videos /\ guard = sel
          /\ guard' = NoOne /\ snap' = NoSnap
          /\ IF snap.old # canvas[guard].at
             THEN PushBoth(Movement(snap.el, snap.old, canvas[guard].at), new[2])
             ELSE Push(new[2])
       \/ /\ guard \notin Videos \/ guard # sel \/ OnButton(sel)
          /\ Push(new[2]) /\ UNCHANGED <<guard, snap>>
    /\ sel' = NoOne
    /\ down' = FALSE /\ pending' = "none"
    /\ UNCHANGED <<records, mode, ops>>

\* A rectangle too small to be one: nothing is inserted.
ReleaseDot ==
    /\ mode = "prepare" /\ down /\ pending = "drawing"
    /\ LetGo
    /\ down' = FALSE /\ pending' = "none"
    /\ UNCHANGED <<content, sel, mode, ops>>

\* The file dialog, on a thread of its own, has an answer.
PickVideo ==
    /\ Op /\ pending = "none" /\ Videos \ born # {}
    /\ pending' = "video"
    /\ UNCHANGED <<content, drag, history, mode, down>>

\* insert_video_at, on the press that places the video.
PlaceVideo ==
    LET v == CHOOSE x \in Videos \ born : TRUE IN
    /\ mode = "prepare" /\ ~down /\ Op /\ pending = "video"
    /\ canvas' = [canvas EXCEPT ![v] = Rebuilt]
    /\ records' = Append(records, v)
    /\ nextZ' = nextZ + 1
    /\ born' = born \cup {v}
    /\ Push(Insertion(v, Rebuilt))
    /\ sel' = NoOne
    /\ down' = TRUE /\ pending' = "none"
    /\ UNCHANGED <<guard, snap, mode>>

Escape ==
    /\ mode = "prepare" /\ Key /\ Op /\ pending # "none"
    /\ pending' = "none"
    /\ UNCHANGED <<content, drag, history, mode, down>>

\* delete_selected; it leaves drag_snapshot behind.
Delete ==
    /\ mode = "prepare" /\ Key /\ Op /\ sel # NoOne
    /\ canvas' = [canvas EXCEPT ![sel] = Absent]
    /\ records' = Sift(records, Videos \ {sel})
    /\ Push(Removal(sel, canvas[sel]))
    /\ sel' = NoOne /\ guard' = NoOne
    /\ UNCHANGED <<nextZ, born, snap, pending, mode, down>>

-----------------------------------------------------------------------------
(* Videos and teaching *)

\* The keys = and - resize every video on the canvas, in either mode.
ZoomVideos ==
    /\ Key /\ Op
    /\ \E v \in Videos : OnCanvas(v)
    /\ \E p \in Places :
          canvas' = [e \in Elements |-> IF e \in Videos /\ OnCanvas(e)
                                        THEN [canvas[e] EXCEPT !.at = p]
                                        ELSE canvas[e]]
    /\ UNCHANGED <<records, nextZ, born, drag, history, pending, mode, down>>

\* enter_teach: with a courseware file open, the table of videos is replaced
\* and the recorded ones are built again, in the order of the records.
RebuiltVideos ==
    [e \in Elements |->
        IF \E i \in 1..Len(records) : records[i] = e
        THEN [at |-> Loose,
              z  |-> nextZ + (CHOOSE i \in 1..Len(records) : records[i] = e) - 1]
        ELSE canvas[e]]

EnterTeach ==
    /\ mode = "prepare" /\ Key /\ Op
    /\ mode' = "teach"
    /\ \/ UNCHANGED <<canvas, nextZ>>
       \/ canvas' = RebuiltVideos /\ nextZ' = nextZ + Len(records)
    /\ UNCHANGED <<records, born, drag, history, pending, down>>

\* exit_teach, then the overlays in the same frame.
ExitTeach ==
    /\ mode = "teach" /\ ~down
    /\ mode' = "prepare"
    /\ LetGo
    /\ UNCHANGED <<content, sel, pending, down, ops>>

-----------------------------------------------------------------------------
Init ==
    /\ canvas = [e \in Elements |-> Absent]
    /\ records = <<>> /\ nextZ = 0 /\ born = {}
    /\ sel = NoOne /\ guard = NoOne /\ snap = NoSnap
    /\ undo = <<>> /\ redo = <<>>
    /\ pending = "none" /\ mode = "prepare" /\ down = FALSE
    /\ ops = 0

Mouse    == Press \/ Drag \/ Release \/ Leave \/ ChooseShape \/ ChooseTool \/ PressDraw
            \/ ReleaseDraw \/ ReleaseDot \/ PlaceVideo
Keyboard == Undo \/ Redo \/ Delete \/ Escape \/ ToolKey \/ ZoomVideos

Next == Mouse \/ Keyboard \/ PickVideo \/ EnterTeach \/ ExitTeach

Spec == Init /\ [][Next]_vars
-----------------------------------------------------------------------------
(* Properties *)

Commands ==
    [op : {"insert", "remove"}, el : Elements, inst : Inst]
    \cup [op : {"move"}, el : Elements, old : Places \cup {Loose}, new : Places \cup {Loose}]

TypeOK ==
    /\ canvas \in [Elements -> Inst \cup {Absent}]
    /\ records \in Seq(Videos) /\ nextZ \in Nat /\ born \subseteq Elements
    /\ sel \in Elements \cup {NoOne} /\ guard \in Elements \cup {NoOne}
    /\ snap \in [el : Elements \cup {NoOne}, old : Places \cup {Loose}]
    /\ undo \in Seq(Commands) /\ Len(undo) <= MaxDepth
    /\ redo \in Seq(Commands) /\ Len(redo) <= MaxDepth
    /\ pending \in {"none", "armed", "drawing", "video"}
    /\ mode \in {"prepare", "teach"} /\ down \in BOOLEAN /\ ops \in Nat

\* The videos on the canvas and the list a saved file is written from stay
\* the same set, each video once, whatever is undone, redone or rebuilt.
RecordsMatch ==
    /\ \A i, j \in 1..Len(records) : records[i] = records[j] => i = j
    /\ {records[i] : i \in 1..Len(records)} = {v \in Videos : OnCanvas(v)}

\* Once the button is up the guard is free.  Only a video can keep it, and
\* only where the mouse may be over its own buttons when it is let go.
GuardFreed == ~down => guard = NoOne \/ (OverButtons /\ guard \in Videos)

\* interactive_rect.rs:195-196: the guard is returned once the button is up,
\* or no other element could be dragged or selected again.  Only a selected
\* owner runs the interaction that returns it.
GuardReturns == ~down /\ guard # NoOne => guard = sel

\* app.rs:2332: a finished drag goes to the history only if the geometry
\* really changed.
Shown(at)     == IF at = Loose THEN Home ELSE at
OnlyRealMoves ==
    \A i \in 1..Len(undo) :
        undo[i].op = "move" => Shown(undo[i].old) # Shown(undo[i].new)

\* The canvas without the drag in progress.
Settled == IF guard = NoOne THEN canvas ELSE Moved(canvas, guard, snap.old)

\* What undo answers for: which elements there are, and for those stored in
\* full where they are and in which order.
Picture(c) ==
    [e \in Elements |-> IF e \in Videos /\ c[e] # Absent THEN "shown" ELSE c[e]]

Back[n \in 0..Len(undo)]  ==
    IF n = 0 THEN Settled ELSE Reverted(Back[n - 1], undo[Len(undo) + 1 - n])
Ahead[n \in 0..Len(redo)] ==
    IF n = 0 THEN Settled ELSE Reapplied(Ahead[n - 1], redo[Len(redo) + 1 - n])

Timeline == INSTANCE UndoTimeline WITH
    Blank   <- [e \in Elements |-> Absent],
    Limit   <- MaxDepth,
    present <- Picture(Settled),
    past    <- [i \in 1..Len(undo) |-> Picture(Back[Len(undo) + 1 - i])],
    future  <- [i \in 1..Len(redo) |-> Picture(Ahead[Len(redo) + 1 - i])]

\* Undo and redo move along the pictures the canvas has been, a drag counting
\* as one edit when it ends.
ImplementsTimeline == Timeline!Spec
=============================================================================
