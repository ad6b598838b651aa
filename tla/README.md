# DraftTink: TLA+ models, model checking and proofs

This directory holds the verification project of DraftTink, a teaching
whiteboard written in Rust (`src/crates/*`): TLA+ modules translated from the
source, configurations that check them with TLC, and theorems checked by TLAPS.
`PROJECT.json` lists the runs, the source lines behind every definition
(`map`), a mutation for every checked property (a plausible bug that the property
notices), the hazards and the findings.

Contents: [Inventory](#inventory), [Modules](#modules), [Runs](#runs),
[Fairness](#fairness), [Findings](#findings), [Proofs](#proofs),
[What is not modelled](#what-is-not-modelled), [Plan](#plan).

## Inventory

DraftTink is a desktop whiteboard for teachers (prepare a lesson, then teach it),
an optional school server, a classroom quiz, and a family of file converters.
The parts that keep state and act on it concurrently or over several steps:

| part | state | operations | hard behaviour |
|---|---|---|---|
| **Quiz** `drafftink-quiz` | `QuizSession` (status, students, questions, answers, statistics, buzz winners) owned by one actor; the panel's last snapshot | join, leave, answer, buzz; start, finish and pause a question; end the session | four kinds of tokio tasks around bounded channels; the panel acts on an old snapshot; students lose sockets and retry |
| **Approval workflow** `drafftink-backend/workflow`, `api/mobile.rs` | procedure instances, audit log, message centre, each behind its own mutex | submit, approve, reject | handlers on several threads read, decide and write back under separate locks; three stores are written one after the other |
| **Canvas** `drafftink-desktop` `app.rs`, `undo.rs`, `interactive_rect.rs` | overlay elements, selection, drag guard, drag snapshot, two undo stacks, the list of recorded videos | draw, place, select, drag, delete, undo, redo, teach | one thread, but one drag spans many frames, and every key, menu and dialog may come between them |
| **Video player** `drafftink-desktop` `video_player.rs` | one stream (ffmpeg process, decoder thread, bounded channel), an audio pipeline with its threads, the pending seek, the counted clock | play, pause, drag the progress bar, seek, delete | a seek replaces processes and threads while the old ones still end; the UI thread joins some of them |
| **Annotation** `drafftink-display` `annotation/*` | strokes, spatial index, cache file, patch file, the layer of the page | draw, erase, merge, clear, save, leave | a write per frame that can fail half-way; crashes; two hosts with different ways out |
| **Homework** `drafftink-backend` `api/homework.rs`, `db`, `storage`, `backup.rs` | homework and submission records, their index entries, files, backups | create, submit, grade, back up | a file store and a database written one after the other, no lock around read-modify-write, a backup in between |
| Accounts `api/auth.rs`, `auth/*` | refresh-token revocations, one-time codes, login attempts | login, refresh, logout, code check | check and revocation of a token are two operations |
| Live hub `recording/live.rs` | rooms and their broadcast channels | publish, subscribe, close | slow and late subscribers |
| Core board `drafftink-core` `context.rs`, `command.rs` | document, command queue, undo stack | execute, undo, redo, process the queue | some edits apply at once and queue their command |
| Hub synchronisation `hub_sync.rs` | busy flag, status, answer channels | login, save a snapshot, poll | the flag waits for an answer that may never come |
| Saving, tools | files, tool geometry | save, draw | I/O and geometry |
| Editor, display, app shells | user-interface state, pages | page changes, import, export | immediate-mode UI |
| Geometry, mind map, functions, mathematics | values | algorithms over floating-point numbers | numerical |
| Formats and importers (enbx, cosmos, ETL, migrator, pdf) | files | parse, convert | parsing |
| Gateway, wasm, mobile client, plugins | requests, bindings | forward, limit, load | I/O |

How the modelled parts interact inside:

- *Quiz.* A WebSocket connection (`im.rs`) turns each message into a
  `SessionCommand` with a oneshot reply, sends it into the actor's inbox (1024)
  and waits. The actor (`session.rs`) handles one command at a time and sends
  what changed as a `UiEvent` into a second channel (256), blocking while that is
  full. The UI proxy (`ui.rs`) applies events to a shared `UiState`. The panel
  (`quiz_panel.rs`) draws that state, and a button spawns a task that sends a
  command into the inbox. So the picture the teacher acts on lags behind.
- *Workflow.* `workflow_approve` clones the instance out of the store, asks the
  engine to decide on the clone, writes the clone back, then logs, then notifies.
- *Canvas.* Each frame reads the keys, the toolbar's requests and the click, then
  draws the overlays; only the *selected* overlay runs `RectInteraction`, which
  claims `active_drag` on a press and frees it on a release. Ended drags,
  insertions and deletions push commands on the history.
- *Video player.* The UI thread takes one frame per repaint from the decoder's
  channel. `seek` hands the old process, thread and receiver to a reaper thread, drops
  the audio pipeline (which joins its own threads on the UI thread) and launches
  both anew; a seek during a restart is kept as `pending_seek` for the first frame.
- *Annotation.* Each frame rebuilds the index if it is marked, feeds pen or
  eraser, and flushes to the cache file if there is something to save. The window
  runs on its own (`display.exe`) or as the teaching mode of the desktop, which lends
  it the page's ink and takes the board back on return. The cache file is named after
  the contents of the document the window was *started* on; another document can be
  opened in the window, and only the patch file follows it.
- *Homework.* A handler saves the file first, inserts the record and its index
  entries, flushes the database and answers. Handlers run in parallel; the backup task
  copies the database directory and then the files while they run.

What makes them correct: in the quiz, that no answer is counted or acknowledged
twice, that the count the teacher sees is a real one and catches up, and that the
two bounded channels never block everybody; in the workflow, that a stored
instance is always one that the rules lead to, that signatures are logged, that
no accepted decision disappears; on the canvas, that an element can always be
grabbed again, that undo and redo retrace exactly what was there, and that what is
saved is what is shown; in the player, that the last seek wins, that the clock is
honest and that no thread waits for another for ever; for the ink, that a board is
never only in memory while the program takes it for saved, and that the index
never speaks of another board; for homework, that what was answered with success
is durable and readable in the stores, and that a backup holds a readable file for
every record unless that file was being written, or was spoiled, when it was copied.

## Modules

| module | models |
|---|---|
| `AnswerBook` | what the quiz promises: the first accepted answer and the first accepted buzz are final |
| `QuizSession` | the session actor, both channels, the UI proxy, the panel's buttons and their tasks, the connections |
| `QuizSessionProofs` | its theorems |
| `ApprovalFlow` | what a procedure promises: nodes in order, final verdicts, until two decisions at once make it contested |
| `Workflow` | engine, store and request handlers |
| `WorkflowProofs` | its theorems |
| `UndoTimeline` | what undo promises: a line of pictures one moves along |
| `Canvas` | overlays, selection, drag guard, history, teaching mode |
| `CanvasProofs` | its theorems |
| `VideoPlayer` | one video element: UI thread, decoders, reapers, audio threads |
| `VideoPlayerProofs` | its theorems |
| `Annotation` | the ink of the teaching window, its index and the places that keep it |
| `AnnotationProofs` | its theorems |
| `Homework` | handlers, database, file store and backup task of the backend |
| `HomeworkProofs`, `HomeworkMarksProofs` | its theorems |
| `Lists` | `Sift`, what `Vec::retain` leaves of a list; the canvas and the ink use it |
| `ListsProofs` | induction and recursion along a list, and what `Sift` keeps |
| `MC...` | a small instance of each for TLC |

In the modules, a definition commented as *Mutant* is a variant with a bug, kept
for `PROJECT.json`; no specification uses it.

### QuizSession

| model | code |
|---|---|
| `status joined online asked current answers stats winners` | fields of `QuizSession`; `stats[q].live` says that the map has an entry |
| `inbox`, `events` | the two `mpsc` channels, with capacities `InboxCap`, `UiCap` |
| `outbox`, `owed` | the event whose `send().await` has not completed, and the connection whose reply comes after it (a winning buzz: `session.rs:362-366`); while `outbox` is full the actor takes no command |
| `HandleJoin` ... `HandlePause` | one arm each of the actor's `match` |
| `PushEvent` | the event gets into the UI channel |
| `ProxyApply` | one round of `start_ui_proxy` |
| `ClickStart ClickFinish ClickPause` | buttons, each only in the view the last snapshot selects |
| `spawned`, `DeliverClick` | tasks of clicks; tokio orders them as it likes |
| `ApiCall` | commands no button sends but the public `session_tx` allows |
| `Hello Answer Buzz Disconnect` | a connection; a task whose socket died stays until its reply comes ("abandoned") and then the slot stands for a new socket |
| `acks`, `used`, `clicks`, `messages` | history and bounds, not in the code |

Abstracted: heartbeats and times (they change only fields that nothing else
reads), USB events (only logged), `GetSnapshot` and `GetStats` (queries that no code
sends), the contents of questions (an answer is right or wrong), average time
and option distribution.

### Workflow

| model | code |
|---|---|
| `store audits messages` | the three collections of `WorkflowStore` behind separate mutexes |
| `req[r]` | a handler: its place, its operation and its clone of the instance |
| `Template Passed Accepts Decided` | `WorkflowEngine`, pure; the nodes count from 1 |
| `Start`, `Decide` | `workflow_start` (and `seal_apply`) up to the insert; `workflow_approve` up to the engine's verdict. Refused requests change nothing and take no step |
| `Save Audit Notify` | the rest, one store at a time |
| `Workers` | how many handlers are between two locks at once: 2 already shows every race of two |
| `Clones(w)`, `contested` | the handlers that hold a clone of `w` not written back; history: the requests decided while there was another one |

`legal` stands for whether an official document's data pass `validate()`: if they do
not, the last signature is refused and nothing is saved. A signature carries the
request that made it (`at`, which stands for its time), so a second signature
of the same person at the same node is a second record, as in the engine's list. The
order of the list is left out: the engine never asks for it. Vehicle procedures have
the template of seal procedures.

### Canvas

One action is one frame with one input event in it.

| model | code |
|---|---|
| `canvas[e]` | instance tables: `user_rect` (`Loose` for none) and `z_index` |
| `records` | `inserted_videos`, which a saved file is written from |
| `sel guard snap` | `selected_element_id`, `active_drag`, `drag_snapshot` |
| `undo redo` | `UndoHistory`, capped at `MaxDepth` (100 in the code) |
| `pending` | `pending_shape` (`armed`, or `drawing` once the mouse is down) or `pending_video` |
| `Claim`, `Free` | the press and release branches of `RectInteraction::update` with the snapshot of `overlay_rect_drag` |
| `OnButton LetGo Leave` | a selected video skips its interaction in a frame in which the mouse is over its pause or mute button (`app.rs:5193-5212`): a press there selects and claims nothing, a release there frees nothing until the mouse leaves the button |
| `Press Drag Release` | canvas click and overlays |
| `ChooseShape ChooseTool ToolKey` | toolbar requests; choosing a tool drops the selection *before* the overlays see the release |
| `PressDraw ReleaseDraw ReleaseDot` | drawing a shape. Videos draw before shapes, so a dragged-along video still frees the guard in the frame that ends the drawing, and a shape does not |
| `PickVideo PlaceVideo` | the file dialog's answer, and the placing press |
| `Delete Escape Undo Redo ZoomVideos` | keys |
| `EnterTeach ExitTeach` | mode changes; entering with a courseware file open rebuilds all videos |

Three environment constants say what the user does: `KeysDuringDrag` (keys while
the button is down), `MenuOverlaps` (a menu item lies over the selected
element) and `OverButtons` (the mouse button goes down or up over a video's own
buttons; true in every run). What the buttons do, pausing and muting, belongs to
`VideoPlayer`. Deleting leaves `drag_snapshot` behind, as in the code.

### VideoPlayer

| model | code |
|---|---|
| `strm[Now]` | the stream the player holds: the decoder's place in `decode_loop`, the channel, the stop flag, whether receiver and process are there; `next` is the next frame the process delivers |
| `strm[g]`, `reaper[g]`, `g` in `Old` | streams handed to `video-reaper` threads; at most `MaxOld` are ending at once |
| `ui` | the UI thread: between frames, inside `seek` after the audio was told to stop, inside `drop` before and after the audio's join, gone |
| `seeking pending base framesShown paused` | `seeking`, `pending_seek`, `progress_base_ms`, `frames_shown`, `paused` |
| `audio` | the pipeline: stop and pause flags, the reader's place (`full` is asleep at a full ring), whether the drift thread's sender lives |
| `scrub` | `VideoInstance::seeking`: the progress bar is dragged, no frame is taken |
| `DecoderCheck DecoderRead DecoderSend` | loop head, one frame read, one blocking send |
| `Seek`, `SeekNow`, `Relaunch`, `RelaunchFails` | `seek` up to the audio's join, and the rest of it with its error returns |
| `Frame` | `try_recv` with the chained seek |
| `BeginScrub`, `Release` | press on and release of the progress bar (`app.rs:5224-5261`) |
| `Drop DropStream DropJoin` | `Drop for VideoPlayer`, split at its two joins |
| `exe` | whether a seek still finds ffmpeg (`seek` looks for it each time): chosen once |
| `want` | history: what the user asked for last |

A position is a frame number, a process a counter that ends at `EndFrame`. A
seek to `EndFrame` therefore finds no frame and its restart never ends, as in the
code; later seeks are then merged for ever. Pausing is one action for both flags.
The progress bar belongs to a *selected* video, so a video that is deselected while its
bar is dragged stays frozen. No fairness asks for `Release`: a scrub that lasts for
ever is one of the behaviours checked.

### Annotation

| model | code |
|---|---|
| `strokes current modified dirty index` | `AnnotationSystem`; `dirty` is `spatial_dirty`, `index` the boxes the quadtree was built from |
| `pending elapsed` | `pending_count > 0` and the 3 s of `AnnotationCache` |
| `doc`, `home` | `doc_path`; `doc_hash`, the document the cache file is named after. `NoDoc` stands for no document |
| `file[d]`, `patch`, `page` | the `.drfc` file of each document, the `.drfp` file beside the document shown, as written since it is shown, and the layer the desktop holds |
| `pc`, `then` | the UI thread: between frames, before the write of the temporary file, before its renaming, and where it goes afterwards |
| `Update(b, changed)` | one frame of `update`: index, board, flags, and the decision to flush |
| `Draw Lift Erase Rest` | pen, eraser and no input, each a whole frame |
| `Merged` | `merge_adjacent_strokes`: any subset of the touching neighbours, because colour, tool and time decide |
| `WriteTmp Rename FlushFails` | `flush`; the temporary file itself is never read |
| `Clear Open Save SaveFails Escape Exit` | toolbar and keys; `Open` clears the board and shows another document, but the cache keeps its name; Escape and the frame's own flush differ in what they reset |
| `Recovered`, `Removed` | `scan_and_load`, and the removal of a cache file, whose errors the code ignores |
| `Start(h, d)`, `ExitTeach`, `Crash`, `PowerLoss` | the two hosts; what is in memory is lost unless the desktop takes it |

A place is a number and a stroke a sequence of places, so that a box is an
interval and "close" is equality. What keeps a board is said as the code has it: after
another document was opened, ink drawn on it goes to the cache file of the first
one, where the next window started on the *first* document finds it. `BoardIsKept`
and `ExitKeepsBoard` speak of that file (`file[home]`); that it is the wrong document
for the ink is a hazard listed in `PROJECT.json`.

### Homework

| model | code |
|---|---|
| `mem`, `disk` | the sled database as its readers see it, and as a restart finds it |
| `file[s]` | the mark in the stored file; `Torn` from the truncation to the end of `fs::write` |
| `req[r]` | a handler, its place and the inserts it has left |
| `Create Submit Grade Load` | the handlers up to their next write; a refused request takes no step |
| `Truncate Write WriteFails` | `LocalStorage::save`; two writers at once can leave a mix that does not parse |
| `Insert Answer DatabaseFails` | the inserts one by one, the flush with the answer |
| `BackgroundFlush Crash` | sled's own flush; the server dies and restarts |
| `BackupDatabase BackupFile BackupEnds` | `perform_backup`: the database as it is on disk at one instant, then one file after the other |
| `backup.records` | of the copied database the marks of the submissions, which is all a property reads of it |
| `backup.spoiled` | history: the submissions whose file was copied torn, because it was being written or had been spoiled before |
| `replied hurt apart` | history: what was answered, and which files or marks an overlap, a crash or a reported error may have hit |

## Runs

| run | instance | checks | result |
|---|---|---|---|
| `quiz` | 2 students with a socket each, 2 questions, channels of 2 and 1, 2 clicks or API calls, 3 student messages | `TypeOK`, `StatsMatchAnswers`, `AckedOnce`, `SnapshotsInOrder`, `ImplementsBook`, `AnswersReachPanel`, `EveryRequestReplied` | hold |
| `quiz_stale` | the same with 3 clicks and no API calls | `PanelShowsStatus` | violated |
| `workflow` | one procedure, 3 colleagues and an outsider, 4 requests, 2 at once | `TypeOK`, `StoreSound`, `SignaturesAudited`, `ApplicantTold` | hold |
| `workflow_order` | 2 procedures (official documents), the same people, 4 requests, 2 at once | `NoDecisionLost`, `ImplementsFlow` | hold |
| `workflow_race` | as `workflow` | `RejectionStands` | violated |
| `canvas` | 2 shapes, a video, 2 places, history of 2, 8 operations, any key at any time, menus over elements | `TypeOK`, `RecordsMatch` | hold |
| `canvas_calm` | 9 operations, no key during a drag, no element under a menu | `GuardFreed`, `ImplementsTimeline` | hold |
| `canvas_stuck` | as `canvas_calm`, but with menus over elements | `GuardReturns` | violated |
| `canvas_click` | as `canvas_calm` | `OnlyRealMoves` | violated |
| `player` | a video of two frames, a channel for one, one superseded stream ending beside the current one | `TypeOK`, `SeekingHasStream`, `PendingOnlyWhileSeeking`, `LastSeekWins`, `ClockNamesFrame`, `RestartEndsWithPicture`, `UIReturns`, `OldStreamsEnd`, `PlaysOn` | hold |
| `annotation` | two places, two strokes of up to three marks, merging at two, a document and none, a page with a stroke on it, 2 operations, one failed write or power failure | `TypeOK`, `IndexFresh`, `NoStub`, `EraserReachesAll`, `BoardIsKept`, `SavedAtFrameEnd`, `CopyIsWhole`, `ExitKeepsBoard` | hold |
| `homework` | one submission, two gradings of it, one failed write, one crash, one backup | `TypeOK`, `FileBeforeRecord`, `ReplyIsDurable`, `AnswerReadable`, `MarksAgree`, `BackupComplete` | hold |

Why the bounds are enough for the cases that matter:

- *Quiz.* With channels of 2 and 1 both fill: the actor blocks on the UI channel while
  connections and tasks wait for the inbox. Three messages of two students
  allow a join, an answer and a repeat of it after a lost socket, or a race of two
  students. Two clicks allow start-finish, start-pause and start-start, delivered in
  either order. Two questions allow an answer to a closed one while another is
  open.
- *Workflow.* Four requests are a submission and three decisions; two of them can hold
  the same clone while a third decides later. Both templates occur in `workflow`, legal
  and illegal documents, and a user of another school. `workflow_order` gives up
  the second template for a second procedure: of its documents one may be contested
  while the other goes its way.
- *Canvas.* History of two makes it forget; three elements give a dragged one,
  a selected one and a drawn one. Nine operations are enough to draw, drag, draw
  again, delete, undo all that fits and redo.

- *Player.* The channel is full after one frame, so that the decoder blocks on it, and
  a second frame is still to come. Seeks are not counted: any sequence of restarts,
  merged seeks, failures and pauses happens, to the start, the middle and the
  end. With one slot for an ending stream a restart waits for the reaper before it, which
  only delays it: streams of different generations share nothing.
- *Annotation.* Two operations are two strokes, a stroke and an erasure, or another
  document and a stroke on it; with the stroke of the page or the ink of an earlier window there
  are more strokes than that, and a page without ink is one whose stroke was erased. Merging happens with the second stroke. A power failure or failed
  write, then a new start in either host, are within reach of every state.
- *Homework.* Two gradings of one submission are the smallest overlap. They may also run
  one after the other, with the crash, the failure and each step of the backup at
  any point. Submissions share only the homework record, so one of them is enough.

`CHECK_DEADLOCK FALSE` for the quiz, the workflow, the canvas and homework: a class, an office and a user may stop, and
the bounds end every behaviour. The player and the annotation window are checked for
deadlock. That the quiz does not stop with work left is what
`EveryRequestReplied` and `AnswersReachPanel` check.

## Fairness

- `QuizSession`: weak fairness of the actor, of the proxy and of the delivery of
  spawned clicks, each a tokio task that is polled while it is ready. Nobody must
  click or write, and no fairness is asked for a particular spawned task, connection
  or command.
- `Workflow`: weak fairness of each handler past its decision: the code from there
  to the response has no `await`, so nothing cancels it.
- `VideoPlayer`: weak fairness of every thread (decoder, reaper, audio reader, drift
  thread: the operating system schedules them), of the UI thread's progress once a join
  is over, and of taking frames, because the window asks for a repaint after every
  frame (`app.rs:5388`). Nothing is owed by the user, by the sound card or by a
  failure. `UIReturns` needs no sound to be taken: a stopped reader ends at a full ring.
- `Canvas`, `Annotation`, `Homework`: none. Their properties are about safety.

## Findings

Four things the code does that its own comments rule out, each shown by a run
(quotes and lines are in `PROJECT.json`):

1. **The panel keeps an old status** (`quiz_stale`). Pausing sends no snapshot
   and nothing polls for one, so the panel still shows an active question with a
   pause button and no way to resume until the next answer or question.
2. **A rejection can be erased** (`workflow_race`). Of two decisions taken on clones of
   the same instance the later save wins. The rejection was accepted and logged.
3. **The drag guard can stay taken** (`canvas_stuck`). A press on a tool menu that lies
   over a shape selects the shape and lets it claim the guard; choosing the tool
   then drops the selection, and only a selected owner frees the guard.
   After that no element can be selected or dragged. Undo during a drag leads there as
   well (set `KeysDuringDrag`), and so do calm hands: a video let go over its own
   pause button keeps the guard (`app.rs:5193-5212`), and Ctrl+Z with the mouse still there
   drops the selection (`GuardReturns` is violated with `MenuOverlaps = FALSE` too).
4. **A click is a movement** (`canvas_click`). A press alone writes `user_rect`, so a
   click on a fresh element pushes a `ModifyRect` that changes nothing and clears
   what could be redone.

## Proofs

TLAPS proves, for every value of the constants that satisfies the named assumptions
(`QuizAssumption`, `WorkflowAssumption`, `NoInstanceAssumption`, `PlayerAssumption`, `AnnotationAssumption`,
`HomeworkAssumption`, `CanvasAssumption`):

- `QuizSessionProofs!TypeCorrect`: `Spec => []TypeOK`, which includes that no
  channel exceeds its capacity and that the actor holds at most one event. `TypeOK` is
  inductive; the lemmas follow the actions (`TypeActor`, `TypeRest`), and
  `SnapshotType` rests on the finiteness of the class.
- `QuizSessionProofs!AcknowledgedOnce`: an acknowledgement is counted only in a step
  that turns a recorded answer from "none" into a verdict. `BookSteps` sorts every
  step into `AnswerStep`, `BuzzStep` or one that leaves the book alone; then
  `AckedOnce` is inductive relative to `TypeOK`.
- `QuizSessionProofs!BookImplemented`: refinement of `AnswerBook`, from the same
  classification.
- `QuizSessionProofs!StatsAreTheTally`: `[]StatsMatchAnswers`. A second opening of
  a question would erase its counters and its answers, so `TallyInv` follows
  every opening from the click to the inbox: it is of a question of its own, drawn and not
  yet asked (`FreshStarts`), and what was not asked has no answers (`AskedFirst`).
- `QuizSessionProofs!SnapshotsStayInOrder`: both channels are first-in first-out
  and the book only grows; `Rising` orders panel, channel, waiting event and book.
- `WorkflowProofs!TypeCorrect` and `StoreAlwaysSound`. `StoreSound` is not inductive: a
  save writes what a handler holds. The strengthening `ClonesSound` asks the same of every
  clone on its way to the store; `DecidedSound` (an accepted decision keeps an instance
  sound) carries the engine's logic, and the races need nothing more: whichever clone is
  written last, it was sound.
- `WorkflowProofs!SignaturesAlwaysAudited`: any number of workers. `ClonesAccounted`
  says that a clone holds no signature the log does not account for, but its own
  handler's.
- `WorkflowProofs!DecisionsAreKept` and `FlowImplemented`, for any number of workers: no
  logged decision is lost, and the engine implements `ApprovalFlow`, except where
  a decision was taken while another handler held a clone of the same instance. `KeptInv`
  says that a decision not contested has the only clone of its instance (`OnlyClone`),
  that such a clone is exactly one decision ahead of the store (`CloneIsNext`), and that
  what is logged is on the stored instance *and on every clone of it on its way to the
  store* (`LoggedHeld`), so no later save can erase it. `workflow_race` shows what happens
  to a contested instance; the abstract flow promises nothing of it from then on. It has
  two nodes, as every template of the engine.
- `CanvasProofs!TypeCorrect` and `RecordsAlwaysMatch`: nothing is assumed about
  the user, keys during a drag and menus over elements included. `TypeOK` is not
  inductive: undoing a command is only sound on a canvas the command fits. `CoreSound`
  adds that what is selected is on the canvas and the guard's owner is the
  element of the snapshot (`HandSound`), that the two stacks *together* hold at most
  `MaxDepth` commands (`HistorySound`, so neither undo nor redo ever drops one), that
  `records` lists the videos on the canvas once each (`RecordsSound`), and that the
  history is a line (`LineSound`): there is a sequence of sets of elements, one per
  command, such that each command shows or hides its element, or neither, between
  two neighbours, and the last set is the present one. A push extends the line, the
  cap cuts its old end, undo and redo walk along it, so an insertion is
  only undone where its element is there and a deletion only where it is not;
  hence no video is recorded twice or left behind.
- `CanvasProofs!GuardAlwaysFreed`: under `CalmHands`, `[]GuardFreed`. The
  strengthening `GuardHeld` says why: while the guard is taken its owner is selected
  and the button is down in the preparation mode, or the owner is a video that may have
  been let go over its own buttons (`LetGoFrees`), and nothing is selected while a
  shape is being drawn. The exception is the code's, and without `OverButtons` there is
  none. `canvas_stuck` shows that `CalmHands` is needed for the rest.
- `CanvasProofs!TimelineImplemented`: under `CalmHands` the canvas implements
  `UndoTimeline`. `StepCases` sorts every step: it keeps the picture and the history,
  pushes one command, or undoes or redoes one. `PicturesLine` is `LineSound` for
  pictures: a command leads from each to the next, forwards and backwards. A
  drag keeps the picture because `Settled` puts its element back (`MovedBack`); its
  end is one movement (`FreeMoves`). `PastIs` and `FutureIs` prove by
  induction along the stacks that such a line *is* what `Back` and `Ahead`
  compute, so the refinement mapping's past and future are the lines, and `TimelineStep`
  moves along them. Under `CalmHands` undo never meets a drag; that is where it is needed.
- `VideoPlayerProofs`: the type invariant and the five safety properties of the
  player. `Inv` adds `NowOpen` (the stream the player holds has its receiver open until
  `drop`), `SeekTakesTarget` (inside `seek` no target waits) and `ClockRuns` (the clock names the
  next picture unless a drag dropped frames, and then the target of the drag is waiting);
  they carry the properties through the states in which those do not speak.
- `HomeworkProofs`: `FileBeforeRecord`, `ReplyIsDurable`, `AnswerReadable` and
  `BackupComplete` for any number of requests, failures and crashes. `Inv` says of every
  handler what it has already done (`Filed`: past its write the file is there;
  `Inserted`: what it no longer has to insert is in the database; `Shape`: what
  it has left) and of the disk that it is never ahead of memory (`Behind`). `Backed`
  says of a backup under way that a file already copied is readable, and annotated if
  its record is graded, unless it was torn and counted as `spoiled`; that a torn file is
  only one being written or hurt (`Readable`) is what makes the count complete.
- `HomeworkMarksProofs`: `MarksAgree` and `TypeOK`. `MarksInv` adds that a grading that
  ran alone has no rival on its submission (`Lone`), that what such a
  handler wrote is what it finds (`Whole`), and that both the memory and the disk of
  the database agree with every file no grading is touching (`Agrees`). `TypeOK`
  rests on `Shape`: what a handler has left to insert fits the key it goes to.
- `AnnotationProofs!IndexIsFresh`, `BoardsAreKept`, `FramesSave` for any places,
  boards and numbers of failures. `KeptWhenSettled` is `BoardIsKept` also for a
  board that is marked as changed but has nothing pending, which is what a flush by
  the Escape key leaves.
- `AnnotationProofs!TypesAreKept`, `NoStubIsLeft`, `CopiesAreWhole` and
  `ExitsKeepTheBoard`, from one invariant, `Sound`: the UI thread and where it goes
  next fit together (`ThreadSound`), board, stroke and index are what they should be
  (`InkSound`, where `Boards` are sequences of strokes of two points and more), so are
  the places that keep ink (`PlacesSound`), and the board an Exit wrote is in the cache
  file of the document its window was started on until a window is opened
  (`FileSound`). `CopiesAreWhole` is an action property, from `OnlyPowerTears`: of all steps only a power failure makes a cache file torn.
  `MergedVisible` and `CompactedVisible` say what merging and erasing leave.
- `AnnotationProofs!TheEraserReachesAll`: the action property, in any frame. The eraser looks the
  strokes up in the index of the board as it is, every stroke has a box there, and the
  box of a stroke with a mark under the eraser is touched there (`HitAll`: no stroke
  is missed), so what `Wiped` leaves has no mark there,
  and compacting only drops strokes.

Induction over data. The theorems of the libraries that take an operator cannot be used
here, so `ListsProofs` proves induction in terms of sets: `InductionUpTo` (a set that
holds 0 and, with each number below n, the next one, holds 0..n), from the
well-foundedness of `<` on the naturals, and from it `Recursion`: a function with a
given first value and a given step at each place exists and is what its defining
`CHOOSE` picks (`Runs`, `RunsAlong`). The recursive functions of the models (`Sift`,
`Merged`, `Back`, `Ahead`) are then reasoned about by the relation of neighbours.
`Sift` stands where `SelectSeq` would: it is the same recursion, but `SelectSeq`
cannot be expanded in a proof.

Every invariant and action property of the passing runs is a theorem. Only
model-checked is liveness (`AnswersReachPanel`, `EveryRequestReplied`, `ApplicantTold`,
`UIReturns`, `OldStreamsEnd`, `PlaysOn`), since the provers do not handle `ENABLED`.
`canvas_calm`'s two properties are proved under `CalmHands`, which is what that run
assumes as well.

## What is not modelled

- Of the canvas: text elements and their edit sessions, pages, audio, images
  and functions as kinds of their own (they behave as shapes or videos with small
  differences: placing an audio also selects it), the teaching tools' own interactions,
  several pending insertions at once. The timeline compares
  videos by being there only, since undoing a deletion loses their place.
- Of the workflow: announcements, meetings, reading messages and the to-do list:
  plain lists that the properties do not read. The store lives in memory, so there is
  no crash to recover from.
- Of the quiz: the store, which the actors never write, and the USB actor, a stub.
- Of the player: mute, the size of drift corrections, the progress channel, looping, the
  loss of a sound device, and the choice of a decoder backend when it is opened.
- Of the ink: the toolbar, colours and transparency, the renderer, `export_to`. All
  pages share one board in the code, so pages do not appear in the model.
- Of homework: lists and reads, users and classes, power failures under the file
  store, several backups and the removal of old ones. Copying the database directory is
  taken as one instant, since sled recovers a copied log up to a point in it; the code
  copies its files one after the other while sled writes them. A copy of one file in the
  store finds what the file holds at some moment of it.
- Other components, each with its reason, are in `PROJECT.json`. In short: numerical
  algorithms, parsers, file formats, rendering and child processes have no
  interleavings to explore, and the rest is planned.

## Plan

1. Done: the quiz, the approval workflow, the canvas, the video player, the ink of the
   teaching window, homework with its backups.
2. Canvas, second part: text elements and their edit session (selecting another
   text while one is edited; a session begun during a drag), pages.
3. `TokenRotation`: refresh, logout and the expiry sweep over the revocation store.
4. `BoardCommands`: the core's command queue against `UndoTimeline`, which the canvas
   already implements.
5. `HubSync` and `LiveHub`: the busy flag with its answers, rooms with slow readers.
