---------------------------- MODULE CanvasProofs ----------------------------
(***************************************************************************)
(* Proofs about the canvas, for any number of elements and commands.       *)
(* Whatever the user does, the history stays bounded, what is selected is  *)
(* there, and the records list the videos on the canvas.  A mouse alone,   *)
(* clear of the toolbar, leaves the drag guard taken at most by a video it *)
(* let go on one of its own buttons, and then undo and redo move along the *)
(* pictures the canvas has been.                                           *)
(***************************************************************************)
EXTENDS Canvas, ListsProofs, TLAPS

-----------------------------------------------------------------------------
(* The drag guard *)

\* Where the guard is taken, its owner is selected and the button is down in
\* the preparation mode, or it is a video with buttons to be let go on; nothing
\* is selected while a shape is being drawn.
GuardHeld ==
    /\ guard # NoOne => \/ guard = sel /\ down /\ mode = "prepare"
                        \/ OverButtons /\ guard \in Videos
    /\ pending \in {"armed", "drawing"} => sel = NoOne

\* The condition under which the owner is still selected when the button
\* goes up: no key meanwhile, and no element under the toolbar.
CalmHands == ~KeysDuringDrag /\ ~MenuOverlaps

\* Nothing is taken at the start.
LEMMA HeldInit == Init => GuardHeld
  BY DEF Init, GuardHeld

\* Letting go leaves the guard with nobody, or with a video that had it.
LEMMA LetGoFrees ==
  GuardHeld /\ LetGo => guard' = NoOne \/ (OverButtons /\ guard' \in Videos)
  BY DEF GuardHeld, LetGo, Free, OnButton

\* No use of the mouse leaves the guard with an element that is not selected.
LEMMA HeldMouse == CalmHands /\ GuardHeld /\ Mouse => GuardHeld'
<1> SUFFICES ASSUME CalmHands, GuardHeld, Mouse PROVE GuardHeld'
  OBVIOUS
<1> USE DEF GuardHeld, CalmHands
<1>1. CASE Press
  BY <1>1 DEF Press, Claim, drag, history
<1>2. CASE Drag
  BY <1>2 DEF Drag, drag
<1>3. CASE Release
  BY <1>3, LetGoFrees DEF Release, content
<1>4. CASE ChooseShape
  BY <1>4, LetGoFrees DEF ChooseShape, content
<1>5. CASE ChooseTool
  BY <1>5 DEF ChooseTool, content, history
<1>6. CASE PressDraw
  BY <1>6 DEF PressDraw, Claim, history
<1>7. CASE ReleaseDraw
  BY <1>7 DEF ReleaseDraw
<1>8. CASE ReleaseDot
  BY <1>8, LetGoFrees DEF ReleaseDot, content
<1>9. CASE PlaceVideo
  BY <1>9 DEF PlaceVideo
<1>10. CASE Leave
  BY <1>10 DEF Leave, Free, content
<1> QED
  BY <1>1, <1>2, <1>3, <1>4, <1>5, <1>6, <1>7, <1>8, <1>9, <1>10 DEF Mouse

\* Nor does a key, the dialog, or entering and leaving the teaching mode.
LEMMA HeldOther ==
    CalmHands /\ GuardHeld /\ (Keyboard \/ PickVideo \/ EnterTeach \/ ExitTeach)
        => GuardHeld'
<1> SUFFICES ASSUME CalmHands, GuardHeld,
                    Keyboard \/ PickVideo \/ EnterTeach \/ ExitTeach
             PROVE  GuardHeld'
  OBVIOUS
<1> USE DEF GuardHeld, CalmHands, Key
<1>1. CASE Undo
  BY <1>1 DEF Undo
<1>2. CASE Redo
  BY <1>2 DEF Redo
<1>3. CASE Delete
  BY <1>3 DEF Delete
<1>4. CASE Escape
  BY <1>4 DEF Escape, drag
<1>5. CASE ToolKey
  BY <1>5 DEF ToolKey
<1>6. CASE ZoomVideos
  BY <1>6 DEF ZoomVideos, drag
<1>7. CASE PickVideo
  BY <1>7 DEF PickVideo, drag
<1>8. CASE EnterTeach
  BY <1>8 DEF EnterTeach, drag
<1>9. CASE ExitTeach
  BY <1>9, LetGoFrees DEF ExitTeach, content
<1>10. QED
  BY <1>1, <1>2, <1>3, <1>4, <1>5, <1>6, <1>7, <1>8, <1>9 DEF Keyboard

\* So no step does.
LEMMA HeldStep == CalmHands /\ GuardHeld /\ [Next]_vars => GuardHeld'
<1> SUFFICES ASSUME CalmHands, GuardHeld, [Next]_vars PROVE GuardHeld'
  OBVIOUS
<1>1. CASE UNCHANGED vars
  BY <1>1 DEF vars, drag, GuardHeld
<1> QED
  BY <1>1, HeldMouse, HeldOther DEF Next

(* While the mouse is clear of the toolbar and no key is used during a drag, *)
(* the guard is free whenever the button is up (interactive_rect.rs:195),    *)
(* unless a video was let go on one of its own buttons (app.rs:5193-5212).   *)
THEOREM GuardAlwaysFreed == CalmHands => (Spec => []GuardFreed)
<1> SUFFICES ASSUME CalmHands PROVE Spec => []GuardFreed
  OBVIOUS
<1>1. GuardHeld => GuardFreed
  BY DEF GuardHeld, GuardFreed
<1> QED
  BY HeldInit, HeldStep, <1>1, PTL DEF Spec

-----------------------------------------------------------------------------
(* Lines of states *)

\* From each state of p the command beside it in u leads to the next state,
\* and from the last one to x; R says which states a command can lead between.
Leads(p, u, x, R) ==
    /\ Len(p) = Len(u)
    /\ \A i \in 1..Len(u) : <<p[i], IF i = Len(u) THEN x ELSE p[i + 1]>> \in R[u[i]]

\* One more command.
LEMMA LeadsPush ==
  ASSUME NEW X, NEW D, NEW R, NEW p \in Seq(X), NEW u \in Seq(D), NEW x \in X, NEW y,
         NEW c \in D, Leads(p, u, x, R), <<x, y>> \in R[c]
  PROVE  Append(p, x) \in Seq(X) /\ Leads(Append(p, x), Append(u, c), y, R)
<1> DEFINE q == Append(p, x)
           w == Append(u, c)
           n == Len(u)
<1>1. /\ q \in Seq(X) /\ w \in Seq(D) /\ Len(q) = n + 1 /\ Len(w) = n + 1 /\ n \in Nat
      /\ q[n + 1] = x /\ w[n + 1] = c
      /\ \A i \in 1..n : q[i] = p[i] /\ w[i] = u[i]
  BY DEF Leads
<1>2. ASSUME NEW i \in 1..(n + 1)
      PROVE  <<q[i], IF i = n + 1 THEN y ELSE q[i + 1]>> \in R[w[i]]
  <2>1. CASE i = n + 1
    BY <1>1, <2>1
  <2>2. CASE i = n
    <3>1. i \in 1..n /\ i # n + 1
      BY <1>1, <2>2
    <3>2. <<p[i], x>> \in R[u[i]]
      BY <2>2, <3>1 DEF Leads
    <3> HIDE DEF q, w, n
    <3> QED
      BY <1>1, <2>2, <3>1, <3>2
  <2>3. CASE i \in 1..n /\ i # n
    <3>1. i + 1 \in 1..n /\ i # n + 1
      BY <1>1, <2>3
    <3>2. <<p[i], p[i + 1]>> \in R[u[i]]
      BY <2>3 DEF Leads
    <3> HIDE DEF q, w, n
    <3> QED
      BY <1>1, <2>3, <3>1, <3>2
  <2>4. i = n + 1 \/ i = n \/ (i \in 1..n /\ i # n)
    <3> HIDE DEF n
    <3> QED
      BY <1>1
  <2> HIDE DEF q, w, n
  <2> QED
    BY <2>1, <2>2, <2>3, <2>4
<1> HIDE DEF q, w
<1> QED
  BY <1>1, <1>2 DEF Leads, q, w

\* The oldest command is forgotten.
LEMMA LeadsTail ==
  ASSUME NEW X, NEW D, NEW R, NEW p \in Seq(X), NEW u \in Seq(D), NEW x,
         Leads(p, u, x, R), u # <<>>
  PROVE  Tail(p) \in Seq(X) /\ Leads(Tail(p), Tail(u), x, R)
<1> DEFINE q == Tail(p)
           w == Tail(u)
           n == Len(u)
<1>1. /\ q \in Seq(X) /\ w \in Seq(D) /\ Len(q) = n - 1 /\ Len(w) = n - 1 /\ n \in Nat
      /\ n - 1 \in Nat
      /\ \A i \in 1..(n - 1) : q[i] = p[i + 1] /\ w[i] = u[i + 1]
  <2>1. Len(p) = n /\ n \in Nat /\ n # 0 /\ p # <<>>
    BY DEF Leads
  <2> QED
    BY <2>1
<1>2. ASSUME NEW i \in 1..(n - 1)
      PROVE  <<q[i], IF i = n - 1 THEN x ELSE q[i + 1]>> \in R[w[i]]
  <2>1. i + 1 \in 1..n /\ (i + 1 = n <=> i = n - 1)
    BY <1>1
  <2>2. <<p[i + 1], IF i + 1 = n THEN x ELSE p[(i + 1) + 1]>> \in R[u[i + 1]]
    BY <2>1 DEF Leads
  <2>3. i # n - 1 => i + 1 \in 1..(n - 1)
    BY <1>1
  <2> HIDE DEF q, w, n
  <2> QED
    BY <1>1, <2>1, <2>2, <2>3
<1> HIDE DEF q, w, n
<1> QED
  BY <1>1, <1>2 DEF Leads, q, w

\* A line that grew too long forgets its oldest state together with the command.
LEMMA LeadsCapped ==
  ASSUME NEW X, NEW D, NEW R, NEW p \in Seq(X), NEW u \in Seq(D), NEW x,
         Leads(p, u, x, R)
  PROVE  Capped(p) \in Seq(X) /\ Leads(Capped(p), Capped(u), x, R)
<1>1. Len(p) = Len(u) /\ Len(u) \in Nat /\ MaxDepth \in Nat
  BY CanvasAssumption DEF Leads
<1>2. Len(u) > MaxDepth => u # <<>>
  BY <1>1
<1> QED
  BY <1>1, <1>2, LeadsTail DEF Capped

\* The newest command is undone.
LEMMA LeadsPop ==
  ASSUME NEW X, NEW D, NEW R, NEW p \in Seq(X), NEW u \in Seq(D), NEW x,
         Leads(p, u, x, R), u # <<>>
  PROVE  /\ p # <<>> /\ p[Len(p)] \in X /\ <<p[Len(p)], x>> \in R[u[Len(u)]]
         /\ SubSeq(p, 1, Len(p) - 1) \in Seq(X)
         /\ Leads(SubSeq(p, 1, Len(p) - 1), SubSeq(u, 1, Len(u) - 1), p[Len(p)], R)
<1> DEFINE n == Len(u)
           q == SubSeq(p, 1, n - 1)
           w == SubSeq(u, 1, n - 1)
<1>1. Len(p) = n /\ n \in Nat /\ n # 0 /\ p # <<>> /\ n \in 1..n /\ p[n] \in X
  BY DEF Leads
<1>2. /\ q \in Seq(X) /\ w \in Seq(D) /\ Len(q) = n - 1 /\ Len(w) = n - 1
      /\ \A i \in 1..(n - 1) : q[i] = p[i] /\ w[i] = u[i]
  BY <1>1
<1>3. <<p[n], x>> \in R[u[n]]
  BY <1>1 DEF Leads
<1>4. ASSUME NEW i \in 1..(n - 1)
      PROVE  <<q[i], IF i = n - 1 THEN p[n] ELSE q[i + 1]>> \in R[w[i]]
  <2>1. i \in 1..n /\ i # n /\ (i = n - 1 => i + 1 = n)
    BY <1>1
  <2>2. <<p[i], p[i + 1]>> \in R[u[i]]
    BY <2>1 DEF Leads
  <2>3. i # n - 1 => i + 1 \in 1..(n - 1)
    BY <1>1
  <2> HIDE DEF q, w, n
  <2> QED
    BY <1>1, <1>2, <2>1, <2>2, <2>3
<1>5. Leads(q, w, p[n], R)
  <2> HIDE DEF q, w
  <2> QED
    BY <1>1, <1>2, <1>4 DEF Leads
<1> QED
  BY <1>1, <1>2, <1>3, <1>5

-----------------------------------------------------------------------------
(* Types *)

At       == Places \cup {Loose}
Canvases == [Elements -> Inst \cup {Absent}]

\* The elements on a canvas.
On(c) == {e \in Elements : c[e] # Absent}

CanvasSound ==
    /\ canvas \in Canvases /\ nextZ \in Nat
    /\ born \subseteq Elements /\ On(canvas) \subseteq born

\* What is selected is there, and the guard's owner is the element of the
\* snapshot.
HandSound ==
    /\ sel \in Elements \cup {NoOne} /\ guard \in Elements \cup {NoOne}
    /\ snap \in [el : Elements \cup {NoOne}, old : At]
    /\ sel # NoOne => canvas[sel] # Absent
    /\ guard # NoOne => snap.el = guard

HistorySound ==
    /\ undo \in Seq(Commands) /\ redo \in Seq(Commands)
    /\ Len(undo) + Len(redo) <= MaxDepth

RestSound ==
    /\ pending \in {"none", "armed", "drawing", "video"}
    /\ mode \in {"prepare", "teach"} /\ down \in BOOLEAN /\ ops \in Nat

\* The records are the videos on the canvas, each once.
RecordsSound ==
    /\ records \in Seq(Videos) /\ Distinct(records)
    /\ Items(records) = On(canvas) \cap Videos

\* What the assumption on the constants gives.
LEMMA ConstantFacts ==
  /\ Shapes \cap Videos = {} /\ Home \in At /\ Loose \in At /\ NoOne \notin Elements
  /\ Absent \notin Inst /\ MaxDepth \in Nat /\ MaxDepth >= 1
  /\ Videos \subseteq Elements /\ Shapes \subseteq Elements
  BY CanvasAssumption DEF At, Inst, Elements

\* What an instance is, and that it is never the absent one.
LEMMA InstFacts ==
  /\ \A a \in At, z \in Nat : [at |-> a, z |-> z] \in Inst
  /\ \A r \in Inst : r.at \in At /\ r.z \in Nat
  /\ \A r \in Inst, a \in At : [r EXCEPT !.at = a] \in Inst /\ [r EXCEPT !.at = a] # Absent
  /\ \A r \in Inst : r # Absent
<1>1. \A r \in Inst, a \in At : [r EXCEPT !.at = a] \in Inst
  BY DEF Inst, At
<1>2. \A r \in Inst : r # Absent
  BY ConstantFacts
<1> QED
  BY <1>1, <1>2 DEF Inst, At

\* Moving an element that is there.
LEMMA PutSound ==
  ASSUME NEW c \in Canvases, NEW e \in Elements, c[e] # Absent, NEW a \in At
  PROVE  /\ [c EXCEPT ![e].at = a] \in Canvases
         /\ On([c EXCEPT ![e].at = a]) = On(c)
         /\ c[e] \in Inst /\ c[e].at \in At
<1> DEFINE d == [c EXCEPT ![e].at = a]
<1>1. c[e] \in Inst
  BY DEF Canvases
<1>2. \A x \in Elements : d[x] = IF x = e THEN [c[e] EXCEPT !.at = a] ELSE c[x]
  BY DEF Canvases
<1>3. [c[e] EXCEPT !.at = a] \in Inst /\ [c[e] EXCEPT !.at = a] # Absent
  BY <1>1, InstFacts
<1>4. d = [x \in Elements |-> d[x]]
  BY DEF Canvases
<1> HIDE DEF d
<1>5. d \in Canvases
  BY <1>2, <1>3, <1>4 DEF Canvases
<1>6. On(d) = On(c)
  BY <1>2, <1>3 DEF On
<1> QED
  BY <1>1, <1>5, <1>6, InstFacts DEF d

\* set_overlay_user_rect keeps a canvas a canvas, with the same elements.
LEMMA MovedSound ==
  ASSUME NEW c \in Canvases, NEW e \in Elements, NEW a \in At
  PROVE  Moved(c, e, a) \in Canvases /\ On(Moved(c, e, a)) = On(c)
  BY PutSound DEF Moved

\* Showing and hiding an element.
LEMMA HideSound ==
  ASSUME NEW c \in Canvases, NEW e \in Elements
  PROVE  [c EXCEPT ![e] = Absent] \in Canvases /\ On([c EXCEPT ![e] = Absent]) = On(c) \ {e}
  BY DEF Canvases, On

LEMMA ShowSound ==
  ASSUME NEW c \in Canvases, NEW e \in Elements, NEW i \in Inst
  PROVE  [c EXCEPT ![e] = i] \in Canvases /\ On([c EXCEPT ![e] = i]) = On(c) \cup {e}
  BY InstFacts DEF Canvases, On

\* What a command is made of, by its kind.
LEMMA CommandCases ==
  ASSUME NEW c \in Commands
  PROVE  /\ c.op \in {"insert", "remove", "move"} /\ c.el \in Elements
         /\ c.op \in {"insert", "remove"} => c.inst \in Inst
         /\ c.op = "move" => c.old \in At /\ c.new \in At
  BY DEF Commands, At

\* The three constructors make commands.
LEMMA CommandsMade ==
  /\ \A e \in Elements, i \in Inst : Insertion(e, i) \in Commands /\ Removal(e, i) \in Commands
  /\ \A e \in Elements, a \in At, b \in At : Movement(e, a, b) \in Commands
  BY DEF Commands, At, Insertion, Removal, Movement

\* An element that comes back is an instance.
LEMMA RestoredType ==
  ASSUME nextZ \in Nat, NEW c \in Commands, c.op # "move"
  PROVE  Restored(c) \in Inst
<1>1. Rebuilt \in Inst
  BY InstFacts, ConstantFacts DEF Rebuilt
<1> QED
  BY <1>1, CommandCases DEF Restored

\* A capped history has at most MaxDepth commands, and is cut only when it is full.
LEMMA CappedAppend ==
  ASSUME NEW D, NEW s \in Seq(D), NEW x \in D, Len(s) <= MaxDepth
  PROVE  /\ Capped(Append(s, x)) \in Seq(D) /\ Len(Capped(Append(s, x))) <= MaxDepth
         /\ Len(s) < MaxDepth => Capped(Append(s, x)) = Append(s, x)
<1> DEFINE w == Append(s, x)
<1>1. w \in Seq(D) /\ Len(w) = Len(s) + 1 /\ Len(s) \in Nat /\ w # <<>>
  OBVIOUS
<1>2. Tail(w) \in Seq(D) /\ Len(Tail(w)) = Len(w) - 1
  <2> HIDE DEF w
  <2> QED
    BY <1>1
<1> HIDE DEF w
<1> QED
  BY <1>1, <1>2, ConstantFacts DEF Capped, w

\* A push keeps the history bounded.
LEMMA HistoryPush ==
  ASSUME HistorySound, NEW c \in Commands, Push(c) PROVE HistorySound'
<1>1. undo \in Seq(Commands) /\ Len(undo) <= MaxDepth
  BY ConstantFacts DEF HistorySound
<1>2. undo' \in Seq(Commands) /\ Len(undo') <= MaxDepth /\ redo' = <<>>
  BY <1>1, CappedAppend DEF Push
<1>3. Len(redo') = 0 /\ Len(undo') \in Nat
  BY <1>2
<1> QED
  BY <1>2, <1>3, ConstantFacts DEF HistorySound

\* So does the double push of ReleaseDraw.
LEMMA HistoryPushBoth ==
  ASSUME HistorySound, NEW c \in Commands, NEW d \in Commands, PushBoth(c, d) PROVE HistorySound'
<1> DEFINE w == Capped(Append(undo, c))
<1>1. undo \in Seq(Commands) /\ Len(undo) <= MaxDepth
  BY ConstantFacts DEF HistorySound
<1>2. w \in Seq(Commands) /\ Len(w) <= MaxDepth
  BY <1>1, CappedAppend
<1>3. undo' = Capped(Append(w, d)) /\ redo' = <<>>
  BY DEF PushBoth
<1> HIDE DEF w
<1>4. undo' \in Seq(Commands) /\ Len(undo') <= MaxDepth
  BY <1>2, <1>3, CappedAppend
<1>5. Len(redo') = 0 /\ Len(undo') \in Nat
  BY <1>3, <1>4
<1> QED
  BY <1>3, <1>4, <1>5, ConstantFacts DEF HistorySound

\* What is left when the last command is taken.
LEMMA FrontFacts ==
  ASSUME NEW D, NEW s \in Seq(D), s # <<>>
  PROVE  /\ Len(s) \in Nat /\ Len(s) >= 1 /\ s[Len(s)] \in D
         /\ SubSeq(s, 1, Len(s) - 1) \in Seq(D) /\ Len(SubSeq(s, 1, Len(s) - 1)) = Len(s) - 1
<1>1. Len(s) \in Nat /\ Len(s) # 0
  OBVIOUS
<1>2. Len(s) >= 1 /\ Len(s) \in 1..Len(s) /\ Len(s) - 1 \in Nat /\ Len(s) - 1 <= Len(s)
  BY <1>1
<1>3. s[Len(s)] \in D
  BY <1>2
<1>4. ASSUME NEW k \in Nat, k + 1 = Len(s)
      PROVE  SubSeq(s, 1, k) \in Seq(D) /\ Len(SubSeq(s, 1, k)) = k
  <2>1. \A i \in 1..k : s[i] \in D
    BY <1>4
  <2>2. 1 \in Int /\ k \in Int
    OBVIOUS
  <2>3. SubSeq(s, 1, k) \in Seq(D) /\ Len(SubSeq(s, 1, k)) = IF 1 <= k THEN k - 1 + 1 ELSE 0
    BY <2>1, <2>2, SubSeqProperties
  <2> QED
    BY <2>3
<1> DEFINE k == Len(s) - 1
<1>5. k \in Nat /\ k + 1 = Len(s)
  BY <1>1, <1>2
<1>6. SubSeq(s, 1, k) \in Seq(D) /\ Len(SubSeq(s, 1, k)) = k
  <2> HIDE DEF k
  <2> QED
    BY <1>4, <1>5
<1> QED
  BY <1>1, <1>2, <1>3, <1>6

\* Undo and redo move a command from one stack to the other: their lengths
\* together never grow, so neither is ever cut by them.
LEMMA HistoryMoves ==
  ASSUME HistorySound, Undo \/ Redo PROVE HistorySound'
<1>1. CASE Undo
  <2> DEFINE n == Len(undo)
  <2>1. undo \in Seq(Commands) /\ redo \in Seq(Commands) /\ Len(redo) \in Nat /\ undo # <<>>
        /\ n + Len(redo) <= MaxDepth
    BY <1>1 DEF Undo, HistorySound
  <2>2. /\ n \in Nat /\ n >= 1 /\ undo[n] \in Commands
        /\ SubSeq(undo, 1, n - 1) \in Seq(Commands) /\ Len(SubSeq(undo, 1, n - 1)) = n - 1
    BY <2>1, FrontFacts
  <2>3. undo' = SubSeq(undo, 1, n - 1) /\ redo' = Capped(Append(redo, undo[n]))
    BY <1>1 DEF Undo
  <2> HIDE DEF n
  <2>4. Len(redo) < MaxDepth /\ Len(redo) <= MaxDepth
    BY <2>1, <2>2, ConstantFacts
  <2>5. redo' = Append(redo, undo[n])
    BY <2>1, <2>2, <2>3, <2>4, CappedAppend
  <2>6. redo' \in Seq(Commands) /\ Len(redo') = Len(redo) + 1
    BY <2>1, <2>2, <2>5
  <2> QED
    BY <2>1, <2>2, <2>3, <2>6, ConstantFacts DEF HistorySound
<1>2. CASE Redo
  <2> DEFINE n == Len(redo)
  <2>1. redo \in Seq(Commands) /\ undo \in Seq(Commands) /\ Len(undo) \in Nat /\ redo # <<>>
        /\ n + Len(undo) <= MaxDepth
    BY <1>2 DEF Redo, HistorySound
  <2>2. /\ n \in Nat /\ n >= 1 /\ redo[n] \in Commands
        /\ SubSeq(redo, 1, n - 1) \in Seq(Commands) /\ Len(SubSeq(redo, 1, n - 1)) = n - 1
    BY <2>1, FrontFacts
  <2>3. redo' = SubSeq(redo, 1, n - 1) /\ undo' = Capped(Append(undo, redo[n]))
    BY <1>2 DEF Redo
  <2> HIDE DEF n
  <2>4. Len(undo) < MaxDepth /\ Len(undo) <= MaxDepth
    BY <2>1, <2>2, ConstantFacts
  <2>5. undo' = Append(undo, redo[n])
    BY <2>1, <2>2, <2>3, <2>4, CappedAppend
  <2>6. undo' \in Seq(Commands) /\ Len(undo') = Len(undo) + 1
    BY <2>1, <2>2, <2>5
  <2> QED
    BY <2>1, <2>2, <2>3, <2>6, ConstantFacts DEF HistorySound
<1> QED
  BY <1>1, <1>2

-----------------------------------------------------------------------------
(* Which elements there have been *)

\* The command c shows or hides an element, or does neither, between the
\* elements A and the elements B.
Joins(A, B, c) ==
    CASE c.op = "insert" -> c.el \notin A /\ B = A \cup {c.el}
      [] c.op = "remove" -> c.el \in A /\ B = A \ {c.el}
      [] c.op = "move"   -> B = A

Pairs == (SUBSET Elements) \X (SUBSET Elements)
Forwards == [c \in Commands |-> {t \in Pairs : Joins(t[1], t[2], c)}]
Backwards  == [c \in Commands |-> {t \in Pairs : Joins(t[2], t[1], c)}]

\* Undoing goes through canvases that had only elements drawn by now, each
\* command between two of them, to the canvas of the present; so does redoing.
LineSound ==
    /\ \E p \in Seq(SUBSET born) : Leads(p, undo, On(canvas), Forwards)
    /\ \E f \in Seq(SUBSET born) : Leads(f, redo, On(canvas), Backwards)

\* Membership in the two relations is Joins, read forwards and backwards.
LEMMA JoinsFacts ==
  ASSUME NEW c \in Commands, NEW A \in SUBSET Elements, NEW B \in SUBSET Elements
  PROVE  (<<A, B>> \in Forwards[c] <=> Joins(A, B, c)) /\ (<<B, A>> \in Backwards[c] <=> Joins(A, B, c))
<1>1. <<A, B>> \in Pairs /\ <<B, A>> \in Pairs
  BY DEF Pairs
<1>2. <<A, B>>[1] = A /\ <<A, B>>[2] = B /\ <<B, A>>[1] = B /\ <<B, A>>[2] = A
  OBVIOUS
<1> QED
  BY <1>1, <1>2 DEF Forwards, Backwards

\* A line through fewer elements is a line through more.
LEMMA MoreBorn ==
  ASSUME NEW A, NEW B, A \subseteq B, NEW p \in Seq(SUBSET A)
  PROVE  p \in Seq(SUBSET B)
<1>1. \A i \in 1..Len(p) : p[i] \in SUBSET B
  OBVIOUS
<1> QED
  BY <1>1

\* The empty history leads from nowhere.
LEMMA LeadsNowhere == ASSUME NEW x, NEW R PROVE Leads(<<>>, <<>>, x, R)
  BY DEF Leads

\* What is on a canvas is an element.
LEMMA OnElements == \A c : On(c) \subseteq Elements
  BY DEF On

\* A step that leaves the history and the elements alone keeps the line.
LEMMA LineStill ==
  ASSUME LineSound, UNCHANGED history, On(canvas)' = On(canvas), born \subseteq born'
  PROVE  LineSound'
<1>1. PICK p \in Seq(SUBSET born) : Leads(p, undo, On(canvas), Forwards)
  BY DEF LineSound
<1>2. PICK f \in Seq(SUBSET born) : Leads(f, redo, On(canvas), Backwards)
  BY DEF LineSound
<1>3. p \in Seq(SUBSET born') /\ f \in Seq(SUBSET born')
  BY MoreBorn
<1>4. Leads(p, undo', On(canvas)', Forwards) /\ Leads(f, redo', On(canvas)', Backwards)
  BY <1>1, <1>2 DEF history
<1> QED
  BY <1>3, <1>4 DEF LineSound

\* A command that joins the elements before and after its push extends it.
LEMMA LinePush ==
  ASSUME LineSound, CanvasSound, HistorySound, NEW c \in Commands, Push(c),
         born \subseteq born', Joins(On(canvas), On(canvas)', c)
  PROVE  LineSound'
<1>1. PICK p \in Seq(SUBSET born) : Leads(p, undo, On(canvas), Forwards)
  BY DEF LineSound
<1>2. undo \in Seq(Commands) /\ On(canvas) \in SUBSET born
  BY DEF HistorySound, CanvasSound
<1>3. <<On(canvas), On(canvas)'>> \in Forwards[c]
  BY OnElements, JoinsFacts
<1> DEFINE q == Append(p, On(canvas))
           w == Append(undo, c)
<1>4. q \in Seq(SUBSET born) /\ w \in Seq(Commands) /\ Leads(q, w, On(canvas)', Forwards)
  BY <1>1, <1>2, <1>3, LeadsPush
<1>5. undo' = Capped(w) /\ redo' = <<>>
  BY DEF Push
<1> HIDE DEF q, w
<1>6. Capped(q) \in Seq(SUBSET born) /\ Leads(Capped(q), undo', On(canvas)', Forwards)
  BY <1>4, <1>5, LeadsCapped
<1>7. Capped(q) \in Seq(SUBSET born')
  BY <1>6, MoreBorn
<1>8. <<>> \in Seq(SUBSET born') /\ Leads(<<>>, redo', On(canvas)', Backwards)
  BY <1>5, LeadsNowhere
<1> QED
  BY <1>6, <1>7, <1>8 DEF LineSound

\* A video moved and a shape drawn in one frame.
LEMMA LinePushBoth ==
  ASSUME LineSound, CanvasSound, HistorySound, NEW c \in Commands, NEW d \in Commands,
         PushBoth(c, d), born \subseteq born',
         Joins(On(canvas), On(canvas), c), Joins(On(canvas), On(canvas)', d)
  PROVE  LineSound'
<1>1. PICK p \in Seq(SUBSET born) : Leads(p, undo, On(canvas), Forwards)
  BY DEF LineSound
<1>2. undo \in Seq(Commands) /\ On(canvas) \in SUBSET born
  BY DEF HistorySound, CanvasSound
<1>3. <<On(canvas), On(canvas)>> \in Forwards[c] /\ <<On(canvas), On(canvas)'>> \in Forwards[d]
  BY OnElements, JoinsFacts
<1> DEFINE p1 == Append(p, On(canvas))
           u1 == Append(undo, c)
           p2 == Capped(p1)
           u2 == Capped(u1)
           p3 == Append(p2, On(canvas))
           u3 == Append(u2, d)
<1>4. p1 \in Seq(SUBSET born) /\ u1 \in Seq(Commands) /\ Leads(p1, u1, On(canvas), Forwards)
  BY <1>1, <1>2, <1>3, LeadsPush
<1>5. undo' = Capped(u3) /\ redo' = <<>>
  BY DEF PushBoth
<1>6. u2 \in Seq(Commands)
  BY <1>2, CappedAppend, ConstantFacts DEF HistorySound
<1> HIDE DEF p1, u1
<1>7. p2 \in Seq(SUBSET born) /\ Leads(p2, u2, On(canvas), Forwards)
  BY <1>4, LeadsCapped
<1> HIDE DEF p2, u2
<1>8. p3 \in Seq(SUBSET born) /\ u3 \in Seq(Commands) /\ Leads(p3, u3, On(canvas)', Forwards)
  BY <1>2, <1>3, <1>6, <1>7, LeadsPush
<1> HIDE DEF p3, u3
<1>9. Capped(p3) \in Seq(SUBSET born) /\ Leads(Capped(p3), undo', On(canvas)', Forwards)
  BY <1>5, <1>8, LeadsCapped
<1>10. Capped(p3) \in Seq(SUBSET born')
  BY <1>9, MoreBorn
<1>11. <<>> \in Seq(SUBSET born') /\ Leads(<<>>, redo', On(canvas)', Backwards)
  BY <1>5, LeadsNowhere
<1> QED
  BY <1>9, <1>10, <1>11 DEF LineSound

\* What the newest command undoes and redoes.
LEMMA RevertedSound ==
  ASSUME nextZ \in Nat, NEW c \in Canvases, NEW cmd \in Commands, NEW S \in SUBSET Elements,
         Joins(S, On(c), cmd)
  PROVE  Reverted(c, cmd) \in Canvases /\ On(Reverted(c, cmd)) = S
<1>1. cmd.op \in {"insert", "remove", "move"} /\ cmd.el \in Elements
  BY CommandCases
<1>2. CASE cmd.op = "insert"
  <2>1. Reverted(c, cmd) = [c EXCEPT ![cmd.el] = Absent]
    BY <1>2 DEF Reverted
  <2>2. S = On(c) \ {cmd.el}
    BY <1>2 DEF Joins
  <2> QED
    BY <1>1, <2>1, <2>2, HideSound
<1>3. CASE cmd.op = "remove"
  <2>1. Restored(cmd) \in Inst
    BY <1>3, RestoredType
  <2>2. Reverted(c, cmd) = [c EXCEPT ![cmd.el] = Restored(cmd)]
    BY <1>3 DEF Reverted
  <2>3. S = On(c) \cup {cmd.el}
    BY <1>3 DEF Joins
  <2>4. /\ [c EXCEPT ![cmd.el] = Restored(cmd)] \in Canvases
        /\ On([c EXCEPT ![cmd.el] = Restored(cmd)]) = On(c) \cup {cmd.el}
    BY <1>1, <2>1, ShowSound
  <2> QED
    BY <2>2, <2>3, <2>4
<1>4. CASE cmd.op = "move"
  BY <1>1, <1>4, CommandCases, MovedSound DEF Joins, Reverted
<1> QED
  BY <1>1, <1>2, <1>3, <1>4

\* Reapplying a command from the elements it starts from gives those it ends with.
LEMMA ReappliedSound ==
  ASSUME nextZ \in Nat, NEW c \in Canvases, NEW cmd \in Commands, NEW S \in SUBSET Elements,
         Joins(On(c), S, cmd)
  PROVE  Reapplied(c, cmd) \in Canvases /\ On(Reapplied(c, cmd)) = S
<1>1. cmd.op \in {"insert", "remove", "move"} /\ cmd.el \in Elements
  BY CommandCases
<1>2. CASE cmd.op = "insert"
  <2>1. Restored(cmd) \in Inst
    BY <1>2, RestoredType
  <2> QED
    BY <1>1, <1>2, <2>1, ShowSound, HideSound DEF Joins, Reapplied
<1>3. CASE cmd.op = "remove"
  BY <1>1, <1>3, ShowSound, HideSound DEF Joins, Reapplied
<1>4. CASE cmd.op = "move"
  BY <1>1, <1>4, CommandCases, MovedSound DEF Joins, Reapplied
<1> QED
  BY <1>1, <1>2, <1>3, <1>4

\* The list of videos follows.
LEMMA RecordsStep ==
  ASSUME RecordsSound, NEW cmd \in Commands, NEW shows \in BOOLEAN, NEW S,
         cmd.op = "move" => S = On(canvas),
         cmd.op # "move" /\ shows => cmd.el \notin On(canvas) /\ S = On(canvas) \cup {cmd.el},
         cmd.op # "move" /\ ~shows => S = On(canvas) \ {cmd.el}
  PROVE  /\ RecordsAfter(cmd, shows) \in Seq(Videos) /\ Distinct(RecordsAfter(cmd, shows))
         /\ Items(RecordsAfter(cmd, shows)) = S \cap Videos
<1>1. records \in Seq(Videos) /\ Distinct(records) /\ Items(records) = On(canvas) \cap Videos
  BY DEF RecordsSound
<1>2. CASE cmd.op = "move" \/ cmd.el \notin Videos
  BY <1>1, <1>2 DEF RecordsAfter
<1>3. CASE cmd.op # "move" /\ cmd.el \in Videos /\ shows
  <2>1. cmd.el \notin Items(records)
    BY <1>1, <1>3
  <2>2. RecordsAfter(cmd, shows) = Append(records, cmd.el)
    BY <1>3 DEF RecordsAfter
  <2>3. /\ Append(records, cmd.el) \in Seq(Videos) /\ Distinct(Append(records, cmd.el))
        /\ Items(Append(records, cmd.el)) = Items(records) \cup {cmd.el}
    BY <1>1, <1>3, <2>1, AppendItems, AppendDistinct
  <2> QED
    BY <1>1, <1>3, <2>2, <2>3
<1>4. CASE cmd.op # "move" /\ cmd.el \in Videos /\ ~shows
  <2>1. RecordsAfter(cmd, shows) = Sift(records, Videos \ {cmd.el})
    BY <1>4 DEF RecordsAfter
  <2>2. /\ Sift(records, Videos \ {cmd.el}) \in Seq(Videos)
        /\ Distinct(Sift(records, Videos \ {cmd.el}))
        /\ Items(Sift(records, Videos \ {cmd.el})) = Items(records) \cap (Videos \ {cmd.el})
    BY <1>1, SiftItems, SiftDistinct
  <2> QED
    BY <1>1, <1>4, <2>1, <2>2
<1> QED
  BY <1>2, <1>3, <1>4

-----------------------------------------------------------------------------
(* The canvas is sound *)

CoreSound == CanvasSound /\ HandSound /\ HistorySound /\ RestSound /\ RecordsSound /\ LineSound

\* The empty canvas is sound.
LEMMA CoreInit == Init => CoreSound
<1> SUFFICES ASSUME Init PROVE CoreSound
  OBVIOUS
<1>1. canvas \in Canvases /\ On(canvas) = {} /\ nextZ = 0 /\ born = {}
  BY DEF Init, Canvases, On
<1>2. CanvasSound
  BY <1>1 DEF CanvasSound
<1>3. HandSound
  BY ConstantFacts DEF Init, HandSound, NoSnap
<1>4. HistorySound
  BY ConstantFacts DEF Init, HistorySound
<1>5. RestSound
  BY DEF Init, RestSound
<1>6. RecordsSound
  BY <1>1 DEF Init, RecordsSound, Items, Distinct
<1>7. LineSound
  <2>1. <<>> \in Seq(SUBSET born) /\ undo = <<>> /\ redo = <<>>
    BY DEF Init
  <2> QED
    BY <2>1, LeadsNowhere DEF LineSound
<1> QED
  BY <1>2, <1>3, <1>4, <1>5, <1>6, <1>7 DEF CoreSound

\* The elements, their records and the history stay.
LEMMA StillSound ==
  ASSUME CoreSound, canvas' \in Canvases, On(canvas') = On(canvas), nextZ' \in Nat,
         UNCHANGED <<records, born, history>>, HandSound', RestSound'
  PROVE  CoreSound'
<1>1. CanvasSound'
  BY DEF CoreSound, CanvasSound
<1>2. HistorySound'
  BY DEF CoreSound, HistorySound, history
<1>3. RecordsSound'
  BY DEF CoreSound, RecordsSound
<1>4. LineSound'
  <2>1. LineSound /\ UNCHANGED history /\ On(canvas)' = On(canvas) /\ born \subseteq born'
    BY DEF CoreSound
  <2> QED
    BY <2>1, LineStill
<1> QED
  BY <1>1, <1>2, <1>3, <1>4 DEF CoreSound

\* Undoing keeps the canvas sound.
LEMMA UndoSound == ASSUME CoreSound, Undo PROVE CoreSound'
<1> DEFINE n   == Len(undo)
           cmd == undo[n]
           shows == cmd.op = "remove"
<1>1. /\ undo' = SubSeq(undo, 1, n - 1) /\ redo' = Capped(Append(redo, cmd))
      /\ canvas' = Reverted(canvas, cmd) /\ records' = RecordsAfter(cmd, shows)
      /\ nextZ' = ZAfter(cmd, shows) /\ sel' = NoOne /\ undo # <<>>
      /\ UNCHANGED <<born, guard, snap, pending, mode, down>> /\ ops' = ops + 1
  BY DEF Undo, Op
<1>2. /\ nextZ \in Nat /\ canvas \in Canvases /\ undo \in Seq(Commands) /\ redo \in Seq(Commands)
      /\ On(canvas) \subseteq born /\ born \subseteq Elements
  BY DEF CoreSound, CanvasSound, HistorySound
<1>3. cmd \in Commands
  BY <1>1, <1>2, FrontFacts
<1>4. PICK p \in Seq(SUBSET born) : Leads(p, undo, On(canvas), Forwards)
  BY DEF CoreSound, LineSound
<1>5. PICK f \in Seq(SUBSET born) : Leads(f, redo, On(canvas), Backwards)
  BY DEF CoreSound, LineSound
<1> DEFINE S == p[Len(p)]
           q == SubSeq(p, 1, Len(p) - 1)
<1>6. /\ S \in SUBSET born /\ <<S, On(canvas)>> \in Forwards[cmd]
      /\ q \in Seq(SUBSET born) /\ Leads(q, undo', S, Forwards)
  BY <1>1, <1>2, <1>4, LeadsPop
<1> HIDE DEF S, q, cmd, n
<1>7. S \in SUBSET Elements /\ Joins(S, On(canvas), cmd) /\ <<On(canvas), S>> \in Backwards[cmd]
  BY <1>2, <1>3, <1>6, OnElements, JoinsFacts
<1>8. canvas' \in Canvases /\ On(canvas') = S
  BY <1>1, <1>2, <1>3, <1>7, RevertedSound
<1>9. CanvasSound'
  <2>1. nextZ' \in Nat
    BY <1>1, <1>2 DEF ZAfter
  <2> QED
    BY <1>1, <1>2, <1>6, <1>8, <2>1 DEF CanvasSound
<1>10. HandSound'
  BY <1>1 DEF CoreSound, HandSound
<1>11. HistorySound'
  BY HistoryMoves DEF CoreSound
<1>12. RestSound'
  BY <1>1 DEF CoreSound, RestSound
<1>13. RecordsSound'
  <2>1. /\ cmd.op = "move" => S = On(canvas)
        /\ cmd.op # "move" /\ shows => cmd.el \notin On(canvas) /\ S = On(canvas) \cup {cmd.el}
        /\ cmd.op # "move" /\ ~shows => S = On(canvas) \ {cmd.el}
    BY <1>3, <1>7, CommandCases DEF Joins
  <2>2. shows \in BOOLEAN /\ RecordsSound
    BY DEF CoreSound
  <2> HIDE DEF shows
  <2>3. /\ records' \in Seq(Videos) /\ Distinct(records') /\ Items(records') = S \cap Videos
    BY <1>1, <1>3, <2>1, <2>2, RecordsStep
  <2> QED
    BY <1>8, <2>3 DEF RecordsSound
<1>14. LineSound'
  <2> DEFINE g == Append(f, On(canvas))
             w == Append(redo, cmd)
  <2>1. g \in Seq(SUBSET born) /\ w \in Seq(Commands) /\ Leads(g, w, S, Backwards)
    BY <1>2, <1>3, <1>5, <1>7, LeadsPush
  <2>2. redo' = Capped(w)
    BY <1>1
  <2> HIDE DEF g, w
  <2>3. Capped(g) \in Seq(SUBSET born) /\ Leads(Capped(g), redo', S, Backwards)
    BY <2>1, <2>2, LeadsCapped
  <2>4. born' = born /\ On(canvas)' = S
    BY <1>1, <1>8
  <2> QED
    BY <1>6, <2>3, <2>4 DEF LineSound
<1> QED
  BY <1>9, <1>10, <1>11, <1>12, <1>13, <1>14 DEF CoreSound

\* So does redoing.
LEMMA RedoSound == ASSUME CoreSound, Redo PROVE CoreSound'
<1> DEFINE n   == Len(redo)
           cmd == redo[n]
           shows == cmd.op = "insert"
<1>1. /\ redo' = SubSeq(redo, 1, n - 1) /\ undo' = Capped(Append(undo, cmd))
      /\ canvas' = Reapplied(canvas, cmd) /\ records' = RecordsAfter(cmd, shows)
      /\ nextZ' = ZAfter(cmd, shows) /\ sel' = NoOne /\ redo # <<>>
      /\ UNCHANGED <<born, guard, snap, pending, mode, down>> /\ ops' = ops + 1
  BY DEF Redo, Op
<1>2. /\ nextZ \in Nat /\ canvas \in Canvases /\ undo \in Seq(Commands) /\ redo \in Seq(Commands)
      /\ On(canvas) \subseteq born /\ born \subseteq Elements
  BY DEF CoreSound, CanvasSound, HistorySound
<1>3. cmd \in Commands
  BY <1>1, <1>2, FrontFacts
<1>4. PICK p \in Seq(SUBSET born) : Leads(p, undo, On(canvas), Forwards)
  BY DEF CoreSound, LineSound
<1>5. PICK f \in Seq(SUBSET born) : Leads(f, redo, On(canvas), Backwards)
  BY DEF CoreSound, LineSound
<1> DEFINE S == f[Len(f)]
           q == SubSeq(f, 1, Len(f) - 1)
<1>6. /\ S \in SUBSET born /\ <<S, On(canvas)>> \in Backwards[cmd]
      /\ q \in Seq(SUBSET born) /\ Leads(q, redo', S, Backwards)
  BY <1>1, <1>2, <1>5, LeadsPop
<1> HIDE DEF S, q, cmd, n
<1>7. S \in SUBSET Elements /\ Joins(On(canvas), S, cmd) /\ <<On(canvas), S>> \in Forwards[cmd]
  BY <1>2, <1>3, <1>6, OnElements, JoinsFacts
<1>8. canvas' \in Canvases /\ On(canvas') = S
  BY <1>1, <1>2, <1>3, <1>7, ReappliedSound
<1>9. CanvasSound'
  <2>1. nextZ' \in Nat
    BY <1>1, <1>2 DEF ZAfter
  <2> QED
    BY <1>1, <1>2, <1>6, <1>8, <2>1 DEF CanvasSound
<1>10. HandSound'
  BY <1>1 DEF CoreSound, HandSound
<1>11. HistorySound'
  BY HistoryMoves DEF CoreSound
<1>12. RestSound'
  BY <1>1 DEF CoreSound, RestSound
<1>13. RecordsSound'
  <2>1. /\ cmd.op = "move" => S = On(canvas)
        /\ cmd.op # "move" /\ shows => cmd.el \notin On(canvas) /\ S = On(canvas) \cup {cmd.el}
        /\ cmd.op # "move" /\ ~shows => S = On(canvas) \ {cmd.el}
    BY <1>3, <1>7, CommandCases DEF Joins
  <2>2. shows \in BOOLEAN /\ RecordsSound
    BY DEF CoreSound
  <2> HIDE DEF shows
  <2>3. /\ records' \in Seq(Videos) /\ Distinct(records') /\ Items(records') = S \cap Videos
    BY <1>1, <1>3, <2>1, <2>2, RecordsStep
  <2> QED
    BY <1>8, <2>3 DEF RecordsSound
<1>14. LineSound'
  <2> DEFINE g == Append(p, On(canvas))
             w == Append(undo, cmd)
  <2>1. g \in Seq(SUBSET born) /\ w \in Seq(Commands) /\ Leads(g, w, S, Forwards)
    BY <1>2, <1>3, <1>4, <1>7, LeadsPush
  <2>2. undo' = Capped(w)
    BY <1>1
  <2> HIDE DEF g, w
  <2>3. Capped(g) \in Seq(SUBSET born) /\ Leads(Capped(g), undo', S, Forwards)
    BY <2>1, <2>2, LeadsCapped
  <2>4. born' = born /\ On(canvas)' = S
    BY <1>1, <1>8
  <2> QED
    BY <1>6, <2>3, <2>4 DEF LineSound
<1> QED
  BY <1>9, <1>10, <1>11, <1>12, <1>13, <1>14 DEF CoreSound

\* An element that is there claims the guard.
LEMMA ClaimSound ==
  ASSUME CanvasSound, NEW e \in Elements, canvas[e] # Absent, Claim(e)
  PROVE  /\ canvas' \in Canvases /\ On(canvas') = On(canvas)
         /\ guard' = e /\ snap' \in [el : Elements \cup {NoOne}, old : At] /\ snap'.el = e
<1> DEFINE a == IF canvas[e].at = Loose THEN Home ELSE canvas[e].at
<1>1. canvas \in Canvases /\ canvas[e].at \in At
  BY PutSound, ConstantFacts DEF CanvasSound
<1>2. a \in At
  BY <1>1, ConstantFacts
<1>3. canvas' = [canvas EXCEPT ![e].at = a]
  BY DEF Claim
<1>4. guard' = e /\ snap' = [el |-> e, old |-> canvas[e].at]
  BY DEF Claim
<1> HIDE DEF a
<1> QED
  BY <1>1, <1>2, <1>3, <1>4, PutSound

\* So do a press, a drag and the press that starts a drawing.
LEMMA PressSound == ASSUME CoreSound, Press \/ Drag \/ PressDraw PROVE CoreSound'
<1>0. CanvasSound /\ canvas \in Canvases /\ nextZ \in Nat /\ HandSound /\ RestSound
  BY DEF CoreSound, CanvasSound
<1>1. CASE Press
  <2>1. RestSound' /\ UNCHANGED <<records, nextZ, born, history>>
    BY <1>0, <1>1 DEF Press, Op, RestSound
  <2>2. CASE UNCHANGED <<canvas, drag>>
    <3>1. HandSound'
      BY <1>0, <2>2 DEF drag, HandSound
    <3> QED
      BY <1>0, <2>1, <2>2, <3>1, StillSound
  <2>3. CASE /\ sel' = NoOne \/ (sel' \in Elements /\ canvas[sel'] # Absent)
             /\ UNCHANGED <<canvas, guard, snap>>
    <3>1. HandSound'
      BY <1>0, <2>3 DEF HandSound
    <3> QED
      BY <1>0, <2>1, <2>3, <3>1, StillSound
  <2>4. ASSUME NEW e \in Elements, OnCanvas(e), sel' = e, Claim(e) PROVE CoreSound'
    <3>1. canvas[e] # Absent
      BY <2>4 DEF OnCanvas
    <3>2. /\ canvas' \in Canvases /\ On(canvas') = On(canvas)
          /\ guard' = e /\ snap' \in [el : Elements \cup {NoOne}, old : At] /\ snap'.el = e
      BY <1>0, <2>4, <3>1, ClaimSound
    <3>3. canvas'[e] # Absent
      BY <3>1, <3>2 DEF On
    <3>4. HandSound'
      BY <2>4, <3>2, <3>3 DEF HandSound
    <3> QED
      BY <1>0, <2>1, <3>2, <3>4, StillSound
  <2> QED
    BY <1>1, <2>2, <2>3, <2>4 DEF Press, OnCanvas
<1>2. CASE Drag
  <2>1. PICK a \in Places : canvas' = [canvas EXCEPT ![sel].at = a]
    BY <1>2 DEF Drag
  <2>2. sel \in Elements /\ canvas[sel] # Absent /\ a \in At
    BY <1>0, <1>2 DEF Drag, HandSound, At
  <2>3. canvas' \in Canvases /\ On(canvas') = On(canvas)
    BY <1>0, <2>1, <2>2, PutSound
  <2>4. canvas'[sel] # Absent
    BY <2>2, <2>3 DEF On
  <2>5. HandSound' /\ RestSound' /\ UNCHANGED <<records, nextZ, born, history>>
    BY <1>0, <1>2, <2>4 DEF Drag, drag, HandSound, RestSound
  <2> QED
    BY <1>0, <2>3, <2>5, StillSound
<1>3. CASE PressDraw
  <2>1. RestSound' /\ UNCHANGED <<records, nextZ, born, sel, history>>
    BY <1>0, <1>3 DEF PressDraw, Op, RestSound
  <2>2. CASE UNCHANGED <<canvas, guard, snap>>
    <3>1. HandSound'
      BY <1>0, <2>1, <2>2 DEF HandSound
    <3> QED
      BY <1>0, <2>1, <2>2, <3>1, StillSound
  <2>3. CASE sel # NoOne /\ Claim(sel)
    <3>1. sel \in Elements /\ canvas[sel] # Absent
      BY <1>0, <2>3 DEF HandSound
    <3>2. /\ canvas' \in Canvases /\ On(canvas') = On(canvas)
          /\ guard' = sel /\ snap' \in [el : Elements \cup {NoOne}, old : At] /\ snap'.el = sel
      BY <1>0, <2>3, <3>1, ClaimSound
    <3>3. canvas'[sel] # Absent
      BY <3>1, <3>2 DEF On
    <3>4. HandSound'
      BY <2>1, <3>1, <3>2, <3>3 DEF HandSound
    <3> QED
      BY <1>0, <2>1, <3>2, <3>4, StillSound
  <2> QED
    BY <1>3, <2>2, <2>3 DEF PressDraw
<1> QED
  BY <1>1, <1>2, <1>3

\* The owner of the guard, selected, frees it.
LEMMA FreeSound ==
  ASSUME CoreSound, Free, UNCHANGED <<content, sel>>, RestSound'
  PROVE  CoreSound'
<1>0. /\ CanvasSound /\ HandSound /\ HistorySound /\ LineSound /\ RecordsSound
      /\ canvas \in Canvases /\ nextZ \in Nat
  BY DEF CoreSound, CanvasSound
<1>1. CASE UNCHANGED <<guard, snap, history>>
  <2>1. HandSound'
    BY <1>0, <1>1 DEF HandSound, content
  <2> QED
    BY <1>0, <1>1, <2>1, StillSound DEF content
<1>2. CASE guard # NoOne /\ guard = sel /\ guard' = NoOne /\ snap' = NoSnap
  <2>1. HandSound'
    BY <1>0, <1>2, ConstantFacts DEF HandSound, NoSnap, content
  <2>2. CASE UNCHANGED history
    BY <1>0, <2>1, <2>2, StillSound DEF content
  <2>3. CASE Push(Movement(snap.el, snap.old, canvas[guard].at))
    <3> DEFINE mv == Movement(snap.el, snap.old, canvas[guard].at)
    <3>1. guard \in Elements /\ canvas[guard] # Absent /\ snap.el \in Elements /\ snap.old \in At
      BY <1>0, <1>2 DEF HandSound
    <3>2. canvas[guard].at \in At
      BY <1>0, <3>1, PutSound, ConstantFacts
    <3>3. mv \in Commands
      BY <3>1, <3>2, CommandsMade
    <3>4. mv.op = "move"
      BY DEF Movement
    <3>5. Push(mv)
      BY <2>3
    <3> HIDE DEF mv
    <3>6. canvas' = canvas /\ records' = records /\ nextZ' = nextZ /\ born' = born
      BY DEF content
    <3>7. Joins(On(canvas), On(canvas)', mv)
      BY <3>4, <3>6 DEF Joins
    <3>8. HistorySound' /\ LineSound'
      BY <1>0, <3>3, <3>5, <3>6, <3>7, HistoryPush, LinePush
    <3>9. CanvasSound' /\ RecordsSound'
      BY <1>0, <3>6 DEF CanvasSound, RecordsSound
    <3> QED
      BY <2>1, <3>8, <3>9 DEF CoreSound
  <2> QED
    BY <1>2, <2>2, <2>3 DEF Free
<1> QED
  BY <1>1, <1>2 DEF Free

\* Every change the mouse button ends but a drawn shape.
LEMMA ReleaseSound ==
  ASSUME CoreSound, Release \/ Leave \/ ChooseShape \/ ReleaseDot \/ ExitTeach
  PROVE  CoreSound'
<1>1. RestSound'
  BY DEF CoreSound, RestSound, Release, Leave, ChooseShape, ReleaseDot, ExitTeach
<1>2. UNCHANGED <<content, sel>>
  BY DEF Release, Leave, ChooseShape, ReleaseDot, ExitTeach
<1>3. CASE Free
  BY <1>1, <1>2, <1>3, FreeSound
<1>4. CASE UNCHANGED <<guard, snap, history>>
  <2>1. HandSound' /\ canvas \in Canvases /\ nextZ \in Nat
    BY <1>2, <1>4 DEF CoreSound, HandSound, CanvasSound, content
  <2> QED
    BY <1>1, <1>2, <1>4, <2>1, StillSound DEF content
<1> QED
  BY <1>3, <1>4 DEF Release, Leave, ChooseShape, ReleaseDot, ExitTeach, LetGo

\* What changes no element.
LEMMA AsideSound ==
  ASSUME CoreSound, ChooseTool \/ ToolKey \/ PickVideo \/ Escape PROVE CoreSound'
<1>1. RestSound'
  <2>1. ops \in Nat /\ RestSound
    BY DEF CoreSound, RestSound
  <2>2. ops' = ops \/ ops' = ops + 1
    BY DEF ChooseTool, ToolKey, PickVideo, Escape, Op
  <2>3. ops' \in Nat
    BY <2>1, <2>2
  <2>4. pending' \in {pending, "video", "none"} /\ mode' = mode /\ down' \in {down, FALSE}
    BY DEF ChooseTool, ToolKey, PickVideo, Escape
  <2> QED
    BY <2>1, <2>3, <2>4 DEF RestSound
<1>2. /\ UNCHANGED <<content, guard, snap, history>> /\ sel' \in {sel, NoOne}
  BY DEF ChooseTool, ToolKey, PickVideo, Escape, drag
<1>3. HandSound' /\ canvas \in Canvases /\ nextZ \in Nat
  BY <1>2 DEF CoreSound, HandSound, CanvasSound, content
<1> QED
  BY <1>1, <1>2, <1>3, StillSound DEF content

\* An id that was never drawn.
LEMMA FreshId ==
  ASSUME CoreSound, NEW e \in Elements, e \notin born
  PROVE  /\ e \notin On(canvas)
         /\ \A i \in Inst : /\ Joins(On(canvas), On([canvas EXCEPT ![e] = i]), Insertion(e, i))
                            /\ [canvas EXCEPT ![e] = i] \in Canvases
                            /\ On([canvas EXCEPT ![e] = i]) = On(canvas) \cup {e}
<1>1. canvas \in Canvases /\ e \notin On(canvas)
  BY DEF CoreSound, CanvasSound
<1>2. ASSUME NEW i \in Inst
      PROVE  /\ Joins(On(canvas), On([canvas EXCEPT ![e] = i]), Insertion(e, i))
             /\ [canvas EXCEPT ![e] = i] \in Canvases
             /\ On([canvas EXCEPT ![e] = i]) = On(canvas) \cup {e}
  <2>1. /\ [canvas EXCEPT ![e] = i] \in Canvases
        /\ On([canvas EXCEPT ![e] = i]) = On(canvas) \cup {e}
    BY <1>1, ShowSound
  <2>2. Insertion(e, i).op = "insert" /\ Insertion(e, i).el = e
    BY DEF Insertion
  <2> QED
    BY <1>1, <2>1, <2>2 DEF Joins
<1> QED
  BY <1>1, <1>2

\* So does the end of a drawing.
LEMMA DrawSound == ASSUME CoreSound, ReleaseDraw PROVE CoreSound'
<1> DEFINE e    == CHOOSE x \in Shapes \ born : TRUE
           inst == [at |-> Loose, z |-> nextZ]
           ins  == Insertion(e, inst)
           mv   == Movement(snap.el, snap.old, canvas[guard].at)
<1>0. /\ CanvasSound /\ HandSound /\ HistorySound /\ LineSound /\ RecordsSound
      /\ canvas \in Canvases /\ nextZ \in Nat /\ born \subseteq Elements /\ On(canvas) \subseteq born
  BY DEF CoreSound, CanvasSound
<1>1. e \in Shapes /\ e \notin born
  BY DEF ReleaseDraw
<1>2. e \in Elements /\ e \notin Videos /\ inst \in Inst
  BY <1>0, <1>1, ConstantFacts, InstFacts
<1>3. /\ canvas' = [canvas EXCEPT ![e] = inst] /\ nextZ' = nextZ + 1 /\ born' = born \cup {e}
      /\ sel' = NoOne /\ records' = records
      /\ \/ Push(ins) /\ UNCHANGED <<guard, snap>>
         \/ Push(ins) /\ guard' = NoOne /\ snap' = NoSnap
         \/ /\ PushBoth(mv, ins) /\ guard' = NoOne /\ snap' = NoSnap
            /\ guard \in Videos /\ guard = sel
  BY DEF ReleaseDraw, NewShape
<1>4. ins \in Commands
  BY <1>2, CommandsMade
<1>5. guard \in Videos /\ guard = sel => mv \in Commands /\ mv.op = "move"
  <2> SUFFICES ASSUME guard \in Videos, guard = sel PROVE mv \in Commands /\ mv.op = "move"
    OBVIOUS
  <2>1. guard \in Elements /\ guard # NoOne
    BY ConstantFacts
  <2>2. canvas[guard] # Absent /\ snap.el \in Elements /\ snap.old \in At
    BY <1>0, <2>1 DEF HandSound
  <2>3. canvas[guard].at \in At
    BY <1>0, <2>1, <2>2, PutSound, ConstantFacts
  <2> QED
    BY <2>2, <2>3, CommandsMade DEF Movement
<1>6. RestSound'
  BY DEF CoreSound, RestSound, ReleaseDraw
<1> HIDE DEF e, inst, ins, mv
<1>7. /\ Joins(On(canvas), On(canvas'), ins) /\ canvas' \in Canvases
      /\ On(canvas') = On(canvas) \cup {e}
  BY <1>1, <1>2, <1>3, FreshId DEF ins
<1>8. CanvasSound'
  <2>1. nextZ' \in Nat /\ born' \subseteq Elements
    BY <1>0, <1>2, <1>3
  <2>2. On(canvas') \subseteq born'
    BY <1>0, <1>3, <1>7
  <2> QED
    BY <1>7, <2>1, <2>2 DEF CanvasSound
<1>9. HandSound'
  BY <1>0, <1>3, ConstantFacts DEF HandSound, NoSnap
<1>10. RecordsSound'
  <2>1. On(canvas') \cap Videos = On(canvas) \cap Videos
    BY <1>2, <1>7
  <2> QED
    BY <1>0, <1>3, <2>1 DEF RecordsSound
<1>11. HistorySound' /\ LineSound'
  <2>1. born \subseteq born' /\ Joins(On(canvas), On(canvas)', ins)
    BY <1>3, <1>7
  <2>2. CASE Push(ins)
    BY <1>0, <1>4, <2>1, <2>2, HistoryPush, LinePush
  <2>3. CASE PushBoth(mv, ins) /\ guard \in Videos /\ guard = sel
    <3>1. mv \in Commands /\ Joins(On(canvas), On(canvas), mv)
      BY <1>5, <2>3 DEF Joins
    <3> QED
      BY <1>0, <1>4, <2>1, <2>3, <3>1, HistoryPushBoth, LinePushBoth
  <2> QED
    BY <1>3, <2>2, <2>3
<1> QED
  BY <1>6, <1>8, <1>9, <1>10, <1>11 DEF CoreSound

\* A video that waits for its place is one that was never there.
VideoWaits == pending = "video" => Videos \ born # {}

\* So does placing a video.
LEMMA PlaceSound == ASSUME CoreSound, VideoWaits, PlaceVideo PROVE CoreSound'
<1> DEFINE v   == CHOOSE x \in Videos \ born : TRUE
           ins == Insertion(v, Rebuilt)
<1>0. /\ CanvasSound /\ HandSound /\ HistorySound /\ LineSound /\ RecordsSound
      /\ canvas \in Canvases /\ nextZ \in Nat /\ born \subseteq Elements /\ On(canvas) \subseteq born
  BY DEF CoreSound, CanvasSound
<1>1. v \in Videos /\ v \notin born
  BY DEF PlaceVideo, VideoWaits
<1>2. v \in Elements /\ Rebuilt \in Inst
  BY <1>0, <1>1, ConstantFacts, InstFacts DEF Rebuilt
<1>3. /\ canvas' = [canvas EXCEPT ![v] = Rebuilt] /\ nextZ' = nextZ + 1 /\ born' = born \cup {v}
      /\ sel' = NoOne /\ records' = Append(records, v) /\ Push(ins) /\ UNCHANGED <<guard, snap>>
  BY DEF PlaceVideo
<1>4. ins \in Commands
  BY <1>2, CommandsMade
<1>5. RestSound'
  BY DEF CoreSound, RestSound, PlaceVideo, Op
<1> HIDE DEF v, ins
<1>6. /\ Joins(On(canvas), On(canvas'), ins) /\ canvas' \in Canvases
      /\ On(canvas') = On(canvas) \cup {v} /\ v \notin On(canvas)
  BY <1>1, <1>2, <1>3, FreshId DEF ins
<1>7. CanvasSound'
  <2>1. nextZ' \in Nat /\ born' \subseteq Elements
    BY <1>0, <1>2, <1>3
  <2>2. On(canvas') \subseteq born'
    BY <1>0, <1>3, <1>6
  <2> QED
    BY <1>6, <2>1, <2>2 DEF CanvasSound
<1>8. HandSound'
  BY <1>0, <1>3, ConstantFacts DEF HandSound
<1>9. RecordsSound'
  <2>1. v \notin Items(records) /\ records \in Seq(Videos) /\ Distinct(records)
    BY <1>0, <1>6 DEF RecordsSound
  <2>2. /\ records' \in Seq(Videos) /\ Distinct(records') /\ Items(records') = Items(records) \cup {v}
    BY <1>1, <1>3, <2>1, AppendItems, AppendDistinct
  <2>3. Items(records') = On(canvas') \cap Videos
    BY <1>0, <1>1, <1>6, <2>2 DEF RecordsSound
  <2> QED
    BY <2>2, <2>3 DEF RecordsSound
<1>10. HistorySound' /\ LineSound'
  <2>1. born \subseteq born' /\ Joins(On(canvas), On(canvas)', ins)
    BY <1>3, <1>6
  <2> QED
    BY <1>0, <1>3, <1>4, <2>1, HistoryPush, LinePush
<1> QED
  BY <1>5, <1>7, <1>8, <1>9, <1>10 DEF CoreSound

\* So does a deletion.
LEMMA DeleteSound == ASSUME CoreSound, Delete PROVE CoreSound'
<1> DEFINE rem == Removal(sel, canvas[sel])
<1>0. /\ CanvasSound /\ HandSound /\ HistorySound /\ LineSound /\ RecordsSound
      /\ canvas \in Canvases /\ nextZ \in Nat /\ born \subseteq Elements /\ On(canvas) \subseteq born
  BY DEF CoreSound, CanvasSound
<1>1. sel \in Elements /\ canvas[sel] # Absent /\ sel \in On(canvas)
  BY <1>0 DEF Delete, HandSound, On
<1>2. canvas[sel] \in Inst
  BY <1>0, <1>1, ConstantFacts, PutSound
<1>3. /\ canvas' = [canvas EXCEPT ![sel] = Absent] /\ UNCHANGED <<nextZ, born, snap>>
      /\ sel' = NoOne /\ guard' = NoOne /\ records' = Sift(records, Videos \ {sel}) /\ Push(rem)
  BY DEF Delete
<1>4. rem \in Commands /\ rem.op = "remove" /\ rem.el = sel
  BY <1>1, <1>2, CommandsMade DEF Removal
<1> HIDE DEF rem
<1>5. canvas' \in Canvases /\ On(canvas') = On(canvas) \ {sel}
  BY <1>0, <1>1, <1>3, HideSound
<1>6. CanvasSound'
  BY <1>0, <1>3, <1>5 DEF CanvasSound
<1>7. HandSound'
  BY <1>0, <1>3 DEF HandSound
<1>8. RestSound'
  BY DEF CoreSound, RestSound, Delete, Op
<1>9. RecordsSound'
  <2>1. /\ records' \in Seq(Videos) /\ Distinct(records')
        /\ Items(records') = Items(records) \cap (Videos \ {sel})
    BY <1>0, <1>3, SiftItems, SiftDistinct DEF RecordsSound
  <2>2. Items(records') = On(canvas') \cap Videos
    BY <1>0, <1>5, <2>1 DEF RecordsSound
  <2> QED
    BY <2>1, <2>2 DEF RecordsSound
<1>10. HistorySound' /\ LineSound'
  <2>1. born \subseteq born' /\ Joins(On(canvas), On(canvas)', rem)
    BY <1>1, <1>3, <1>4, <1>5 DEF Joins
  <2> QED
    BY <1>0, <1>3, <1>4, <2>1, HistoryPush, LinePush
<1> QED
  BY <1>6, <1>7, <1>8, <1>9, <1>10 DEF CoreSound

\* What changes videos where they are, selected or not.
LEMMA ReshapeSound ==
  ASSUME CoreSound, canvas' \in Canvases, On(canvas') = On(canvas), nextZ' \in Nat,
         UNCHANGED <<records, born, drag, history>>, RestSound'
  PROVE  CoreSound'
<1>1. sel \in Elements => (canvas[sel] # Absent <=> canvas'[sel] # Absent)
  BY DEF On
<1>2. HandSound'
  BY <1>1, ConstantFacts DEF CoreSound, HandSound, drag
<1> QED
  BY <1>2, StillSound

\* So does resizing the videos.
LEMMA ZoomSound == ASSUME CoreSound, ZoomVideos PROVE CoreSound'
<1>1. canvas \in Canvases /\ nextZ \in Nat
  BY DEF CoreSound, CanvasSound
<1>2. PICK p \in Places :
        canvas' = [e \in Elements |-> IF e \in Videos /\ OnCanvas(e)
                                      THEN [canvas[e] EXCEPT !.at = p] ELSE canvas[e]]
  BY DEF ZoomVideos
<1>3. ASSUME NEW e \in Elements
      PROVE  canvas'[e] \in Inst \cup {Absent} /\ (canvas'[e] = Absent <=> canvas[e] = Absent)
  <2>1. p \in At /\ canvas[e] \in Inst \cup {Absent}
    BY <1>1 DEF At, Canvases
  <2>2. CASE e \in Videos /\ canvas[e] # Absent
    <3>1. canvas[e] \in Inst /\ canvas'[e] = [canvas[e] EXCEPT !.at = p]
      BY <1>2, <2>1, <2>2 DEF OnCanvas
    <3> QED
      BY <2>1, <2>2, <3>1, InstFacts
  <2>3. CASE ~(e \in Videos /\ canvas[e] # Absent)
    BY <1>2, <2>1, <2>3 DEF OnCanvas
  <2> QED
    BY <2>2, <2>3
<1>4. canvas' \in Canvases
  <2>1. canvas' = [e \in Elements |-> canvas'[e]]
    BY <1>2
  <2> QED
    BY <1>3, <2>1 DEF Canvases
<1>5. On(canvas') = On(canvas)
  BY <1>3 DEF On
<1>6. RestSound' /\ UNCHANGED <<records, nextZ, born, drag, history>>
  BY DEF CoreSound, RestSound, ZoomVideos, Op
<1> QED
  BY <1>1, <1>4, <1>5, <1>6, ReshapeSound

\* So does entering the teaching mode, which may rebuild the videos.
LEMMA TeachSound == ASSUME CoreSound, EnterTeach PROVE CoreSound'
<1>1. canvas \in Canvases /\ nextZ \in Nat /\ RecordsSound
  BY DEF CoreSound, CanvasSound
<1>2. RestSound' /\ UNCHANGED <<records, born, drag, history>>
  BY DEF CoreSound, RestSound, EnterTeach, Op
<1>3. CASE UNCHANGED <<canvas, nextZ>>
  BY <1>1, <1>2, <1>3, ReshapeSound
<1>4. CASE canvas' = RebuiltVideos /\ nextZ' = nextZ + Len(records)
  <2>1. ASSUME NEW e \in Elements
        PROVE  canvas'[e] \in Inst \cup {Absent} /\ (canvas'[e] = Absent <=> canvas[e] = Absent)
    <3>1. CASE \E i \in 1..Len(records) : records[i] = e
      <4> DEFINE i == CHOOSE i \in 1..Len(records) : records[i] = e
      <4>1. i \in 1..Len(records) /\ Len(records) \in Nat
        BY <1>1, <3>1 DEF RecordsSound
      <4>2. canvas'[e] = [at |-> Loose, z |-> nextZ + i - 1]
        BY <1>4, <3>1 DEF RebuiltVideos
      <4> HIDE DEF i
      <4>3. nextZ + i - 1 \in Nat
        BY <1>1, <4>1
      <4>4. canvas'[e] \in Inst /\ canvas'[e] # Absent
        BY <4>2, <4>3, InstFacts, ConstantFacts
      <4>5. e \in Items(records)
        BY <3>1 DEF Items
      <4>6. canvas[e] # Absent
        BY <1>1, <4>5 DEF RecordsSound, On
      <4> QED
        BY <4>4, <4>6
    <3>2. CASE ~\E i \in 1..Len(records) : records[i] = e
      <4>1. canvas'[e] = canvas[e]
        BY <1>4, <3>2 DEF RebuiltVideos
      <4> QED
        BY <1>1, <4>1 DEF Canvases
    <3> QED
      BY <3>1, <3>2
  <2>2. canvas' \in Canvases
    <3>1. canvas' = [e \in Elements |-> canvas'[e]]
      BY <1>4 DEF RebuiltVideos
    <3> QED
      BY <2>1, <3>1 DEF Canvases
  <2>3. On(canvas') = On(canvas)
    BY <2>1 DEF On
  <2>4. nextZ' \in Nat
    BY <1>1, <1>4 DEF RecordsSound
  <2> QED
    BY <1>2, <2>2, <2>3, <2>4, ReshapeSound
<1> QED
  BY <1>3, <1>4 DEF EnterTeach

\* As long as an insertion of a video is pending, a video id is free.
LEMMA WaitsStep == ASSUME VideoWaits, [Next]_vars PROVE VideoWaits'
<1> SUFFICES ASSUME pending' = "video" PROVE Videos \ born' # {}
  BY DEF VideoWaits
<1>1. CASE Mouse
  BY <1>1 DEF Mouse, Press, Drag, Release, ChooseShape, ChooseTool, PressDraw, ReleaseDraw,
     ReleaseDot, Leave, PlaceVideo, content, VideoWaits
<1>2. CASE Keyboard
  BY <1>2 DEF Keyboard, Undo, Redo, Delete, Escape, ToolKey, ZoomVideos, content, VideoWaits
<1>3. CASE PickVideo \/ EnterTeach \/ ExitTeach \/ UNCHANGED vars
  BY <1>3 DEF PickVideo, EnterTeach, ExitTeach, vars, content, VideoWaits
<1> QED
  BY <1>1, <1>2, <1>3 DEF Next

Inv == CoreSound /\ VideoWaits

\* The invariant is inductive, whatever the user does.
LEMMA InvInductive == Inv /\ [Next]_vars => Inv'
<1> SUFFICES ASSUME CoreSound, VideoWaits, [Next]_vars PROVE CoreSound'
  BY WaitsStep DEF Inv
<1>1. CASE Mouse
  BY <1>1, PressSound, ReleaseSound, AsideSound, DrawSound, PlaceSound DEF Mouse
<1>2. CASE Keyboard
  BY <1>2, UndoSound, RedoSound, DeleteSound, AsideSound, ZoomSound DEF Keyboard
<1>3. CASE PickVideo \/ EnterTeach \/ ExitTeach
  BY <1>3, AsideSound, TeachSound, ReleaseSound
<1>4. CASE UNCHANGED vars
  <2>1. canvas \in Canvases /\ nextZ \in Nat /\ UNCHANGED <<content, drag, history>> /\ RestSound'
    BY <1>4 DEF vars, CoreSound, CanvasSound, RestSound
  <2> QED
    BY <2>1, ReshapeSound DEF content
<1> QED
  BY <1>1, <1>2, <1>3, <1>4 DEF Next

\* And holds from the start.
LEMMA InvHolds == Spec => []Inv
<1>1. Init => Inv
  BY CoreInit DEF Inv, Init, VideoWaits
<1> QED
  BY <1>1, InvInductive, PTL DEF Spec

(* Every variable has its type and neither stack of the history is longer *)
(* than MaxDepth (undo.rs:71-115), whatever the user does.               *)
THEOREM TypeCorrect == Spec => []TypeOK
<1>1. Inv => TypeOK
  <2> SUFFICES ASSUME CoreSound PROVE TypeOK
    BY DEF Inv
  <2>1. /\ undo \in Seq(Commands) /\ redo \in Seq(Commands)
        /\ Len(undo) <= MaxDepth /\ Len(redo) <= MaxDepth
    BY ConstantFacts DEF CoreSound, HistorySound
  <2> QED
    BY <2>1 DEF CoreSound, CanvasSound, HandSound, RestSound, RecordsSound, TypeOK, Canvases, At
<1> QED
  BY <1>1, InvHolds, PTL

(* The list a saved file is written from (app.rs, inserted_videos) is the *)
(* videos on the canvas, each once, whatever is undone, redone, deleted   *)
(* or rebuilt.                                                            *)
THEOREM RecordsAlwaysMatch == Spec => []RecordsMatch
<1>1. Inv => RecordsMatch
  <2> SUFFICES ASSUME RecordsSound PROVE RecordsMatch
    BY DEF Inv, CoreSound
  <2>1. {v \in Videos : OnCanvas(v)} = On(canvas) \cap Videos
    BY ConstantFacts DEF On, OnCanvas
  <2> QED
    BY <2>1 DEF RecordsSound, RecordsMatch, Items, Distinct
<1> QED
  BY <1>1, InvHolds, PTL

-----------------------------------------------------------------------------
(* Pictures *)

\* A video on a picture is there or not; a shape is where it is.
Seen(e)  == IF e \in Videos THEN {"shown", Absent} ELSE Inst \cup {Absent}
Pictures == {q \in [Elements -> Inst \cup {Absent, "shown"}] : \A e \in Elements : q[e] \in Seen(e)}

\* Reverted and Reapplied on pictures.
Look(e, i)      == IF e \in Videos THEN "shown" ELSE i
Shifted(q, e, a) == IF e \in Videos \/ q[e] = Absent THEN q ELSE [q EXCEPT ![e].at = a]

Before(q, c) ==
    CASE c.op = "insert" -> [q EXCEPT ![c.el] = Absent]
      [] c.op = "remove" -> [q EXCEPT ![c.el] = Look(c.el, c.inst)]
      [] c.op = "move"   -> Shifted(q, c.el, c.old)

After(q, c) ==
    CASE c.op = "insert" -> [q EXCEPT ![c.el] = Look(c.el, c.inst)]
      [] c.op = "remove" -> [q EXCEPT ![c.el] = Absent]
      [] c.op = "move"   -> Shifted(q, c.el, c.new)

\* A picture, element by element.
LEMMA PictureIs ==
  ASSUME NEW c \in Canvases
  PROVE  /\ Picture(c) \in Pictures
         /\ Picture(c) = [e \in Elements |-> Picture(c)[e]]
         /\ \A e \in Elements : /\ c[e] = Absent => Picture(c)[e] = Absent
                                /\ c[e] # Absent => c[e] \in Inst /\ Picture(c)[e] = Look(e, c[e])
<1>1. Picture(c) = [e \in Elements |-> IF e \in Videos /\ c[e] # Absent THEN "shown" ELSE c[e]]
  BY DEF Picture
<1>2. \A e \in Elements : c[e] \in Inst \cup {Absent}
  BY DEF Canvases
<1>3. ASSUME NEW e \in Elements
      PROVE  /\ Picture(c)[e] \in Seen(e) /\ Picture(c)[e] \in Inst \cup {Absent, "shown"}
             /\ c[e] = Absent => Picture(c)[e] = Absent
             /\ c[e] # Absent => c[e] \in Inst /\ Picture(c)[e] = Look(e, c[e])
  BY <1>1, <1>2 DEF Seen, Look
<1> QED
  BY <1>1, <1>3 DEF Pictures

\* Two pictures with the same elements in the same places are the same.
LEMMA SamePicture ==
  ASSUME NEW c \in Canvases, NEW q, q = [e \in Elements |-> q[e]],
         \A e \in Elements : q[e] = Picture(c)[e]
  PROVE  Picture(c) = q
  BY PictureIs

\* Showing an element shows it on the picture.
LEMMA PictureShown ==
  ASSUME NEW c \in Canvases, NEW e \in Elements, NEW i \in Inst
  PROVE  Picture([c EXCEPT ![e] = i]) = [Picture(c) EXCEPT ![e] = Look(e, i)]
<1> DEFINE d == [c EXCEPT ![e] = i]
           q == [Picture(c) EXCEPT ![e] = Look(e, i)]
<1>1. d \in Canvases /\ i # Absent
  BY ShowSound, InstFacts
<1>2. \A x \in Elements : d[x] = IF x = e THEN i ELSE c[x]
  BY DEF Canvases
<1>3. q = [x \in Elements |-> q[x]] /\ \A x \in Elements : q[x] = IF x = e THEN Look(e, i) ELSE Picture(c)[x]
  BY PictureIs
<1> HIDE DEF d, q
<1>4. ASSUME NEW x \in Elements PROVE q[x] = Picture(d)[x]
  <2>1. CASE x = e
    BY <1>1, <1>2, <1>3, <2>1, PictureIs
  <2>2. CASE x # e
    <3>1. q[x] = Picture(c)[x] /\ d[x] = c[x]
      BY <1>2, <1>3, <2>2
    <3> QED
      BY <1>1, <3>1, PictureIs
  <2> QED
    BY <2>1, <2>2
<1>5. Picture(d) = q
  BY <1>1, <1>3, <1>4, SamePicture
<1> QED
  BY <1>5 DEF d, q

\* Hiding an element hides it.
LEMMA PictureHidden ==
  ASSUME NEW c \in Canvases, NEW e \in Elements
  PROVE  Picture([c EXCEPT ![e] = Absent]) = [Picture(c) EXCEPT ![e] = Absent]
<1> DEFINE d == [c EXCEPT ![e] = Absent]
           q == [Picture(c) EXCEPT ![e] = Absent]
<1>1. d \in Canvases
  BY HideSound
<1>2. \A x \in Elements : d[x] = IF x = e THEN Absent ELSE c[x]
  BY DEF Canvases
<1>3. q = [x \in Elements |-> q[x]] /\ \A x \in Elements : q[x] = IF x = e THEN Absent ELSE Picture(c)[x]
  BY PictureIs
<1> HIDE DEF d, q
<1>4. ASSUME NEW x \in Elements PROVE q[x] = Picture(d)[x]
  <2>1. CASE x = e
    BY <1>1, <1>2, <1>3, <2>1, PictureIs
  <2>2. CASE x # e
    <3>1. q[x] = Picture(c)[x] /\ d[x] = c[x]
      BY <1>2, <1>3, <2>2
    <3> QED
      BY <1>1, <3>1, PictureIs
  <2> QED
    BY <2>1, <2>2
<1>5. Picture(d) = q
  BY <1>1, <1>3, <1>4, SamePicture
<1> QED
  BY <1>5 DEF d, q

\* A change of place is a change of the instance.
LEMMA PutIsShown ==
  ASSUME NEW c \in Canvases, NEW e \in Elements, c[e] # Absent, NEW a \in At
  PROVE  /\ [c EXCEPT ![e].at = a] = [c EXCEPT ![e] = [c[e] EXCEPT !.at = a]]
         /\ [c[e] EXCEPT !.at = a] \in Inst
  BY InstFacts DEF Canvases

\* Moving an element moves it on the picture, unless it is a video.
LEMMA PictureMoved ==
  ASSUME NEW c \in Canvases, NEW e \in Elements, NEW a \in At
  PROVE  Picture(Moved(c, e, a)) = Shifted(Picture(c), e, a)
<1> DEFINE q == Picture(c)
<1>0. q \in Pictures /\ q = [x \in Elements |-> q[x]]
  BY PictureIs
<1>1. CASE c[e] = Absent
  <2>1. q[e] = Absent
    BY <1>1, PictureIs
  <2> QED
    BY <1>1, <2>1 DEF Moved, Shifted
<1>2. CASE c[e] # Absent
  <2> DEFINE i == [c[e] EXCEPT !.at = a]
  <2>1. Moved(c, e, a) = [c EXCEPT ![e] = i] /\ i \in Inst
    BY <1>2, PutIsShown DEF Moved
  <2>2. Picture(Moved(c, e, a)) = [q EXCEPT ![e] = Look(e, i)]
    <3> HIDE DEF i
    <3>0. i \in Inst
      BY <2>1
    <3>1. Picture([c EXCEPT ![e] = i]) = [Picture(c) EXCEPT ![e] = Look(e, i)]
      BY <3>0, PictureShown, Zenon
    <3> QED
      BY <2>1, <3>1
  <2>3. q[e] = Look(e, c[e]) /\ c[e] \in Inst
    BY <1>2, PictureIs
  <2>4. CASE e \in Videos
    <3>1. Look(e, i) = q[e] /\ Shifted(q, e, a) = q
      BY <2>3, <2>4 DEF Look, Shifted
    <3> HIDE DEF q, i
    <3>2. [q EXCEPT ![e] = q[e]] = q
      BY <1>0
    <3> QED
      BY <2>2, <3>1, <3>2 DEF q
  <2>5. CASE e \notin Videos
    <3>1. q[e] = c[e] /\ q[e] # Absent /\ Look(e, i) = i
      BY <1>2, <2>3, <2>5 DEF Look
    <3>2. Shifted(q, e, a) = [q EXCEPT ![e].at = a]
      BY <2>5, <3>1 DEF Shifted
    <3>3. [q EXCEPT ![e].at = a] = [q EXCEPT ![e] = [q[e] EXCEPT !.at = a]]
      OBVIOUS
    <3> QED
      BY <2>2, <3>1, <3>2, <3>3
  <2> QED
    BY <2>4, <2>5
<1> QED
  BY <1>1, <1>2

\* apply_undo on the canvas is Before on its picture.
LEMMA PictureReverted ==
  ASSUME nextZ \in Nat, NEW c \in Canvases, NEW cmd \in Commands
  PROVE  Reverted(c, cmd) \in Canvases /\ Picture(Reverted(c, cmd)) = Before(Picture(c), cmd)
<1>1. cmd.op \in {"insert", "remove", "move"} /\ cmd.el \in Elements
  BY CommandCases
<1>2. CASE cmd.op = "insert"
  <2>1. Reverted(c, cmd) = [c EXCEPT ![cmd.el] = Absent]
    BY <1>2 DEF Reverted
  <2>2. Before(Picture(c), cmd) = [Picture(c) EXCEPT ![cmd.el] = Absent]
    BY <1>2 DEF Before
  <2>3. /\ [c EXCEPT ![cmd.el] = Absent] \in Canvases
        /\ Picture([c EXCEPT ![cmd.el] = Absent]) = [Picture(c) EXCEPT ![cmd.el] = Absent]
    BY <1>1, HideSound, PictureHidden
  <2> QED
    BY <2>1, <2>2, <2>3
<1>3. CASE cmd.op = "remove"
  <2>1. Restored(cmd) \in Inst
    BY <1>3, RestoredType
  <2>2. Reverted(c, cmd) = [c EXCEPT ![cmd.el] = Restored(cmd)]
    BY <1>3 DEF Reverted
  <2>3. Before(Picture(c), cmd) = [Picture(c) EXCEPT ![cmd.el] = Look(cmd.el, cmd.inst)]
    BY <1>3 DEF Before
  <2>4. Look(cmd.el, Restored(cmd)) = Look(cmd.el, cmd.inst)
    BY DEF Look, Restored
  <2>5. /\ [c EXCEPT ![cmd.el] = Restored(cmd)] \in Canvases
        /\ Picture([c EXCEPT ![cmd.el] = Restored(cmd)])
             = [Picture(c) EXCEPT ![cmd.el] = Look(cmd.el, Restored(cmd))]
    BY <1>1, <2>1, ShowSound, PictureShown
  <2> QED
    BY <2>2, <2>3, <2>4, <2>5
<1>4. CASE cmd.op = "move"
  <2>1. Reverted(c, cmd) = Moved(c, cmd.el, cmd.old) /\ cmd.old \in At
    BY <1>4, CommandCases DEF Reverted
  <2>2. Before(Picture(c), cmd) = Shifted(Picture(c), cmd.el, cmd.old)
    BY <1>4 DEF Before
  <2> QED
    BY <1>1, <2>1, <2>2, MovedSound, PictureMoved
<1> QED
  BY <1>1, <1>2, <1>3, <1>4

\* apply_redo on the canvas is After on its picture.
LEMMA PictureReapplied ==
  ASSUME nextZ \in Nat, NEW c \in Canvases, NEW cmd \in Commands
  PROVE  Reapplied(c, cmd) \in Canvases /\ Picture(Reapplied(c, cmd)) = After(Picture(c), cmd)
<1>1. cmd.op \in {"insert", "remove", "move"} /\ cmd.el \in Elements
  BY CommandCases
<1>2. CASE cmd.op = "remove"
  <2>1. Reapplied(c, cmd) = [c EXCEPT ![cmd.el] = Absent]
    BY <1>2 DEF Reapplied
  <2>2. After(Picture(c), cmd) = [Picture(c) EXCEPT ![cmd.el] = Absent]
    BY <1>2 DEF After
  <2>3. /\ [c EXCEPT ![cmd.el] = Absent] \in Canvases
        /\ Picture([c EXCEPT ![cmd.el] = Absent]) = [Picture(c) EXCEPT ![cmd.el] = Absent]
    BY <1>1, HideSound, PictureHidden
  <2> QED
    BY <2>1, <2>2, <2>3
<1>3. CASE cmd.op = "insert"
  <2>1. Restored(cmd) \in Inst
    BY <1>3, RestoredType
  <2>2. Reapplied(c, cmd) = [c EXCEPT ![cmd.el] = Restored(cmd)]
    BY <1>3 DEF Reapplied
  <2>3. After(Picture(c), cmd) = [Picture(c) EXCEPT ![cmd.el] = Look(cmd.el, cmd.inst)]
    BY <1>3 DEF After
  <2>4. Look(cmd.el, Restored(cmd)) = Look(cmd.el, cmd.inst)
    BY DEF Look, Restored
  <2>5. /\ [c EXCEPT ![cmd.el] = Restored(cmd)] \in Canvases
        /\ Picture([c EXCEPT ![cmd.el] = Restored(cmd)])
             = [Picture(c) EXCEPT ![cmd.el] = Look(cmd.el, Restored(cmd))]
    BY <1>1, <2>1, ShowSound, PictureShown
  <2> QED
    BY <2>2, <2>3, <2>4, <2>5
<1>4. CASE cmd.op = "move"
  <2>1. Reapplied(c, cmd) = Moved(c, cmd.el, cmd.new) /\ cmd.new \in At
    BY <1>4, CommandCases DEF Reapplied
  <2>2. After(Picture(c), cmd) = Shifted(Picture(c), cmd.el, cmd.new)
    BY <1>4 DEF After
  <2> QED
    BY <1>1, <2>1, <2>2, MovedSound, PictureMoved
<1> QED
  BY <1>1, <1>2, <1>3, <1>4

-----------------------------------------------------------------------------
(* The line of pictures *)

Linked(a, b, c) == a = Before(b, c) /\ b = After(a, c)

PicturePairs == Pictures \X Pictures
Edits == [c \in Commands |-> {t \in PicturePairs : Linked(t[1], t[2], c)}]
Steps == [c \in Commands |-> {t \in PicturePairs : Linked(t[2], t[1], c)}]

\* Membership in the two relations is Linked, read forwards and backwards.
LEMMA LinkedFacts ==
  ASSUME NEW c \in Commands, NEW a \in Pictures, NEW b \in Pictures
  PROVE  (<<a, b>> \in Edits[c] <=> Linked(a, b, c)) /\ (<<b, a>> \in Steps[c] <=> Linked(a, b, c))
<1>1. <<a, b>> \in PicturePairs /\ <<b, a>> \in PicturePairs
  BY DEF PicturePairs
<1>2. <<a, b>>[1] = a /\ <<a, b>>[2] = b /\ <<b, a>>[1] = b /\ <<b, a>>[2] = a
  OBVIOUS
<1> QED
  BY <1>1, <1>2 DEF Edits, Steps

Present == Picture(Settled)
Past    == [i \in 1..Len(undo) |-> Picture(Back[Len(undo) + 1 - i])]
Future  == [i \in 1..Len(redo) |-> Picture(Ahead[Len(redo) + 1 - i])]

\* The canvas without the drag is a canvas.
LEMMA SettledType == CanvasSound /\ HandSound => Settled \in Canvases
<1> SUFFICES ASSUME CanvasSound, HandSound PROVE Settled \in Canvases
  OBVIOUS
<1>1. CASE guard = NoOne
  BY <1>1 DEF Settled, CanvasSound
<1>2. CASE guard # NoOne
  <2>1. guard \in Elements /\ snap.old \in At /\ canvas \in Canvases
    BY <1>2 DEF HandSound, CanvasSound
  <2> QED
    BY <1>2, <2>1, MovedSound DEF Settled
<1> QED
  BY <1>1, <1>2

BackStep(t, k)  == Reverted(t, undo[Len(undo) + 1 - k])
AheadStep(t, k) == Reapplied(t, redo[Len(redo) + 1 - k])

IsBack(f) ==
    f = [k \in 0..Len(undo) |-> IF k = 0 THEN Settled ELSE BackStep(f[k - 1], k)]
IsAhead(f) ==
    f = [k \in 0..Len(redo) |-> IF k = 0 THEN Settled ELSE AheadStep(f[k - 1], k)]

\* One step of Back.
LEMMA BackStepType ==
  ASSUME CanvasSound, HistorySound, NEW t \in Canvases, NEW k \in 1..Len(undo)
  PROVE  /\ undo[Len(undo) + 1 - k] \in Commands /\ BackStep(t, k) \in Canvases
         /\ Picture(BackStep(t, k)) = Before(Picture(t), undo[Len(undo) + 1 - k])
<1>1. undo \in Seq(Commands) /\ nextZ \in Nat
  BY DEF HistorySound, CanvasSound
<1>2. Len(undo) + 1 - k \in 1..Len(undo)
  BY <1>1
<1>3. undo[Len(undo) + 1 - k] \in Commands
  BY <1>1, <1>2
<1> QED
  BY <1>1, <1>3, PictureReverted DEF BackStep

\* One step of Ahead.
LEMMA AheadStepType ==
  ASSUME CanvasSound, HistorySound, NEW t \in Canvases, NEW k \in 1..Len(redo)
  PROVE  /\ redo[Len(redo) + 1 - k] \in Commands /\ AheadStep(t, k) \in Canvases
         /\ Picture(AheadStep(t, k)) = After(Picture(t), redo[Len(redo) + 1 - k])
<1>1. redo \in Seq(Commands) /\ nextZ \in Nat
  BY DEF HistorySound, CanvasSound
<1>2. Len(redo) + 1 - k \in 1..Len(redo)
  BY <1>1
<1>3. redo[Len(redo) + 1 - k] \in Commands
  BY <1>1, <1>2
<1> QED
  BY <1>1, <1>3, PictureReapplied DEF AheadStep

\* Back is the function its recursion describes.
LEMMA BackRuns ==
  ASSUME CanvasSound, HandSound, HistorySound
  PROVE  /\ Back \in [0..Len(undo) -> Canvases] /\ Back[0] = Settled
         /\ \A k \in 1..Len(undo) : Back[k - 1] \in Canvases /\ Back[k] = BackStep(Back[k - 1], k)
<1> DEFINE n    == Len(undo)
           T    == Canvases
           step == [k \in 1..n |-> [t \in T |-> BackStep(t, k)]]
           base == Settled
<1>1. n \in Nat /\ base \in T /\ step \in [1..n -> [T -> T]]
  BY SettledType, BackStepType DEF HistorySound
<1>2. \A k \in 1..n : step[k] = [t \in T |-> BackStep(t, k)]
  OBVIOUS
<1>3. PICK f : Runs(f, n, T, base, step)
  <2> HIDE DEF step, n, T, base
  <2> QED
    BY <1>1, Recursion
<1>4. IsBack(f)
  <2> DEFINE g == [k \in 0..n |-> IF k = 0 THEN base ELSE BackStep(f[k - 1], k)]
  <2>1. ASSUME NEW k \in 0..n PROVE f[k] = g[k]
    <3>1. g[k] = IF k = 0 THEN base ELSE BackStep(f[k - 1], k)
      OBVIOUS
    <3> HIDE DEF g, step, T, n, base
    <3>2. k # 0 => k \in 1..n /\ k - 1 \in 0..n
      BY <1>1
    <3> QED
      BY <3>1, <3>2, <1>2, <1>3 DEF Runs
  <2>2. f = g
    <3>1. g = [k \in 0..n |-> g[k]]
      OBVIOUS
    <3>2. f = [k \in 0..n |-> f[k]]
      BY <1>3 DEF Runs
    <3> HIDE DEF g
    <3> QED
      BY <2>1, <3>1, <3>2
  <2> QED
    BY <2>2 DEF IsBack
<1>5. Back = CHOOSE h : IsBack(h)
  BY DEF Back, IsBack, BackStep
<1>6. IsBack(Back)
  BY <1>4, <1>5
<1>7. Runs(Back, n, T, base, step)
  <2>1. \A k \in 0..n : Back[k] = IF k = 0 THEN base ELSE BackStep(Back[k - 1], k)
    BY <1>6 DEF IsBack
  <2>2. Spans(Back, n)
    BY <1>6 DEF IsBack, Spans
  <2> HIDE DEF n, T, base, step
  <2>3. Back[0] = base
    BY <1>1, <2>1
  <2>4. ASSUME NEW k \in 1..n, Back[k - 1] \in T PROVE Back[k] = step[k][Back[k - 1]]
    BY <1>1, <1>2, <2>1, <2>4
  <2> QED
    BY <1>1, <2>2, <2>3, <2>4, RunsAlong
<1> HIDE DEF n, T, base, step
<1>8. ASSUME NEW k \in 1..n PROVE Back[k - 1] \in T /\ Back[k] = BackStep(Back[k - 1], k)
  <2>1. k - 1 \in 0..n
    BY <1>1
  <2>2. Back[k - 1] \in T /\ Back[k] = step[k][Back[k - 1]]
    BY <1>7, <2>1 DEF Runs
  <2> QED
    BY <1>2, <2>2
<1> QED
  BY <1>7, <1>8 DEF Runs, n, T, base

\* So is Ahead.
LEMMA AheadRuns ==
  ASSUME CanvasSound, HandSound, HistorySound
  PROVE  /\ Ahead \in [0..Len(redo) -> Canvases] /\ Ahead[0] = Settled
         /\ \A k \in 1..Len(redo) : Ahead[k - 1] \in Canvases /\ Ahead[k] = AheadStep(Ahead[k - 1], k)
<1> DEFINE n    == Len(redo)
           T    == Canvases
           step == [k \in 1..n |-> [t \in T |-> AheadStep(t, k)]]
           base == Settled
<1>1. n \in Nat /\ base \in T /\ step \in [1..n -> [T -> T]]
  BY SettledType, AheadStepType DEF HistorySound
<1>2. \A k \in 1..n : step[k] = [t \in T |-> AheadStep(t, k)]
  OBVIOUS
<1>3. PICK f : Runs(f, n, T, base, step)
  <2> HIDE DEF step, n, T, base
  <2> QED
    BY <1>1, Recursion
<1>4. IsAhead(f)
  <2> DEFINE g == [k \in 0..n |-> IF k = 0 THEN base ELSE AheadStep(f[k - 1], k)]
  <2>1. ASSUME NEW k \in 0..n PROVE f[k] = g[k]
    <3>1. g[k] = IF k = 0 THEN base ELSE AheadStep(f[k - 1], k)
      OBVIOUS
    <3> HIDE DEF g, step, T, n, base
    <3>2. k # 0 => k \in 1..n /\ k - 1 \in 0..n
      BY <1>1
    <3> QED
      BY <3>1, <3>2, <1>2, <1>3 DEF Runs
  <2>2. f = g
    <3>1. g = [k \in 0..n |-> g[k]]
      OBVIOUS
    <3>2. f = [k \in 0..n |-> f[k]]
      BY <1>3 DEF Runs
    <3> HIDE DEF g
    <3> QED
      BY <2>1, <3>1, <3>2
  <2> QED
    BY <2>2 DEF IsAhead
<1>5. Ahead = CHOOSE h : IsAhead(h)
  BY DEF Ahead, IsAhead, AheadStep
<1>6. IsAhead(Ahead)
  BY <1>4, <1>5
<1>7. Runs(Ahead, n, T, base, step)
  <2>1. \A k \in 0..n : Ahead[k] = IF k = 0 THEN base ELSE AheadStep(Ahead[k - 1], k)
    BY <1>6 DEF IsAhead
  <2>2. Spans(Ahead, n)
    BY <1>6 DEF IsAhead, Spans
  <2> HIDE DEF n, T, base, step
  <2>3. Ahead[0] = base
    BY <1>1, <2>1
  <2>4. ASSUME NEW k \in 1..n, Ahead[k - 1] \in T PROVE Ahead[k] = step[k][Ahead[k - 1]]
    BY <1>1, <1>2, <2>1, <2>4
  <2> QED
    BY <1>1, <2>2, <2>3, <2>4, RunsAlong
<1> HIDE DEF n, T, base, step
<1>8. ASSUME NEW k \in 1..n PROVE Ahead[k - 1] \in T /\ Ahead[k] = AheadStep(Ahead[k - 1], k)
  <2>1. k - 1 \in 0..n
    BY <1>1
  <2>2. Ahead[k - 1] \in T /\ Ahead[k] = step[k][Ahead[k - 1]]
    BY <1>7, <2>1 DEF Runs
  <2> QED
    BY <1>2, <2>2
<1> QED
  BY <1>7, <1>8 DEF Runs, n, T, base

\* A line of pictures the commands lead along is the line that Back computes.
PastFact ==
    \A p \in Seq(Pictures) :
        CanvasSound /\ HandSound /\ HistorySound /\ Leads(p, undo, Present, Edits) => Past = p

\* By induction along the undo stack.
LEMMA PastIs == PastFact
<1> SUFFICES ASSUME NEW p \in Seq(Pictures), CanvasSound, HandSound, HistorySound,
                    Leads(p, undo, Present, Edits)
             PROVE  Past = p
  BY DEF PastFact
<1> DEFINE n == Len(undo)
           S == {k \in 0..n : Picture(Back[k]) = IF k = 0 THEN Present ELSE p[n + 1 - k]}
<1>1. n \in Nat /\ Len(p) = n /\ p = [i \in 1..n |-> p[i]] /\ \A i \in 1..n : p[i] \in Pictures
  BY DEF HistorySound, Leads
<1>2. /\ Back[0] = Settled
      /\ \A k \in 1..n : Back[k - 1] \in Canvases /\ Back[k] = BackStep(Back[k - 1], k)
  BY BackRuns
<1>3. 0 \in S
  BY <1>1, <1>2 DEF Present
<1>4. ASSUME NEW k \in 1..n, k - 1 \in S PROVE k \in S
  <2> DEFINE i == n + 1 - k
             b == IF i = n THEN Present ELSE p[i + 1]
  <2>1. i \in 1..n /\ k # 0 /\ k \in 0..n /\ (i = n <=> k - 1 = 0) /\ i + 1 = n + 1 - (k - 1)
    BY <1>1
  <2>2. Picture(Back[k - 1]) = b
    <3>1. Picture(Back[k - 1]) = IF k - 1 = 0 THEN Present ELSE p[n + 1 - (k - 1)]
      BY <1>4
    <3> HIDE DEF S, n, i
    <3> QED
      BY <2>1, <3>1
  <2>3. Back[k - 1] \in Canvases /\ Back[k] = BackStep(Back[k - 1], k)
    BY <1>2
  <2>4. undo[i] \in Commands /\ Picture(Back[k]) = Before(b, undo[i]) /\ b \in Pictures
    BY <2>2, <2>3, BackStepType, PictureIs
  <2>5. <<p[i], b>> \in Edits[undo[i]] /\ p[i] \in Pictures
    BY <1>1, <2>1 DEF Leads
  <2> HIDE DEF i, b
  <2>6. p[i] = Before(b, undo[i])
    BY <2>4, <2>5, LinkedFacts DEF Linked
  <2>7. Picture(Back[k]) = p[i]
    BY <2>4, <2>6
  <2> QED
    BY <2>1, <2>7 DEF i
<1>5. 0..n \subseteq S
  <2> HIDE DEF S, n
  <2> QED
    BY <1>1, <1>3, <1>4, InductionUpTo
<1>6. ASSUME NEW i \in 1..n PROVE Picture(Back[n + 1 - i]) = p[i]
  <2>1. n + 1 - i \in 0..n /\ n + 1 - i # 0 /\ n + 1 - (n + 1 - i) = i
    BY <1>1
  <2>2. n + 1 - i \in S
    BY <1>5, <2>1
  <2> HIDE DEF n
  <2> QED
    BY <2>1, <2>2
<1>7. Past = [i \in 1..n |-> Picture(Back[n + 1 - i])]
  BY DEF Past
<1> HIDE DEF n
<1> QED
  BY <1>1, <1>6, <1>7

\* And a line of undone pictures the commands lead along is the line that Ahead computes.
FutureFact ==
    \A p \in Seq(Pictures) :
        CanvasSound /\ HandSound /\ HistorySound /\ Leads(p, redo, Present, Steps) => Future = p

\* By induction along the redo stack.
LEMMA FutureIs == FutureFact
<1> SUFFICES ASSUME NEW p \in Seq(Pictures), CanvasSound, HandSound, HistorySound,
                    Leads(p, redo, Present, Steps)
             PROVE  Future = p
  BY DEF FutureFact
<1> DEFINE n == Len(redo)
           S == {k \in 0..n : Picture(Ahead[k]) = IF k = 0 THEN Present ELSE p[n + 1 - k]}
<1>1. n \in Nat /\ Len(p) = n /\ p = [i \in 1..n |-> p[i]] /\ \A i \in 1..n : p[i] \in Pictures
  BY DEF HistorySound, Leads
<1>2. /\ Ahead[0] = Settled
      /\ \A k \in 1..n : Ahead[k - 1] \in Canvases /\ Ahead[k] = AheadStep(Ahead[k - 1], k)
  BY AheadRuns
<1>3. 0 \in S
  BY <1>1, <1>2 DEF Present
<1>4. ASSUME NEW k \in 1..n, k - 1 \in S PROVE k \in S
  <2> DEFINE i == n + 1 - k
             b == IF i = n THEN Present ELSE p[i + 1]
  <2>1. i \in 1..n /\ k # 0 /\ k \in 0..n /\ (i = n <=> k - 1 = 0) /\ i + 1 = n + 1 - (k - 1)
    BY <1>1
  <2>2. Picture(Ahead[k - 1]) = b
    <3>1. Picture(Ahead[k - 1]) = IF k - 1 = 0 THEN Present ELSE p[n + 1 - (k - 1)]
      BY <1>4
    <3> HIDE DEF S, n, i
    <3> QED
      BY <2>1, <3>1
  <2>3. Ahead[k - 1] \in Canvases /\ Ahead[k] = AheadStep(Ahead[k - 1], k)
    BY <1>2
  <2>4. redo[i] \in Commands /\ Picture(Ahead[k]) = After(b, redo[i]) /\ b \in Pictures
    BY <2>2, <2>3, AheadStepType, PictureIs
  <2>5. <<p[i], b>> \in Steps[redo[i]] /\ p[i] \in Pictures
    BY <1>1, <2>1 DEF Leads
  <2> HIDE DEF i, b
  <2>6. p[i] = After(b, redo[i])
    BY <2>4, <2>5, LinkedFacts DEF Linked
  <2>7. Picture(Ahead[k]) = p[i]
    BY <2>4, <2>6
  <2> QED
    BY <2>1, <2>7 DEF i
<1>5. 0..n \subseteq S
  <2> HIDE DEF S, n
  <2> QED
    BY <1>1, <1>3, <1>4, InductionUpTo
<1>6. ASSUME NEW i \in 1..n PROVE Picture(Ahead[n + 1 - i]) = p[i]
  <2>1. n + 1 - i \in 0..n /\ n + 1 - i # 0 /\ n + 1 - (n + 1 - i) = i
    BY <1>1
  <2>2. n + 1 - i \in S
    BY <1>5, <2>1
  <2> HIDE DEF n
  <2> QED
    BY <2>1, <2>2
<1>7. Future = [i \in 1..n |-> Picture(Ahead[n + 1 - i])]
  BY DEF Future
<1> HIDE DEF n
<1> QED
  BY <1>1, <1>6, <1>7

-----------------------------------------------------------------------------
(* What a step does to the picture *)

\* The history and the picture stay, or one command joins two pictures.
Stays  == UNCHANGED <<undo, redo>> /\ Present' = Present
Pushes == \E c \in Commands : Push(c) /\ Linked(Present, Present', c)

\* Putting an element back undoes whatever the drag did to its place.
LEMMA MovedBack ==
  ASSUME NEW c \in Canvases, NEW e \in Elements, c[e] # Absent, NEW a \in At, NEW b \in At
  PROVE  /\ Moved([c EXCEPT ![e].at = b], e, a) = Moved(c, e, a)
         /\ Moved(Moved(c, e, a), e, c[e].at) = c
         /\ c[e].at = a => Moved(c, e, a) = c
         /\ c[e].at \in At
<1> DEFINE d == [c EXCEPT ![e].at = b]
<1>1. c[e] \in Inst /\ c[e].at \in At /\ c = [x \in Elements |-> c[x]]
  BY PutSound DEF Canvases
<1>2. d = [x \in Elements |-> IF x = e THEN [c[e] EXCEPT !.at = b] ELSE c[x]]
  BY <1>1
<1>3. d[e] = [c[e] EXCEPT !.at = b] /\ d[e] # Absent
  BY <1>1, <1>2, InstFacts
<1>4. \A r \in Inst : /\ [[r EXCEPT !.at = b] EXCEPT !.at = a] = [r EXCEPT !.at = a]
                      /\ [[r EXCEPT !.at = a] EXCEPT !.at = r.at] = r
                      /\ r.at = a => [r EXCEPT !.at = a] = r
  BY DEF Inst
<1>5. Moved(d, e, a) = Moved(c, e, a)
  <2>1. Moved(d, e, a) = [d EXCEPT ![e].at = a]
    BY <1>3 DEF Moved
  <2>2. [d EXCEPT ![e].at = a] = [x \in Elements |-> IF x = e THEN [d[e] EXCEPT !.at = a] ELSE d[x]]
    BY <1>2
  <2>3. [c EXCEPT ![e].at = a] = [x \in Elements |-> IF x = e THEN [c[e] EXCEPT !.at = a] ELSE c[x]]
    BY <1>1
  <2>4. [d[e] EXCEPT !.at = a] = [c[e] EXCEPT !.at = a]
    BY <1>1, <1>3, <1>4
  <2>5. \A x \in Elements : x # e => d[x] = c[x]
    BY <1>2
  <2> HIDE DEF d
  <2>6. [d EXCEPT ![e].at = a] = [c EXCEPT ![e].at = a]
    BY <2>2, <2>3, <2>4, <2>5
  <2> QED
    BY <2>1, <2>6 DEF Moved
<1>6. Moved(Moved(c, e, a), e, c[e].at) = c
  <2> DEFINE m == [c EXCEPT ![e].at = a]
  <2>1. m = [x \in Elements |-> IF x = e THEN [c[e] EXCEPT !.at = a] ELSE c[x]]
    BY <1>1
  <2>2. m[e] = [c[e] EXCEPT !.at = a] /\ m[e] # Absent /\ Moved(c, e, a) = m
    BY <1>1, <2>1, InstFacts DEF Moved
  <2>3. [m EXCEPT ![e].at = c[e].at]
          = [x \in Elements |-> IF x = e THEN [m[e] EXCEPT !.at = c[e].at] ELSE m[x]]
    BY <2>1
  <2>4. [m[e] EXCEPT !.at = c[e].at] = c[e]
    BY <1>1, <1>4, <2>2
  <2>5. \A x \in Elements : x # e => m[x] = c[x]
    BY <2>1
  <2> HIDE DEF m
  <2>6. [m EXCEPT ![e].at = c[e].at] = c
    BY <1>1, <2>3, <2>4, <2>5
  <2> QED
    BY <2>2, <2>6 DEF Moved
<1>7. c[e].at = a => Moved(c, e, a) = c
  <2> SUFFICES ASSUME c[e].at = a PROVE Moved(c, e, a) = c
    OBVIOUS
  <2>1. [c EXCEPT ![e].at = a] = [x \in Elements |-> IF x = e THEN [c[e] EXCEPT !.at = a] ELSE c[x]]
    BY <1>1
  <2>2. [c[e] EXCEPT !.at = a] = c[e]
    BY <1>1, <1>4
  <2> QED
    BY <1>1, <2>1, <2>2 DEF Moved
<1> QED
  BY <1>1, <1>5, <1>6, <1>7

\* The three ways one command joins two pictures.
LEMMA LinkedInsert ==
  ASSUME NEW c \in Canvases, NEW e \in Elements, c[e] = Absent, NEW i \in Inst
  PROVE  Linked(Picture(c), Picture([c EXCEPT ![e] = i]), Insertion(e, i))
<1> DEFINE a == Picture(c)
           b == Picture([c EXCEPT ![e] = i])
<1>1. a = [x \in Elements |-> a[x]] /\ a[e] = Absent
  BY PictureIs
<1>2. b = [a EXCEPT ![e] = Look(e, i)]
  BY PictureShown
<1>3. Before(b, Insertion(e, i)) = [b EXCEPT ![e] = Absent]
  BY DEF Before, Insertion
<1>4. After(a, Insertion(e, i)) = [a EXCEPT ![e] = Look(e, i)]
  BY DEF After, Insertion
<1> HIDE DEF a, b
<1>5. [b EXCEPT ![e] = Absent] = a
  BY <1>1, <1>2
<1> QED
  BY <1>2, <1>3, <1>4, <1>5 DEF Linked, a, b

\* A deletion.
LEMMA LinkedRemove ==
  ASSUME NEW c \in Canvases, NEW e \in Elements, c[e] # Absent
  PROVE  Linked(Picture(c), Picture([c EXCEPT ![e] = Absent]), Removal(e, c[e]))
<1> DEFINE a == Picture(c)
           b == Picture([c EXCEPT ![e] = Absent])
           i == c[e]
<1>1. a = [x \in Elements |-> a[x]] /\ a[e] = Look(e, i)
  BY PictureIs
<1>2. b = [a EXCEPT ![e] = Absent]
  BY PictureHidden
<1>3. Before(b, Removal(e, i)) = [b EXCEPT ![e] = Look(e, i)]
  BY DEF Before, Removal
<1>4. After(a, Removal(e, i)) = [a EXCEPT ![e] = Absent]
  BY DEF After, Removal
<1> HIDE DEF a, b, i
<1>5. [b EXCEPT ![e] = Look(e, i)] = a
  BY <1>1, <1>2
<1> QED
  BY <1>2, <1>3, <1>4, <1>5 DEF Linked, a, b, i

\* The end of a drag.
LEMMA LinkedMove ==
  ASSUME NEW c \in Canvases, NEW e \in Elements, c[e] # Absent, NEW a \in At
  PROVE  Linked(Picture(Moved(c, e, a)), Picture(c), Movement(e, a, c[e].at))
<1> DEFINE m == Moved(c, e, a)
           b == c[e].at
<1>1. m \in Canvases /\ b \in At /\ Moved(m, e, b) = c
  BY MovedSound, MovedBack
<1>2. Before(Picture(c), Movement(e, a, b)) = Shifted(Picture(c), e, a)
  BY DEF Before, Movement
<1>3. After(Picture(m), Movement(e, a, b)) = Shifted(Picture(m), e, b)
  BY DEF After, Movement
<1>4. Picture(m) = Shifted(Picture(c), e, a)
  BY PictureMoved
<1> HIDE DEF m, b
<1>5. Picture(Moved(m, e, b)) = Shifted(Picture(m), e, b)
  BY <1>1, PictureMoved
<1> QED
  BY <1>1, <1>2, <1>3, <1>4, <1>5 DEF Linked, m, b

\* The picture stays when nothing it is made of changes.
LEMMA StillKeeps == ASSUME UNCHANGED <<canvas, guard, snap, history>> PROVE Stays
  BY DEF Stays, Present, Settled, history

\* A video held by the guard is where it is, on every picture.
LEMMA PresentIs ==
  CoreSound /\ (guard = NoOne \/ guard \in Videos) => Present = Picture(canvas)
<1> SUFFICES ASSUME CoreSound, guard \in Videos, guard # NoOne
             PROVE  Present = Picture(canvas)
  BY DEF Present, Settled, Picture
<1>1. /\ canvas \in Canvases /\ guard \in Elements /\ snap.old \in At
  BY ConstantFacts DEF CoreSound, CanvasSound, HandSound
<1>2. Picture(Moved(canvas, guard, snap.old)) = Shifted(Picture(canvas), guard, snap.old)
  BY <1>1, PictureMoved
<1> QED
  BY <1>2 DEF Present, Settled, Shifted

\* So it is in the next state.
LEMMA PresentNext ==
  CoreSound' /\ (guard' = NoOne \/ guard' \in Videos) => Present' = Picture(canvas')
<1>1. (CoreSound /\ (guard = NoOne \/ guard \in Videos) => Present = Picture(canvas))'
  BY PresentIs, PTL
<1> QED
  BY <1>1 DEF Picture

\* Letting go keeps the picture, or stores the movement that ends there.
LEMMA LetGoMoves ==
  ASSUME CoreSound, LetGo, canvas' = canvas PROVE Stays \/ Pushes
<1>0. CASE UNCHANGED <<guard, snap, history>>
  BY <1>0, StillKeeps
<1>1. CASE Free /\ (guard = NoOne \/ guard # sel)
  BY <1>1, StillKeeps DEF Free
<1>2. CASE Free /\ guard # NoOne /\ guard = sel
  <2>1. /\ canvas \in Canvases /\ guard \in Elements /\ canvas[guard] # Absent
        /\ snap.el = guard /\ snap.old \in At
    BY <1>2 DEF CoreSound, CanvasSound, HandSound
  <2>2. Present = Picture(Moved(canvas, guard, snap.old)) /\ Present' = Picture(canvas)
    BY <1>2 DEF Present, Settled, Free
  <2>3. CASE snap.old = canvas[guard].at
    <3>1. Moved(canvas, guard, snap.old) = canvas
      BY <2>1, <2>3, MovedBack
    <3>2. UNCHANGED <<undo, redo>>
      BY <1>2, <2>3 DEF Free, history
    <3> QED
      BY <2>2, <3>1, <3>2 DEF Stays
  <2>4. CASE snap.old # canvas[guard].at
    <3> DEFINE c == Movement(guard, snap.old, canvas[guard].at)
    <3>1. Push(c)
      BY <1>2, <2>1, <2>4 DEF Free
    <3>2. c \in Commands
      BY <2>1, MovedBack, CommandsMade
    <3>3. Linked(Present, Present', c)
      <4>1. Linked(Picture(Moved(canvas, guard, snap.old)), Picture(canvas), c)
        BY <2>1, LinkedMove
      <4> QED
        BY <2>2, <4>1
    <3> QED
      BY <3>1, <3>2, <3>3 DEF Pushes
  <2> QED
    BY <2>3, <2>4
<1> QED
  BY <1>0, <1>1, <1>2 DEF LetGo

\* A drag keeps the picture: it is the one from before the drag.
LEMMA DragKeeps ==
  ASSUME CoreSound, GuardHeld, Press \/ Drag \/ (PressDraw /\ CalmHands) PROVE Stays
<1>0. canvas \in Canvases /\ HandSound /\ NoOne \notin Elements
  BY ConstantFacts DEF CoreSound, CanvasSound
<1>1. CASE Press
  <2>1. UNCHANGED <<undo, redo>>
    BY <1>1 DEF Press, history
  <2>2. CASE UNCHANGED <<canvas, guard, snap>>
    BY <1>1, <2>2, StillKeeps DEF Press
  <2>3. CASE guard = NoOne /\ \E e \in Elements : OnCanvas(e) /\ Claim(e)
    <3>1. PICK e \in Elements : OnCanvas(e) /\ Claim(e)
      BY <2>3
    <3> DEFINE a == canvas[e].at
               b == IF canvas[e].at = Loose THEN Home ELSE canvas[e].at
    <3>2. /\ canvas' = [canvas EXCEPT ![e].at = b] /\ guard' = e /\ snap'.old = a
          /\ canvas[e] # Absent
      BY <3>1 DEF Claim, OnCanvas
    <3>3. a \in At /\ b \in At
      BY <1>0, <3>2, MovedBack, ConstantFacts
    <3>4. Settled' = Moved([canvas EXCEPT ![e].at = b], e, a)
      BY <1>0, <3>2 DEF Settled
    <3>5. Moved([canvas EXCEPT ![e].at = b], e, a) = canvas
      <4>1. Moved(canvas, e, a) = canvas
        BY <1>0, <3>2, <3>3, MovedBack
      <4> HIDE DEF a, b
      <4>2. canvas \in Canvases /\ canvas[e] # Absent
        BY <1>0, <3>2
      <4>3. ASSUME NEW p \in At, NEW q \in At
            PROVE  Moved([canvas EXCEPT ![e].at = p], e, q) = Moved(canvas, e, q)
        BY <4>2, MovedBack
      <4> QED
        BY <3>3, <4>1, <4>3
    <3>6. Settled' = Settled
      BY <2>3, <3>4, <3>5 DEF Settled
    <3> QED
      BY <2>1, <3>6 DEF Stays, Present, Picture
  <2> QED
    BY <1>1, <2>1, <2>2, <2>3 DEF Press, drag
<1>2. CASE Drag
  <2>1. PICK p \in Places : canvas' = [canvas EXCEPT ![sel].at = p]
    BY <1>2 DEF Drag
  <2>2. /\ UNCHANGED <<undo, redo, guard, snap>> /\ guard # NoOne /\ guard = sel
        /\ guard \in Elements /\ canvas[guard] # Absent /\ snap.old \in At /\ p \in At
    BY <1>0, <1>2 DEF Drag, drag, history, HandSound, At
  <2>3. Moved([canvas EXCEPT ![guard].at = p], guard, snap.old) = Moved(canvas, guard, snap.old)
    BY <1>0, <2>2, MovedBack
  <2>4. Settled' = Settled
    BY <2>1, <2>2, <2>3 DEF Settled
  <2> QED
    BY <2>2, <2>4 DEF Stays, Present, Picture
<1>3. CASE PressDraw /\ CalmHands
  BY <1>3, StillKeeps DEF PressDraw, GuardHeld
<1> QED
  BY <1>1, <1>2, <1>3

\* A new shape or video, and a deletion, are one command each.
LEMMA EditsPush ==
  ASSUME CoreSound, CoreSound', VideoWaits, GuardHeld, CalmHands, ReleaseDraw \/ PlaceVideo \/ Delete
  PROVE  Pushes
<1>0. /\ canvas \in Canvases /\ nextZ \in Nat /\ HandSound /\ NoOne \notin Elements
      /\ On(canvas) \subseteq born /\ Loose \in At
      /\ Videos \subseteq Elements /\ Shapes \subseteq Elements
  BY ConstantFacts DEF CoreSound, CanvasSound
<1>1. ASSUME NEW e \in Elements, e \notin born, NEW i \in Inst,
             guard = NoOne \/ guard \in Videos, guard' = NoOne \/ guard' \in Videos,
             canvas' = [canvas EXCEPT ![e] = i], Push(Insertion(e, i))
      PROVE  Pushes
  <2>1. canvas[e] = Absent
    BY <1>0, <1>1 DEF On
  <2>2. Linked(Picture(canvas), Picture([canvas EXCEPT ![e] = i]), Insertion(e, i))
    BY <1>0, <2>1, LinkedInsert
  <2>3. Present = Picture(canvas) /\ Present' = Picture([canvas EXCEPT ![e] = i])
    BY <1>1, PresentIs, PresentNext
  <2>4. Insertion(e, i) \in Commands
    BY CommandsMade
  <2> QED
    BY <1>1, <2>2, <2>3, <2>4 DEF Pushes
<1>2. CASE ReleaseDraw
  <2> DEFINE e    == CHOOSE x \in Shapes \ born : TRUE
             inst == [at |-> Loose, z |-> nextZ]
  <2>1. e \in Elements /\ e \notin born /\ inst \in Inst
    BY <1>0, <1>2, InstFacts DEF ReleaseDraw
  <2>2. (guard = NoOne \/ guard \in Videos) /\ sel = NoOne
    BY <1>2 DEF ReleaseDraw, GuardHeld
  <2>3. guard' = guard /\ canvas' = [canvas EXCEPT ![e] = inst] /\ Push(Insertion(e, inst))
    BY <1>0, <1>2, <2>2 DEF ReleaseDraw, NewShape
  <2> HIDE DEF e, inst
  <2> QED
    BY <1>1, <2>1, <2>2, <2>3
<1>3. CASE PlaceVideo
  <2> DEFINE v == CHOOSE x \in Videos \ born : TRUE
  <2>1. v \in Elements /\ v \notin born /\ Rebuilt \in Inst
    BY <1>0, <1>3, InstFacts DEF PlaceVideo, VideoWaits, Rebuilt
  <2>2. (guard = NoOne \/ guard \in Videos) /\ guard' = guard
    BY <1>3 DEF PlaceVideo, GuardHeld
  <2>3. canvas' = [canvas EXCEPT ![v] = Rebuilt] /\ Push(Insertion(v, Rebuilt))
    BY <1>3 DEF PlaceVideo
  <2> HIDE DEF v
  <2> QED
    BY <1>1, <2>1, <2>2, <2>3
<1>4. CASE Delete
  <2>1. /\ sel \in Elements /\ canvas[sel] # Absent /\ canvas[sel] \in Inst
        /\ guard = NoOne \/ guard \in Videos
        /\ guard' = NoOne /\ Push(Removal(sel, canvas[sel]))
        /\ canvas' = [canvas EXCEPT ![sel] = Absent]
    BY <1>0, <1>4 DEF Delete, Key, CalmHands, GuardHeld, HandSound, Canvases
  <2>2. Linked(Picture(canvas), Picture([canvas EXCEPT ![sel] = Absent]), Removal(sel, canvas[sel]))
    BY <1>0, <2>1, LinkedRemove
  <2>3. Present = Picture(canvas) /\ Present' = Picture([canvas EXCEPT ![sel] = Absent])
    BY <2>1, PresentIs, PresentNext
  <2>4. Removal(sel, canvas[sel]) \in Commands
    BY <2>1, CommandsMade
  <2> QED
    BY <2>1, <2>2, <2>3, <2>4 DEF Pushes
<1> QED
  BY <1>2, <1>3, <1>4

\* Resizing or rebuilding the videos changes no picture.
LEMMA VideosKeep ==
  ASSUME CoreSound, CoreSound', GuardHeld, CalmHands, ZoomVideos \/ EnterTeach PROVE Stays
<1>0. canvas \in Canvases /\ RecordsSound /\ nextZ \in Nat /\ Shapes \cap Videos = {}
  BY ConstantFacts DEF CoreSound, CanvasSound
<1>1. UNCHANGED <<undo, redo, guard, snap>> /\ (guard = NoOne \/ guard \in Videos)
  BY DEF ZoomVideos, EnterTeach, drag, history, GuardHeld, CalmHands, Key
<1>2. ASSUME \A e \in Elements : /\ e \notin Videos => canvas'[e] = canvas[e]
                                 /\ canvas'[e] = Absent <=> canvas[e] = Absent
      PROVE  Stays
  <2>1. Picture(canvas') = Picture(canvas)
    BY <1>2 DEF Picture
  <2> QED
    BY <1>1, <2>1, PresentIs, PresentNext DEF Stays
<1>3. CASE ZoomVideos
  <2>1. PICK p \in Places :
          canvas' = [e \in Elements |-> IF e \in Videos /\ OnCanvas(e)
                                        THEN [canvas[e] EXCEPT !.at = p] ELSE canvas[e]]
    BY <1>3 DEF ZoomVideos
  <2>2. p \in At
    BY DEF At
  <2>3. ASSUME NEW e \in Elements
        PROVE  /\ e \notin Videos => canvas'[e] = canvas[e]
               /\ canvas'[e] = Absent <=> canvas[e] = Absent
    <3>1. CASE e \in Videos /\ OnCanvas(e)
      <4>1. canvas'[e] = [canvas[e] EXCEPT !.at = p] /\ canvas[e] # Absent
        BY <2>1, <3>1 DEF OnCanvas
      <4>2. canvas[e] \in Inst
        BY <1>0, <4>1 DEF Canvases
      <4> QED
        BY <2>2, <3>1, <4>1, <4>2, InstFacts
    <3>2. CASE ~(e \in Videos /\ OnCanvas(e))
      BY <2>1, <3>2
    <3> QED
      BY <3>1, <3>2
  <2> QED
    BY <1>2, <2>3
<1>4. CASE EnterTeach
  <2>1. CASE canvas' = canvas
    BY <1>2, <2>1
  <2>2. CASE canvas' = RebuiltVideos
    <3>1. ASSUME NEW e \in Elements
          PROVE  /\ e \notin Videos => canvas'[e] = canvas[e]
                 /\ canvas'[e] = Absent <=> canvas[e] = Absent
      <4> DEFINE k == CHOOSE i \in 1..Len(records) : records[i] = e
      <4>1. CASE \E i \in 1..Len(records) : records[i] = e
        <5>1. e \in On(canvas) /\ e \in Videos
          BY <1>0, <4>1 DEF RecordsSound, Items
        <5>2. canvas'[e] = [at |-> Loose, z |-> nextZ + k - 1] /\ k \in 1..Len(records)
          BY <2>2, <4>1 DEF RebuiltVideos
        <5>3. Len(records) \in Nat
          BY <1>0 DEF RecordsSound
        <5> HIDE DEF k
        <5>4. nextZ + k - 1 \in Nat
          BY <1>0, <5>2, <5>3
        <5>5. [at |-> Loose, z |-> nextZ + k - 1] \in Inst
          BY <5>4, InstFacts, ConstantFacts
        <5> QED
          BY <5>1, <5>2, <5>5, InstFacts DEF On
      <4>2. CASE ~\E i \in 1..Len(records) : records[i] = e
        BY <2>2, <4>2 DEF RebuiltVideos
      <4> QED
        BY <4>1, <4>2
    <3> QED
      BY <1>2, <3>1
  <2> QED
    BY <1>4, <2>1, <2>2 DEF EnterTeach
<1> QED
  BY <1>3, <1>4

\* So under calm hands every step keeps the picture, pushes one command, or
\* undoes or redoes one.
LEMMA StepCases ==
  ASSUME Inv, Inv', GuardHeld, CalmHands, [Next]_vars PROVE Stays \/ Pushes \/ Undo \/ Redo
<1>0. CoreSound /\ CoreSound' /\ VideoWaits
  BY DEF Inv
<1>1. CASE Mouse
  <2>1. CASE Release
    <3>1. canvas' = canvas
      BY <2>1 DEF Release, content
    <3> QED
      BY <1>0, <2>1, <3>1, LetGoMoves, StillKeeps DEF Release
  <2>2. CASE Leave \/ ChooseShape \/ ReleaseDot
    BY <1>0, <2>2, LetGoMoves DEF Leave, LetGo, ChooseShape, ReleaseDot, content
  <2>3. CASE ChooseTool
    BY <2>3, StillKeeps DEF ChooseTool, content
  <2> QED
    BY <1>0, <1>1, <2>1, <2>2, <2>3, DragKeeps, EditsPush DEF Mouse
<1>2. CASE Escape \/ ToolKey \/ PickVideo \/ UNCHANGED vars
  BY <1>2, StillKeeps DEF Escape, ToolKey, PickVideo, vars, content, drag
<1>3. CASE ExitTeach
  BY <1>0, <1>3, LetGoMoves DEF ExitTeach, content
<1> QED
  BY <1>0, <1>1, <1>2, <1>3, EditsPush, VideosKeep DEF Next, Keyboard

-----------------------------------------------------------------------------
(* Undo and redo move along the pictures *)

\* The commands lead along the pictures p and f that undoing and redoing pass.
Lines(p, f) ==
    /\ p \in Seq(Pictures) /\ Leads(p, undo, Present, Edits)
    /\ f \in Seq(Pictures) /\ Leads(f, redo, Present, Steps)

PicturesLine == \E p, f \in Seq(Pictures) : Lines(p, f)

\* They are then the lines that Back and Ahead compute.
LineFact ==
    /\ CoreSound => Present \in Pictures
    /\ \A p, f : CoreSound /\ Lines(p, f) => Past = p /\ Future = f

\* The present is a picture.
LEMMA PresentType == CoreSound => Present \in Pictures
  BY SettledType, PictureIs DEF CoreSound, Present

\* This holds in every state.
LEMMA LinesAre == LineFact
  BY PastIs, FutureIs, PresentType DEF LineFact, PastFact, FutureFact, Lines, CoreSound

\* A push extends the line of the past and ends that of the future.
LEMMA PushLines ==
  ASSUME CoreSound, NEW p, NEW f, Lines(p, f), NEW c \in Commands, Push(c),
         NEW x \in Pictures, x = Present, NEW y, y = Present', Linked(x, y, c), y \in Pictures
  PROVE  Lines(Capped(Append(p, x)), <<>>)'
<1> DEFINE w == Append(undo, c)
           q == Append(p, x)
<1>1. undo \in Seq(Commands) /\ undo' = Capped(w) /\ redo' = <<>>
  BY DEF CoreSound, HistorySound, Push
<1>2. <<x, y>> \in Edits[c]
  BY LinkedFacts
<1>3. q \in Seq(Pictures) /\ Leads(q, w, y, Edits)
  BY <1>1, <1>2, LeadsPush DEF Lines
<1>4. w \in Seq(Commands)
  BY <1>1
<1> HIDE DEF w, q
<1>5. Capped(q) \in Seq(Pictures) /\ Leads(Capped(q), Capped(w), y, Edits)
  BY <1>3, <1>4, LeadsCapped
<1>6. <<>> \in Seq(Pictures) /\ Leads(<<>>, <<>>, y, Steps)
  BY LeadsNowhere
<1> QED
  BY <1>1, <1>5, <1>6 DEF Lines, q

\* Undoing goes one picture back and keeps the present one for redoing.
LEMMA UndoLines ==
  ASSUME CoreSound, NEW p, NEW f, Lines(p, f), Undo, CoreSound',
         guard = NoOne \/ guard \in Videos, NEW x \in Pictures, x = Present
  PROVE  /\ p # <<>> /\ Present' = p[Len(p)]
         /\ Lines(SubSeq(p, 1, Len(p) - 1), Append(f, x))'
<1> DEFINE n == Len(undo)
           c == undo[n]
           y == p[Len(p)]
<1>1. /\ undo # <<>> /\ undo' = SubSeq(undo, 1, n - 1) /\ redo' = Capped(Append(redo, c))
      /\ canvas' = Reverted(canvas, c) /\ guard' = guard
  BY DEF Undo
<1>2. /\ undo \in Seq(Commands) /\ redo \in Seq(Commands) /\ Len(undo) + Len(redo) <= MaxDepth
      /\ canvas \in Canvases /\ nextZ \in Nat
  BY DEF CoreSound, HistorySound, CanvasSound
<1>3. c \in Commands /\ n \in Nat /\ n >= 1
  BY <1>1, <1>2, FrontFacts
<1>4. /\ p # <<>> /\ y \in Pictures /\ <<y, x>> \in Edits[c]
      /\ SubSeq(p, 1, Len(p) - 1) \in Seq(Pictures)
      /\ Leads(SubSeq(p, 1, Len(p) - 1), SubSeq(undo, 1, n - 1), y, Edits)
  BY <1>1, <1>2, LeadsPop DEF Lines
<1>5. redo' = Append(redo, c)
  <2>1. Len(redo) \in Nat /\ Len(redo) <= MaxDepth /\ Len(redo) < MaxDepth
    BY <1>2, <1>3, ConstantFacts
  <2> HIDE DEF c
  <2> QED
    BY <1>1, <1>2, <1>3, <2>1, CappedAppend
<1>6. Present' = y
  <2>1. Linked(y, x, c)
    BY <1>3, <1>4, LinkedFacts
  <2>2. Picture(Reverted(canvas, c)) = Before(Picture(canvas), c)
    BY <1>2, <1>3, PictureReverted
  <2>3. x = Picture(canvas) /\ Present' = Picture(canvas')
    BY <1>1, PresentIs, PresentNext
  <2>4. Picture(canvas') = Picture(Reverted(canvas, c))
    BY <1>1
  <2> HIDE DEF c, y
  <2> QED
    BY <2>1, <2>2, <2>3, <2>4 DEF Linked
<1>7. <<x, y>> \in Steps[c]
  BY <1>3, <1>4, LinkedFacts
<1>8. Append(f, x) \in Seq(Pictures) /\ Leads(Append(f, x), Append(redo, c), y, Steps)
  <2>1. f \in Seq(Pictures) /\ Leads(f, redo, x, Steps)
    BY DEF Lines
  <2> HIDE DEF c, y
  <2> QED
    BY <1>2, <1>3, <1>4, <1>7, <2>1, LeadsPush
<1> HIDE DEF c, y
<1>9. Lines(SubSeq(p, 1, Len(p) - 1), Append(f, x))'
  BY <1>1, <1>4, <1>5, <1>6, <1>8 DEF Lines
<1> QED
  BY <1>4, <1>6, <1>9 DEF y

\* Redoing goes one picture on.
LEMMA RedoLines ==
  ASSUME CoreSound, NEW p, NEW f, Lines(p, f), Redo, CoreSound',
         guard = NoOne \/ guard \in Videos, NEW x \in Pictures, x = Present
  PROVE  /\ f # <<>> /\ Present' = f[Len(f)]
         /\ Lines(Capped(Append(p, x)), SubSeq(f, 1, Len(f) - 1))'
<1> DEFINE n == Len(redo)
           c == redo[n]
           y == f[Len(f)]
<1>1. /\ redo # <<>> /\ redo' = SubSeq(redo, 1, n - 1) /\ undo' = Capped(Append(undo, c))
      /\ canvas' = Reapplied(canvas, c) /\ guard' = guard
  BY DEF Redo
<1>2. /\ undo \in Seq(Commands) /\ redo \in Seq(Commands)
      /\ canvas \in Canvases /\ nextZ \in Nat
  BY DEF CoreSound, HistorySound, CanvasSound
<1>3. c \in Commands
  BY <1>1, <1>2, FrontFacts
<1>4. /\ f # <<>> /\ y \in Pictures /\ <<y, x>> \in Steps[c]
      /\ SubSeq(f, 1, Len(f) - 1) \in Seq(Pictures)
      /\ Leads(SubSeq(f, 1, Len(f) - 1), SubSeq(redo, 1, n - 1), y, Steps)
  BY <1>1, <1>2, LeadsPop DEF Lines
<1>6. Present' = y
  <2>1. Linked(x, y, c)
    BY <1>3, <1>4, LinkedFacts
  <2>2. Picture(Reapplied(canvas, c)) = After(Picture(canvas), c)
    BY <1>2, <1>3, PictureReapplied
  <2>3. x = Picture(canvas) /\ Present' = Picture(canvas')
    BY <1>1, PresentIs, PresentNext
  <2>4. Picture(canvas') = Picture(Reapplied(canvas, c))
    BY <1>1
  <2> HIDE DEF c, y
  <2> QED
    BY <2>1, <2>2, <2>3, <2>4 DEF Linked
<1>7. <<x, y>> \in Edits[c]
  BY <1>3, <1>4, LinkedFacts
<1> DEFINE w == Append(undo, c)
           q == Append(p, x)
<1>8. q \in Seq(Pictures) /\ Leads(q, w, y, Edits) /\ w \in Seq(Commands)
  <2>1. p \in Seq(Pictures) /\ Leads(p, undo, x, Edits)
    BY DEF Lines
  <2> HIDE DEF c, y
  <2> QED
    BY <1>2, <1>3, <1>4, <1>7, <2>1, LeadsPush
<1> HIDE DEF c, y
<1>9. Capped(q) \in Seq(Pictures) /\ Leads(Capped(q), Capped(w), y, Edits)
  <2> HIDE DEF q, w
  <2> QED
    BY <1>8, LeadsCapped
<1>10. Lines(Capped(Append(p, x)), SubSeq(f, 1, Len(f) - 1))'
  <2>1. undo' = Capped(w)
    BY <1>1
  <2> HIDE DEF w
  <2> QED
    BY <1>1, <1>4, <1>6, <1>9, <2>1 DEF Lines
<1> QED
  BY <1>4, <1>6, <1>10 DEF y

\* The timeline's steps, on the pictures of this canvas.
LEMMA TimelineSteps ==
  /\ Past' = Capped(Append(Past, Present)) /\ Future' = <<>> => Timeline!Edit
  /\ /\ Past # <<>> /\ Present' = Past[Len(Past)]
     /\ Past' = SubSeq(Past, 1, Len(Past) - 1) /\ Future' = Append(Future, Present)
     => Timeline!Undo
  /\ /\ Future # <<>> /\ Present' = Future[Len(Future)]
     /\ Future' = SubSeq(Future, 1, Len(Future) - 1) /\ Past' = Capped(Append(Past, Present))
     => Timeline!Redo
  BY DEF Timeline!Edit, Timeline!Undo, Timeline!Redo, Timeline!Remember, Timeline!Last,
     Timeline!Front, Past, Present, Future, Capped

\* Each step keeps a line of pictures and moves along it.
LEMMA TimelineStep ==
  ASSUME Inv, Inv', GuardHeld, CalmHands, PicturesLine, LineFact, LineFact', [Next]_vars
  PROVE  PicturesLine' /\ (Timeline!Next \/ UNCHANGED <<Past, Present, Future>>)
<1>0. CoreSound /\ CoreSound' /\ Present \in Pictures
  BY PresentType DEF Inv
<1>1. PICK p \in Seq(Pictures), f \in Seq(Pictures) : Lines(p, f)
  BY DEF PicturesLine
<1>2. Past = p /\ Future = f
  BY <1>0, <1>1 DEF LineFact
<1>3. ASSUME NEW q, NEW g, Lines(q, g)'
      PROVE  PicturesLine' /\ Past' = q /\ Future' = g
  BY <1>0, <1>3 DEF LineFact, Lines, PicturesLine
<1>4. PICK x \in Pictures : x = Present
  BY <1>0
<1>5. CASE Stays
  <2>1. Lines(p, f)'
    BY <1>1, <1>5 DEF Stays, Lines
  <2> QED
    BY <1>2, <1>3, <1>5, <2>1 DEF Stays
<1>6. CASE Pushes
  <2>1. PICK c \in Commands : Push(c) /\ Linked(Present, Present', c)
    BY <1>6 DEF Pushes
  <2>2. Present' \in Pictures
    BY <1>0 DEF LineFact
  <2>3. PICK y \in Pictures : y = Present'
    BY <2>2
  <2>4. Linked(x, y, c)
    BY <1>4, <2>1, <2>3
  <2>5. Lines(Capped(Append(p, x)), <<>>)'
    BY <1>0, <1>1, <1>4, <2>1, <2>3, <2>4, PushLines
  <2>6. PicturesLine' /\ Past' = Capped(Append(p, x)) /\ Future' = <<>>
    BY <1>3, <2>5
  <2> QED
    BY <1>2, <1>4, <2>6, TimelineSteps DEF Timeline!Next
<1>7. CASE (Undo \/ Redo) /\ ~Stays
  <2>1. guard = NoOne \/ guard \in Videos
    BY <1>7 DEF Undo, Redo, Key, CalmHands, GuardHeld
  <2>2. CASE Undo
    <3>1. p # <<>> /\ Present' = p[Len(p)] /\ Lines(SubSeq(p, 1, Len(p) - 1), Append(f, x))'
      BY <1>0, <1>1, <1>4, <2>1, <2>2, UndoLines
    <3>2. PicturesLine' /\ Past' = SubSeq(p, 1, Len(p) - 1) /\ Future' = Append(f, x)
      BY <1>3, <3>1
    <3> QED
      BY <1>2, <1>4, <3>1, <3>2, TimelineSteps DEF Timeline!Next
  <2>3. CASE Redo
    <3>1. f # <<>> /\ Present' = f[Len(f)] /\ Lines(Capped(Append(p, x)), SubSeq(f, 1, Len(f) - 1))'
      BY <1>0, <1>1, <1>4, <2>1, <2>3, RedoLines
    <3>2. PicturesLine' /\ Past' = Capped(Append(p, x)) /\ Future' = SubSeq(f, 1, Len(f) - 1)
      BY <1>3, <3>1
    <3> QED
      BY <1>2, <1>4, <3>1, <3>2, TimelineSteps DEF Timeline!Next
  <2> QED
    BY <1>7, <2>2, <2>3
<1> QED
  BY <1>5, <1>6, <1>7, StepCases

\* The empty canvas is the start of a timeline.
LEMMA TimelineInit == Init => PicturesLine /\ Timeline!Init
<1> SUFFICES ASSUME Init PROVE PicturesLine /\ Timeline!Init
  OBVIOUS
<1>1. undo = <<>> /\ redo = <<>> /\ guard = NoOne /\ canvas = [e \in Elements |-> Absent]
  BY DEF Init
<1>2. <<>> \in Seq(Pictures) /\ Leads(<<>>, <<>>, Present, Edits) /\ Leads(<<>>, <<>>, Present, Steps)
  BY LeadsNowhere
<1>3. Lines(<<>>, <<>>)
  BY <1>1, <1>2 DEF Lines
<1>4. PicturesLine
  BY <1>2, <1>3 DEF PicturesLine
<1>5. Present = [e \in Elements |-> Absent]
  BY <1>1 DEF Present, Settled, Picture
<1>6. Past = <<>> /\ Future = <<>>
  BY <1>3, CoreInit, LinesAre DEF LineFact
<1> QED
  BY <1>4, <1>5, <1>6 DEF Timeline!Init, Past, Present, Future

(* Under calm hands undo and redo move along the pictures the canvas has *)
(* been (undo.rs:71-115): the canvas implements UndoTimeline.            *)
THEOREM TimelineImplemented == CalmHands => (Spec => ImplementsTimeline)
<1> SUFFICES ASSUME CalmHands PROVE Spec => ImplementsTimeline
  OBVIOUS
<1>1. Inv /\ Inv' /\ GuardHeld /\ PicturesLine /\ LineFact /\ LineFact' /\ [Next]_vars
        => PicturesLine' /\ [Timeline!Next]_<<Past, Present, Future>>
  BY TimelineStep
<1> QED
  BY <1>1, TimelineInit, LinesAre, InvHolds, HeldInit, HeldStep, PTL
     DEF Spec, ImplementsTimeline, Timeline!Spec, Past, Present, Future
=============================================================================
