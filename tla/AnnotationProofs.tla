--------------------------- MODULE AnnotationProofs ---------------------------
(***************************************************************************)
(* What the ink of the teaching window never loses and never leaves        *)
(* behind, for every set of documents and of places, every page and every  *)
(* bound.                                                                  *)
(***************************************************************************)
EXTENDS Annotation, ListsProofs, TLAPS

-----------------------------------------------------------------------------
(* Merging *)

\* What merging makes of t, the board before the stroke i of b.
MergeStep(b, J, t, i) ==
    IF i \in J THEN [t EXCEPT ![Len(t)] = @ \o b[i]] ELSE Append(t, b[i])

Merging(b, J, f) ==
    f = [i \in 0..Len(b) |-> IF i = 0 THEN <<>> ELSE MergeStep(b, J, f[i - 1], i)]

\* Two strokes that can be seen make one.
LEMMA JoinVisible ==
  ASSUME NEW s \in Visible, NEW t \in Visible
  PROVE  s \o t \in Visible
<1>1. s \in Seq(Places) /\ t \in Seq(Places) /\ Len(s) >= 2 /\ Len(t) >= 2
  BY DEF Visible, Strokes
<1>2. s \o t \in Seq(Places) /\ Len(s \o t) = Len(s) + Len(t)
  BY <1>1
<1> QED
  BY <1>1, <1>2 DEF Visible, Strokes

\* A step of the merge keeps a board a board.
LEMMA MergeStepType ==
  ASSUME NEW b \in Seq(Visible), NEW J, NEW t \in Seq(Visible), NEW i \in 1..Len(b)
  PROVE  MergeStep(b, J, t, i) \in Seq(Visible)
<1>1. b[i] \in Visible
  OBVIOUS
<1>2. CASE i \in J
  <2> DEFINE u == [t EXCEPT ![Len(t)] = @ \o b[i]]
  <2>1. Len(t) \in Nat /\ DOMAIN t = 1..Len(t) /\ \A j \in 1..Len(t) : t[j] \in Visible
    OBVIOUS
  <2>2. ASSUME NEW j \in 1..Len(t) PROVE u[j] \in Visible
    BY <1>1, <2>1, JoinVisible
  <2>3. u \in [1..Len(t) -> Visible]
    BY <2>1, <2>2
  <2>4. u \in Seq(Visible)
    BY <2>1, <2>3, SeqDef
  <2> QED
    BY <1>2, <2>4 DEF MergeStep
<1>3. CASE i \notin J
  BY <1>1, <1>3 DEF MergeStep
<1> QED
  BY <1>2, <1>3

\* Merging leaves only strokes that can be seen where there were no others.
LEMMA MergedVisible ==
  ASSUME NEW b \in Seq(Visible), NEW J
  PROVE  Merged(b, J) \in Seq(Visible)
<1> DEFINE n == Len(b)
           T == Seq(Visible)
           step == [i \in 1..n |-> [t \in T |-> MergeStep(b, J, t, i)]]
           none == <<>>
           upTo == CHOOSE f : Merging(b, J, f)
<1>1. n \in Nat /\ none \in T /\ step \in [1..n -> [T -> T]]
  BY MergeStepType
<1>2. \A i \in 1..n : step[i] = [t \in T |-> MergeStep(b, J, t, i)]
  OBVIOUS
<1>3. PICK f : Runs(f, n, T, none, step)
  <2> HIDE DEF step, n, T, none
  <2> QED
    BY <1>1, Recursion
<1>4. Merging(b, J, f)
  <2> DEFINE g == [i \in 0..n |-> IF i = 0 THEN none ELSE MergeStep(b, J, f[i - 1], i)]
  <2>1. ASSUME NEW i \in 0..n PROVE f[i] = g[i]
    <3>1. g[i] = IF i = 0 THEN none ELSE MergeStep(b, J, f[i - 1], i)
      OBVIOUS
    <3> HIDE DEF g, step, T, n, none
    <3>2. i # 0 => i \in 1..n /\ i - 1 \in 0..n
      BY <1>1
    <3> QED
      BY <3>1, <3>2, <1>2, <1>3 DEF Runs
  <2>2. f = g
    <3>1. DOMAIN g = 0..n /\ g = [i \in 0..n |-> g[i]]
      OBVIOUS
    <3>2. DOMAIN f = 0..n /\ f = [i \in 0..n |-> f[i]]
      BY <1>3 DEF Runs
    <3> HIDE DEF g
    <3> QED
      BY <2>1, <3>1, <3>2
  <2> QED
    BY <2>2 DEF Merging
<1>5. Merging(b, J, upTo)
  BY <1>4
<1>6. Merged(b, J) = upTo[n]
  BY DEF Merged, Merging, MergeStep
<1> HIDE DEF upTo
<1>7. Runs(upTo, n, T, none, step)
  <2>1. \A i \in 0..n : upTo[i] = IF i = 0 THEN none ELSE MergeStep(b, J, upTo[i - 1], i)
    BY <1>5 DEF Merging
  <2>2. Spans(upTo, n)
    BY <1>5 DEF Merging, Spans
  <2> HIDE DEF n, T, none, step
  <2>3. upTo[0] = none
    BY <1>1, <2>1
  <2>4. ASSUME NEW i \in 1..n, upTo[i - 1] \in T PROVE upTo[i] = step[i][upTo[i - 1]]
    BY <1>1, <1>2, <2>1, <2>4
  <2> QED
    BY <1>1, <2>2, <2>3, <2>4, RunsAlong
<1>8. upTo[n] \in T
  <2> HIDE DEF n, T, none, step
  <2> QED
    BY <1>1, <1>7 DEF Runs
<1> QED
  BY <1>6, <1>8

-----------------------------------------------------------------------------
(* Erasing *)

\* A stroke has marks only at places.
LEMMA VisibleMarks ==
  ASSUME NEW s \in Visible
  PROVE  /\ s \in Seq(Places) /\ Len(s) \in Nat /\ Len(s) >= 2
         /\ Marks(s) = Items(s) /\ Marks(s) \subseteq Places
<1>1. s \in Seq(Places) /\ Len(s) >= 2
  BY DEF Visible, Strokes
<1> QED
  BY <1>1 DEF Marks, Items

\* Wiping a board at m takes no mark elsewhere, and every mark at m from the
\* strokes that were hit.
LEMMA WipedStroke ==
  ASSUME NEW ix, NEW m \in Places, strokes \in Seq(Visible), NEW i \in 1..Len(strokes)
  PROVE  /\ Wiped(ix, m)[i] \in Strokes
         /\ i \in Hit(ix, m) => m \notin Marks(Wiped(ix, m)[i])
         /\ i \notin Hit(ix, m) => Wiped(ix, m)[i] = strokes[i]
<1> DEFINE s == strokes[i]
<1>1. s \in Visible /\ i \in DOMAIN strokes
  OBVIOUS
<1>2. s \in Seq(Places)
  BY <1>1, VisibleMarks
<1>3. Wiped(ix, m)[i] = IF i \in Hit(ix, m) THEN Sift(s, Places \ {m}) ELSE s
  BY <1>1 DEF Wiped
<1>4. /\ Sift(s, Places \ {m}) \in Seq(Places)
      /\ Items(Sift(s, Places \ {m})) = Items(s) \cap (Places \ {m})
  BY <1>2, SiftItems
<1>5. m \notin Marks(Sift(s, Places \ {m}))
  <2> DEFINE u == Sift(s, Places \ {m})
  <2>1. u \in Seq(Places) /\ m \notin Items(u)
    BY <1>4
  <2> HIDE DEF u
  <2>2. Marks(u) = Items(u)
    BY <2>1 DEF Marks, Items
  <2>3. m \notin Marks(u)
    BY <2>1, <2>2
  <2> QED
    BY <2>3 DEF u
<1> QED
  BY <1>2, <1>3, <1>4, <1>5 DEF Strokes

\* Wiping a place leaves a board.
LEMMA WipedBoard ==
  ASSUME NEW ix, NEW m \in Places, strokes \in Seq(Visible)
  PROVE  Wiped(ix, m) \in Seq(Strokes) /\ Len(Wiped(ix, m)) = Len(strokes)
<1> DEFINE n == Len(strokes)
           w == Wiped(ix, m)
<1>1. n \in Nat /\ DOMAIN strokes = 1..n
  OBVIOUS
<1>2. w = [i \in 1..n |-> w[i]]
  BY <1>1 DEF Wiped
<1>3. \A i \in 1..n : w[i] \in Strokes
  BY WipedStroke
<1> HIDE DEF w
<1>4. w \in [1..n -> Strokes]
  BY <1>2, <1>3
<1>5. w \in Seq(Strokes)
  BY <1>1, <1>4, SeqDef
<1>6. Len(w) = n
  BY <1>1, <1>4, <1>5
<1> QED
  BY <1>5, <1>6 DEF w

\* What the eraser leaves can be seen.
LEMMA CompactedVisible ==
  ASSUME NEW ix, NEW m \in Places, strokes \in Seq(Visible)
  PROVE  Compacted(Wiped(ix, m), Hit(ix, m)) \in Seq(Visible)
<1> DEFINE w == Wiped(ix, m)
<1>1. w \in Seq(Strokes) /\ Len(w) = Len(strokes)
  BY WipedBoard
<1>2. CASE \E i \in Hit(ix, m) : Len(w[i]) < 2
  <2>1. Compacted(w, Hit(ix, m)) = Sift(w, Visible)
    BY <1>2 DEF Compacted
  <2> HIDE DEF w
  <2>2. Sift(w, Visible) \in Seq(Strokes) /\ Items(Sift(w, Visible)) \subseteq Visible
    BY <1>1, SiftItems
  <2>3. Sift(w, Visible) \in Seq(Visible)
    BY <2>2, ItemsType
  <2> QED
    BY <2>1, <2>3 DEF w
<1>3. CASE ~\E i \in Hit(ix, m) : Len(w[i]) < 2
  <2>1. Compacted(w, Hit(ix, m)) = w
    BY <1>3 DEF Compacted
  <2>2. ASSUME NEW i \in 1..Len(w) PROVE w[i] \in Visible
    <3>1. i \in 1..Len(strokes) /\ strokes[i] \in Visible
      BY <1>1
    <3>2. CASE i \in Hit(ix, m)
      <4>1. w[i] \in Strokes /\ ~(Len(w[i]) < 2)
        BY <3>1, <3>2, <1>3, WipedStroke
      <4>2. Len(w[i]) \in Nat
        BY <4>1 DEF Strokes
      <4> QED
        BY <4>1, <4>2 DEF Visible
    <3>3. CASE i \notin Hit(ix, m)
      BY <3>1, <3>3, WipedStroke
    <3> QED
      BY <3>2, <3>3
  <2> HIDE DEF w
  <2>3. w \in Seq(Visible)
    BY <1>1, <2>2
  <2> QED
    BY <2>1, <2>3 DEF w
<1> QED
  BY <1>2, <1>3

\* The box of a stroke that can be seen has its sides.
LEMMA Bounds ==
  ASSUME NEW s \in Visible
  PROVE  /\ \E x \in Marks(s) : \A n \in Marks(s) : x <= n
         /\ \E y \in Marks(s) : \A n \in Marks(s) : y >= n
<1>1. /\ s \in Seq(Places) /\ Len(s) \in Nat /\ Len(s) >= 2
      /\ Marks(s) = Items(s) /\ Marks(s) \subseteq Nat
  BY VisibleMarks, AnnotationAssumption
<1>2. s[1] \in Marks(s)
  BY <1>1 DEF Items
<1>3. \E x \in Marks(s) : \A n \in Marks(s) : x <= n
  BY <1>1, <1>2, Least
<1>4. s \in Seq(Nat) /\ s # <<>>
  <2>1. Items(s) \subseteq Nat
    BY <1>1
  <2>2. s \in Seq(Nat)
    BY <1>1, <2>1, ItemsType
  <2> QED
    BY <1>1, <2>2
<1>5. \E y \in Items(s) : \A n \in Items(s) : y >= n
  BY <1>4, Greatest
<1> QED
  BY <1>1, <1>3, <1>5

\* Where the index is that of the board, the eraser hits every stroke with a
\* mark at m.
LEMMA HitAll ==
  ASSUME NEW m \in Places, strokes \in Seq(Visible),
         NEW i \in 1..Len(strokes), m \in Marks(strokes[i])
  PROVE  i \in Hit(IndexOf(strokes), m)
<1> DEFINE s  == strokes[i]
           ix == IndexOf(strokes)
<1>1. s \in Visible /\ i \in DOMAIN strokes
  OBVIOUS
<1>2. Len(s) >= 2 /\ Marks(s) \subseteq Places
  BY <1>1, VisibleMarks
<1>3. i \in DOMAIN ix /\ ix[i] = [lo |-> CHOOSE x \in Marks(s) : \A n \in Marks(s) : x <= n,
                                  hi |-> CHOOSE x \in Marks(s) : \A n \in Marks(s) : x >= n]
  BY <1>1, <1>2 DEF IndexOf
<1>4. PICK x \in Marks(s) : \A n \in Marks(s) : x <= n
  BY <1>1, Bounds
<1>5. PICK y \in Marks(s) : \A n \in Marks(s) : y >= n
  BY <1>1, Bounds
<1>6. ix[i].lo <= m
  BY <1>3, <1>4
<1>7. m <= ix[i].hi
  <2>1. ix[i].hi >= m
    BY <1>3, <1>5
  <2>2. ix[i].hi \in Nat /\ m \in Nat
    <3>1. ix[i].hi \in Marks(s)
      BY <1>3, <1>5
    <3> QED
      BY <3>1, <1>2, AnnotationAssumption
  <2> QED
    BY <2>1, <2>2
<1> QED
  BY <1>1, <1>3, <1>6, <1>7 DEF Hit, Candidates

-----------------------------------------------------------------------------
(* Types, and what survives an Exit *)

Boards == Seq(Visible)

\* What a board is made of.
LEMMA BoardFacts ==
    /\ <<>> \in Boards /\ Layers \subseteq Boards
    /\ NoFile \notin Boards /\ Torn \notin Boards /\ Torn # NoFile
    /\ \A b \in Boards : b \in Seq(Strokes)
    /\ NoDoc \in Docs
    /\ NoFile \notin [board : Boards, home : Docs]
<1>1. \A b \in Boards : b \in Seq(Strokes)
  BY DEF Boards, Visible
<1> QED
  BY <1>1, AnnotationAssumption DEF Boards

\* What a cache file or a patch file can hold.
Copies == Boards \cup {NoFile, Torn}

Boxes(ix) == \A i \in DOMAIN ix : i \in Nat /\ ix[i] \in [lo : Places, hi : Places]

\* An index built from a board boxes its marks.
LEMMA IndexBoxes == ASSUME NEW b \in Boards PROVE Boxes(IndexOf(b))
<1> SUFFICES ASSUME NEW i \in DOMAIN IndexOf(b)
             PROVE  i \in Nat /\ IndexOf(b)[i] \in [lo : Places, hi : Places]
  BY DEF Boxes
<1>1. i \in 1..Len(b) /\ b[i] \in Visible /\ i \in Nat
  BY DEF IndexOf, Boards
<1>2. Marks(b[i]) \subseteq Places
  BY <1>1, VisibleMarks
<1>3. IndexOf(b)[i] = [lo |-> CHOOSE x \in Marks(b[i]) : \A n \in Marks(b[i]) : x <= n,
                       hi |-> CHOOSE x \in Marks(b[i]) : \A n \in Marks(b[i]) : x >= n]
  BY DEF IndexOf
<1>4. PICK x \in Marks(b[i]) : \A n \in Marks(b[i]) : x <= n
  BY <1>1, Bounds
<1>5. PICK y \in Marks(b[i]) : \A n \in Marks(b[i]) : y >= n
  BY <1>1, Bounds
<1>6. (CHOOSE z \in Marks(b[i]) : \A n \in Marks(b[i]) : z <= n) \in Places
  BY <1>2, <1>4
<1>7. (CHOOSE z \in Marks(b[i]) : \A n \in Marks(b[i]) : z >= n) \in Places
  BY <1>2, <1>5
<1> QED
  BY <1>1, <1>3, <1>6, <1>7

\* Where the UI thread is.
ThreadSound ==
    /\ host \in {"none", "display", "desktop"} /\ pc \in Points /\ then \in Afters
    /\ host = "none" => pc = "idle"

InkSound ==
    /\ strokes \in Boards /\ current \in Strokes
    /\ modified \in BOOLEAN /\ dirty \in BOOLEAN /\ Boxes(index)

PlacesSound ==
    /\ pending \in BOOLEAN /\ elapsed \in BOOLEAN /\ failed \in BOOLEAN
    /\ doc \in Docs /\ home \in Docs
    /\ file \in [Docs -> Copies] /\ patch \in Copies
    /\ page \in Boards /\ left \in [board : Boards, home : Docs] \cup {NoFile}
    /\ ops \in 0 .. MaxOps /\ fails \in 0 .. MaxFails

\* The board an Exit wrote is in the cache file of the document its window had
\* been started on as long as nobody opens one.
FileSound ==
    /\ Showing => left = NoFile
    /\ host = "none" /\ left # NoFile => file[left.home] = left.board

Sound == ThreadSound /\ InkSound /\ PlacesSound /\ FileSound

\* The bounds count within their limits.
LEMMA Counted ==
  /\ 0 \in 0 .. MaxOps /\ 0 \in 0 .. MaxFails
  /\ PlacesSound /\ Work => ops' \in 0 .. MaxOps
  /\ PlacesSound /\ CanFail => fails' \in 0 .. MaxFails
<1>1. MaxOps \in Nat /\ MaxFails \in Nat
  BY AnnotationAssumption
<1> QED
  BY <1>1 DEF PlacesSound, Work, CanFail

\* Removing a cache file tears none and spares every other one.
LEMMA RemovedFacts ==
  ASSUME PlacesSound, NEW d \in Docs, Removed(d)
  PROVE  /\ file' \in [Docs -> Copies] /\ fails' \in 0 .. MaxFails
         /\ file'[d] \in {file[d], NoFile}
         /\ \A e \in Docs \ {d} : file'[e] = file[e]
<1>1. file \in [Docs -> Copies] /\ NoFile \in Copies
  BY DEF PlacesSound, Copies
<1>2. fails' \in 0 .. MaxFails
  BY Counted DEF Removed, PlacesSound
<1>3. CASE file' = [file EXCEPT ![d] = NoFile]
  BY <1>1, <1>2, <1>3
<1>4. CASE file' = file
  BY <1>1, <1>2, <1>4
<1> QED
  BY <1>3, <1>4 DEF Removed

\* The closed program is sound.
LEMMA SoundInit == Init => Sound
<1> SUFFICES ASSUME Init PROVE Sound
  OBVIOUS
<1>1. Boxes(<<>>) /\ <<>> \in Strokes
  BY DEF Boxes, Strokes
<1>2. ThreadSound /\ InkSound
  BY <1>1, BoardFacts DEF Init, ThreadSound, InkSound, Points, Afters
<1>3. PlacesSound
  BY BoardFacts, Counted DEF Init, PlacesSound, Copies
<1>4. FileSound
  BY BoardFacts DEF Init, FileSound, Showing
<1> QED
  BY <1>2, <1>3, <1>4 DEF Sound

\* A program that is gone has nothing that could be unsound.
LEMMA GoneSound == Gone => ThreadSound' /\ InkSound' /\ ~Showing' /\ failed' = FALSE
                           /\ pending' = FALSE /\ elapsed' = FALSE /\ patch' \in Copies
                           /\ doc' \in Docs /\ home' \in Docs
<1>1. Boxes(<<>>) /\ <<>> \in Strokes
  BY DEF Boxes, Strokes
<1> QED
  BY <1>1, BoardFacts DEF Gone, ThreadSound, InkSound, Points, Afters, Showing, Copies

\* Starting and opening keep the invariant.
LEMMA OpeningSound ==
  ASSUME Sound, NEW h \in {"display", "desktop"}, NEW d \in Docs, Start(h, d)
  PROVE  Sound'
<1>1. Boxes(<<>>) /\ <<>> \in Strokes
  BY DEF Boxes, Strokes
<1>2. Recovered(d) \in Boards
  <2>1. file[d] \in Copies
    BY DEF Sound, PlacesSound
  <2> QED
    BY <2>1, BoardFacts DEF Recovered, Copies
<1>3. ThreadSound' /\ InkSound'
  BY <1>1, <1>2 DEF Start, Sound, ThreadSound, InkSound, PlacesSound, Points, Afters
<1>4. PlacesSound' /\ FileSound'
  <2>1. file' \in [Docs -> Copies] /\ fails' \in 0 .. MaxFails
    BY RemovedFacts DEF Start, Sound, PlacesSound
  <2> QED
    BY <2>1 DEF Start, Sound, PlacesSound, FileSound, Showing, Copies
<1> QED
  BY <1>3, <1>4 DEF Sound

\* So do leaving, a crash and a power loss.
LEMMA EndingSound == ASSUME Sound, ExitTeach \/ Crash \/ PowerLoss PROVE Sound'
<1>1. Gone
  BY DEF ExitTeach, Crash, PowerLoss
<1>2. PlacesSound'
  <2>1. CASE ExitTeach \/ Crash
    BY <1>1, <2>1, GoneSound, BoardFacts
       DEF ExitTeach, Crash, Sound, InkSound, PlacesSound, bounds
  <2>2. CASE PowerLoss
    <3>1. fails' \in 0 .. MaxFails /\ ops' = ops
      BY <2>2, Counted DEF PowerLoss, Sound
    <3>2. file' \in [Docs -> Copies]
      <4>1. PICK f \in {file[home], Torn, NoFile} : file' = [file EXCEPT ![home] = f]
        BY <2>2 DEF PowerLoss
      <4>2. file \in [Docs -> Copies] /\ f \in Copies
        BY <4>1 DEF Sound, PlacesSound, Copies
      <4> QED
        BY <4>1, <4>2
    <3> QED
      BY <1>1, <2>2, <3>1, <3>2, GoneSound, BoardFacts DEF PowerLoss, Sound, PlacesSound
  <2> QED
    BY <2>1, <2>2
<1>3. FileSound'
  BY <1>1, GoneSound DEF ExitTeach, Crash, PowerLoss, Sound, FileSound, Showing
<1> QED
  BY <1>1, <1>2, <1>3, GoneSound DEF Sound

\* So does every step of a save.
LEMMA FlushSound == ASSUME Sound, WriteTmp \/ Rename \/ FlushFails PROVE Sound'
<1>0. ASSUME Rename PROVE file' \in [Docs -> Copies] /\ file'[home] = strokes
  <2>1. file \in [Docs -> Copies] /\ strokes \in Copies /\ home \in Docs
    BY DEF Sound, PlacesSound, InkSound, Copies
  <2> QED
    BY <1>0, <2>1 DEF Rename
<1>1. CASE WriteTmp
  BY <1>1 DEF WriteTmp, shown, ink, cache, bounds, Sound, ThreadSound, InkSound, PlacesSound,
     FileSound, Showing, Points
<1>2. CASE (Rename \/ FlushFails) /\ then = "end"
  <2>1. Gone
    BY <1>2 DEF Rename, FlushFails, FlushEnds
  <2>2. PlacesSound'
    <3>1. fails' \in 0 .. MaxFails /\ ops' = ops
      BY <1>2, Counted DEF Rename, FlushFails, Sound, PlacesSound, bounds
    <3>2. /\ page' \in Boards /\ left' \in [board : Boards, home : Docs] \cup {NoFile}
          /\ file' \in [Docs -> Copies]
      BY <1>0, <1>2, BoardFacts DEF Rename, FlushFails, FlushEnds, Sound, InkSound, PlacesSound
    <3> QED
      BY <2>1, <3>1, <3>2, GoneSound DEF Sound, PlacesSound
  <2>3. FileSound'
    <3>1. left' # NoFile => Rename /\ left' = [board |-> strokes, home |-> home]
      BY <1>2 DEF Rename, FlushFails, FlushEnds
    <3>2. left' # NoFile => file'[left'.home] = left'.board
      BY <1>0, <3>1
    <3> QED
      BY <2>1, <3>2, GoneSound DEF FileSound
  <2> QED
    BY <2>1, <2>2, <2>3, GoneSound DEF Sound
<1>3. CASE (Rename \/ FlushFails) /\ then # "end"
  <2>1. /\ pc' = then /\ then' = "idle" /\ failed' \in BOOLEAN
        /\ UNCHANGED <<host, shown, patch, left, page, strokes, current, dirty, index>>
        /\ pc \in {"tmp", "rename"}
    BY <1>3 DEF Rename, FlushFails, FlushEnds
  <2>2. ThreadSound'
    BY <1>3, <2>1 DEF Sound, ThreadSound, Points, Afters
  <2>3. InkSound'
    BY <1>3, <2>1 DEF Rename, FlushFails, Sound, InkSound
  <2>4. PlacesSound'
    <3>1. fails' \in 0 .. MaxFails /\ ops' = ops
      BY <1>3, Counted DEF Rename, FlushFails, Sound, PlacesSound, bounds
    <3>2. /\ pending' \in BOOLEAN /\ elapsed' \in BOOLEAN
          /\ file' \in [Docs -> Copies]
      BY <1>0, <1>3 DEF Rename, FlushFails, Sound, InkSound, PlacesSound
    <3> QED
      BY <2>1, <3>1, <3>2 DEF Sound, PlacesSound, shown
  <2>5. FileSound'
    <3>1. Showing /\ Showing'
      BY <2>1 DEF Sound, ThreadSound, Showing
    <3> QED
      BY <1>3, <2>1, <3>1, BoardFacts DEF Rename, FlushFails, Sound, FileSound, InkSound, Showing
  <2> QED
    BY <2>2, <2>3, <2>4, <2>5 DEF Sound
<1> QED
  BY <1>1, <1>2, <1>3

\* A frame that leaves a board of visible strokes.
LEMMA UpdateSound ==
  ASSUME Sound, NEW b \in Boards, NEW changed \in BOOLEAN, Update(b, changed),
         current' \in Strokes, ops' \in 0 .. MaxOps
  PROVE  Sound'
<1>1. Boxes(Rebuilt)
  BY IndexBoxes DEF Rebuilt, Sound, InkSound
<1>2. ThreadSound'
  BY DEF Update, Sound, ThreadSound, Points, Afters, Showing
<1>3. InkSound'
  BY <1>1 DEF Update, Sound, InkSound
<1>4. PlacesSound' /\ FileSound'
  BY DEF Update, Sound, PlacesSound, FileSound, Showing, shown
<1> QED
  BY <1>2, <1>3, <1>4 DEF Sound

\* So does the end of a stroke.
LEMMA LiftSound == ASSUME Sound, NEW m \in Places, Lift(m) PROVE Sound'
<1>1. current' \in Strokes /\ strokes \in Boards /\ current \in Seq(Places)
  BY DEF Lift, Sound, InkSound, Strokes
<1>2. CASE Update(strokes, FALSE) /\ UNCHANGED ops
  BY <1>1, <1>2, UpdateSound DEF Sound, PlacesSound
<1>3. CASE /\ Len(current) >= 2 /\ Work
           /\ \E b \in AfterPush(Append(strokes, Append(current, m))) : Update(b, TRUE)
  <2> DEFINE s == Append(current, m)
             a == Append(strokes, s)
  <2>1. PICK b \in AfterPush(a) : Update(b, TRUE)
    BY <1>3
  <2>2. s \in Visible
    BY <1>1, <1>3 DEF Visible, Strokes
  <2> HIDE DEF s
  <2>3. a \in Seq(Visible)
    BY <1>1, <2>2 DEF Boards
  <2> HIDE DEF a
  <2>4. b \in Boards
    BY <2>1, <2>3, MergedVisible DEF AfterPush, Boards
  <2>5. ops' \in 0 .. MaxOps
    BY <1>3, AnnotationAssumption DEF Work, Sound, PlacesSound
  <2> QED
    BY <1>1, <2>1, <2>4, <2>5, UpdateSound
<1> QED
  BY <1>2, <1>3 DEF Lift

\* So does the eraser.
LEMMA EraseSound == ASSUME Sound, NEW m \in Places, Erase(m) PROVE Sound'
<1>1. strokes \in Seq(Visible)
  BY DEF Sound, InkSound, Boards
<1>2. current' \in Strokes /\ ops' \in 0 .. MaxOps
  BY AnnotationAssumption DEF Erase, Work, Sound, PlacesSound, Strokes
<1> DEFINE b == Compacted(Wiped(Rebuilt, m), Hit(Rebuilt, m))
<1>3. b \in Boards
  BY <1>1, CompactedVisible DEF Boards
<1>4. Update(strokes, FALSE) \/ Update(b, TRUE)
  BY DEF Erase
<1> HIDE DEF b
<1> QED
  BY <1>1, <1>2, <1>3, <1>4, UpdateSound DEF Boards

\* So does a frame.
LEMMA FrameSound ==
  ASSUME Sound, Rest \/ \E m \in Places : Draw(m) \/ Lift(m) \/ Erase(m)
  PROVE  Sound'
<1>1. strokes \in Boards /\ current \in Strokes /\ ops \in 0 .. MaxOps
  BY DEF Sound, InkSound, PlacesSound
<1>2. CASE Rest
  BY <1>1, <1>2, UpdateSound DEF Rest
<1>3. ASSUME NEW m \in Places, Draw(m) PROVE Sound'
  <2>1. current' = Append(current, m) /\ ops' = ops
    BY <1>3 DEF Draw
  <2>2. current' \in Strokes
    BY <1>1, <2>1 DEF Strokes
  <2>3. Update(strokes, FALSE)
    BY <1>3 DEF Draw
  <2> QED
    BY <1>1, <2>1, <2>2, <2>3, UpdateSound
<1> QED
  BY <1>2, <1>3, LiftSound, EraseSound

\* So do the clock, clearing, saving and the ways out.
LEMMA KeysSound ==
  ASSUME Sound, \/ Tick \/ Clear \/ Save \/ SaveFails \/ Escape \/ Exit
                \/ \E d \in Docs : Open(d)
  PROVE  Sound'
<1>1. CASE Tick
  BY <1>1 DEF Tick, thread, shown, ink, bounds, Sound, ThreadSound, InkSound, PlacesSound, FileSound, Showing
<1>2. CASE Clear \/ \E d \in Docs : Open(d)
  <2>1. Cleared /\ doc' \in Docs /\ patch' \in Copies
    BY <1>2 DEF Clear, Open, Sound, PlacesSound, Copies
  <2>2. <<>> \in Strokes /\ ops' \in 0 .. MaxOps
    BY <2>1, Counted DEF Strokes, Cleared, Sound
  <2>3. ThreadSound' /\ InkSound'
    BY <2>1, <2>2, BoardFacts DEF Cleared, thread, Sound, ThreadSound, InkSound
  <2>4. file' \in [Docs -> Copies] /\ fails' \in 0 .. MaxFails
    BY <2>1, RemovedFacts DEF Cleared, Sound, PlacesSound
  <2>5. PlacesSound'
    BY <2>1, <2>2, <2>4 DEF Cleared, Sound, PlacesSound
  <2>6. FileSound'
    BY <2>1 DEF Cleared, thread, Sound, FileSound, Showing
  <2> QED
    BY <2>3, <2>5, <2>6 DEF Sound
<1>3. CASE Save \/ SaveFails
  <2>1. ops' \in 0 .. MaxOps
    BY <1>3, Counted DEF Save, SaveFails, Sound, PlacesSound
  <2>2. ThreadSound' /\ InkSound'
    BY <1>3 DEF Save, SaveFails, thread, ink, Sound, ThreadSound, InkSound
  <2>3. file' \in [Docs -> Copies] /\ fails' \in 0 .. MaxFails
    BY <1>3, RemovedFacts, Counted DEF Save, SaveFails, cache, Sound, PlacesSound
  <2>4. patch' \in Copies
    BY <1>3 DEF Save, SaveFails, Sound, PlacesSound, InkSound, Copies
  <2>5. PlacesSound'
    BY <1>3, <2>1, <2>3, <2>4 DEF Save, SaveFails, cache, shown, Sound, PlacesSound
  <2>6. FileSound'
    BY <1>3 DEF Save, SaveFails, thread, Sound, FileSound, Showing
  <2> QED
    BY <2>2, <2>5, <2>6 DEF Sound
<1>4. CASE Escape
  BY <1>4 DEF Escape, shown, ink, cache, bounds, Sound, ThreadSound, InkSound, PlacesSound, FileSound,
     Showing, Points, Afters
<1>5. CASE Exit /\ strokes # <<>>
  BY <1>5 DEF Exit, shown, ink, bounds, Sound, ThreadSound, InkSound, PlacesSound, FileSound,
     Showing, Points, Afters
<1>6. CASE Exit /\ strokes = <<>>
  BY <1>6, GoneSound, BoardFacts DEF Exit, bounds, Sound, PlacesSound, FileSound, Showing
<1> QED
  BY <1>1, <1>2, <1>3, <1>4, <1>5, <1>6

\* So does every step.
LEMMA SoundInductive == Sound /\ [Next]_vars => Sound'
<1> SUFFICES ASSUME Sound, [Next]_vars PROVE Sound'
  OBVIOUS
<1>1. CASE Next
  BY <1>1, OpeningSound, EndingSound, FlushSound, FrameSound, KeysSound DEF Next
<1>2. CASE UNCHANGED vars
  BY <1>2 DEF vars, thread, shown, ink, cache, bounds, Sound, ThreadSound, InkSound, PlacesSound,
     FileSound, Showing
<1> QED
  BY <1>1, <1>2

\* And it holds from the start.
LEMMA SoundHolds == Spec => []Sound
  BY SoundInit, SoundInductive, PTL DEF Spec

-----------------------------------------------------------------------------
(* What is saved, and when *)

\* A board that the program takes for saved, or that no flush is owed to any
\* more, is kept: the flush of the Escape key ends the debt of the cache but
\* leaves the board marked as modified.
KeptWhenSettled ==
    Showing /\ (~modified \/ ~pending) /\ strokes # <<>> /\ patch # Torn => Kept

Inv == IndexFresh /\ KeptWhenSettled /\ SavedAtFrameEnd

\* The invariant of the index holds at the start.
LEMMA InitInv == Init => Inv
  BY DEF Init, Inv, IndexFresh, KeptWhenSettled, SavedAtFrameEnd, Showing

\* The window is gone: nothing is on its board.
LEMMA GoneInv == Gone => Inv'
  BY DEF Gone, Inv, IndexFresh, KeptWhenSettled, SavedAtFrameEnd, Showing

\* A frame: what it leaves on the board is new only if it says so.
LEMMA UpdateInv ==
  ASSUME Inv, NEW b, NEW changed \in BOOLEAN, Update(b, changed), ~changed => b = strokes
  PROVE  Inv'
<1>1. /\ Showing /\ UNCHANGED <<host, home, file, patch, page, failed>> /\ pc \in {"idle", "keyed"}
      /\ strokes' = b /\ index' = Rebuilt /\ dirty' = changed
      /\ modified' = (modified \/ changed) /\ pending' = (pending \/ changed)
  BY DEF Update, shown
<1>2. IndexFresh'
  BY <1>1 DEF Inv, IndexFresh, Rebuilt
<1>3. KeptWhenSettled'
  <2>1. CASE changed
    BY <1>1, <2>1 DEF KeptWhenSettled
  <2>2. CASE ~changed
    <3>1. strokes' = strokes /\ (modified' <=> modified) /\ (pending' <=> pending)
      BY <1>1, <2>2
    <3>2. QED
      BY <1>1, <3>1 DEF Inv, KeptWhenSettled, Kept, Showing
  <2>3. QED
    BY <2>1, <2>2
<1>4. SavedAtFrameEnd'
  <2>1. ASSUME pc' = "idle", strokes' # <<>> PROVE ~modified' \/ ~pending'
    <3>1. modified' /\ pending' => ShouldFlush(b, pending')
      BY <1>1, <2>1 DEF ShouldFlush
    <3>2. QED
      BY <2>1, <3>1 DEF Update
  <2>2. QED
    BY <1>3, <2>1 DEF SavedAtFrameEnd, KeptWhenSettled, Kept
<1>5. QED
  BY <1>2, <1>3, <1>4 DEF Inv

\* The steps of a flush.
LEMMA FlushInv == ASSUME Sound, Inv, WriteTmp \/ Rename \/ FlushFails PROVE Inv'
<1>1. CASE WriteTmp
  BY <1>1 DEF WriteTmp, shown, ink, cache, Inv, IndexFresh, KeptWhenSettled, SavedAtFrameEnd, Showing, Kept
<1>2. CASE (Rename \/ FlushFails) /\ then = "end"
  BY <1>2, GoneInv DEF Rename, FlushFails, FlushEnds
<1>3. CASE Rename /\ then # "end"
  <2>1. /\ file'[home] = strokes /\ UNCHANGED <<host, home, strokes, dirty, index>>
    BY <1>3 DEF Rename, FlushEnds, shown, Sound, PlacesSound
  <2>2. Kept'
    BY <2>1 DEF Kept
  <2>3. QED
    BY <2>1, <2>2 DEF Inv, IndexFresh, KeptWhenSettled, SavedAtFrameEnd, Kept
<1>4. CASE FlushFails /\ then # "end"
  <2>1. /\ UNCHANGED <<host, home, strokes, dirty, index, modified, pending, file, patch, page>>
        /\ failed' = TRUE
    BY <1>4 DEF FlushFails, FlushEnds, shown
  <2>2. QED
    BY <2>1 DEF Inv, IndexFresh, KeptWhenSettled, SavedAtFrameEnd, Showing, Kept
<1>5. QED
  BY <1>1, <1>2, <1>3, <1>4

\* The input of a frame changes the board only where it says so.
LEMMA InputInv ==
  ASSUME Inv, Rest \/ \E m \in Places : Draw(m) \/ Lift(m) \/ Erase(m)
  PROVE  Inv'
<1>1. CASE Rest
  BY <1>1, UpdateInv DEF Rest
<1>2. ASSUME NEW m \in Places, Draw(m) PROVE Inv'
  BY <1>2, UpdateInv DEF Draw
<1>3. ASSUME NEW m \in Places, Lift(m) PROVE Inv'
  BY <1>3, UpdateInv DEF Lift
<1>4. ASSUME NEW m \in Places, Erase(m) PROVE Inv'
  <2>1. \/ Update(strokes, FALSE)
        \/ Update(Compacted(Wiped(Rebuilt, m), Hit(Rebuilt, m)), TRUE)
    BY <1>4 DEF Erase
  <2>2. QED
    BY <2>1, UpdateInv
<1>5. QED
  BY <1>1, <1>2, <1>3, <1>4

\* Opening, keys, saving and ending.
LEMMA OtherInv ==
  ASSUME Sound, Inv,
         \/ \E h \in {"display", "desktop"}, d \in Docs : Start(h, d)
         \/ \E d \in Docs : Open(d)
         \/ ExitTeach \/ Crash \/ PowerLoss \/ Tick
         \/ Clear \/ Save \/ SaveFails \/ Escape \/ Exit
  PROVE  Inv'
<1>1. CASE ExitTeach \/ Crash \/ PowerLoss
  BY <1>1, GoneInv DEF ExitTeach, Crash, PowerLoss
<1>2. ASSUME NEW h \in {"display", "desktop"}, NEW d \in Docs, Start(h, d) PROVE Inv'
  <2>1. /\ dirty' = TRUE /\ page' = page /\ home' = d
        /\ strokes' = IF h = "desktop" THEN page ELSE Recovered(d)
        /\ file[d] # Torn => file' = file
    BY <1>2 DEF Start
  <2>2. strokes' # <<>> => Kept'
    BY <2>1 DEF Kept, Recovered
  <2>3. QED
    BY <2>1, <2>2 DEF Inv, IndexFresh, KeptWhenSettled, SavedAtFrameEnd, Kept
<1>3. CASE Tick \/ Save \/ SaveFails
  <2>1. UNCHANGED <<host, home, pc, strokes, index, dirty, modified, pending, page, failed>>
    BY <1>3 DEF Tick, Save, SaveFails, thread, shown, ink, cache
  <2>2. \/ UNCHANGED <<file, patch>>
        \/ patch' = strokes
        \/ file' = file /\ patch' = Torn
    BY <1>3 DEF Tick, Save, SaveFails, cache
  <2>3. QED
    BY <2>1, <2>2 DEF Inv, IndexFresh, KeptWhenSettled, SavedAtFrameEnd, Showing, Kept
<1>4. CASE Clear \/ \E d \in Docs : Open(d)
  BY <1>4 DEF Clear, Open, Cleared, Inv, IndexFresh, KeptWhenSettled, SavedAtFrameEnd
<1>5. CASE Escape
  BY <1>5 DEF Escape, shown, ink, cache, Inv, IndexFresh, KeptWhenSettled, SavedAtFrameEnd, Showing, Kept
<1>6. CASE Exit /\ strokes # <<>>
  BY <1>6 DEF Exit, shown, ink, Inv, IndexFresh, KeptWhenSettled, SavedAtFrameEnd, Showing, Kept
<1>7. CASE Exit /\ strokes = <<>>
  BY <1>7, GoneInv DEF Exit
<1>8. QED
  BY <1>1, <1>2, <1>3, <1>4, <1>5, <1>6, <1>7

\* Every step keeps it.
LEMMA InvInductive == Sound /\ Inv /\ [Next]_vars => Inv'
<1> SUFFICES ASSUME Sound, Inv, [Next]_vars PROVE Inv'
  OBVIOUS
<1>1. CASE Next
  BY <1>1, FlushInv, InputInv, OtherInv DEF Next
<1>2. CASE UNCHANGED vars
  BY <1>2 DEF vars, thread, shown, ink, cache, Inv, IndexFresh, KeptWhenSettled, SavedAtFrameEnd,
     Showing, Kept
<1>3. QED
  BY <1>1, <1>2

\* So it always holds.
LEMMA InvHolds == Spec => []Inv
<1>1. QED
  BY InitInv, InvInductive, SoundHolds, PTL DEF Spec

-----------------------------------------------------------------------------
(* Theorems *)

\* The index the eraser and the renderer look positions up in is that of the
\* board, or is marked for rebuilding.
THEOREM IndexIsFresh == Spec => []IndexFresh
<1>1. Inv => IndexFresh
  BY DEF Inv
<1>2. QED
  BY <1>1, InvHolds, PTL

\* Whatever fails and whichever save comes last, a board that the program takes
\* for saved is whole in the cache, the patch file or the page.
THEOREM BoardsAreKept == Spec => []BoardIsKept
<1>1. Inv => BoardIsKept
  BY DEF Inv, KeptWhenSettled, Kept, BoardIsKept
<1>2. QED
  BY <1>1, InvHolds, PTL

\* Ink is on the disk before the frame that drew it is over.
THEOREM FramesSave == Spec => []SavedAtFrameEnd
<1>1. Inv => SavedAtFrameEnd
  BY DEF Inv
<1>2. QED
  BY <1>1, InvHolds, PTL

\* After the eraser at m, no stroke of the board has a mark there.
LEMMA EraseReaches ==
  ASSUME Sound, IndexFresh, NEW m \in Places, Erase(m), NEW i \in DOMAIN strokes'
  PROVE  m \notin Marks(strokes'[i])
<1> DEFINE w   == Wiped(Rebuilt, m)
           hit == Hit(Rebuilt, m)
<1>1. Rebuilt = IndexOf(strokes)
  BY DEF IndexFresh, Rebuilt
<1>2. strokes \in Seq(Visible)
  BY DEF Sound, InkSound, Boards
<1>3. \A j \in 1..Len(strokes) : m \in Marks(strokes[j]) => j \in hit
  BY <1>1, <1>2, HitAll
<1>4. w \in Seq(Strokes) /\ Len(w) = Len(strokes)
  BY <1>2, WipedBoard
<1>5. ASSUME NEW j \in 1..Len(strokes) PROVE m \notin Marks(w[j])
  <2>1. CASE j \in hit
    BY <1>2, <2>1, WipedStroke
  <2>2. CASE j \notin hit
    <3>1. w[j] = strokes[j]
      BY <1>2, <2>2, WipedStroke
    <3> QED
      BY <1>3, <2>2, <3>1
  <2> QED
    BY <2>1, <2>2
<1>6. CASE hit = {}
  <2>1. strokes' = strokes
    BY <1>6 DEF Erase, Update
  <2> HIDE DEF hit
  <2> QED
    BY <1>2, <1>3, <1>6, <2>1
<1>7. CASE hit # {}
  <2>1. strokes' = Compacted(w, hit)
    BY <1>7 DEF Erase, Update
  <2> HIDE DEF w, hit
  <2>2. Compacted(w, hit) \in Seq(Strokes) /\ Items(Compacted(w, hit)) \subseteq Items(w)
    BY <1>4, SiftItems DEF Compacted
  <2>3. strokes'[i] \in Items(w)
    BY <2>1, <2>2 DEF Items
  <2> QED
    BY <1>4, <1>5, <2>3 DEF Items
<1> QED
  BY <1>6, <1>7

\* Every variable of the window keeps its type: merging and erasing leave
\* strokes of places, and a torn copy is never put on the board.
THEOREM TypesAreKept == Spec => []TypeOK
<1>1. Sound => TypeOK
  <2>1. \A c \in Copies : c \in Seq(Strokes) \cup {NoFile, Torn}
    BY BoardFacts DEF Copies
  <2>2. Sound => file \in [Docs -> Seq(Strokes) \cup {NoFile, Torn}]
    BY <2>1 DEF Sound, PlacesSound
  <2>3. \A l \in [board : Boards, home : Docs] : l \in [board : Seq(Strokes), home : Docs]
    BY BoardFacts
  <2> QED
    BY <2>1, <2>2, <2>3, BoardFacts DEF Sound, ThreadSound, InkSound, PlacesSound, Boxes, TypeOK
<1> QED
  BY <1>1, SoundHolds, PTL

\* Whatever is merged or erased, no stroke of fewer than two marks is left on
\* the board, where no index would hold it.
THEOREM NoStubIsLeft == Spec => []NoStub
<1>1. Sound => NoStub
  BY DEF Sound, InkSound, Boards, Visible, NoStub
<1> QED
  BY <1>1, SoundHolds, PTL

\* Only a power failure tears a cache file.
LEMMA OnlyPowerTears ==
  ASSUME Sound, [Next]_vars, NEW d \in Docs, file'[d] = Torn, file[d] # Torn
  PROVE  PowerLoss
<1>1. /\ file \in [Docs -> Copies] /\ home \in Docs
      /\ strokes # Torn /\ Torn # NoFile /\ PlacesSound
  BY BoardFacts DEF Sound, PlacesSound, InkSound
<1>2. file' # file
  BY <1>1
<1>3. ASSUME NEW e \in Docs, Removed(e) PROVE FALSE
  <2>1. file'[d] \in {file[d], NoFile}
    BY <1>1, <1>3, RemovedFacts
  <2> QED
    BY <1>1, <2>1
<1>4. ~Rename
  <2>1. SUFFICES ASSUME Rename PROVE file'[d] \in {file[d], strokes}
    BY <1>1
  <2> QED
    BY <1>1, <2>1 DEF Rename
<1>5. ASSUME NEW h, NEW e \in Docs, Start(h, e) PROVE FALSE
  BY <1>2, <1>3, <1>5 DEF Start
<1>6. ~Clear /\ ~Save /\ \A e \in Docs : ~Open(e)
  BY <1>1, <1>3 DEF Clear, Open, Cleared, Save
<1>7. ~ExitTeach /\ ~Crash /\ ~WriteTmp /\ ~FlushFails /\ ~Tick
  BY <1>2 DEF ExitTeach, Crash, WriteTmp, FlushFails, Tick, cache
<1>8. ~Rest /\ \A m \in Places : ~Draw(m) /\ ~Lift(m) /\ ~Erase(m)
  <2>1. \A b, c : ~Update(b, c)
    BY <1>2 DEF Update
  <2> QED
    BY <2>1 DEF Rest, Draw, Lift, Erase
<1>9. ~SaveFails /\ ~Escape /\ ~Exit /\ vars' # vars
  BY <1>2 DEF SaveFails, Escape, Exit, cache, vars
<1> QED
  BY <1>4, <1>5, <1>6, <1>7, <1>8, <1>9 DEF Next

\* No failed write or removal and no end of the program tears the cache file
\* of any document: only a power failure does.
THEOREM CopiesAreWhole == Spec => CopyIsWhole
<1>1. Sound /\ [Next]_vars => [\A d \in Docs : file'[d] = Torn => file[d] = Torn \/ PowerLoss]_vars
  BY OnlyPowerTears
<1> QED
  BY <1>1, SoundHolds, PTL DEF Spec, CopyIsWhole

\* The board that the Exit button wrote is what the next window opens on that
\* is started on the document this one was started on, whichever document was
\* opened in between.
THEOREM ExitsKeepTheBoard == Spec => []ExitKeepsBoard
<1>1. Sound => ExitKeepsBoard
  <2> SUFFICES ASSUME Sound, host = "none", left # NoFile
               PROVE  Recovered(left.home) = left.board
    BY DEF ExitKeepsBoard
  <2>1. left.board \in Boards /\ file[left.home] = left.board
    BY DEF Sound, PlacesSound, FileSound
  <2> QED
    BY <2>1, BoardFacts DEF Recovered
<1> QED
  BY <1>1, SoundHolds, PTL

\* The eraser takes every mark under it: it looks the strokes up in the index
\* of the board as it is, every stroke has a box there, and the box of a stroke
\* with a mark at m is touched at m.
THEOREM TheEraserReachesAll == Spec => EraserReachesAll
<1>1. Sound /\ IndexFresh /\ [Next]_vars =>
        [\A m \in Places : Erase(m) => \A i \in DOMAIN strokes' : m \notin Marks(strokes'[i])]_vars
  BY EraseReaches
<1> QED
  BY <1>1, IndexIsFresh, SoundHolds, PTL DEF Spec, EraserReachesAll

=============================================================================
