------------------------ MODULE HomeworkMarksProofs ------------------------
(***************************************************************************)
(* The two marks of a submission, in the database and in its file, for any *)
(* number of requests, crashes and failures; and the types of the stores.  *)
(***************************************************************************)
EXTENDS HomeworkProofs

Under(r) == req[r].at \notin {"idle", "done"}

\* Some grading of s has opened the file and not finished yet.
Touched(s) == \E g \in Gradings : req[g].sub = s /\ req[g].at \in {"write", "put"}

\* A grading that ran alone so far is the only one of its submission; where
\* two ran at once, the marks may differ from then on.
Lone ==
    \A g \in Gradings : Under(g) =>
        IF req[g].alone
        THEN \A h \in Gradings : Under(h) /\ req[h].sub = req[g].sub => h = g
        ELSE req[g].sub \in apart

\* What a handler without rivals wrote is what it finds.
Whole ==
    /\ \A g \in Gradings : req[g].alone =>
          /\ req[g].at = "write" => ~req[g].mixed
          /\ req[g].at = "put" => /\ file[req[g].sub] = g \/ req[g].sub \in hurt
                                  /\ Len(req[g].puts) < 2 => mem[Sub(req[g].sub)] = g
    /\ \A s \in Subs :
          /\ req[s].at = "write" => ~req[s].mixed
          /\ req[s].at = "put" /\ Len(req[s].puts) >= 2 => file[s] = Ungraded \/ s \in hurt

Agrees(db) ==
    \A s \in Subs : db[Sub(s)] # None /\ s \notin apart \cup hurt /\ ~Touched(s)
        => db[Sub(s)] = file[s]

MarksInv == Inv /\ Lone /\ Whole /\ Agrees(mem) /\ Agrees(disk)

\* While a submission is not recorded, no grading of it has begun.
LEMMA NoGradingYet ==
  ASSUME Inv, NEW s \in Subs, ~Recorded(s)
  PROVE  /\ \A g \in Gradings : req[g].at # "idle" => req[g].sub # s
         /\ mem[Sub(s)] = None /\ disk[Sub(s)] = None
BY KeyFacts DEF Inv, Ordered, Behind

\* Nobody else writes the file or the record that a lone grading is about.
LEMMA Sole ==
  ASSUME Inv, Lone, NEW g \in Gradings, Under(g), req[g].alone,
         NEW r \in Subs \cup Gradings, Under(r), req[r].sub = req[g].sub,
         r \in Subs => ~Recorded(r)
  PROVE  r = g
<1>1. CASE r \in Gradings
  BY <1>1 DEF Lone
<1>2. CASE r \in Subs
  <2>1. req[r].sub = r
    BY <1>2 DEF Inv, Shape, Under
  <2> QED
    BY <1>2, <2>1, NoGradingYet DEF Under
<1> QED
  BY <1>1, <1>2

\* Nothing is stored at first.
LEMMA MarksInit == Init => MarksInv
<1> SUFFICES ASSUME Init PROVE MarksInv
  OBVIOUS
<1>1. \A r \in Requests : req[r].at = "idle"
  BY DEF Init, Handler
<1>2. Lone /\ Whole
  BY <1>1 DEF Lone, Whole, Under, Requests
<1>3. Agrees(mem) /\ Agrees(disk)
  BY KeyFacts DEF Init, Agrees
<1> QED
  BY <1>2, <1>3, InitInv DEF MarksInv

\* Opening the file.
LEMMA TruncateMarks ==
  ASSUME MarksInv, NEW r \in Requests, Truncate(r)
  PROVE  Lone' /\ Whole' /\ Agrees(mem)' /\ Agrees(disk)'
<1> USE ValueFacts DEF MarksInv
<1>0. /\ r \in Subs \cup Gradings /\ req[r].sub \in Subs /\ req[r].at = "truncate"
      /\ r \in Subs => req[r].sub = r /\ ~Recorded(r)
  BY DEF Inv, Truncate, Shape, Requests, Recorded
<1>1. /\ UNCHANGED <<mem, disk, hurt, apart>>
      /\ \A q \in Requests \ {r} : req'[q] = req[q]
      /\ req'[r].at = "write" /\ ~req'[r].mixed
      /\ req'[r].sub = req[r].sub /\ req'[r].alone = req[r].alone
      /\ \A s \in Subs : file'[s] = IF s = req[r].sub THEN Torn ELSE file[s]
  <2>1. req \in [Requests -> HandlerRec] /\ req[r] \in HandlerRec
        /\ file \in [Subs -> Files]
    BY DEF Inv, Typed
  <2>2. req' = [req EXCEPT ![r] = [[req[r] EXCEPT !.at = "write"] EXCEPT !.mixed = FALSE]]
        /\ file' = [file EXCEPT ![req[r].sub] = Torn] /\ UNCHANGED <<mem, disk, hurt, apart>>
    BY <2>1 DEF Truncate, told, HandlerRec
  <2> QED
    BY <1>0, <2>1, <2>2 DEF HandlerRec
<1>2. Lone'
  BY <1>0, <1>1 DEF Lone, Under, Requests
<1>3. ASSUME NEW g \in Gradings, req[g].alone, req[g].at = "put"
      PROVE  req[g].sub # req[r].sub /\ req[g].sub \in Subs
  BY <1>0, <1>3, Sole DEF Under, Inv, Shape
<1>4. ASSUME NEW s \in Subs, req[s].at = "put", Len(req[s].puts) >= 2
      PROVE  s # req[r].sub
  <2>1. ~Recorded(s)
    <3>1. Len(req[s].puts) \in Nat
      BY DEF Inv, Typed, HandlerRec, Puts, Requests
    <3> QED
      BY <1>4, <3>1 DEF Recorded
  <2> QED
    BY <1>0, <1>4, <2>1, NoGradingYet
<1>5. Whole'
  BY <1>0, <1>1, <1>3, <1>4 DEF Whole, Requests
<1>6. ASSUME NEW s \in Subs, ~Touched(s)'
      PROVE  /\ ~Touched(s)
             /\ s = req[r].sub => mem[Sub(s)] = None /\ disk[Sub(s)] = None
  BY <1>0, <1>1, <1>6, NoGradingYet DEF Touched, Requests
<1>7. Agrees(mem)' /\ Agrees(disk)'
  BY <1>1, <1>6 DEF Agrees
<1> QED
  BY <1>2, <1>5, <1>7

\* Writing it.
LEMMA WriteMarks ==
  ASSUME MarksInv, NEW r \in Requests, Write(r)
  PROVE  Lone' /\ Whole' /\ Agrees(mem)' /\ Agrees(disk)'
<1> USE ValueFacts DEF MarksInv
<1> DEFINE s == req[r].sub
<1>0. /\ r \in Subs \cup Gradings /\ s \in Subs /\ req[r].at = "write"
      /\ r \in Subs => s = r /\ ~Recorded(r) /\ req[r].mark = Ungraded
      /\ r \in Gradings => req[r].mark = r
  BY DEF Inv, Write, Shape, Requests, Recorded
<1>1. /\ UNCHANGED <<mem, disk, apart>> /\ hurt \subseteq hurt'
      /\ req'[r].at = "put" /\ req'[r].puts = req[r].puts
      /\ req'[r].sub = s /\ req'[r].alone = req[r].alone
      /\ \A q \in Requests \ {r} :
            /\ req'[q].at = req[q].at /\ req'[q].sub = req[q].sub
            /\ req'[q].puts = req[q].puts /\ req'[q].alone = req[q].alone
            /\ req'[q].mixed = req[q].mixed \/ (req[q].at = "write" /\ req[q].sub = s)
  <2>1. req \in [Requests -> HandlerRec]
    BY DEF Inv, Typed
  <2>2. /\ req'[r] = [req[r] EXCEPT !.at = "put"]
        /\ \A q \in Requests \ {r} :
              req'[q] = IF req[q].at = "write" /\ req[q].sub = s
                        THEN [req[q] EXCEPT !.mixed = TRUE] ELSE req[q]
        /\ UNCHANGED <<mem, disk, apart>> /\ hurt \subseteq hurt'
    BY DEF Write
  <2>3. /\ req'[r].at = "put" /\ req'[r].puts = req[r].puts
        /\ req'[r].sub = s /\ req'[r].alone = req[r].alone
    BY <2>1, <2>2 DEF HandlerRec
  <2>4. ASSUME NEW q \in Requests \ {r}
        PROVE  /\ req'[q].at = req[q].at /\ req'[q].sub = req[q].sub
               /\ req'[q].puts = req[q].puts /\ req'[q].alone = req[q].alone
               /\ req'[q].mixed = req[q].mixed \/ (req[q].at = "write" /\ req[q].sub = s)
    <3>1. req[q] \in HandlerRec
      BY <2>1
    <3> QED
      BY <2>2, <3>1 DEF HandlerRec
  <2> QED
    BY <2>2, <2>3, <2>4
<1>2. /\ \A t \in Subs \ {s} : file'[t] = file[t]
      /\ file'[s] = req[r].mark \/ (req[r].mixed /\ s \in hurt')
  BY <1>0 DEF Inv, Typed, Write
<1>3. Lone'
  BY <1>0, <1>1 DEF Lone, Under, Requests
<1>4. ASSUME NEW g \in Gradings, g # r, req[g].alone, Under(g)
      PROVE  req[g].sub # s /\ req[g].sub \in Subs
  BY <1>0, <1>4, Sole DEF Under, Inv, Shape
<1>5. ASSUME NEW t \in Subs, t # r, req[t].at = "write" \/ (req[t].at = "put" /\ Len(req[t].puts) >= 2)
      PROVE  t # s /\ req[t].sub = t
  <2>1. ~Recorded(t) /\ req[t].sub = t
    <3>1. Len(req[t].puts) \in Nat
      BY DEF Inv, Typed, HandlerRec, Puts, Requests
    <3> QED
      BY <1>5, <3>1 DEF Recorded, Inv, Shape
  <2> QED
    BY <1>0, <1>5, <2>1, NoGradingYet
<1>6. Len(req[r].puts) = 2
  BY <1>0, PutsFacts DEF Inv, Shape
<1>7. /\ r \in Gradings /\ req[r].alone => file'[s] = r
      /\ r \in Subs => file'[s] = Ungraded
  BY <1>0, <1>2 DEF Whole
<1>8. Whole'
  <2>1. ASSUME NEW g \in Gradings, req'[g].alone
        PROVE  /\ req'[g].at = "write" => ~req'[g].mixed
               /\ req'[g].at = "put" =>
                    /\ file'[req'[g].sub] = g \/ req'[g].sub \in hurt'
                    /\ Len(req'[g].puts) < 2 => mem'[Sub(req'[g].sub)] = g
    <3>1. CASE g = r
      BY <1>1, <1>6, <1>7, <2>1, <3>1
    <3>2. CASE g # r
      BY <1>1, <1>2, <1>4, <2>1, <3>2 DEF Whole, Under, Requests
    <3> QED
      BY <3>1, <3>2
  <2>2. ASSUME NEW t \in Subs
        PROVE  /\ req'[t].at = "write" => ~req'[t].mixed
               /\ req'[t].at = "put" /\ Len(req'[t].puts) >= 2
                    => file'[t] = Ungraded \/ t \in hurt'
    <3>1. CASE t = r
      BY <1>0, <1>1, <1>7, <3>1
    <3>2. CASE t # r
      BY <1>1, <1>2, <1>5, <3>2 DEF Whole, Requests
    <3> QED
      BY <3>1, <3>2
  <2> QED
    BY <2>1, <2>2 DEF Whole
<1>9. ASSUME NEW t \in Subs, ~Touched(t)'
      PROVE  /\ ~Touched(t)
             /\ t = s => mem[Sub(t)] = None /\ disk[Sub(t)] = None
  BY <1>0, <1>1, <1>9, NoGradingYet DEF Touched, Requests
<1>10. Agrees(mem)' /\ Agrees(disk)'
  BY <1>1, <1>2, <1>9 DEF Agrees
<1> QED
  BY <1>3, <1>8, <1>10

\* An insert: of the record or of an index entry.
LEMMA InsertMarks ==
  ASSUME MarksInv, NEW r \in Requests, Insert(r)
  PROVE  Lone' /\ Whole' /\ Agrees(mem)' /\ Agrees(disk)'
<1> USE ValueFacts, KeyFacts DEF MarksInv
<1> DEFINE s == req[r].sub
           h == Head(req[r].puts)
<1>1. /\ UNCHANGED <<disk, file, hurt, apart>> /\ req[r].at = "put"
      /\ \A k \in Keys : mem'[k] = IF k = h.key THEN h.value ELSE mem[k]
      /\ \A q \in Requests \ {r} : req'[q] = req[q]
      /\ req'[r].puts = Tail(req[r].puts)
      /\ \A q \in Requests : /\ req'[q].at = req[q].at /\ req'[q].sub = req[q].sub
                             /\ req'[q].alone = req[q].alone /\ req'[q].mixed = req[q].mixed
  <2>1. req \in [Requests -> HandlerRec] /\ req[r] \in HandlerRec /\ mem \in Dbs
    BY DEF Inv, Typed
  <2>2. /\ req'[r] = [req[r] EXCEPT !.puts = Tail(@)]
        /\ \A q \in Requests \ {r} : req'[q] = req[q]
        /\ mem' = [mem EXCEPT ![h.key] = h.value]
        /\ UNCHANGED <<disk, file, hurt, apart>> /\ req[r].at = "put"
    BY <2>1 DEF Insert, told
  <2>3. /\ req'[r].puts = Tail(req[r].puts) /\ req'[r].at = req[r].at /\ req'[r].sub = s
        /\ req'[r].alone = req[r].alone /\ req'[r].mixed = req[r].mixed
    BY <2>1, <2>2 DEF HandlerRec
  <2> QED
    BY <2>1, <2>2, <2>3 DEF Dbs
<1>2. Lone'
  BY <1>1 DEF Lone, Under, Requests
<1>3. \A t \in Subs : Touched(t)' <=> Touched(t)
  BY <1>1 DEF Touched, Requests
<1>4. CASE r = Creation \/ req[r].puts # SaveSubmission(s, req[r].mark)
  <2>1. \A t \in Subs : mem'[Sub(t)] = mem[Sub(t)]
    <3>1. CASE r = Creation
      <4>1. h.key \in HomeworkKeys
        BY <1>1, <3>1, PutsFacts, SMTT(60) DEF Inv, Shape, Insert, Put
      <4> QED
        BY <1>1, <4>1
    <3>2. CASE r # Creation
      <4>1. h.key = SubHw(s) /\ s \in Subs
        BY <1>1, <1>4, <3>2, PutsFacts DEF Inv, Shape, Insert, Put, Requests
      <4> QED
        BY <1>1, <4>1
    <3> QED
      BY <3>1, <3>2
  <2>2. r \in Subs \cup Gradings => Len(req[r].puts) = 1 /\ Len(req'[r].puts) = 0
    <3> SUFFICES ASSUME r \in Subs \cup Gradings
                 PROVE  Len(req[r].puts) = 1 /\ Len(req'[r].puts) = 0
      OBVIOUS
    <3>1. req[r].puts = <<Put(SubHw(s), Entry)>>
      BY <1>1, <1>4 DEF Inv, Shape, Insert
    <3> QED
      BY <1>1, <3>1, PutsFacts
  <2>3. \A g \in Gradings : req[g].at # "idle" => req[g].sub \in Subs
    BY DEF Inv, Shape
  <2>4. Whole'
    <3>1. \A q \in (Subs \cup Gradings) \ {r} : req'[q] = req[q]
      BY <1>1 DEF Requests
    <3>2. ASSUME NEW g \in Gradings, req[g].alone, req[g].at = "put", Len(req'[g].puts) < 2
          PROVE  mem'[Sub(req[g].sub)] = g
      <4>1. Len(req[g].puts) < 2
        <5>1. CASE g = r
          <6>1. Len(req[g].puts) = 1
            BY <2>2, <5>1
          <6> QED
            BY <6>1
        <5>2. CASE g # r
          BY <3>1, <3>2, <5>2
        <5> QED
          BY <5>1, <5>2
      <4>2. mem[Sub(req[g].sub)] = g
        BY <3>2, <4>1 DEF Whole
      <4> QED
        BY <2>1, <2>3, <3>2, <4>2
    <3>3. \A t \in Subs : req[t].at = "put" /\ Len(req'[t].puts) >= 2
                            => file[t] = Ungraded \/ t \in hurt
      BY <2>2, <3>1 DEF Whole
    <3> QED
      BY <1>1, <3>2, <3>3 DEF Whole, Requests
  <2>5. Agrees(mem)' /\ Agrees(disk)'
    BY <1>1, <1>3, <2>1 DEF Agrees
  <2> QED
    BY <1>2, <2>4, <2>5
<1>5. CASE r # Creation /\ req[r].puts = SaveSubmission(s, req[r].mark)
  <2>1. /\ r \in Subs \cup Gradings /\ s \in Subs
        /\ h.key = Sub(s) /\ h.value = req[r].mark
        /\ Len(req[r].puts) = 2 /\ Len(req'[r].puts) = 1
        /\ r \in Subs => s = r /\ req[r].mark = Ungraded
        /\ r \in Gradings => req[r].mark = r
    BY <1>1, <1>5, PutsFacts DEF Inv, Shape, Put, Requests
  <2>2. r \in Subs => ~Recorded(r)
    BY <1>1, <2>1 DEF Recorded
  <2>3. \A t \in Subs : mem'[Sub(t)] = IF t = s THEN req[r].mark ELSE mem[Sub(t)]
    BY <1>1, <2>1
  <2>4. ASSUME NEW g \in Gradings, g # r, req[g].alone, Under(g)
        PROVE  req[g].sub # s /\ req[g].sub \in Subs
    BY <1>1, <2>1, <2>2, <2>4, Sole DEF Under, Inv, Shape
  <2>5. Whole'
    <3>1. ASSUME NEW g \in Gradings, req'[g].alone
          PROVE  /\ req'[g].at = "write" => ~req'[g].mixed
                 /\ req'[g].at = "put" =>
                      /\ file'[req'[g].sub] = g \/ req'[g].sub \in hurt'
                      /\ Len(req'[g].puts) < 2 => mem'[Sub(req'[g].sub)] = g
      <4>1. CASE g = r
        BY <1>1, <2>1, <2>3, <3>1, <4>1 DEF Whole
      <4>2. CASE g # r
        BY <1>1, <2>3, <2>4, <3>1, <4>2 DEF Whole, Under, Requests
      <4> QED
        BY <4>1, <4>2
    <3>2. \A t \in Subs :
            /\ req'[t].at = "write" => ~req'[t].mixed
            /\ req'[t].at = "put" /\ Len(req'[t].puts) >= 2
                 => file'[t] = Ungraded \/ t \in hurt'
      BY <1>1, <2>1 DEF Whole, Requests
    <3> QED
      BY <3>1, <3>2 DEF Whole
  <2>6. Agrees(mem)'
    <3>1. CASE r \in Gradings
      <4>1. Touched(s)
        BY <1>1, <3>1 DEF Touched
      <4> QED
        BY <1>1, <1>3, <2>3, <4>1 DEF Agrees
    <3>2. CASE r \in Subs
      <4>1. file[s] = Ungraded \/ s \in hurt
        BY <1>1, <2>1, <3>2 DEF Whole
      <4> QED
        BY <1>1, <1>3, <2>1, <2>3, <3>2, <4>1 DEF Agrees
    <3> QED
      BY <2>1, <3>1, <3>2
  <2>7. Agrees(disk)'
    BY <1>1, <1>3 DEF Agrees
  <2> QED
    BY <1>2, <2>5, <2>6, <2>7
<1> QED
  BY <1>4, <1>5

\* A handler that is over: what it was about is all that is left of it.
LEMMA OverFields ==
  ASSUME Inv, NEW r \in Requests, req' = [req EXCEPT ![r] = Over(@)]
  PROVE  /\ \A q \in Requests \ {r} : req'[q] = req[q]
         /\ req'[r].at = "done" /\ req'[r].sub = req[r].sub
BY DEF Inv, Typed, Over, Handler

\* The answer, after the flush.
LEMMA AnswerMarks ==
  ASSUME MarksInv, NEW r \in Requests, Answer(r)
  PROVE  Lone' /\ Whole' /\ Agrees(mem)' /\ Agrees(disk)'
<1> USE ValueFacts, KeyFacts DEF MarksInv
<1> DEFINE s == req[r].sub
<1>1. /\ UNCHANGED <<mem, file, hurt>> /\ disk' = mem
      /\ req[r].at = "put" /\ req[r].puts = <<>>
      /\ apart' = IF r \in Gradings /\ req[r].alone THEN apart \ {s} ELSE apart
      /\ \A q \in Requests \ {r} : req'[q] = req[q]
      /\ req'[r].at = "done" /\ req'[r].sub = s
  BY OverFields DEF Answer, Answered
<1>2. ASSUME NEW g \in Gradings, Under(g), g # r
      PROVE  /\ r \in Gradings /\ req[r].alone => req[g].sub # s
             /\ req[g].sub \in Subs
  BY <1>1, <1>2 DEF Lone, Under, Inv, Shape
<1>3. Lone'
  BY <1>1, <1>2 DEF Lone, Under, Requests
<1>4. Whole'
  BY <1>1 DEF Whole, Requests
<1>5. Agrees(mem)'
  <2> SUFFICES ASSUME NEW t \in Subs, mem[Sub(t)] # None, t \notin apart' \cup hurt, ~Touched(t)'
               PROVE  mem[Sub(t)] = file[t]
    BY <1>1 DEF Agrees
  <2>1. CASE r \in Gradings /\ t = s
    <3>1. req[r].alone
      BY <1>1, <2>1 DEF Lone, Under
    <3>2. Len(req[r].puts) < 2
      BY <1>1, PutsFacts
    <3> QED
      BY <1>1, <2>1, <3>1, <3>2 DEF Whole
  <2>2. CASE ~(r \in Gradings /\ t = s)
    <3>1. ~Touched(t)
      BY <1>1, <2>2 DEF Touched, Requests
    <3>2. t \notin apart
      BY <1>1, <2>2
    <3> QED
      BY <3>1, <3>2 DEF Agrees
  <2> QED
    BY <2>1, <2>2
<1> QED
  BY <1>1, <1>3, <1>4, <1>5 DEF Agrees

\* An error ends a handler.
LEMMA FailsMarks ==
  ASSUME MarksInv, NEW r \in Requests,
         \/ WriteFails(r) \/ DatabaseFails(r)
         \/ r \in Gradings /\ Load(r) /\ Fails(r)
  PROVE  Lone' /\ Whole' /\ Agrees(mem)' /\ Agrees(disk)'
<1> USE ValueFacts, KeyFacts DEF MarksInv
<1>1. /\ UNCHANGED <<mem, disk, file>>
      /\ \A q \in Requests \ {r} : req'[q] = req[q]
      /\ req'[r].at = "done" /\ req'[r].sub = req[r].sub
      /\ apart \subseteq apart' /\ hurt \subseteq hurt'
      /\ r \in Gradings /\ req[r].at = "put" => req[r].sub \in apart'
      /\ req[r].at = "write" => req[r].sub \in hurt'
  <2>1. req' = [req EXCEPT ![r] = Over(@)]
    BY DEF WriteFails, DatabaseFails, Fails
  <2> QED
    BY <2>1, OverFields DEF WriteFails, DatabaseFails, Load, Fails, stores
<1>2. Lone'
  BY <1>1 DEF Lone, Under, Requests
<1>3. Whole'
  BY <1>1 DEF Whole, Requests
<1>4. \A t \in Subs : t \notin apart' \cup hurt' /\ ~Touched(t)'
                        => t \notin apart \cup hurt /\ ~Touched(t)
  BY <1>1 DEF Touched, Requests
<1>5. Agrees(mem)' /\ Agrees(disk)'
  BY <1>1, <1>4 DEF Agrees
<1> QED
  BY <1>2, <1>3, <1>5

\* A grading finds its file readable.
LEMMA LoadMarks ==
  ASSUME MarksInv, NEW g \in Gradings, Load(g)
  PROVE  Lone' /\ Whole' /\ Agrees(mem)' /\ Agrees(disk)'
<1> USE DEF MarksInv
<1>1. CASE Fails(g)
  BY <1>1, FailsMarks DEF Requests
<1>2. CASE Move(g, "truncate") /\ UNCHANGED apart
  <2>1. UNCHANGED <<mem, disk, file, hurt, apart>> /\ req[g].at = "load"
    BY <1>2 DEF Load, stores
  <2>2. /\ \A q \in Requests \ {g} : req'[q] = req[q]
        /\ req'[g].at = "truncate" /\ req'[g].sub = req[g].sub /\ req'[g].alone = req[g].alone
    <3>1. req \in [Requests -> HandlerRec] /\ req[g] \in HandlerRec
      BY DEF Inv, Typed, Requests
    <3>2. /\ req'[g] = [req[g] EXCEPT !.at = "truncate"]
          /\ \A q \in Requests \ {g} : req'[q] = req[q]
      BY <1>2, <3>1 DEF Move, Requests
    <3> QED
      BY <3>1, <3>2 DEF HandlerRec
  <2>3. Lone'
    BY <2>1, <2>2 DEF Lone, Under, Requests
  <2>4. Whole'
    BY ValueFacts, <2>1, <2>2 DEF Whole, Requests
  <2>5. \A t \in Subs : Touched(t)' <=> Touched(t)
    BY <2>1, <2>2 DEF Touched, Requests
  <2>6. Agrees(mem)' /\ Agrees(disk)'
    BY <2>1, <2>5 DEF Agrees
  <2> QED
    BY <2>3, <2>4, <2>6
<1> QED
  BY <1>1, <1>2 DEF Load

\* A grading begins: alone, or else every grading of its submission knows.
LEMMA GradeMarks ==
  ASSUME MarksInv, NEW g \in Gradings, NEW s \in Subs, Grade(g, s)
  PROVE  Lone' /\ Whole' /\ Agrees(mem)' /\ Agrees(disk)'
<1> USE ValueFacts DEF MarksInv
<1>1. /\ UNCHANGED <<mem, disk, file, hurt>>
      /\ g \in Requests /\ req[g].at = "idle"
      /\ apart' = IF Active(s) # {} THEN apart \cup {s} ELSE apart
  BY DEF Grade, Idle, stores, Requests
<1>2. /\ req'[g].at = "load" /\ req'[g].sub = s /\ (req'[g].alone <=> Active(s) = {})
      /\ \A q \in Requests \ {g} :
            /\ req'[q].at = req[q].at /\ req'[q].sub = req[q].sub
            /\ req'[q].puts = req[q].puts /\ req'[q].mixed = req[q].mixed
            /\ req'[q].alone <=> req[q].alone /\ q \notin Active(s)
  <2>1. req \in [Requests -> HandlerRec]
    BY DEF Inv, Typed
  <2>2. /\ req'[g] = [Handler("load", s, g, SaveSubmission(s, g)) EXCEPT !.alone = (Active(s) = {})]
        /\ \A q \in Requests \ {g} :
              req'[q] = IF q \in Active(s) THEN [req[q] EXCEPT !.alone = FALSE] ELSE req[q]
    BY <1>1 DEF Grade
  <2>3. req'[g].at = "load" /\ req'[g].sub = s /\ (req'[g].alone <=> Active(s) = {})
    BY <2>2 DEF Handler
  <2>4. ASSUME NEW q \in Requests \ {g}
        PROVE  /\ req'[q].at = req[q].at /\ req'[q].sub = req[q].sub
               /\ req'[q].puts = req[q].puts /\ req'[q].mixed = req[q].mixed
               /\ req'[q].alone <=> req[q].alone /\ q \notin Active(s)
    <3>1. req[q] \in HandlerRec
      BY <2>1
    <3>2. CASE q \in Active(s)
      BY <2>2, <3>1, <3>2 DEF HandlerRec
    <3>3. CASE q \notin Active(s)
      BY <2>2, <3>1, <3>3
    <3> QED
      BY <3>2, <3>3
  <2> QED
    BY <2>3, <2>4
<1>3. \A h \in Gradings : h \in Active(s) <=> req[h].sub = s /\ Under(h)
  BY DEF Active, Under
<1>4. Lone'
  <2> SUFFICES ASSUME NEW x \in Gradings, Under(x)'
               PROVE  IF req'[x].alone
                      THEN \A h \in Gradings : Under(h)' /\ req'[h].sub = req'[x].sub => h = x
                      ELSE req'[x].sub \in apart'
    BY DEF Lone
  <2>1. CASE req'[x].sub = s
    <3>1. CASE Active(s) = {}
      BY <1>1, <1>2, <1>3, <2>1, <3>1 DEF Under, Requests
    <3>2. CASE Active(s) # {}
      BY <1>1, <1>2, <1>3, <2>1, <3>2 DEF Under, Requests
    <3> QED
      BY <3>1, <3>2
  <2>2. CASE req'[x].sub # s
    BY <1>1, <1>2, <1>3, <2>2 DEF Lone, Under, Requests
  <2> QED
    BY <2>1, <2>2
<1>5. Whole'
  BY <1>1, <1>2 DEF Whole, Requests
<1>6. \A t \in Subs : Touched(t)' <=> Touched(t)
  BY <1>1, <1>2 DEF Touched, Requests
<1>7. Agrees(mem)' /\ Agrees(disk)'
  BY <1>1, <1>6 DEF Agrees
<1> QED
  BY <1>4, <1>5, <1>7

\* A submission or the creation begins.
LEMMA BeginMarks ==
  ASSUME MarksInv, Create \/ \E t \in Subs : Submit(t)
  PROVE  Lone' /\ Whole' /\ Agrees(mem)' /\ Agrees(disk)'
<1> USE ValueFacts DEF MarksInv
<1>1. /\ UNCHANGED <<mem, disk, file, hurt, apart>>
      /\ \E r \in Subs \cup {Creation} :
            /\ \A q \in Requests \ {r} : req'[q] = req[q]
            /\ r \in Subs => req'[r].at = "truncate"
  BY DEF Create, Submit, Handler, Inv, Typed, stores, told, Requests
<1>2. \A g \in Gradings : req'[g] = req[g]
  BY <1>1 DEF Requests
<1>3. Lone'
  BY <1>1, <1>2 DEF Lone, Under
<1>4. Whole'
  BY <1>1, <1>2 DEF Whole, Requests
<1>5. \A t \in Subs : Touched(t)' <=> Touched(t)
  BY <1>2 DEF Touched
<1>6. Agrees(mem)' /\ Agrees(disk)'
  BY <1>1, <1>5 DEF Agrees
<1> QED
  BY <1>3, <1>4, <1>6

\* A crash: what was being written is hit, what was being inserted stays apart.
LEMMA CrashMarks ==
  ASSUME MarksInv, Crash
  PROVE  Lone' /\ Whole' /\ Agrees(mem)' /\ Agrees(disk)'
<1> USE DEF MarksInv
<1>1. /\ mem' = disk /\ UNCHANGED <<disk, file>>
      /\ \A q \in Requests : req'[q].at \in {"idle", "done"}
      /\ hurt \subseteq hurt' /\ apart \subseteq apart'
      /\ \A g \in Gradings : /\ req[g].at = "write" => req[g].sub \in hurt'
                             /\ req[g].at = "put" => req[g].sub \in apart'
  BY DEF Crash, Over, Handler, Idle, Requests
<1>2. Lone' /\ Whole'
  BY <1>1 DEF Lone, Whole, Under, Requests
<1>3. \A t \in Subs : t \notin apart' \cup hurt' => t \notin apart \cup hurt /\ ~Touched(t)
  BY <1>1 DEF Touched
<1>4. Agrees(mem)' /\ Agrees(disk)'
  BY <1>1, <1>3 DEF Agrees
<1> QED
  BY <1>2, <1>4

\* One lemma per operation shows that the marks keep their relation.
LEMMA MarksInductive == MarksInv /\ [Next]_vars => MarksInv'
<1> SUFFICES ASSUME MarksInv, [Next]_vars PROVE Lone' /\ Whole' /\ Agrees(mem)' /\ Agrees(disk)'
  BY InvInductive DEF MarksInv
<1>1. CASE \E r \in Requests : Truncate(r) \/ Write(r) \/ Insert(r) \/ Answer(r)
  BY <1>1, TruncateMarks, WriteMarks, InsertMarks, AnswerMarks
<1>2. CASE \E r \in Requests : WriteFails(r) \/ DatabaseFails(r)
  BY <1>2, FailsMarks
<1>3. CASE BackgroundFlush
  <2>1. UNCHANGED <<mem, file, req, hurt, apart>> /\ disk' = mem
    BY <1>3 DEF BackgroundFlush, told
  <2> QED
    BY <2>1 DEF MarksInv, Lone, Whole, Agrees, Touched, Under
<1>4. CASE Crash
  BY <1>4, CrashMarks
<1>5. CASE Create \/ \E s \in Subs : Submit(s)
  BY <1>5, BeginMarks
<1>6. CASE \E g \in Gradings : Load(g) \/ \E s \in Subs : Grade(g, s)
  BY <1>6, LoadMarks, GradeMarks
<1>7. CASE \/ BackupDatabase \/ BackupEnds \/ \E s \in Subs : BackupFile(s)
           \/ UNCHANGED vars
  <2>1. UNCHANGED <<mem, disk, file, req, hurt, apart>>
    BY <1>7 DEF BackupDatabase, BackupEnds, BackupFile, vars, stores, told
  <2> QED
    BY <2>1 DEF MarksInv, Lone, Whole, Agrees, Touched, Under
<1> QED
  BY <1>1, <1>2, <1>3, <1>4, <1>5, <1>6, <1>7 DEF Next

(* Once a grading has run alone to its end the mark in the database is the *)
(* one in the file, and stays so until another grading begins, through any *)
(* number of crashes and failures elsewhere (grade_submission).            *)
THEOREM MarksAlwaysAgree == Spec => []MarksAgree
<1>1. MarksInv => MarksAgree
  BY DEF MarksInv, Agrees, MarksAgree, Touched, Active
<1> QED
  BY <1>1, MarksInit, MarksInductive, PTL DEF Spec

-----------------------------------------------------------------------------
(* Types                                                                   *)

Counted == fails \in 0 .. MaxFails /\ crashes \in 0 .. MaxCrashes

TypesInv == /\ Inv /\ Counted
            /\ TypedDb(mem) /\ TypedDb(disk)
            /\ backup.records \in [Subs -> {None} \cup Marks]

\* What a sequence of inserts holds.
LEMMA Elements ==
  ASSUME NEW S, NEW p \in Seq([key : S, value : Values])
  PROVE  \A i \in DOMAIN p : p[i].key \in S
<1> DEFINE T == [key : S, value : Values]
<1>1. \A e \in T : e.key \in S
  OBVIOUS
<1> HIDE DEF T
<1>2. p \in Seq(T)
  BY DEF T
<1>3. DOMAIN p = 1 .. Len(p)
  BY <1>2
<1>4. \A i \in 1 .. Len(p) : p[i] \in T
  BY <1>2
<1> QED
  BY <1>1, <1>3, <1>4

\* Every handler inserts what belongs under the key.
LEMMA InsertTypes ==
  ASSUME Inv, TypedDb(mem), NEW r \in Requests, Insert(r)
  PROVE  TypedDb(mem)'
<1> USE ValueFacts, KeyFacts
<1> DEFINE s == req[r].sub
           h == Head(req[r].puts)
<1>1. /\ req[r].at = "put" /\ req[r].puts # <<>>
      /\ mem' = [mem EXCEPT ![h.key] = h.value]
  BY DEF Insert
<1>2. DOMAIN mem' = Keys /\ \A k \in Keys : mem'[k] = IF k = h.key THEN h.value ELSE mem[k]
  BY <1>1 DEF TypedDb
<1>3. \/ \E t \in Subs : h.key = Sub(t) /\ h.value \in Marks
      \/ h.value = Entry /\ (h.key \in HomeworkKeys \/ \E t \in Subs : h.key = SubHw(t))
  <2>1. CASE r = Creation
    <3>1. req[r].puts \in {SaveHomework, Tail(SaveHomework), Tail(Tail(SaveHomework))}
      BY <1>1, <2>1 DEF Inv, Shape
    <3>2. h \in {Put(Hw, Entry), Put(<<"hw_class", Creation>>, Entry),
                 Put(<<"hw_teacher", Creation>>, Entry)}
      BY <3>1, PutsFacts
    <3> QED
      BY <3>2 DEF Put
  <2>2. CASE r \in Subs \cup Gradings
    <3>1. s \in Subs /\ req[r].mark \in Marks
          /\ \/ req[r].puts = SaveSubmission(s, req[r].mark)
             \/ req[r].puts = <<Put(SubHw(s), Entry)>>
      BY <1>1, <2>2 DEF Inv, Shape, Marks
    <3>2. CASE req[r].puts = SaveSubmission(s, req[r].mark)
      BY <3>1, <3>2, PutsFacts DEF Put
    <3>3. CASE req[r].puts = <<Put(SubHw(s), Entry)>>
      BY <3>1, <3>3, PutsFacts DEF Put
    <3> QED
      BY <3>1, <3>2, <3>3
  <2> QED
    BY <2>1, <2>2 DEF Requests
<1> HIDE DEF h
<1>4. CASE \E t \in Subs : h.key = Sub(t) /\ h.value \in Marks
  BY <1>2, <1>4 DEF TypedDb
<1>5. CASE h.value = Entry /\ (h.key \in HomeworkKeys \/ \E t \in Subs : h.key = SubHw(t))
  BY <1>2, <1>5 DEF TypedDb
<1> QED
  BY <1>3, <1>4, <1>5

\* Empty databases are well typed.
LEMMA TypesInit == Init => TypesInv
<1> SUFFICES ASSUME Init PROVE TypesInv
  OBVIOUS
<1>1. Counted
  BY HomeworkAssumption DEF Init, Counted
<1>2. TypedDb(mem) /\ TypedDb(disk) /\ backup.records \in [Subs -> {None} \cup Marks]
  BY KeyFacts DEF Init, NoBackup, TypedDb
<1> QED
  BY <1>1, <1>2, InitInv DEF TypesInv

\* Only an insert puts a value into a database; all else copies one.
LEMMA TypesInductive == TypesInv /\ [Next]_vars => TypesInv'
<1> SUFFICES ASSUME TypesInv, [Next]_vars
             PROVE  /\ Counted' /\ TypedDb(mem)' /\ TypedDb(disk)'
                    /\ (backup.records \in [Subs -> {None} \cup Marks])'
  BY InvInductive DEF TypesInv
<1> USE DEF TypesInv
<1>1. Counted'
  <2>1. \/ fails' = fails \/ (fails < MaxFails /\ fails' = fails + 1)
    BY DEF Next, vars, bounds, CanFail, Truncate, Write, WriteFails, Insert, Answer,
           DatabaseFails, BackgroundFlush, Crash, Create, Submit, Load, Grade,
           BackupDatabase, BackupEnds, BackupFile
  <2>2. \/ crashes' = crashes \/ (crashes < MaxCrashes /\ crashes' = crashes + 1)
    BY DEF Next, vars, bounds, CanFail, Truncate, Write, WriteFails, Insert, Answer,
           DatabaseFails, BackgroundFlush, Crash, Create, Submit, Load, Grade,
           BackupDatabase, BackupEnds, BackupFile
  <2> QED
    BY <2>1, <2>2, HomeworkAssumption DEF Counted
<1>2. CASE \E r \in Requests : Insert(r)
  <2>1. UNCHANGED <<disk, backup>>
    BY <1>2 DEF Insert
  <2> QED
    BY <1>1, <1>2, <2>1, InsertTypes
<1>3. CASE ~\E r \in Requests : Insert(r)
  <2>1. mem' \in {mem, disk} /\ disk' \in {mem, disk}
    BY <1>3 DEF Next, vars, stores, Truncate, Write, WriteFails, Answer,
           DatabaseFails, BackgroundFlush, Crash, Create, Submit, Load, Grade,
           BackupDatabase, BackupEnds, BackupFile
  <2>2. backup'.records \in {backup.records, Submitted(disk), NoBackup.records}
    <3>1. backup \in BackupRec
      BY DEF Inv, Typed
    <3>2. CASE BackupDatabase
      BY <3>2 DEF BackupDatabase, NoBackup
    <3>3. CASE BackupEnds \/ \E s \in Subs : BackupFile(s)
      BY <3>1, <3>3 DEF BackupEnds, BackupFile, BackupRec
    <3>4. CASE Crash
      BY <3>4 DEF Crash
    <3>5. CASE backup' = backup
      BY <3>5
    <3> QED
      BY <3>2, <3>3, <3>4, <3>5 DEF Next, vars, stores, Truncate, Write, WriteFails, Insert,
         Answer, DatabaseFails, BackgroundFlush, Create, Submit, Load, Grade
  <2>3. {Submitted(disk), NoBackup.records} \subseteq [Subs -> {None} \cup Marks]
    BY DEF NoBackup, Submitted, TypedDb
  <2>4. TypedDb(mem)' /\ TypedDb(disk)'
    BY <2>1 DEF TypedDb
  <2>5. (backup.records \in [Subs -> {None} \cup Marks])'
    BY <2>2, <2>3
  <2> QED
    BY <1>1, <2>4, <2>5
<1> QED
  BY <1>2, <1>3

(* Every variable keeps its type: marks stay in the records of submissions *)
(* and entries in the indexes, whatever is lost in a crash.                *)
THEOREM TypeCorrect == Spec => []TypeOK
<1>1. TypesInv => TypeOK
  <2> SUFFICES ASSUME TypesInv PROVE TypeOK
    OBVIOUS
  <2>1. ASSUME NEW r \in Requests
        PROVE  /\ req[r].at \in States
               /\ req[r].sub \in Subs \cup {None} /\ req[r].mark \in Marks \cup {None}
               /\ req[r].mixed \in BOOLEAN /\ req[r].alone \in BOOLEAN
               /\ \A i \in DOMAIN req[r].puts : req[r].puts[i].key \in Keys
    <3>1. req[r] \in HandlerRec
      BY DEF TypesInv, Inv, Typed
    <3>2. req[r].puts \in Seq([key : Keys, value : Values])
      BY <3>1 DEF HandlerRec, Puts
    <3>3. \A i \in DOMAIN req[r].puts : req[r].puts[i].key \in Keys
      BY <3>2, Elements
    <3> QED
      BY <3>1, <3>3 DEF HandlerRec
  <2>2. /\ backup.at \in {"idle", "files", "done"} /\ backup.todo \subseteq Subs
        /\ backup.spoiled \subseteq Subs /\ backup.file \in [Subs -> Files]
    BY DEF TypesInv, Inv, Typed, BackupRec
  <2> QED
    BY <2>1, <2>2 DEF TypesInv, Counted, Inv, Typed, TypeOK, States
<1> QED
  BY <1>1, TypesInit, TypesInductive, PTL DEF Spec
=============================================================================
