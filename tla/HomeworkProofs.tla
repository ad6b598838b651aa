--------------------------- MODULE HomeworkProofs ---------------------------
(***************************************************************************)
(* The homework handlers, for any number of submissions, gradings, crashes *)
(* and failed writes.                                                      *)
(***************************************************************************)
EXTENDS Homework, TLAPS

States == {"idle", "load", "truncate", "write", "put", "done"}
Values == {None, Entry} \cup Marks

Puts == Seq([key : Keys, value : Values])

HandlerRec == [at : States, sub : Subs \cup {None}, mark : Marks \cup {None}, puts : Puts,
               mixed : BOOLEAN, alone : BOOLEAN]

Dbs == [Keys -> Values]

BackupRec == [at : {"idle", "files", "done"}, records : [Subs -> Values],
              file : [Subs -> Files], todo : SUBSET Subs, spoiled : SUBSET Subs]

Typed ==
    /\ mem \in Dbs /\ disk \in Dbs
    /\ file \in [Subs -> Files]
    /\ req \in [Requests -> HandlerRec]
    /\ backup \in BackupRec
    /\ replied \subseteq Requests /\ hurt \subseteq Subs /\ apart \subseteq Subs

\* What each kind of handler is about, and the inserts it can have left.
Shape ==
    /\ \A r \in Subs \cup Gradings :
          /\ req[r].at # "idle" => req[r].sub \in Subs
          /\ req[r].at \in {"load", "truncate", "write"} =>
                req[r].puts = SaveSubmission(req[r].sub, req[r].mark)
          /\ req[r].at = "put" =>
                req[r].puts \in {SaveSubmission(req[r].sub, req[r].mark),
                                 <<Put(SubHw(req[r].sub), Entry)>>, <<>>}
    /\ \A s \in Subs : /\ req[s].at # "load"
                       /\ req[s].at # "idle" => req[s].sub = s /\ req[s].mark = Ungraded
    /\ \A g \in Gradings : req[g].at # "idle" => req[g].mark = g
    /\ req[Creation].at \in {"idle", "put", "done"}
    /\ req[Creation].at = "put" =>
          req[Creation].puts \in {SaveHomework, Tail(SaveHomework), Tail(Tail(SaveHomework)), <<>>}

\* The submission s has written its file and its record, or has failed.
Recorded(s) == req[s].at = "done" \/ (req[s].at = "put" /\ Len(req[s].puts) < 2)

\* A record exists, and a grading is under way, only after that.
Ordered ==
    /\ \A s \in Subs : mem[Sub(s)] # None => Recorded(s)
    /\ \A g \in Gradings : req[g].at # "idle" => Recorded(req[g].sub)

\* The file goes with the databases, and with what a handler will insert.
Filed ==
    /\ Backs(file, mem) /\ Backs(file, disk)
    /\ \A r \in Subs \cup Gradings : req[r].at = "put" =>
          /\ file[req[r].sub] # None
          /\ r \in Gradings => file[req[r].sub] # Ungraded

\* What a handler no longer has left is in the database.
Inserted ==
    /\ \A r \in Subs \cup Gradings : req[r].at = "put" =>
          /\ Len(req[r].puts) < 2 => /\ mem[Sub(req[r].sub)] # None
                                     /\ r \in Gradings => mem[Sub(req[r].sub)] \in Gradings
          /\ Len(req[r].puts) < 1 => mem[SubHw(req[r].sub)] # None
    /\ req[Creation].at = "put" =>
          /\ Len(req[Creation].puts) < 3 => mem[Hw] # None
          /\ Len(req[Creation].puts) < 2 => mem[<<"hw_class", Creation>>] # None
          /\ Len(req[Creation].puts) < 1 => mem[<<"hw_teacher", Creation>>] # None

\* Nothing on the disk is newer than what is in memory.
Behind ==
    /\ \A k \in Keys : disk[k] # None => mem[k] # None
    /\ \A s \in Subs : disk[Sub(s)] \in Gradings => mem[Sub(s)] \in Gradings

Durable ==
    /\ ReplyIsDurable
    /\ \A r \in replied : req[r].at = "done"

\* A file is unreadable only while a handler writes it or after it was hit.
Readable == \A s \in Subs : file[s] = Torn => s \in hurt \/ BeingWritten(s)

\* The copied database goes with the files copied and with those still to copy,
\* and an unreadable copy is known to be one.
Backed ==
    /\ backup.at # "files" => backup.todo = {}
    /\ \A s \in Subs :
          LET f == IF s \in backup.todo THEN file[s] ELSE backup.file[s]
          IN  /\ backup.records[s] # None => f # None /\ Recorded(s)
              /\ backup.records[s] \in Gradings => f # Ungraded
    /\ \A s \in Subs : backup.file[s] = Torn => s \in backup.spoiled

Inv == /\ Typed /\ Shape /\ Ordered /\ Filed /\ Inserted /\ Behind
       /\ Durable /\ Readable /\ Backed

LEMMA KeyFacts ==
    /\ \A s \in Subs : Sub(s) \in Keys /\ SubHw(s) \in Keys
    /\ HomeworkKeys \subseteq Keys
    /\ Hw \in HomeworkKeys /\ <<"hw_class", Creation>> \in HomeworkKeys
    /\ <<"hw_teacher", Creation>> \in HomeworkKeys
    /\ \A s, t \in Subs : Sub(s) = Sub(t) => s = t
    /\ \A s, t \in Subs : SubHw(s) = SubHw(t) => s = t
    /\ \A s, t \in Subs : Sub(s) # SubHw(t)
    /\ \A s \in Subs, k \in HomeworkKeys : Sub(s) # k /\ SubHw(s) # k
  BY DEF Sub, SubHw, Keys, HomeworkKeys, Hw

\* The constants are distinct values.
LEMMA ValueFacts ==
    /\ None # Torn /\ None # Ungraded /\ None # Entry
    /\ Torn # Ungraded /\ Torn # Entry /\ Ungraded # Entry
    /\ \A r \in Requests : r # None /\ r # Torn /\ r # Ungraded /\ r # Entry
    /\ Creation \notin Subs /\ Creation \notin Gradings
    /\ \A s \in Subs : s \notin Gradings
  BY HomeworkAssumption DEF HomeworkAssumption, Requests

\* The inserts of a submission, one after the other.
LEMMA PutsFacts ==
    /\ \A s, mark : Len(SaveSubmission(s, mark)) = 2
    /\ \A s, mark : Head(SaveSubmission(s, mark)) = Put(Sub(s), mark)
    /\ \A s, mark : Tail(SaveSubmission(s, mark)) = <<Put(SubHw(s), Entry)>>
    /\ \A p : Len(<<p>>) = 1 /\ Head(<<p>>) = p /\ Tail(<<p>>) = <<>>
    /\ Len(<<>>) = 0
    /\ Len(SaveHomework) = 3 /\ Len(Tail(SaveHomework)) = 2
    /\ Len(Tail(Tail(SaveHomework))) = 1 /\ Tail(Tail(Tail(SaveHomework))) = <<>>
    /\ Head(SaveHomework) = Put(Hw, Entry)
    /\ Head(Tail(SaveHomework)) = Put(<<"hw_class", Creation>>, Entry)
    /\ Head(Tail(Tail(SaveHomework))) = Put(<<"hw_teacher", Creation>>, Entry)
  BY DEF SaveSubmission, SaveHomework

LEMMA InitInv == Init => Inv
<1> SUFFICES ASSUME Init PROVE Inv
  OBVIOUS
<1> USE ValueFacts, KeyFacts DEF Init
<1>1. Typed
  BY DEF Typed, Dbs, Values, Files, HandlerRec, Puts, States, BackupRec, NoBackup, Handler
<1>2. Shape /\ Ordered /\ Inserted
  BY DEF Shape, Ordered, Inserted, Handler, Requests
<1>3. Filed /\ Behind /\ Durable /\ Readable /\ Backed
  BY DEF Filed, Backs, Behind, Durable, ReplyIsDurable, Readable, BeingWritten, Backed, NoBackup, Handler, Requests
<1>4. QED
  BY <1>1, <1>2, <1>3 DEF Inv

\* A step that keeps the records and starts no grading keeps their order.
LEMMA OrderedKept ==
  ASSUME Inv, UNCHANGED mem, \A s \in Subs : Recorded(s) => Recorded(s)',
         \A g \in Gradings : req'[g].at # "idle" => req[g].at # "idle" /\ req'[g].sub = req[g].sub
  PROVE  Ordered'
<1>1. \A s \in Subs : mem'[Sub(s)] # None => Recorded(s)'
  BY DEF Inv, Ordered
<1>2. ASSUME NEW g \in Gradings, req'[g].at # "idle" PROVE Recorded(req[g].sub)'
  <2>1. req[g].at # "idle" /\ req'[g].sub = req[g].sub
    BY <1>2
  <2>2. Recorded(req[g].sub) /\ req[g].sub \in Subs
    BY <2>1 DEF Inv, Ordered, Shape
  <2>3. QED
    BY <2>1, <2>2 DEF Recorded
<1>3. QED
  BY <1>1, <1>2 DEF Ordered, Recorded

\* A step that leaves the disk and the answered requests alone loses none.
LEMMA DurableKept ==
  ASSUME Inv, UNCHANGED <<disk, replied>>,
         \A q \in replied : req'[q].at = "done" /\ req'[q].sub = req[q].sub
  PROVE  Durable'
<1>1. replied \subseteq Requests
  BY DEF Inv, Typed
<1>2. ReplyIsDurable'
  BY <1>1 DEF Inv, Durable, ReplyIsDurable
<1>3. QED
  BY <1>2 DEF Durable

\* A handler truncates the file of its submission and begins to write it.
LEMMA TruncateInv == ASSUME Inv, NEW r \in Requests, Truncate(r) PROVE Inv'
<1> USE ValueFacts, KeyFacts
<1>0. /\ r \in Subs \cup Gradings /\ req[r].sub \in Subs
      /\ r \in Subs => ~Recorded(req[r].sub)
      /\ ~Recorded(r)
  BY DEF Inv, Truncate, Shape, Requests, Recorded
<1>1. /\ UNCHANGED <<mem, disk, backup, replied, hurt, apart>>
      /\ req[r].at = "truncate"
      /\ req' = [req EXCEPT ![r].at = "write", ![r].mixed = FALSE]
      /\ req \in [Requests -> HandlerRec]
  BY DEF Inv, Typed, Truncate, told
<1>2. /\ req' \in [Requests -> HandlerRec]
      /\ \A q \in Requests \ {r} : req'[q] = req[q]
      /\ req'[r].at = "write"
      /\ \A q \in Requests : /\ req'[q].sub = req[q].sub /\ req'[q].mark = req[q].mark
                             /\ req'[q].puts = req[q].puts
  <2>1. req[r] \in HandlerRec
    BY <1>1
  <2>2. /\ req'[r] = [[req[r] EXCEPT !.at = "write"] EXCEPT !.mixed = FALSE]
        /\ DOMAIN req' = Requests
        /\ \A q \in Requests \ {r} : req'[q] = req[q]
    BY <1>1
  <2>3. /\ req'[r] \in HandlerRec /\ req'[r].at = "write" /\ req'[r].sub = req[r].sub
        /\ req'[r].mark = req[r].mark /\ req'[r].puts = req[r].puts
    BY <2>1, <2>2 DEF HandlerRec, States
  <2>4. req' \in [Requests -> HandlerRec]
    BY <1>1, <2>2, <2>3
  <2>5. QED
    BY <2>2, <2>3, <2>4
<1>3. /\ file' \in [Subs -> Files]
      /\ \A s \in Subs : file'[s] = IF s = req[r].sub THEN Torn ELSE file[s]
  BY <1>0 DEF Inv, Typed, Truncate, Files
<1>4. \A s \in Subs : Recorded(s) => Recorded(s)'
  BY <1>0, <1>2 DEF Recorded, Requests
<1>5. Typed'
  BY <1>1, <1>2, <1>3 DEF Inv, Typed
<1>6. Shape'
  BY <1>0, <1>1, <1>2 DEF Inv, Shape, Requests
<1>7. Ordered'
  BY <1>1, <1>2, <1>4, OrderedKept DEF Requests
<1>8. Filed'
  BY <1>0, <1>1, <1>2, <1>3 DEF Inv, Filed, Backs, Marks, Requests, Shape
<1>9. Inserted'
  BY <1>0, <1>1, <1>2 DEF Inv, Inserted, Requests
<1>10. Behind' /\ Durable'
  <2>1. Behind'
    BY <1>1 DEF Inv, Behind
  <2>2. Durable'
    BY <1>1, <1>2, DurableKept DEF Inv, Durable, Typed
  <2>3. QED
    BY <2>1, <2>2
<1>11. Readable'
  BY <1>0, <1>1, <1>2, <1>3 DEF Inv, Readable, BeingWritten
<1>12. Backed'
  BY <1>0, <1>1, <1>3, <1>4 DEF Inv, Backed, Marks
<1>13. QED
  BY <1>5, <1>6, <1>7, <1>8, <1>9, <1>10, <1>11, <1>12 DEF Inv

\* It writes the file: its mark, or, after an overlap, an unreadable mixture.
LEMMA WriteInv == ASSUME Inv, NEW r \in Requests, Write(r) PROVE Inv'
<1> USE ValueFacts, KeyFacts
<1> DEFINE s == req[r].sub
<1>0. /\ r \in Subs \cup Gradings /\ s \in Subs
      /\ r \in Subs => ~Recorded(s) /\ s = r /\ req[r].mark = Ungraded
      /\ r \in Gradings => Recorded(s) /\ req[r].mark = r
      /\ ~Recorded(r)
  BY DEF Inv, Write, Shape, Ordered, Requests, Recorded
<1>1. /\ UNCHANGED <<mem, disk, backup, replied, apart>>
      /\ req[r].at = "write" /\ hurt \subseteq hurt' /\ hurt' \subseteq Subs
      /\ req' \in [Requests -> HandlerRec]
      /\ req'[r].at = "put"
      /\ \A q \in Requests : q # r => req'[q].at = req[q].at
      /\ \A q \in Requests : /\ req'[q].sub = req[q].sub /\ req'[q].mark = req[q].mark
                             /\ req'[q].puts = req[q].puts
  <2>1. /\ req \in [Requests -> HandlerRec] /\ req[r] \in HandlerRec
        /\ UNCHANGED <<mem, disk, backup, replied, apart>>
        /\ req[r].at = "write" /\ hurt \subseteq hurt' /\ hurt' \subseteq Subs
    BY <1>0 DEF Inv, Typed, Write
  <2>2. /\ DOMAIN req' = Requests /\ req' = [q \in Requests |-> req'[q]]
        /\ req'[r] = [req[r] EXCEPT !.at = "put"]
        /\ \A q \in Requests \ {r} : req'[q] \in {req[q], [req[q] EXCEPT !.mixed = TRUE]}
    BY DEF Write
  <2>3. /\ req'[r] \in HandlerRec /\ req'[r].at = "put" /\ req'[r].sub = req[r].sub
        /\ req'[r].mark = req[r].mark /\ req'[r].puts = req[r].puts
    BY <2>1, <2>2 DEF HandlerRec, States
  <2>4. ASSUME NEW q \in Requests \ {r}
        PROVE /\ req'[q] \in HandlerRec /\ req'[q].at = req[q].at /\ req'[q].sub = req[q].sub
              /\ req'[q].mark = req[q].mark /\ req'[q].puts = req[q].puts
    <3>1. req[q] \in HandlerRec
      BY <2>1
    <3>2. CASE req'[q] = req[q]
      BY <3>1, <3>2 DEF HandlerRec
    <3>3. CASE req'[q] = [req[q] EXCEPT !.mixed = TRUE]
      BY <3>1, <3>3 DEF HandlerRec
    <3>4. QED
      BY <2>2, <3>2, <3>3
  <2>5. req' \in [Requests -> HandlerRec]
    BY <2>2, <2>3, <2>4
  <2>6. QED
    BY <2>1, <2>3, <2>4, <2>5
<1>2. /\ file' \in [Subs -> Files]
      /\ \A t \in Subs \ {s} : file'[t] = file[t]
      /\ file'[s] = req[r].mark \/ (file'[s] = Torn /\ s \in hurt')
  BY <1>0 DEF Inv, Typed, Write, Files, Marks
<1>3. \A t \in Subs : Recorded(t) => Recorded(t)'
  BY <1>0, <1>1 DEF Recorded, Requests
<1>4. r \in Gradings => file'[s] # Ungraded
  BY <1>0, <1>2, <1>1 DEF Requests
<1>5. file'[s] # None /\ (file'[s] = Torn => s \in hurt')
  BY <1>0, <1>1, <1>2 DEF Requests
<1>6. Typed'
  BY <1>1, <1>2 DEF Inv, Typed
<1>7. Shape'
  BY <1>0, <1>1 DEF Inv, Shape, Requests
<1>8. Ordered'
  BY <1>1, <1>3, OrderedKept DEF Requests
<1>9. Filed'
  <2>1. r \in Subs => mem[Sub(s)] = None /\ disk[Sub(s)] = None
    BY <1>0 DEF Inv, Ordered, Behind
  <2>2. Backs(file, mem)' /\ Backs(file, disk)'
    BY <1>0, <1>1, <1>2, <1>4, <1>5, <2>1 DEF Inv, Filed, Backs, Requests
  <2>3. ASSUME NEW q \in Subs \cup Gradings, req'[q].at = "put"
        PROVE file'[req[q].sub] # None /\ (q \in Gradings => file'[req[q].sub] # Ungraded)
    <3>1. CASE req[q].sub # s
      BY <1>1, <1>2, <2>3, <3>1 DEF Inv, Filed, Shape, Requests
    <3>2. CASE req[q].sub = s
      <4>1. q \in Gradings => r \in Gradings
        <5>1. q \in Gradings => req[q].at # "idle"
          BY <1>1, <2>3 DEF Requests
        <5>2. q \in Gradings => Recorded(s)
          BY <5>1, <3>2 DEF Inv, Ordered
        <5>3. QED
          BY <5>2, <1>0
      <4>2. QED
        BY <3>2, <4>1, <1>4, <1>5
    <3>3. QED
      BY <3>1, <3>2
  <2>4. QED
    BY <2>2, <2>3, <1>1 DEF Filed, Requests
<1>10. Inserted'
  <2>1. Len(req'[r].puts) = 2
    BY <1>0, <1>1, PutsFacts DEF Inv, Shape, Requests
  <2>2. /\ \A q \in Requests : q # r /\ req'[q].at = "put" => req[q].at = "put"
        /\ r # Creation
    BY <1>0, <1>1
  <2>3. QED
    BY <1>0, <1>1, <2>1, <2>2 DEF Inv, Inserted, Requests
<1>11. Behind'
  BY <1>1 DEF Inv, Behind
<1>12. Durable'
  BY <1>1, DurableKept DEF Inv, Durable, Typed
<1>13. Readable'
  BY <1>0, <1>1, <1>2, <1>5 DEF Inv, Readable, BeingWritten
<1>14. Backed'
  <2>1. ASSUME NEW t \in Subs, backup.records[t] # None PROVE Recorded(t)
    BY <2>1 DEF Inv, Backed
  <2>2. backup.records[s] # None => r \in Gradings
    BY <1>0, <2>1
  <2>3. \A t \in Subs : backup.records[t] \in Gradings => backup.records[t] # None
    BY DEF Requests
  <2>4. QED
    BY <1>0, <1>1, <1>2, <1>3, <1>4, <1>5, <2>2, <2>3 DEF Inv, Backed
<1>15. QED
  BY <1>6, <1>7, <1>8, <1>9, <1>10, <1>11, <1>12, <1>13, <1>14 DEF Inv

\* A handler that ends, whether with an error or not, while the stores stay as
\* they are; a file it was writing is hit.
LEMMA OverInv ==
  ASSUME Inv, NEW r \in Requests, req[r].at \notin {"idle", "done"},
         req' = [req EXCEPT ![r] = Over(@)],
         UNCHANGED <<mem, disk, file, backup, replied>>,
         hurt \subseteq hurt', hurt' \subseteq Subs, apart' \subseteq Subs,
         req[r].at = "write" => req[r].sub \in hurt'
  PROVE  Inv'
<1> USE ValueFacts, KeyFacts
<1>1. /\ req \in [Requests -> HandlerRec] /\ req' \in [Requests -> HandlerRec]
      /\ req'[r].at = "done" /\ req'[r].sub = req[r].sub /\ req'[r].mark = req[r].mark
      /\ \A q \in Requests \ {r} : req'[q] = req[q]
  <2>1. req \in [Requests -> HandlerRec] /\ req[r] \in HandlerRec
    BY DEF Inv, Typed
  <2>2. <<>> \in Puts
    BY DEF Puts
  <2>3. Over(req[r]) \in HandlerRec
    BY <2>1, <2>2 DEF Over, Handler, HandlerRec, States
  <2>4. QED
    BY <2>1, <2>3 DEF Over, Handler
<1>2. \A t \in Subs : Recorded(t) => Recorded(t)'
  BY <1>1 DEF Recorded, Requests
<1>3. Typed'
  BY <1>1 DEF Inv, Typed
<1>4. Shape'
  BY <1>1 DEF Inv, Shape, Requests
<1>5. Ordered'
  BY <1>1, <1>2, OrderedKept DEF Requests
<1>6. Filed' /\ Inserted'
  <2>1. \A q \in Requests : req'[q].at = "put" => req'[q] = req[q] /\ req[q].at = "put"
    BY <1>1
  <2>2. Filed'
    BY <2>1 DEF Inv, Filed, Backs, Requests
  <2>3. Inserted'
    BY <2>1 DEF Inv, Inserted, Requests
  <2>4. QED
    BY <2>2, <2>3
<1>7. Behind'
  BY DEF Inv, Behind
<1>8. Durable'
  BY <1>1, DurableKept DEF Inv, Durable, Typed
<1>9. Readable'
  BY <1>1 DEF Inv, Readable, BeingWritten
<1>10. Backed'
  BY <1>2 DEF Inv, Backed
<1>11. QED
  BY <1>3, <1>4, <1>5, <1>6, <1>7, <1>8, <1>9, <1>10 DEF Inv

LEMMA FailsInv == ASSUME Inv, NEW r \in Requests, WriteFails(r) \/ DatabaseFails(r) PROVE Inv'
<1>1. /\ req[r].at \notin {"idle", "done"}
      /\ req' = [req EXCEPT ![r] = Over(@)]
      /\ UNCHANGED <<mem, disk, file, backup, replied>>
  BY DEF WriteFails, DatabaseFails, Fails, stores
<1>2. /\ hurt \subseteq Subs /\ apart \subseteq Subs
      /\ req[r].at = "write" => req[r].sub \in Subs
      /\ r \in Gradings => req[r].sub \in Subs
  BY <1>1 DEF Inv, Typed, Shape, Requests
<1>3. apart' \subseteq Subs
  BY <1>2 DEF WriteFails, DatabaseFails, Fails
<1>4. /\ hurt \subseteq hurt' /\ hurt' \subseteq Subs
      /\ req[r].at = "write" => req[r].sub \in hurt'
  BY <1>2 DEF WriteFails, DatabaseFails
<1>5. QED
  BY <1>1, <1>3, <1>4, OverInv

\* A grading finds its file readable and goes on, or ends.
LEMMA LoadInv == ASSUME Inv, NEW g \in Gradings, Load(g) PROVE Inv'
<1> USE ValueFacts, KeyFacts
<1>0. g \in Requests /\ req[g].sub \in Subs /\ req[g].at = "load"
  BY DEF Inv, Shape, Load, Requests
<1>1. CASE Fails(g)
  <2>1. UNCHANGED <<mem, disk, file, backup, replied, hurt>>
    BY DEF Load, stores
  <2>2. req' = [req EXCEPT ![g] = Over(@)] /\ hurt' \subseteq Subs /\ apart' \subseteq Subs
    BY <1>0, <1>1, <2>1 DEF Fails, Inv, Typed
  <2>3. QED
    BY <1>0, <2>1, <2>2, OverInv
<1>2. CASE Move(g, "truncate") /\ UNCHANGED apart
  <2>1. UNCHANGED <<mem, disk, file, backup, replied, hurt, apart>>
    BY <1>2 DEF Load, stores
  <2>2. /\ req' \in [Requests -> HandlerRec]
        /\ \A q \in Requests \ {g} : req'[q] = req[q]
        /\ req'[g].at = "truncate"
        /\ \A q \in Requests : /\ req'[q].sub = req[q].sub /\ req'[q].mark = req[q].mark
                               /\ req'[q].puts = req[q].puts
    <3>1. req \in [Requests -> HandlerRec] /\ req[g] \in HandlerRec
      BY <1>0 DEF Inv, Typed
    <3>2. /\ req'[g] = [req[g] EXCEPT !.at = "truncate"]
          /\ DOMAIN req' = Requests /\ req' = [q \in Requests |-> req'[q]]
          /\ \A q \in Requests \ {g} : req'[q] = req[q]
      BY <1>0, <1>2, <3>1 DEF Move
    <3>3. /\ req'[g] \in HandlerRec /\ req'[g].at = "truncate" /\ req'[g].sub = req[g].sub
          /\ req'[g].mark = req[g].mark /\ req'[g].puts = req[g].puts
      BY <3>1, <3>2 DEF HandlerRec, States
    <3>4. QED
      BY <3>1, <3>2, <3>3
  <2>3. \A t \in Subs : Recorded(t) => Recorded(t)'
    BY <1>0, <2>2 DEF Recorded, Requests
  <2>4. Typed' /\ Behind'
    BY <2>1, <2>2 DEF Inv, Typed, Behind
  <2>5. Shape'
    BY <1>0, <2>2 DEF Inv, Shape, Requests
  <2>6. Ordered'
    BY <1>0, <2>1, <2>2, <2>3, OrderedKept DEF Requests
  <2>7. Filed' /\ Inserted'
    <3>1. \A q \in Requests : req'[q].at = "put" => req'[q] = req[q] /\ req[q].at = "put"
      BY <1>0, <2>2
    <3>2. Filed'
      BY <2>1, <3>1 DEF Inv, Filed, Backs, Requests
    <3>3. Inserted'
      BY <2>1, <3>1 DEF Inv, Inserted, Requests
    <3>4. QED
      BY <3>2, <3>3
  <2>8. Durable'
    BY <1>0, <2>1, <2>2, DurableKept DEF Inv, Durable, Typed
  <2>9. Readable'
    BY <1>0, <2>1, <2>2 DEF Inv, Readable, BeingWritten
  <2>10. Backed'
    BY <2>1, <2>3 DEF Inv, Backed
  <2>11. QED
    BY <2>4, <2>5, <2>6, <2>7, <2>8, <2>9, <2>10 DEF Inv
<1>3. QED
  BY <1>1, <1>2 DEF Load

\* One insert: of a handler of a submission, then of the creation.
LEMMA InsertInv == ASSUME Inv, NEW r \in Requests, Insert(r) PROVE Inv'
<1> USE ValueFacts, KeyFacts
<1> DEFINE s == req[r].sub
           h == Head(req[r].puts)
<1>0. /\ req \in [Requests -> HandlerRec] /\ mem \in Dbs
      /\ mem' = [mem EXCEPT ![h.key] = h.value]
      /\ req' = [req EXCEPT ![r].puts = Tail(@)]
  BY DEF Inv, Typed, Insert
<1>1. /\ UNCHANGED <<disk, file, backup, replied, hurt, apart>>
      /\ req[r].at = "put" /\ req[r].puts # <<>>
  BY DEF Insert, told
<1>2. /\ req' \in [Requests -> HandlerRec]
      /\ \A q \in Requests \ {r} : req'[q] = req[q]
      /\ req'[r].puts = Tail(req[r].puts)
      /\ \A q \in Requests : /\ req'[q].at = req[q].at /\ req'[q].sub = req[q].sub
                             /\ req'[q].mark = req[q].mark
                             /\ Len(req[q].puts) \in Nat /\ Len(req'[q].puts) \in Nat
  <2>1. req[r] \in HandlerRec
    BY <1>0
  <2>2. Tail(req[r].puts) \in Puts
    BY <1>1, <2>1 DEF HandlerRec, Puts
  <2>3. /\ req'[r] = [req[r] EXCEPT !.puts = Tail(@)] /\ DOMAIN req' = Requests
        /\ req' = [q \in Requests |-> req'[q]]
        /\ \A q \in Requests \ {r} : req'[q] = req[q]
    BY <1>0
  <2>4. /\ req'[r] \in HandlerRec /\ req'[r].puts = Tail(req[r].puts) /\ req'[r].at = req[r].at
        /\ req'[r].sub = req[r].sub /\ req'[r].mark = req[r].mark
    BY <2>1, <2>2, <2>3 DEF HandlerRec
  <2>5. req' \in [Requests -> HandlerRec]
    BY <1>0, <2>3, <2>4
  <2>6. ASSUME NEW q \in Requests PROVE Len(req[q].puts) \in Nat /\ Len(req'[q].puts) \in Nat
    <3>1. req[q].puts \in Puts /\ req'[q].puts \in Puts
      BY <1>0, <2>5 DEF HandlerRec
    <3>2. QED
      BY <3>1 DEF Puts
  <2>7. QED
    BY <2>3, <2>4, <2>5, <2>6
<1>3. \/ /\ r \in Subs \cup Gradings /\ s \in Subs
         /\ req[r].puts = SaveSubmission(s, req[r].mark)
         /\ h = Put(Sub(s), req[r].mark) /\ Tail(req[r].puts) = <<Put(SubHw(s), Entry)>>
         /\ Len(req'[r].puts) = 1
      \/ /\ r \in Subs \cup Gradings /\ s \in Subs
         /\ req[r].puts = <<Put(SubHw(s), Entry)>>
         /\ h = Put(SubHw(s), Entry) /\ Tail(req[r].puts) = <<>>
         /\ Len(req'[r].puts) = 0 /\ Len(req[r].puts) = 1
      \/ /\ r = Creation /\ h = Put(Hw, Entry)
         /\ Tail(req[r].puts) = Tail(SaveHomework) /\ Len(req'[r].puts) = 2
         /\ Len(req[r].puts) = 3
      \/ /\ r = Creation /\ h = Put(<<"hw_class", Creation>>, Entry)
         /\ Tail(req[r].puts) = Tail(Tail(SaveHomework)) /\ Len(req'[r].puts) = 1
         /\ Len(req[r].puts) = 2
      \/ /\ r = Creation /\ h = Put(<<"hw_teacher", Creation>>, Entry)
         /\ Tail(req[r].puts) = <<>> /\ Len(req'[r].puts) = 0
         /\ Len(req[r].puts) = 1
  <2>1. CASE r \in Subs \cup Gradings
    <3>1. /\ s \in Subs
          /\ \/ req[r].puts = SaveSubmission(s, req[r].mark)
             \/ req[r].puts = <<Put(SubHw(s), Entry)>>
      BY <1>1, <2>1 DEF Inv, Shape
    <3>2. CASE req[r].puts = SaveSubmission(s, req[r].mark)
      BY <1>2, <2>1, <3>1, <3>2, PutsFacts
    <3>3. CASE req[r].puts = <<Put(SubHw(s), Entry)>>
      BY <1>2, <2>1, <3>1, <3>3, PutsFacts
    <3>4. QED
      BY <3>1, <3>2, <3>3
  <2>2. CASE r = Creation
    <3>1. \/ req[r].puts = SaveHomework
          \/ req[r].puts = Tail(SaveHomework)
          \/ req[r].puts = Tail(Tail(SaveHomework))
      BY <1>1, <2>2 DEF Inv, Shape
    <3>2. QED
      BY <1>2, <2>2, <3>1, PutsFacts
  <2>3. QED
    BY <2>1, <2>2 DEF Requests
<1>4. CASE /\ r \in Subs \cup Gradings /\ s \in Subs
           /\ req[r].puts = SaveSubmission(s, req[r].mark)
           /\ h = Put(Sub(s), req[r].mark) /\ Tail(req[r].puts) = <<Put(SubHw(s), Entry)>>
           /\ Len(req'[r].puts) = 1
  <2>1. /\ r \in Subs => s = r /\ req[r].mark = Ungraded
        /\ r \in Gradings => req[r].mark = r /\ Recorded(s)
        /\ req[r].mark \in Marks /\ req[r].mark # None /\ r # Creation
    BY <1>1, <1>4 DEF Inv, Shape, Ordered, Marks, Requests
  <2>2. \A k \in Keys : mem'[k] = IF k = Sub(s) THEN req[r].mark ELSE mem[k]
    BY <1>0, <1>4 DEF Put, Dbs
  <2>3. /\ mem' \in Dbs
        /\ \A t \in Subs : /\ mem'[Sub(t)] = IF t = s THEN req[r].mark ELSE mem[Sub(t)]
                           /\ mem'[SubHw(t)] = mem[SubHw(t)]
        /\ \A k \in HomeworkKeys : mem'[k] = mem[k]
    <3>1. mem' \in Dbs
      BY <1>0, <1>4, <2>1 DEF Put, Dbs, Values
    <3>2. QED
      BY <1>4, <2>2, <3>1
  <2>4. \A t \in Subs : Recorded(t) \/ t = s => Recorded(t)'
    <3>1. ASSUME r \in Subs PROVE Recorded(r)'
      BY <3>1, <1>1, <1>2, <1>4 DEF Recorded
    <3>2. \A t \in Subs : t # r /\ Recorded(t) => Recorded(t)'
      BY <1>2 DEF Recorded, Requests
    <3>3. CASE r \in Subs
      BY <2>1, <3>1, <3>2, <3>3
    <3>4. CASE r \in Gradings
      BY <1>4, <2>1, <3>2, <3>4
    <3>5. QED
      BY <1>4, <3>3, <3>4
  <2>5. ASSUME r \in Subs PROVE ~Recorded(s) /\ mem[Sub(s)] \notin Gradings
    <3>1. Len(req[r].puts) = 2
      BY <1>4, PutsFacts
    <3>2. ~Recorded(r)
      BY <1>1, <2>5, <3>1 DEF Recorded
    <3>3. QED
      BY <1>4, <2>1, <2>5, <3>2 DEF Inv, Ordered, Requests
  <2>6. Typed'
    BY <1>1, <1>2, <2>3 DEF Inv, Typed
  <2>7. Shape'
    <3>1. req'[r].puts = <<Put(SubHw(req'[r].sub), Entry)>> /\ req'[r].at = "put"
      BY <1>1, <1>2, <1>4
    <3>2. \A q \in Requests : q # r => req'[q] = req[q]
      BY <1>2
    <3>3. \A q \in Subs \cup Gradings :
             /\ req'[q].at # "idle" => req'[q].sub \in Subs
             /\ req'[q].at \in {"load", "truncate", "write"} =>
                   req'[q].puts = SaveSubmission(req'[q].sub, req'[q].mark)
             /\ req'[q].at = "put" =>
                   req'[q].puts \in {SaveSubmission(req'[q].sub, req'[q].mark),
                                    <<Put(SubHw(req'[q].sub), Entry)>>, <<>>}
      <4>1. Shape
        BY DEF Inv
      <4>2. r \in Subs \cup Gradings /\ req'[r].sub \in Subs
        BY <1>2, <1>4
      <4> HIDE DEF s, h
      <4>3. ASSUME NEW q \in Subs \cup Gradings, q # r
            PROVE  /\ req'[q].at # "idle" => req'[q].sub \in Subs
                   /\ req'[q].at \in {"load", "truncate", "write"} =>
                         req'[q].puts = SaveSubmission(req'[q].sub, req'[q].mark)
                   /\ req'[q].at = "put" =>
                         req'[q].puts \in {SaveSubmission(req'[q].sub, req'[q].mark),
                                          <<Put(SubHw(req'[q].sub), Entry)>>, <<>>}
        <5>1. req'[q] = req[q]
          BY <3>2, <4>3 DEF Requests
        <5> QED
          BY <4>1, <5>1 DEF Shape
      <4> QED
        BY <3>1, <4>2, <4>3
    <3>4. req'[Creation] = req[Creation]
      BY <2>1, <3>2 DEF Requests
    <3>5. QED
      BY <1>2, <3>3, <3>4 DEF Inv, Shape, Requests
  <2>8. Ordered'
    <3>1. \A t \in Subs : mem'[Sub(t)] # None => Recorded(t)'
      BY <2>3, <2>4 DEF Inv, Ordered
    <3>2. ASSUME NEW g \in Gradings, req'[g].at # "idle" PROVE Recorded(req[g].sub)'
      <4>1. req[g].at # "idle" /\ req'[g].sub = req[g].sub
        BY <1>2, <3>2 DEF Requests
      <4>2. Recorded(req[g].sub) /\ req[g].sub \in Subs
        BY <4>1 DEF Inv, Ordered, Shape
      <4>3. QED
        BY <4>1, <4>2, <2>4 DEF Recorded
    <3>3. QED
      BY <3>1, <3>2, <1>2 DEF Ordered, Recorded, Requests
  <2>9. Filed'
    <3>1. /\ file[s] # None
          /\ r \in Gradings => file[s] # Ungraded
          /\ req[r].mark \in Gradings => r \in Gradings
      BY <1>1, <1>4, <2>1 DEF Inv, Filed, Requests
    <3>2. ASSUME NEW t \in Subs
          PROVE /\ mem'[Sub(t)] # None => file'[t] # None
                /\ mem'[Sub(t)] \in Gradings => file'[t] # Ungraded
      <4>1. CASE t = s
        BY <1>1, <2>1, <2>3, <3>1, <4>1
      <4>2. CASE t # s
        BY <1>1, <2>3, <4>2 DEF Inv, Filed, Backs
      <4>3. QED
        BY <4>1, <4>2
    <3>3. Backs(file, mem)' /\ Backs(file, disk)'
      BY <1>1, <3>2 DEF Inv, Filed, Backs
    <3>4. QED
      BY <1>1, <1>2, <3>3 DEF Inv, Filed, Requests
  <2>10. Inserted'
    <3>1. ASSUME NEW q \in Subs \cup Gradings, req'[q].at = "put"
          PROVE /\ Len(req'[q].puts) < 2 => /\ mem'[Sub(req'[q].sub)] # None
                                            /\ q \in Gradings => mem'[Sub(req'[q].sub)] \in Gradings
                /\ Len(req'[q].puts) < 1 => mem'[SubHw(req'[q].sub)] # None
      <4>1. CASE q = r
        BY <4>1, <1>2, <1>4, <2>1, <2>3
      <4>2. CASE q # r /\ req[q].sub # s
        BY <3>1, <4>2, <1>2, <2>3 DEF Inv, Inserted, Shape, Requests
      <4>3. CASE q # r /\ req[q].sub = s
        <5>1. req'[q] = req[q] /\ req[q].at = "put"
          BY <3>1, <4>3, <1>2 DEF Requests
        <5>2. q \in Gradings => r \in Gradings
          <6>1. q \in Gradings => Recorded(s)
            BY <4>3, <5>1 DEF Inv, Ordered
          <6>2. QED
            BY <1>4, <2>5, <6>1
        <5>3. QED
          BY <1>4, <4>3, <5>1, <5>2, <2>1, <2>3 DEF Inv, Inserted, Requests
      <4>4. QED
        BY <4>1, <4>2, <4>3
    <3>2. req'[Creation] = req[Creation]
      BY <1>2, <2>1 DEF Requests
    <3>3. QED
      BY <3>1, <3>2, <2>3 DEF Inv, Inserted
  <2>11. Behind'
    <3>1. \A k \in Keys : disk'[k] # None => mem'[k] # None
      BY <1>1, <2>1, <2>2 DEF Inv, Behind
    <3>2. disk[Sub(s)] \in Gradings => r \in Gradings
      BY <1>4, <2>5 DEF Inv, Behind
    <3>3. QED
      BY <1>1, <2>1, <2>3, <3>1, <3>2 DEF Inv, Behind
  <2>12. Durable'
    BY <1>1, <1>2, DurableKept DEF Inv, Durable, Typed
  <2>13. Readable'
    BY <1>1, <1>2 DEF Inv, Readable, BeingWritten
  <2>14. Backed'
    BY <1>1, <2>4 DEF Inv, Backed
  <2>15. QED
    BY <2>6, <2>7, <2>8, <2>9, <2>10, <2>11, <2>12, <2>13, <2>14 DEF Inv
<1>5. CASE /\ r \in Subs \cup Gradings /\ s \in Subs
           /\ req[r].puts = <<Put(SubHw(s), Entry)>>
           /\ h = Put(SubHw(s), Entry) /\ Tail(req[r].puts) = <<>>
           /\ Len(req'[r].puts) = 0 /\ Len(req[r].puts) = 1
  <2>1. r # Creation
    BY <1>5
  <2>2. \A k \in Keys : mem'[k] = IF k = SubHw(s) THEN Entry ELSE mem[k]
    BY <1>0, <1>5 DEF Put, Dbs
  <2>3. /\ mem' \in Dbs
        /\ \A t \in Subs : /\ mem'[Sub(t)] = mem[Sub(t)]
                           /\ mem'[SubHw(t)] = IF t = s THEN Entry ELSE mem[SubHw(t)]
        /\ \A k \in HomeworkKeys : mem'[k] = mem[k]
    <3>1. mem' \in Dbs
      BY <1>0, <1>5 DEF Put, Dbs, Values
    <3>2. QED
      BY <1>5, <2>2, <3>1
  <2>4. \A t \in Subs : Recorded(t) => Recorded(t)'
    BY <1>1, <1>2, <1>5 DEF Recorded, Requests
  <2>5. Typed'
    BY <1>1, <1>2, <2>3 DEF Inv, Typed
  <2>6. Shape'
    BY <1>1, <1>2, <1>5, SMTT(60) DEF Inv, Shape, Requests
  <2>7. Ordered'
    <3>1. \A t \in Subs : mem'[Sub(t)] # None => Recorded(t)'
      BY <2>3, <2>4 DEF Inv, Ordered
    <3>2. ASSUME NEW g \in Gradings, req'[g].at # "idle" PROVE Recorded(req[g].sub)'
      <4>1. req[g].at # "idle" /\ req'[g].sub = req[g].sub
        BY <1>2, <3>2 DEF Requests
      <4>2. Recorded(req[g].sub) /\ req[g].sub \in Subs
        BY <4>1 DEF Inv, Ordered, Shape
      <4>3. QED
        BY <4>1, <4>2, <2>4 DEF Recorded
    <3>3. QED
      BY <3>1, <3>2, <1>2 DEF Ordered, Recorded, Requests
  <2>8. Filed'
    BY <1>1, <1>2, <2>3 DEF Inv, Filed, Backs, Requests
  <2>9. Inserted'
    <3>1. ASSUME NEW q \in Subs \cup Gradings, req'[q].at = "put"
          PROVE /\ Len(req'[q].puts) < 2 => /\ mem'[Sub(req'[q].sub)] # None
                                            /\ q \in Gradings => mem'[Sub(req'[q].sub)] \in Gradings
                /\ Len(req'[q].puts) < 1 => mem'[SubHw(req'[q].sub)] # None
      <4>0. req[q].at = "put" /\ req[q].sub \in Subs /\ req'[q].sub = req[q].sub
        BY <3>1, <1>2 DEF Inv, Shape, Requests
      <4>1. CASE q = r
        BY <4>0, <4>1, <1>5, <2>3 DEF Inv, Inserted
      <4>2. CASE q # r
        BY <4>0, <4>2, <1>2, <2>3 DEF Inv, Inserted, Requests
      <4>3. QED
        BY <4>1, <4>2
    <3>2. req'[Creation] = req[Creation]
      BY <1>2, <2>1 DEF Requests
    <3>3. QED
      BY <3>1, <3>2, <2>3 DEF Inv, Inserted
  <2>10. Behind'
    BY <1>1, <2>2, <2>3 DEF Inv, Behind
  <2>11. Durable'
    BY <1>1, <1>2, DurableKept DEF Inv, Durable, Typed
  <2>12. Readable'
    BY <1>1, <1>2 DEF Inv, Readable, BeingWritten
  <2>13. Backed'
    BY <1>1, <2>4 DEF Inv, Backed
  <2>14. QED
    BY <2>5, <2>6, <2>7, <2>8, <2>9, <2>10, <2>11, <2>12, <2>13 DEF Inv
<1>6. CASE r = Creation
  <2>0. \/ /\ h = Put(Hw, Entry)
           /\ Tail(req[r].puts) = Tail(SaveHomework) /\ Len(req'[r].puts) = 2
           /\ Len(req[r].puts) = 3
        \/ /\ h = Put(<<"hw_class", Creation>>, Entry)
           /\ Tail(req[r].puts) = Tail(Tail(SaveHomework)) /\ Len(req'[r].puts) = 1
           /\ Len(req[r].puts) = 2
        \/ /\ h = Put(<<"hw_teacher", Creation>>, Entry)
           /\ Tail(req[r].puts) = <<>> /\ Len(req'[r].puts) = 0
           /\ Len(req[r].puts) = 1
    BY <1>3, <1>6
  <2>1. h.key \in HomeworkKeys /\ h.value = Entry
    <3>1. \A k \in HomeworkKeys : Put(k, Entry).key = k /\ Put(k, Entry).value = Entry
      BY DEF Put
    <3>2. QED
      BY <2>0, <3>1
  <2>2. \A k \in Keys : mem'[k] = IF k = h.key THEN Entry ELSE mem[k]
    BY <1>0, <2>1 DEF Dbs
  <2>3. /\ mem' \in Dbs
        /\ \A t \in Subs : mem'[Sub(t)] = mem[Sub(t)] /\ mem'[SubHw(t)] = mem[SubHw(t)]
        /\ \A k \in HomeworkKeys : mem[k] # None => mem'[k] # None
    <3>1. mem' \in Dbs
      BY <1>0, <2>1 DEF Dbs, Values
    <3>2. QED
      BY <2>1, <2>2, <3>1
  <2>4. \A q \in Subs \cup Gradings : q \in Requests /\ req'[q] = req[q]
    BY <1>2, <1>6 DEF Requests
  <2>5. \A t \in Subs : Recorded(t) => Recorded(t)'
    BY <2>4 DEF Recorded
  <2>6. Typed'
    BY <1>1, <1>2, <2>3 DEF Inv, Typed
  <2>7. Shape'
    <3>1. /\ req'[Creation].at = "put"
          /\ req'[Creation].puts \in {SaveHomework, Tail(SaveHomework), Tail(Tail(SaveHomework)), <<>>}
      BY <1>1, <1>2, <1>6, <2>0
    <3>2. QED
      BY <2>4, <3>1 DEF Inv, Shape
  <2>8. Ordered'
    BY <2>3, <2>4 DEF Inv, Ordered, Shape, Recorded
  <2>9. Filed'
    BY <1>1, <2>3, <2>4 DEF Inv, Filed, Backs
  <2>10. Inserted'
    <3>1. \A q \in Subs \cup Gradings : req[q].at = "put" => req[q].sub \in Subs
      BY DEF Inv, Shape
    <3>2. /\ Len(req'[Creation].puts) < 3 => mem'[Hw] # None
          /\ Len(req'[Creation].puts) < 2 => mem'[<<"hw_class", Creation>>] # None
          /\ Len(req'[Creation].puts) < 1 => mem'[<<"hw_teacher", Creation>>] # None
      <4>1. \A k \in HomeworkKeys : Put(k, Entry).key = k
        BY DEF Put
      <4>2. /\ h = Put(Hw, Entry) => mem'[Hw] # None
            /\ h = Put(<<"hw_class", Creation>>, Entry) => mem'[<<"hw_class", Creation>>] # None
            /\ h = Put(<<"hw_teacher", Creation>>, Entry) => mem'[<<"hw_teacher", Creation>>] # None
        BY <2>2, <4>1
      <4>3. /\ Len(req[Creation].puts) < 3 => mem'[Hw] # None
            /\ Len(req[Creation].puts) < 2 => mem'[<<"hw_class", Creation>>] # None
        BY <1>1, <1>6, <2>3 DEF Inv, Inserted
      <4>4. CASE h = Put(Hw, Entry) /\ Len(req'[Creation].puts) = 2
        BY <4>2, <4>4
      <4>5. CASE /\ h = Put(<<"hw_class", Creation>>, Entry)
                 /\ Len(req'[Creation].puts) = 1 /\ Len(req[Creation].puts) = 2
        BY <4>2, <4>3, <4>5
      <4>6. CASE /\ h = Put(<<"hw_teacher", Creation>>, Entry)
                 /\ Len(req'[Creation].puts) = 0 /\ Len(req[Creation].puts) = 1
        BY <4>2, <4>3, <4>6
      <4>7. QED
        BY <1>6, <2>0, <4>4, <4>5, <4>6
    <3>3. QED
      BY <2>3, <2>4, <3>1, <3>2 DEF Inv, Inserted
  <2>11. Behind'
    BY <1>1, <2>2, <2>3 DEF Inv, Behind
  <2>12. Durable'
    BY <1>1, <1>2, DurableKept DEF Inv, Durable, Typed
  <2>13. Readable'
    BY <1>1, <1>2 DEF Inv, Readable, BeingWritten
  <2>14. Backed'
    BY <1>1, <2>5 DEF Inv, Backed
  <2>15. QED
    BY <2>6, <2>7, <2>8, <2>9, <2>10, <2>11, <2>12, <2>13, <2>14 DEF Inv
<1>7. QED
  BY <1>3, <1>4, <1>5, <1>6

\* The flush of an answer, or of sled itself, brings the disk up to memory.
LEMMA FlushInv == ASSUME Inv, disk' = mem, UNCHANGED <<mem, file, req, backup, replied, hurt, apart>>
                  PROVE  Inv'
<1> USE ValueFacts, KeyFacts
<1>1. Typed' /\ Shape' /\ Inserted' /\ Behind' /\ Readable'
  BY DEF Inv, Typed, Shape, Inserted, Behind, Readable, BeingWritten
<1>2. Ordered' /\ Backed'
  BY DEF Inv, Ordered, Backed, Recorded
<1>3. Filed'
  BY DEF Inv, Filed, Backs
<1>4. Durable'
  <2>1. \A g \in Gradings \cap replied : req[g].sub \in Subs
    BY DEF Inv, Durable, Shape
  <2>2. /\ \A k \in HomeworkKeys : disk[k] # None => mem[k] # None
        /\ \A t \in Subs : disk[SubHw(t)] # None => mem[SubHw(t)] # None
        /\ \A t \in Subs : disk[Sub(t)] # None => mem[Sub(t)] # None
        /\ \A t \in Subs : disk[Sub(t)] \in Gradings => mem[Sub(t)] \in Gradings
    BY DEF Inv, Behind
  <2>3. ReplyIsDurable'
    BY <2>1, <2>2 DEF Inv, Durable, ReplyIsDurable
  <2>4. QED
    BY <2>3 DEF Inv, Durable
<1>5. QED
  BY <1>1, <1>2, <1>3, <1>4 DEF Inv

\* With the flush, a handler answers.
LEMMA AnswerInv == ASSUME Inv, NEW r \in Requests, Answer(r) PROVE Inv'
<1> USE ValueFacts, KeyFacts
<1>1. /\ UNCHANGED <<mem, file, backup, hurt>> /\ disk' = mem
      /\ req[r].at = "put" /\ req[r].puts = <<>>
      /\ replied' = replied \cup {r} /\ apart' \subseteq Subs
      /\ req \in [Requests -> HandlerRec] /\ req' = [req EXCEPT ![r] = Over(@)]
  BY DEF Inv, Typed, Answer, Answered
<1>2. /\ req' \in [Requests -> HandlerRec]
      /\ req'[r].at = "done" /\ req'[r].sub = req[r].sub /\ req'[r].mark = req[r].mark
      /\ \A q \in Requests \ {r} : req'[q] = req[q]
  <2>1. req[r] \in HandlerRec
    BY <1>1
  <2>2. <<>> \in Puts
    BY DEF Puts
  <2>3. Over(req[r]) \in HandlerRec
    BY <2>1, <2>2 DEF Over, Handler, HandlerRec, States
  <2>4. QED
    BY <1>1, <2>3 DEF Over, Handler
<1>3. \A t \in Subs : Recorded(t) => Recorded(t)'
  BY <1>2 DEF Recorded, Requests
<1>4. Typed'
  BY <1>1, <1>2 DEF Inv, Typed
<1>5. Shape'
  <2>1. req[r].at # "idle"
    BY <1>1
  <2>2. QED
    BY <1>2, <2>1 DEF Inv, Shape, Requests
<1>6. Ordered'
  <2>1. \A g \in Gradings : req'[g].at # "idle" => req[g].at # "idle" /\ req'[g].sub = req[g].sub
    BY <1>1, <1>2 DEF Requests
  <2>2. QED
    BY <1>1, <1>3, <2>1, OrderedKept
<1>7. Filed' /\ Inserted'
  <2>1. \A q \in Requests : req'[q].at = "put" => req'[q] = req[q] /\ req[q].at = "put"
    BY <1>2
  <2>2. Filed'
    BY <1>1, <2>1 DEF Inv, Filed, Backs, Requests
  <2>3. Inserted'
    BY <1>1, <2>1 DEF Inv, Inserted, Requests
  <2>4. QED
    BY <2>2, <2>3
<1>8. Behind' /\ Readable'
  <2>1. Behind'
    BY <1>1 DEF Inv, Behind
  <2>2. Readable'
    BY <1>1, <1>2 DEF Inv, Readable, BeingWritten
  <2>3. QED
    BY <2>1, <2>2
<1>9. Durable'
  <2>1. /\ \A k \in HomeworkKeys : disk[k] # None => mem[k] # None
        /\ \A t \in Subs : disk[SubHw(t)] # None => mem[SubHw(t)] # None
        /\ \A t \in Subs : disk[Sub(t)] # None => mem[Sub(t)] # None
        /\ \A t \in Subs : disk[Sub(t)] \in Gradings => mem[Sub(t)] \in Gradings
    BY DEF Inv, Behind
  <2>2. \A q \in Requests : req'[q].sub = req[q].sub
    BY <1>2
  <2>3. \A q \in Subs \cup Gradings : req[q].at # "idle" => req[q].sub \in Subs
    BY DEF Inv, Shape
  <2>4. replied \subseteq Requests /\ \A q \in replied : req[q].at = "done"
    BY DEF Inv, Typed, Durable
  <2>5. Len(req[r].puts) < 1 /\ Len(req[r].puts) < 2 /\ Len(req[r].puts) < 3
    BY <1>1, PutsFacts
  <2>6. Creation \in replied' => \A k \in HomeworkKeys : disk'[k] # None
    <3>1. CASE r = Creation
      BY <1>1, <2>5, <3>1 DEF Inv, Inserted, HomeworkKeys, Hw
    <3>2. CASE r # Creation
      BY <1>1, <2>1, <3>2 DEF Inv, Durable, ReplyIsDurable
    <3>3. QED
      BY <3>1, <3>2
  <2>7. ASSUME NEW t \in Subs, t \in replied' PROVE disk'[Sub(t)] # None /\ disk'[SubHw(t)] # None
    <3>1. CASE t = r
      BY <1>1, <2>5, <3>1 DEF Inv, Inserted, Shape
    <3>2. CASE t # r
      BY <1>1, <2>1, <2>7, <3>2 DEF Inv, Durable, ReplyIsDurable
    <3>3. QED
      BY <3>1, <3>2
  <2>8. ASSUME NEW g \in Gradings, g \in replied' PROVE disk'[Sub(req'[g].sub)] \in Gradings
    <3>0. g \in Requests
      BY DEF Requests
    <3>1. CASE g = r
      BY <1>1, <1>2, <2>5, <3>1 DEF Inv, Inserted
    <3>2. CASE g # r
      <4>1. req[g].sub \in Subs /\ disk[Sub(req[g].sub)] \in Gradings /\ req'[g].sub = req[g].sub
        BY <1>1, <2>2, <2>3, <2>4, <2>8, <3>0, <3>2 DEF Inv, Durable, ReplyIsDurable
      <4>2. QED
        BY <1>1, <2>1, <4>1
    <3>3. QED
      BY <3>1, <3>2
  <2>9. \A q \in replied' : req'[q].at = "done"
    BY <1>1, <1>2, <2>4
  <2>10. QED
    BY <2>6, <2>7, <2>8, <2>9 DEF Durable, ReplyIsDurable
<1>10. Backed'
  BY <1>1, <1>3 DEF Inv, Backed
<1>11. QED
  BY <1>4, <1>5, <1>6, <1>7, <1>8, <1>9, <1>10 DEF Inv

\* After a crash every handler is over and memory is what the disk was.
LEMMA CrashInv == ASSUME Inv, Crash PROVE Inv'
<1> USE ValueFacts, KeyFacts
<1>1. /\ mem' = disk /\ UNCHANGED <<disk, file, replied>>
      /\ req \in [Requests -> HandlerRec]
      /\ req' = [r \in Requests |-> IF Idle(r) THEN req[r] ELSE Over(req[r])]
      /\ backup' = IF backup.at = "done" THEN backup ELSE NoBackup
  BY DEF Inv, Typed, Crash
<1>2. /\ req' \in [Requests -> HandlerRec]
      /\ \A q \in Requests : \/ req[q].at = "idle" /\ req'[q] = req[q]
                             \/ req[q].at # "idle" /\ req'[q].at = "done"
      /\ \A q \in Requests : req'[q].sub = req[q].sub /\ req'[q].mark = req[q].mark
  <2>1. <<>> \in Puts
    BY DEF Puts
  <2>2. ASSUME NEW q \in Requests
        PROVE /\ req'[q] \in HandlerRec /\ req'[q].sub = req[q].sub /\ req'[q].mark = req[q].mark
              /\ \/ req[q].at = "idle" /\ req'[q] = req[q]
                 \/ req[q].at # "idle" /\ req'[q].at = "done"
    <3>1. req[q] \in HandlerRec
      BY <1>1
    <3>2. CASE Idle(q)
      BY <1>1, <3>1, <3>2 DEF Idle
    <3>3. CASE ~Idle(q)
      <4>1. req'[q] = Over(req[q])
        BY <1>1, <3>3
      <4>2. QED
        BY <2>1, <3>1, <3>3, <4>1 DEF Idle, Over, Handler, HandlerRec, States
    <3>4. QED
      BY <3>2, <3>3
  <2>3. QED
    BY <1>1, <2>2
<1>3. hurt \subseteq hurt' /\ \A q \in Requests : req[q].at = "write" => req[q].sub \in hurt'
  BY DEF Crash
<1>4. hurt' \subseteq Subs /\ apart' \subseteq Subs
  BY DEF Inv, Typed, Crash, Shape, Requests
<1>5. \A t \in Subs : Recorded(t) => Recorded(t)'
  BY <1>2 DEF Recorded, Requests
<1>6. backup' \in BackupRec
  BY <1>1 DEF Inv, Typed, BackupRec, NoBackup, Dbs, Values, Files
<1>7. Typed'
  BY <1>1, <1>2, <1>4, <1>6 DEF Inv, Typed
<1>8. Shape'
  BY <1>2 DEF Inv, Shape, Requests
<1>9. Ordered'
  <2>1. \A t \in Subs : mem'[Sub(t)] # None => Recorded(t)'
    BY <1>1, <1>5 DEF Inv, Ordered, Behind
  <2>2. ASSUME NEW g \in Gradings, req'[g].at # "idle" PROVE Recorded(req[g].sub)'
    <3>1. req[g].at # "idle" /\ req'[g].sub = req[g].sub
      BY <1>2, <2>2 DEF Requests
    <3>2. Recorded(req[g].sub) /\ req[g].sub \in Subs
      BY <3>1 DEF Inv, Ordered, Shape
    <3>3. QED
      BY <3>1, <3>2, <1>5 DEF Recorded
  <2>3. QED
    BY <2>1, <2>2, <1>2 DEF Ordered, Recorded, Requests
<1>10. Filed' /\ Inserted'
  <2>1. \A q \in Requests : req'[q].at # "put"
    BY <1>2
  <2>2. QED
    BY <1>1, <2>1 DEF Inv, Filed, Inserted, Backs, Requests
<1>11. Behind'
  BY <1>1 DEF Inv, Behind
<1>12. Durable'
  BY <1>1, <1>2, DurableKept DEF Inv, Durable, Typed
<1>13. Readable'
  BY <1>1, <1>3 DEF Inv, Readable, BeingWritten
<1>14. Backed'
  <2>1. CASE backup.at = "done"
    BY <1>1, <1>5, <2>1 DEF Inv, Backed
  <2>2. CASE backup.at # "done"
    BY <1>1, <2>2 DEF Backed, NoBackup, Requests
  <2>3. QED
    BY <2>1, <2>2
<1>15. QED
  BY <1>7, <1>8, <1>9, <1>10, <1>11, <1>12, <1>13, <1>14 DEF Inv

\* A request begins: its handler is new, the others keep their state.
LEMMA BeginInv ==
  ASSUME Inv, NEW r \in Requests, req[r].at = "idle",
         UNCHANGED <<mem, disk, file, backup, replied, hurt>>, apart' \subseteq Subs,
         req' \in [Requests -> HandlerRec], req'[r].at \in {"load", "truncate", "put"},
         \A q \in Requests \ {r} : /\ req'[q].at = req[q].at /\ req'[q].sub = req[q].sub
                                  /\ req'[q].mark = req[q].mark /\ req'[q].puts = req[q].puts,
         r = Creation <=> req'[r].at = "put",
         r = Creation => req'[r].puts = SaveHomework,
         r # Creation => /\ req'[r].sub \in Subs
                         /\ req'[r].puts = SaveSubmission(req'[r].sub, req'[r].mark),
         r \in Subs => /\ req'[r].at = "truncate" /\ req'[r].sub = r
                       /\ req'[r].mark = Ungraded,
         r \in Gradings => req'[r].mark = r /\ \E t \in Subs : t = req'[r].sub /\ Recorded(t)
  PROVE  Inv'
<1> USE ValueFacts, KeyFacts
<1>1. \A t \in Subs : Recorded(t) => Recorded(t)'
  BY DEF Recorded, Requests
<1>2. Typed' /\ Behind'
  BY DEF Inv, Typed, Behind
<1>3. Shape'
  BY DEF Inv, Shape, Requests
<1>4. Ordered'
  <2>1. \A t \in Subs : mem'[Sub(t)] # None => Recorded(t)'
    BY <1>1 DEF Inv, Ordered
  <2>2. ASSUME NEW g \in Gradings, req'[g].at # "idle"
        PROVE  \E t \in Subs : t = req'[g].sub /\ Recorded(t)'
    <3>1. CASE g = r
      BY <1>1, <3>1
    <3>2. CASE g # r
      <4>1. req[g].at # "idle" /\ req'[g].sub = req[g].sub
        BY <2>2, <3>2 DEF Requests
      <4>2. Recorded(req[g].sub) /\ req[g].sub \in Subs
        BY <4>1 DEF Inv, Ordered, Shape
      <4>3. QED
        BY <4>1, <4>2, <1>1
    <3>3. QED
      BY <3>1, <3>2
  <2>3. QED
    BY <2>1, <2>2 DEF Ordered, Recorded
<1>5. Filed'
  <2>1. \A q \in Subs \cup Gradings : req'[q].at = "put" =>
           q # r /\ req[q].at = "put" /\ req'[q].sub = req[q].sub
    BY DEF Requests
  <2>2. QED
    BY <2>1 DEF Inv, Filed, Backs
<1>6. Inserted'
  <2>1. \A q \in Subs \cup Gradings : req'[q].at = "put" =>
           q # r /\ req[q].at = "put" /\ req'[q].sub = req[q].sub /\ req'[q].puts = req[q].puts
    BY DEF Requests
  <2>2. req'[Creation].at = "put" =>
           \/ Len(req'[Creation].puts) = 3
           \/ req[Creation].at = "put" /\ req'[Creation].puts = req[Creation].puts
    BY PutsFacts DEF Requests
  <2>3. /\ req'[Creation].at = "put" /\ Len(req'[Creation].puts) < 3 => mem'[Hw] # None
        /\ req'[Creation].at = "put" /\ Len(req'[Creation].puts) < 2 =>
               mem'[<<"hw_class", Creation>>] # None
        /\ req'[Creation].at = "put" /\ Len(req'[Creation].puts) < 1 =>
               mem'[<<"hw_teacher", Creation>>] # None
    <3>1. CASE req[Creation].at = "put" /\ req'[Creation].puts = req[Creation].puts
      BY <3>1 DEF Inv, Inserted
    <3>2. CASE Len(req'[Creation].puts) = 3
      BY <3>2
    <3>3. QED
      BY <2>2, <3>1, <3>2
  <2>4. QED
    BY <2>1, <2>3 DEF Inv, Inserted
<1>7. Durable'
  BY DurableKept DEF Inv, Durable, Typed
<1>8. Readable'
  BY DEF Inv, Readable, BeingWritten
<1>9. Backed'
  BY <1>1 DEF Inv, Backed
<1>10. QED
  BY <1>2, <1>3, <1>4, <1>5, <1>6, <1>7, <1>8, <1>9 DEF Inv

LEMMA CreateInv == ASSUME Inv, Create PROVE Inv'
<1> USE ValueFacts
<1> DEFINE h == Handler("put", None, None, SaveHomework)
<1>1. /\ UNCHANGED <<mem, disk, file, backup, replied, hurt, apart>>
      /\ Creation \in Requests /\ req[Creation].at = "idle"
      /\ req \in [Requests -> HandlerRec] /\ req' = [req EXCEPT ![Creation] = h]
  BY DEF Inv, Typed, Create, Idle, stores, told, Requests
<1>2. SaveHomework \in Puts
  <2>1. /\ Put(Hw, Entry) \in [key : Keys, value : Values]
        /\ Put(<<"hw_class", Creation>>, Entry) \in [key : Keys, value : Values]
        /\ Put(<<"hw_teacher", Creation>>, Entry) \in [key : Keys, value : Values]
    BY KeyFacts DEF Put, Values
  <2>2. QED
    BY <2>1 DEF Puts, SaveHomework
<1>3. h \in HandlerRec /\ h.at = "put" /\ h.puts = SaveHomework
  BY <1>2 DEF Handler, HandlerRec, States
<1>4. req' \in [Requests -> HandlerRec] /\ req'[Creation] = h
  BY <1>1, <1>3
<1>5. \A q \in Requests \ {Creation} : req'[q] = req[q]
  BY <1>1
<1>6. apart' \subseteq Subs
  BY <1>1 DEF Inv, Typed
<1>7. QED
  BY <1>1, <1>3, <1>4, <1>5, <1>6, BeginInv

\* What a handler of a submission begins with.
LEMMA SavePuts == ASSUME NEW t \in Subs, NEW mark \in Marks
                  PROVE  SaveSubmission(t, mark) \in Puts
<1>1. /\ Put(Sub(t), mark) \in [key : Keys, value : Values]
      /\ Put(SubHw(t), Entry) \in [key : Keys, value : Values]
  BY KeyFacts DEF Put, Values
<1>2. QED
  BY <1>1 DEF Puts, SaveSubmission

LEMMA SubmitInv == ASSUME Inv, NEW t \in Subs, Submit(t) PROVE Inv'
<1> USE ValueFacts
<1> DEFINE h == Handler("truncate", t, Ungraded, SaveSubmission(t, Ungraded))
<1>1. /\ UNCHANGED <<mem, disk, file, backup, replied, hurt, apart>>
      /\ t \in Requests /\ req[t].at = "idle"
      /\ req \in [Requests -> HandlerRec] /\ req' = [req EXCEPT ![t] = h]
  BY DEF Inv, Typed, Submit, Idle, stores, told, Requests
<1>2. SaveSubmission(t, Ungraded) \in Puts
  BY SavePuts DEF Marks
<1>3. /\ h \in HandlerRec /\ h.at = "truncate" /\ h.puts = SaveSubmission(t, Ungraded)
      /\ h.sub = t /\ h.mark = Ungraded
  BY <1>2 DEF Handler, HandlerRec, States, Marks
<1>4. req' \in [Requests -> HandlerRec] /\ req'[t] = h
  BY <1>1, <1>3
<1>5. \A q \in Requests \ {t} : req'[q] = req[q]
  BY <1>1
<1>6. apart' \subseteq Subs /\ t # Creation /\ t \notin Gradings
  BY <1>1 DEF Inv, Typed
<1>7. QED
  BY <1>1, <1>3, <1>4, <1>5, <1>6, BeginInv

LEMMA GradeInv == ASSUME Inv, NEW g \in Gradings, NEW t \in Subs, Grade(g, t) PROVE Inv'
<1> USE ValueFacts
<1> DEFINE h == [Handler("load", t, g, SaveSubmission(t, g)) EXCEPT !.alone = (Active(t) = {})]
<1>1. /\ UNCHANGED <<mem, disk, file, backup, replied, hurt>>
      /\ g \in Requests /\ req[g].at = "idle" /\ mem[Sub(t)] # None
      /\ req \in [Requests -> HandlerRec] /\ apart' \subseteq Subs
      /\ req' = [r \in Requests |-> IF r = g THEN h
                                    ELSE IF r \in Active(t) THEN [req[r] EXCEPT !.alone = FALSE]
                                    ELSE req[r]]
  BY DEF Inv, Typed, Grade, Idle, stores, Requests
<1>2. SaveSubmission(t, g) \in Puts
  BY SavePuts DEF Marks
<1>3. Handler("load", t, g, SaveSubmission(t, g)) \in HandlerRec
  BY <1>2 DEF Handler, HandlerRec, States, Marks
<1>4. /\ h \in HandlerRec /\ h.at = "load" /\ h.puts = SaveSubmission(t, g)
      /\ h.sub = t /\ h.mark = g
  BY <1>3 DEF Handler, HandlerRec
<1>5. ASSUME NEW q \in Requests \ {g}
      PROVE /\ req'[q] \in HandlerRec /\ req'[q].at = req[q].at /\ req'[q].sub = req[q].sub
            /\ req'[q].mark = req[q].mark /\ req'[q].puts = req[q].puts
  <2>1. req[q] \in HandlerRec
    BY <1>1
  <2>2. CASE req'[q] = req[q]
    BY <2>1, <2>2
  <2>3. CASE req'[q] = [req[q] EXCEPT !.alone = FALSE]
    BY <2>1, <2>3 DEF HandlerRec
  <2>4. QED
    BY <1>1, <2>2, <2>3
<1>6. req' \in [Requests -> HandlerRec] /\ req'[g] = h
  BY <1>1, <1>4, <1>5
<1>7. Recorded(t) /\ g # Creation /\ g \notin Subs
  BY <1>1 DEF Inv, Ordered
<1>8. \A q \in Requests \ {g} : /\ req'[q].at = req[q].at /\ req'[q].sub = req[q].sub
                                /\ req'[q].mark = req[q].mark /\ req'[q].puts = req[q].puts
  BY <1>5
<1>9. QED
  BY <1>1, <1>4, <1>6, <1>7, <1>8, BeginInv

\* The backup copies the disk, each file, and is done.
LEMMA BackupInv ==
  ASSUME Inv, BackupDatabase \/ BackupEnds \/ \E t \in Subs : BackupFile(t)
  PROVE  Inv'
<1> USE ValueFacts, KeyFacts
<1>1. UNCHANGED <<mem, disk, file, req, replied, hurt, apart>>
  BY DEF BackupDatabase, BackupEnds, BackupFile, stores, told
<1>2. Shape' /\ Inserted' /\ Behind' /\ Readable'
  <2>1. Shape' /\ Inserted'
    BY <1>1 DEF Inv, Shape, Inserted
  <2>2. Behind' /\ Readable'
    BY <1>1 DEF Inv, Behind, Readable, BeingWritten
  <2>3. QED
    BY <2>1, <2>2
<1>3. Ordered' /\ Filed' /\ Durable'
  BY <1>1 DEF Inv, Ordered, Filed, Backs, Durable, ReplyIsDurable, Recorded
<1>4. \A t \in Subs : Recorded(t) = Recorded(t)'
  BY <1>1 DEF Recorded
<1>5. backup' \in BackupRec /\ Backed'
  <2>0. backup \in BackupRec /\ disk \in Dbs /\ file \in [Subs -> Files]
    BY DEF Inv, Typed
  <2>1. CASE BackupDatabase
    <3>1. backup' = [at |-> "files", records |-> Submitted(disk), file |-> [u \in Subs |-> None], todo |-> Subs,
                     spoiled |-> {}]
      BY <2>1 DEF BackupDatabase, NoBackup
    <3>2. backup' \in BackupRec /\ backup'.todo = Subs /\ backup'.records = Submitted(disk)
      BY <2>0, <3>1 DEF BackupRec, Files, Submitted, Dbs
    <3>3. Backs(file, disk)
      BY DEF Inv, Filed
    <3>4. ASSUME NEW u \in Subs
          PROVE /\ u \in backup'.todo
                /\ backup'.records[u] # None => file'[u] # None /\ Recorded(u)'
                /\ backup'.records[u] \in Gradings => file'[u] # Ungraded
      <4>1. u \in backup'.todo /\ backup'.records[u] = disk[Sub(u)] /\ file'[u] = file[u]
        BY <1>1, <3>2 DEF Submitted
      <4>2. disk[Sub(u)] # None => Recorded(u)
        BY DEF Inv, Behind, Ordered
      <4>3. disk[Sub(u)] # None => Recorded(u)'
        BY <1>4, <4>2
      <4>4. /\ disk[Sub(u)] # None => file[u] # None
            /\ disk[Sub(u)] \in Gradings => file[u] # Ungraded
        BY <3>3 DEF Backs
      <4>5. backup'.records[u] # None => Recorded(u)'
        BY <4>1, <4>3
      <4>6. /\ backup'.records[u] # None => file'[u] # None
            /\ backup'.records[u] \in Gradings => file'[u] # Ungraded
        BY <4>1, <4>4
      <4>7. QED
        BY <4>1, <4>5, <4>6
    <3>5. backup'.at = "files" /\ \A u \in Subs : backup'.file[u] = None
      BY <3>1
    <3>6. QED
      BY <3>2, <3>4, <3>5 DEF Backed
  <2>2. CASE BackupEnds
    <3>1. backup' = [backup EXCEPT !.at = "done"]
      BY <2>2 DEF BackupEnds
    <3>2. /\ backup' \in BackupRec /\ backup'.todo = backup.todo /\ backup'.records = backup.records
          /\ backup'.file = backup.file /\ backup'.spoiled = backup.spoiled
      BY <2>0, <3>1 DEF BackupRec
    <3>3. backup'.todo = {}
      BY <2>2, <3>2 DEF BackupEnds
    <3>4. QED
      BY <1>1, <1>4, <3>2, <3>3 DEF Inv, Backed
  <2>3. CASE \E t \in Subs : BackupFile(t)
    <3>0. PICK t \in Subs : BackupFile(t)
      BY <2>3
    <3> DEFINE now == IF file[t] = Torn /\ (BeingWritten(t) \/ t \in hurt)
                      THEN backup.spoiled \cup {t} ELSE backup.spoiled
    <3>1. backup' = [[[backup EXCEPT !.file = [backup.file EXCEPT ![t] = file[t]]]
                        EXCEPT !.todo = backup.todo \ {t}]
                        EXCEPT !.spoiled = now]
      BY <2>0, <3>0 DEF BackupFile, BackupRec
    <3>a. /\ now \in SUBSET Subs /\ backup.spoiled \subseteq now
          /\ file[t] = Torn => t \in now
      BY <2>0 DEF Inv, Readable, BeingWritten, BackupRec
    <3> HIDE DEF now
    <3>2. /\ backup' \in BackupRec /\ backup'.todo = backup.todo \ {t} /\ backup'.records = backup.records
          /\ \A u \in Subs : backup'.file[u] = IF u = t THEN file[t] ELSE backup.file[u]
          /\ backup'.spoiled = now
      BY <2>0, <3>1, <3>a DEF BackupRec
    <3>3. t \in backup.todo /\ backup'.at = "files"
      BY <2>0, <3>0, <3>1 DEF BackupFile, BackupRec
    <3>4. QED
      BY <1>1, <1>4, <3>a, <3>2, <3>3 DEF Inv, Backed
  <2>4. QED
    BY <2>1, <2>2, <2>3
<1>6. Typed'
  BY <1>1, <1>5 DEF Inv, Typed
<1>7. QED
  BY <1>2, <1>3, <1>5, <1>6 DEF Inv

LEMMA InvInductive == Inv /\ [Next]_vars => Inv'
<1> SUFFICES ASSUME Inv, [Next]_vars PROVE Inv'
  OBVIOUS
<1>1. CASE \E r \in Requests : Truncate(r) \/ Write(r) \/ Insert(r) \/ Answer(r)
  BY <1>1, TruncateInv, WriteInv, InsertInv, AnswerInv
<1>2. CASE \E r \in Requests : WriteFails(r) \/ DatabaseFails(r)
  BY <1>2, FailsInv
<1>3. CASE BackgroundFlush
  BY <1>3, FlushInv DEF BackgroundFlush, told
<1>4. CASE Crash
  BY <1>4, CrashInv
<1>5. CASE Create \/ \E s \in Subs : Submit(s)
  BY <1>5, CreateInv, SubmitInv
<1>6. CASE \E g \in Gradings : Load(g) \/ \E s \in Subs : Grade(g, s)
  BY <1>6, LoadInv, GradeInv
<1>7. CASE BackupDatabase \/ BackupEnds \/ \E s \in Subs : BackupFile(s)
  BY <1>7, BackupInv
<1>8. CASE UNCHANGED vars
  <2>1. UNCHANGED <<mem, disk, file, req, backup, replied, hurt, apart>>
    BY <1>8 DEF vars, stores, told
  <2>2. Typed' /\ Shape' /\ Inserted' /\ Behind'
    BY <2>1 DEF Inv, Typed, Shape, Inserted, Behind
  <2>3. Ordered' /\ Filed' /\ Durable'
    BY <2>1 DEF Inv, Ordered, Filed, Backs, Durable, ReplyIsDurable, Recorded
  <2>4. Readable' /\ Backed'
    BY <2>1 DEF Inv, Readable, BeingWritten, Backed, Recorded
  <2>5. QED
    BY <2>2, <2>3, <2>4 DEF Inv
<1>9. QED
  BY <1>1, <1>2, <1>3, <1>4, <1>5, <1>6, <1>7, <1>8 DEF Next

LEMMA InvHolds == Spec => []Inv
<1>1. QED
  BY InitInv, InvInductive, PTL DEF Spec

\* A record of a submission never exists without its file, nor a grade in the
\* database with a file that was never annotated, on the disk or in memory.
THEOREM FilesComeFirst == Spec => []FileBeforeRecord
<1>1. Inv => FileBeforeRecord
  BY DEF Inv, Filed, FileBeforeRecord
<1>2. QED
  BY <1>1, InvHolds, PTL

\* What a handler answered with 200 is on the disk, so a crash at any later
\* moment leaves it in place.
THEOREM RepliesAreDurable == Spec => []ReplyIsDurable
<1>1. Inv => ReplyIsDurable
  BY DEF Inv, Durable
<1>2. QED
  BY <1>1, InvHolds, PTL

\* Only a write under way, a crash, a reported error or an overlap leaves the
\* file of a recorded submission unreadable.
THEOREM AnswersAreReadable == Spec => []AnswerReadable
<1>1. Inv => AnswerReadable
  BY DEF Inv, Readable, BeingWritten, AnswerReadable
<1>2. QED
  BY <1>1, InvHolds, PTL

\* A finished backup holds a readable file of every submission in its database,
\* annotated if it is graded, but for the files copied in the middle of a write
\* or spoiled before: the database was copied before the files, a file never
\* disappears and is unreadable only then.
THEOREM BackupsAreComplete == Spec => []BackupComplete
<1>1. Inv => BackupComplete
  <2> SUFFICES ASSUME Inv, backup.at = "done", NEW s \in Subs, backup.records[s] # None
               PROVE  \/ backup.file[s] = Torn /\ s \in backup.spoiled
                      \/ /\ backup.file[s] \in Marks
                         /\ backup.records[s] \in Gradings => backup.file[s] \in Gradings
    BY DEF BackupComplete
  <2>1. backup.file[s] \in Files /\ s \notin backup.todo
    BY DEF Inv, Typed, BackupRec, Backed
  <2>2. /\ backup.file[s] # None
        /\ backup.records[s] \in Gradings => backup.file[s] # Ungraded
        /\ backup.file[s] = Torn => s \in backup.spoiled
    BY <2>1 DEF Inv, Backed
  <2>3. QED
    BY <2>1, <2>2 DEF Files, Marks
<1>2. QED
  BY <1>1, InvHolds, PTL

=============================================================================
