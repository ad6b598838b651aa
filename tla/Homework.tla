------------------------------ MODULE Homework ------------------------------
(***************************************************************************)
(* Homework in the backend: a teacher creates it, students submit a drftx  *)
(* file for it, the teacher of the class grades a submission.  A handler   *)
(* writes to two stores without a lock, the file store (storage/local.rs)  *)
(* and the sled database (db/mod.rs), and handlers run in parallel; a      *)
(* nightly task copies both stores (backup.rs).  One homework is modelled; *)
(* a grading writes its own mark, so its request names the mark.           *)
(***************************************************************************)
EXTENDS Naturals, Sequences

CONSTANTS
    Subs,           \* submissions: one request and one fresh id each
    Gradings,       \* requests to grade, and the marks they give
    Creation,       \* the request that creates the homework
    MaxFails,       \* bound: failed writes
    MaxCrashes,     \* bound: crashes of the server
    None, Torn,
    Ungraded,       \* a submission, or its file, without a mark
    Entry           \* the presence of an index key

Requests == Subs \cup Gradings \cup {Creation}

ASSUME HomeworkAssumption ==
    /\ MaxFails \in Nat /\ MaxCrashes \in Nat
    /\ Subs \cap Gradings = {} /\ Creation \notin Subs \cup Gradings
    /\ {None, Torn, Ungraded, Entry} \cap Requests = {}
    /\ None \notin {Torn, Ungraded, Entry} /\ Torn \notin {Ungraded, Entry} /\ Ungraded # Entry

VARIABLES
    mem,        \* the database as its readers see it
    disk,       \* the database as a restart finds it
    file,       \* the file store: the mark in each submission's file
    req,        \* the handler of each request
    backup,     \* the backup task, its copies, and (history) the submissions
                \* copied torn by a write under way, or spoiled before
    replied,    \* history: the requests answered with 200
    hurt,       \* history: files a crash, an overlap or a reported error hit
    apart,      \* history: submissions whose two marks may differ
    fails, crashes  \* counted against MaxFails and MaxCrashes

stores == <<mem, disk, file>>
told   == <<replied, hurt, apart>>
bounds == <<fails, crashes>>
vars   == <<stores, req, backup, told, bounds>>

\* The keys of the database: the homework, named by the request that creates
\* it, with its two indexes; the record and the index entry of each submission.
HomeworkKeys == {"hw", "hw_class", "hw_teacher"} \X {Creation}
Keys   == HomeworkKeys \cup ({"sub", "sub_hw"} \X Subs)
Hw     == <<"hw", Creation>>
Sub(s) == <<"sub", s>>
SubHw(s) == <<"sub_hw", s>>

Put(k, v) == [key |-> k, value |-> v]

\* What save_homework and save_submission insert, in this order.
SaveHomework ==
    <<Put(Hw, Entry), Put(<<"hw_class", Creation>>, Entry),
      Put(<<"hw_teacher", Creation>>, Entry)>>

\* Mutant: the values of the record and of its index entry are exchanged.
SaveSubmissionExchanged(s, mark) == <<Put(Sub(s), Entry), Put(SubHw(s), mark)>>

SaveSubmission(s, mark) == <<Put(Sub(s), mark), Put(SubHw(s), Entry)>>

\* A handler: where it is, the submission it is about, the mark it writes,
\* the inserts it has left, whether its file was written by somebody else since
\* it was truncated, and whether another grading of it ran at the same time.
Handler(at, s, mark, puts) ==
    [at |-> at, sub |-> s, mark |-> mark, puts |-> puts, mixed |-> FALSE, alone |-> TRUE]

Idle(r) == req[r].at = "idle"
Move(r, at) == req' = [req EXCEPT ![r].at = at]

\* A handler that is over keeps nothing but what it was about.
Over(h) == Handler("done", h.sub, h.mark, <<>>)

\* The submissions of a database, by their marks: what a copy of it is read for.
Submitted(db) == [s \in Subs |-> db[Sub(s)]]

NoBackup == [at |-> "idle", records |-> [s \in Subs |-> None],
             file |-> [s \in Subs |-> None], todo |-> {}, spoiled |-> {}]

\* Between the truncation of a file and the end of its write.
BeingWritten(s) == \E r \in Requests : req[r].sub = s /\ req[r].at = "write"

Active(s) == {g \in Gradings : req[g].sub = s /\ req[g].at \notin {"idle", "done"}}

Init ==
    /\ mem = [k \in Keys |-> None] /\ disk = mem
    /\ file = [s \in Subs |-> None]
    /\ req = [r \in Requests |-> Handler("idle", None, None, <<>>)]
    /\ backup = NoBackup
    /\ replied = {} /\ hurt = {} /\ apart = {}
    /\ fails = 0 /\ crashes = 0

-----------------------------------------------------------------------------
(* The database and the file store, for every handler *)

CanFail == fails < MaxFails /\ fails' = fails + 1

\* A handler ends with an error; a grading that has written the file leaves the
\* two marks of its submission apart.
Fails(r) ==
    /\ req' = [req EXCEPT ![r] = Over(@)]
    /\ apart' = IF r \in Gradings /\ req[r].at = "put" THEN apart \cup {req[r].sub} ELSE apart

\* fs::write opens the file and truncates it; the file exists from here.
Truncate(r) ==
    /\ req[r].at = "truncate"
    /\ file' = [file EXCEPT ![req[r].sub] = Torn]
    /\ req' = [req EXCEPT ![r].at = "write", ![r].mixed = FALSE]
    /\ UNCHANGED <<mem, disk, backup, told, bounds>>

\* fs::write writes from the start of the file.  Where another handler wrote in
\* between and its text was longer, the rest of that text stays behind and the
\* checksum at the end no longer fits.
Write(r) ==
    /\ req[r].at = "write"
    /\ LET s == req[r].sub
           others == {q \in Requests \ {r} : req[q].at = "write" /\ req[q].sub = s}
       IN  /\ req' = [q \in Requests |-> IF q = r THEN [req[r] EXCEPT !.at = "put"]
                                         ELSE IF q \in others THEN [req[q] EXCEPT !.mixed = TRUE]
                                         ELSE req[q]]
           /\ \/ file' = [file EXCEPT ![s] = req[r].mark] /\ UNCHANGED hurt
              \/ /\ req[r].mixed
                 /\ file' = [file EXCEPT ![s] = Torn] /\ hurt' = hurt \cup {s}
    /\ UNCHANGED <<mem, disk, backup, replied, apart, bounds>>

\* Mutant: the handler goes on as if the file had been written.
WriteFailsUnnoticed(r) ==
    /\ req[r].at \in {"truncate", "write"} /\ CanFail
    /\ Move(r, "put")
    /\ UNCHANGED <<stores, backup, told, crashes>>

\* The file cannot be opened, or not be written.
WriteFails(r) ==
    /\ req[r].at \in {"truncate", "write"} /\ CanFail
    /\ Fails(r)
    /\ hurt' = IF req[r].at = "write" THEN hurt \cup {req[r].sub} ELSE hurt
    /\ UNCHANGED <<stores, backup, replied, crashes>>

\* One insert into the database.
Insert(r) ==
    /\ req[r].at = "put" /\ req[r].puts # <<>>
    /\ mem' = [mem EXCEPT ![Head(req[r].puts).key] = Head(req[r].puts).value]
    /\ req' = [req EXCEPT ![r].puts = Tail(@)]
    /\ UNCHANGED <<disk, file, backup, told, bounds>>

Answered(r) ==
    /\ req' = [req EXCEPT ![r] = Over(@)]
    /\ replied' = replied \cup {r}
    /\ apart' = IF r \in Gradings /\ req[r].alone THEN apart \ {req[r].sub} ELSE apart

\* Mutant: the answer is given before the database is flushed.
AnswerUnflushed(r) ==
    /\ req[r].at = "put" /\ req[r].puts = <<>>
    /\ Answered(r)
    /\ UNCHANGED <<stores, backup, hurt, bounds>>

\* The flush, and with it the answer.
Answer(r) ==
    /\ req[r].at = "put" /\ req[r].puts = <<>>
    /\ disk' = mem
    /\ Answered(r)
    /\ UNCHANGED <<mem, file, backup, hurt, bounds>>

\* An insert or the flush fails.
DatabaseFails(r) ==
    /\ req[r].at = "put" /\ CanFail
    /\ Fails(r)
    /\ UNCHANGED <<stores, backup, replied, hurt, crashes>>

\* sled flushes by itself, in the order of the inserts.
BackgroundFlush ==
    /\ disk # mem
    /\ disk' = mem
    /\ UNCHANGED <<mem, file, req, backup, told, bounds>>

\* The server dies and is started again: what was not flushed is gone, and so
\* is every handler and a backup under way.
Crash ==
    /\ crashes < MaxCrashes /\ crashes' = crashes + 1
    /\ mem' = disk
    /\ req' = [r \in Requests |-> IF Idle(r) THEN req[r] ELSE Over(req[r])]
    /\ hurt' = hurt \cup {req[r].sub : r \in {q \in Requests : req[q].at = "write"}}
    /\ apart' = apart \cup {req[g].sub : g \in {q \in Gradings : req[q].at = "put"}}
    /\ backup' = IF backup.at = "done" THEN backup ELSE NoBackup
    /\ UNCHANGED <<disk, file, replied, fails>>

-----------------------------------------------------------------------------
(* The handlers of api/homework.rs *)

Create ==
    /\ Idle(Creation)
    /\ req' = [req EXCEPT ![Creation] = Handler("put", None, None, SaveHomework)]
    /\ UNCHANGED <<stores, backup, told, bounds>>

\* Mutant: the record is saved first, and the file after it.
SubmitRecordFirst(s) ==
    /\ Idle(s) /\ mem[Hw] # None
    /\ req' = [req EXCEPT ![s] = Handler("truncate", s, Ungraded, SaveSubmission(s, Ungraded))]
    /\ mem' = [mem EXCEPT ![Sub(s)] = Ungraded]
    /\ UNCHANGED <<disk, file, backup, told, bounds>>

\* A student submits: the homework is there and the file is valid.
Submit(s) ==
    /\ Idle(s) /\ mem[Hw] # None
    /\ req' = [req EXCEPT ![s] = Handler("truncate", s, Ungraded, SaveSubmission(s, Ungraded))]
    /\ UNCHANGED <<stores, backup, told, bounds>>

\* Mutant: the record is saved as it was read, without the mark.
GradeKeepingRecord(g, s) ==
    /\ Idle(g) /\ mem[Sub(s)] # None /\ mem[Hw] # None
    /\ req' = [r \in Requests |->
                 IF r = g THEN [Handler("load", s, g, SaveSubmission(s, mem[Sub(s)]))
                                    EXCEPT !.alone = (Active(s) = {})]
                 ELSE IF r \in Active(s) THEN [req[r] EXCEPT !.alone = FALSE]
                 ELSE req[r]]
    /\ apart' = IF Active(s) # {} THEN apart \cup {s} ELSE apart
    /\ UNCHANGED <<stores, backup, replied, hurt, bounds>>

\* A grading reads the record of the submission and of the homework.
Grade(g, s) ==
    /\ Idle(g) /\ mem[Sub(s)] # None /\ mem[Hw] # None
    /\ req' = [r \in Requests |->
                 IF r = g THEN [Handler("load", s, g, SaveSubmission(s, g))
                                    EXCEPT !.alone = (Active(s) = {})]
                 ELSE IF r \in Active(s) THEN [req[r] EXCEPT !.alone = FALSE]
                 ELSE req[r]]
    /\ apart' = IF Active(s) # {} THEN apart \cup {s} ELSE apart
    /\ UNCHANGED <<stores, backup, replied, hurt, bounds>>

\* It loads the file; what it finds there must be whole.
Load(g) ==
    /\ req[g].at = "load"
    /\ IF file[req[g].sub] \in {None, Torn} THEN Fails(g)
                                            ELSE Move(g, "truncate") /\ UNCHANGED apart
    /\ UNCHANGED <<stores, backup, replied, hurt, bounds>>

-----------------------------------------------------------------------------
(* The backup task: the database first, and then one file after the other *)

BackupDatabase ==
    /\ backup.at = "idle"
    /\ backup' = [NoBackup EXCEPT !.at = "files", !.records = Submitted(disk), !.todo = Subs]
    /\ UNCHANGED <<stores, req, told, bounds>>

\* A copy takes its time, but what it finds is what the file holds at some
\* moment of it: before, between or after the steps of a write it overlaps.
BackupFile(s) ==
    /\ backup.at = "files" /\ s \in backup.todo
    /\ backup' = [backup EXCEPT
                     !.file[s] = file[s], !.todo = @ \ {s},
                     !.spoiled = IF file[s] = Torn /\ (BeingWritten(s) \/ s \in hurt)
                                 THEN @ \cup {s} ELSE @]
    /\ UNCHANGED <<stores, req, told, bounds>>

\* Mutant: the database is copied last.
BackupEndsWithDatabase ==
    /\ backup.at = "files" /\ backup.todo = {}
    /\ backup' = [backup EXCEPT !.at = "done", !.records = Submitted(disk)]
    /\ UNCHANGED <<stores, req, told, bounds>>

BackupEnds ==
    /\ backup.at = "files" /\ backup.todo = {}
    /\ backup' = [backup EXCEPT !.at = "done"]
    /\ UNCHANGED <<stores, req, told, bounds>>

Next ==
    \/ \E r \in Requests : \/ Truncate(r) \/ Write(r) \/ WriteFails(r)
                           \/ Insert(r) \/ Answer(r) \/ DatabaseFails(r)
    \/ BackgroundFlush \/ Crash
    \/ Create
    \/ \E s \in Subs : Submit(s)
    \/ \E g \in Gradings : Load(g) \/ \E s \in Subs : Grade(g, s)
    \/ BackupDatabase \/ BackupEnds
    \/ \E s \in Subs : BackupFile(s)

Spec == Init /\ [][Next]_vars

-----------------------------------------------------------------------------
(* Properties *)

Marks == {Ungraded} \cup Gradings
Files == {None, Torn} \cup Marks

\* What the database can hold: entries of the homework, marks in the records of
\* submissions, entries of their index.
TypedDb(db) ==
    /\ DOMAIN db = Keys
    /\ \A k \in HomeworkKeys : db[k] \in {None, Entry}
    /\ \A s \in Subs : db[Sub(s)] \in {None} \cup Marks /\ db[SubHw(s)] \in {None, Entry}

\* Every variable keeps its type.
TypeOK ==
    /\ TypedDb(mem) /\ TypedDb(disk)
    /\ file \in [Subs -> Files] /\ backup.file \in [Subs -> Files]
    /\ backup.records \in [Subs -> {None} \cup Marks]
    /\ backup.at \in {"idle", "files", "done"}
    /\ backup.todo \subseteq Subs /\ backup.spoiled \subseteq Subs
    /\ \A r \in Requests :
          /\ req[r].at \in {"idle", "load", "truncate", "write", "put", "done"}
          /\ req[r].sub \in Subs \cup {None} /\ req[r].mark \in Marks \cup {None}
          /\ req[r].mixed \in BOOLEAN /\ req[r].alone \in BOOLEAN
          /\ \A i \in DOMAIN req[r].puts : req[r].puts[i].key \in Keys
    /\ replied \subseteq Requests /\ hurt \subseteq Subs /\ apart \subseteq Subs
    /\ fails \in 0 .. MaxFails /\ crashes \in 0 .. MaxCrashes

\* A file whose mark goes with this database.
Backs(f, db) ==
    \A s \in Subs : /\ db[Sub(s)] # None => f[s] # None
                    /\ db[Sub(s)] \in Gradings => f[s] # Ungraded

\* A record never runs ahead of its file: a submission in the database, before
\* or after a crash, has a file, and a grade in the database is in no file that
\* was never annotated.
FileBeforeRecord == Backs(file, mem) /\ Backs(file, disk)

\* A request answered with 200 survives a crash: the homework it created with
\* its two indexes, the submission with its index entry, the grade.
ReplyIsDurable ==
    /\ Creation \in replied => \A k \in HomeworkKeys : disk[k] # None
    /\ \A s \in Subs \cap replied : disk[Sub(s)] # None /\ disk[SubHw(s)] # None
    /\ \A g \in Gradings \cap replied : disk[Sub(req[g].sub)] \in Gradings

\* The answer of a student is lost to no handler that reports success: the file
\* of a recorded submission is unreadable only while it is being written, or
\* after a crash or a reported error during the write, or two writes at once.
AnswerReadable ==
    \A s \in Subs : mem[Sub(s)] # None /\ file[s] = Torn
        => s \in hurt \/ BeingWritten(s)

\* Once a grading has run alone to its end, the mark in the database is the one
\* in the file, and stays so until another grading begins.
MarksAgree ==
    \A s \in Subs : mem[Sub(s)] # None /\ s \notin apart \cup hurt /\ Active(s) = {}
        => mem[Sub(s)] = file[s]

\* Every submission in the database of a finished backup has a file in it that
\* can be read, with an annotation if it is graded, whatever the handlers did
\* while the copies were made.  The one exception is a file that was copied
\* while a grading wrote it, or that a crash, a reported error or an overlap had
\* spoiled before: it can be unreadable in the backup too.
BackupComplete ==
    backup.at = "done" =>
        \A s \in Subs : backup.records[s] # None =>
            \/ backup.file[s] = Torn /\ s \in backup.spoiled
            \/ /\ backup.file[s] \in Marks
               /\ backup.records[s] \in Gradings => backup.file[s] \in Gradings

=============================================================================
