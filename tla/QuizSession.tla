---------------------------- MODULE QuizSession ----------------------------
(***************************************************************************)
(* The classroom quiz (crates/drafftink-quiz): one session actor owns the  *)
(* quiz state and serves a bounded inbox, WebSocket connections forward    *)
(* student messages to it and wait for the reply, a UI proxy copies the    *)
(* events it emits into the teacher's panel, and the panel's buttons spawn *)
(* tasks that send commands back.  Every arrow is a bounded channel, so    *)
(* the panel acts on a picture of the session that may be out of date.     *)
(***************************************************************************)
EXTENDS Naturals, Sequences, FiniteSets

CONSTANTS
    Students, Questions, Conns,     \* student ids, fresh question ids, sockets
    Owner,                          \* the student at the other end of each socket
    NoStudent, NoQuestion, NoConn,
    InboxCap, UiCap,                \* 1024 and 256 in the code
    Api,                            \* commands sent by an embedding program
    MaxClicks, MaxMessages          \* bounds: panel and API commands, client messages

ASSUME QuizAssumption ==
    /\ IsFiniteSet(Students) /\ IsFiniteSet(Questions)
    /\ NoStudent \notin Students /\ NoQuestion \notin Questions /\ NoConn \notin Conns
    /\ Owner \in [Conns -> Students]
    /\ InboxCap \in Nat \ {0} /\ UiCap \in Nat \ {0}
    /\ Api \subseteq {"leave", "end"}
    /\ MaxClicks \in Nat /\ MaxMessages \in Nat

VARIABLES
    status, joined, online, asked, current, answers, stats, winners, \* QuizSession
    inbox,      \* SessionCommand channel
    outbox,     \* the event the actor is waiting to send, if any
    owed,       \* the connection whose reply comes after that event
    events,     \* UiEvent channel
    panel,      \* UiState.snapshot, the picture the teacher sees
    panelWinner,\* UiState.last_quick_answer
    spawned,    \* commands of clicks whose task has not sent them yet
    used,       \* question ids already drawn
    conn,       \* state of each connection task
    acks,       \* history: "answer accepted" replies that reached a student
    clicks, messages

session == <<status, joined, online, asked, current, answers, stats, winners>>
ui      == <<panel, panelWinner, spawned, used, clicks>>
net     == <<conn, acks, messages>>
vars    == <<session, inbox, outbox, owed, events, ui, net>>

Status   == {"Waiting", "Active", "Paused", "Ended"}
Verdicts == {"right", "wrong"}
Book     == INSTANCE AnswerBook

-----------------------------------------------------------------------------
(* Messages *)

NoStats  == [answered |-> 0, right |-> 0, live |-> FALSE]
StatsRec == [answered : Nat, right : Nat, live : BOOLEAN]
SnapshotRec == [status : Status, current : Questions \cup {NoQuestion},
                stats : StatsRec, total : Nat, online : Nat]

JoinCmd      == [kind : {"join"}, s : Students, c : Conns]
AnswerCmd    == [kind : {"answer"}, s : Students, q : Questions, v : Verdicts, c : Conns]
BuzzCmd      == [kind : {"buzz"}, s : Students, q : Questions, c : Conns]
LeaveCmd     == [kind : {"leave"}, s : Students]
QuestionCmd  == [kind : {"start", "finish"}, q : Questions]
PauseCmd     == [kind : {"pause"}, on : BOOLEAN]
EndCmd       == [kind : {"end"}]
Command      == JoinCmd \cup AnswerCmd \cup BuzzCmd \cup LeaveCmd
                \cup QuestionCmd \cup PauseCmd \cup EndCmd

Event == [kind : {"snapshot"}, snap : SnapshotRec]
         \cup [kind : {"stats"}, stats : StatsRec]
         \cup [kind : {"winner"}, q : Questions, s : Students]
         \cup [kind : {"notice"}]       \* joined, left, ended: only logged

AnswersTo(q)    == {s \in Students : answers[q][s] # "none"}
RightAnswers(q) == {s \in Students : answers[q][s] = "right"}
\* Mutant: counts the open question only.
TotalOfOpen(book) ==
    IF current = NoQuestion THEN 0
    ELSE Cardinality({s \in Students : book[current][s] # "none"})

TotalOf(book)   == Cardinality({p \in Questions \X Students : book[p[1]][p[2]] # "none"})

\* Mutant: the snapshot is taken before the answer is stored.
SnapshotBefore(st, cur, sts, book) ==
    [status  |-> st, current |-> cur,
     stats   |-> IF cur = NoQuestion THEN NoStats ELSE stats[cur],
     total   |-> TotalOf(answers), online |-> Cardinality(online)]

(* snapshot(), on the state the handler leaves behind *)
Snapshot(st, cur, sts, book) ==
    [status  |-> st, current |-> cur,
     stats   |-> IF cur = NoQuestion THEN NoStats ELSE sts[cur],
     total   |-> TotalOf(book), online |-> Cardinality(online)]

-----------------------------------------------------------------------------
(* The session actor: one command at a time, and not before the event of   *)
(* the previous one is in the UI channel.                                  *)

Receive(kind) ==
    /\ inbox # <<>> /\ outbox = <<>>
    /\ Head(inbox).kind = kind
    /\ inbox' = Tail(inbox)

Emit(e) == outbox' = <<e>>

Reply(c) == conn' = [conn EXCEPT ![c] = "idle"]

HandleJoin ==
    LET m == Head(inbox) IN
    /\ Receive("join")
    /\ joined' = joined \cup {m.s}
    /\ online' = online \cup {m.s}
    /\ Emit([kind |-> "notice"])
    /\ Reply(m.c)
    /\ UNCHANGED <<status, asked, current, answers, stats, winners, owed, events, ui,
                   acks, messages>>

HandleLeave ==
    LET m == Head(inbox) IN
    /\ Receive("leave")
    /\ online' = online \ {m.s}
    /\ Emit([kind |-> "notice"])
    /\ UNCHANGED <<status, joined, asked, current, answers, stats, winners, owed, events,
                   ui, net>>

\* Mutant: no check for an earlier answer.
AnswerableTwice(m) == status = "Active" /\ m.q \in asked /\ m.s \in joined

\* Whether submit_answer's checks let the answer through.
Answerable(m) ==
    /\ status = "Active"
    /\ m.q \in asked
    /\ answers[m.q][m.s] = "none"
    /\ m.s \in joined

Counted(st, v) ==
    [answered |-> st.answered + 1, live |-> st.live,
     right |-> IF v = "right" THEN st.right + 1 ELSE st.right]

HandleAnswer ==
    LET m == Head(inbox) IN
    /\ Receive("answer")
    /\ IF Answerable(m)
       THEN /\ answers' = [answers EXCEPT ![m.q][m.s] = m.v]
            /\ stats' = IF stats[m.q].live
                        THEN [stats EXCEPT ![m.q] = Counted(@, m.v)]
                        ELSE stats
            /\ acks' = IF conn[m.c] = "waiting" THEN [acks EXCEPT ![m.q][m.s] = @ + 1]
                                                ELSE acks
       ELSE UNCHANGED <<answers, stats, acks>>
    /\ Reply(m.c)
    /\ Emit([kind |-> "snapshot", snap |-> Snapshot(status, current, stats', answers')])
    /\ UNCHANGED <<status, joined, online, asked, current, winners, owed, events, ui,
                   messages>>

\* The first buzz served wins; the question need not be the open one.
HandleBuzz ==
    LET m   == Head(inbox)
        win == status = "Active" /\ m.s \in joined /\ winners[m.q] = NoStudent
    IN
    /\ Receive("buzz")
    /\ IF win
       THEN /\ winners' = [winners EXCEPT ![m.q] = m.s]
            /\ Emit([kind |-> "winner", q |-> m.q, s |-> m.s])
            /\ owed' = m.c
            /\ UNCHANGED conn
       ELSE /\ Reply(m.c)
            /\ UNCHANGED <<winners, outbox, owed>>
    /\ UNCHANGED <<status, joined, online, asked, current, answers, stats, events, ui,
                   acks, messages>>

\* A start opens an empty book for its question: were one question started
\* twice, the answers already given would be gone.
HandleStart ==
    LET q == Head(inbox).q IN
    /\ Receive("start")
    /\ IF status = "Ended"
       THEN UNCHANGED <<status, asked, current, stats, answers>>
       ELSE /\ status' = "Active"
            /\ asked' = asked \cup {q}
            /\ current' = q
            /\ stats' = [stats EXCEPT ![q] = [NoStats EXCEPT !.live = TRUE]]
            /\ answers' = [answers EXCEPT ![q] = [s \in Students |-> "none"]]
    /\ Emit([kind |-> "snapshot", snap |-> Snapshot(status', current', stats', answers')])
    /\ UNCHANGED <<joined, online, winners, owed, events, ui, net>>

HandleFinish ==
    LET q == Head(inbox).q IN
    /\ Receive("finish")
    /\ stats' = [stats EXCEPT ![q] = NoStats]
    /\ status' = "Waiting"
    /\ current' = NoQuestion
    /\ Emit([kind |-> "stats", stats |-> stats[q]])
    /\ UNCHANGED <<joined, online, asked, answers, winners, owed, events, ui, net>>

HandleEnd ==
    /\ Receive("end")
    /\ status' = "Ended"
    /\ Emit([kind |-> "notice"])
    /\ UNCHANGED <<joined, online, asked, current, answers, stats, winners, owed, events,
                   ui, net>>

HandlePause ==
    /\ Receive("pause")
    /\ status' = IF Head(inbox).on THEN "Paused" ELSE "Active"
    /\ UNCHANGED <<joined, online, asked, current, answers, stats, winners, outbox, owed,
                   events, ui, net>>

\* Mutant: the reply owed after the event is forgotten.
PushEventNoReply ==
    /\ outbox # <<>> /\ Len(events) < UiCap
    /\ events' = Append(events, Head(outbox))
    /\ outbox' = <<>>
    /\ owed' = NoConn
    /\ UNCHANGED <<session, inbox, ui, net>>

\* ui_tx.send(..).await completes: there is room in the UI channel.
PushEvent ==
    /\ outbox # <<>> /\ Len(events) < UiCap
    /\ events' = Append(events, Head(outbox))
    /\ outbox' = <<>>
    /\ owed' = NoConn
    /\ conn' = IF owed = NoConn THEN conn ELSE [conn EXCEPT ![owed] = "idle"]
    /\ UNCHANGED <<session, inbox, ui, acks, messages>>

Actor ==
    \/ HandleJoin \/ HandleLeave \/ HandleAnswer \/ HandleBuzz \/ HandleStart
    \/ HandleFinish \/ HandleEnd \/ HandlePause \/ PushEvent

-----------------------------------------------------------------------------
(* The UI proxy *)

\* The event the proxy applies next: the channel is first in, first out.
NextEvent == Head(events)

ProxyApply ==
    /\ events # <<>>
    /\ events' = Tail(events)
    /\ panel' = CASE NextEvent.kind = "snapshot" -> NextEvent.snap
                  [] NextEvent.kind = "stats"    -> [panel EXCEPT !.stats = NextEvent.stats]
                  [] OTHER                       -> panel
    /\ panelWinner' = IF NextEvent.kind = "winner"
                      THEN [q |-> NextEvent.q, s |-> NextEvent.s]
                      ELSE panelWinner
    /\ UNCHANGED <<session, inbox, outbox, owed, spawned, used, clicks, net>>

-----------------------------------------------------------------------------
(* The teacher's panel: a button exists only in the view its picture of    *)
(* the session selects, and a click only spawns a task.                    *)

IdleView   == panel.status \in {"Waiting", "Paused"}
ActiveView == panel.status = "Active"

Click(cmd) ==
    /\ clicks < MaxClicks
    /\ clicks' = clicks + 1
    /\ spawned' = spawned \cup {[id |-> clicks, cmd |-> cmd]}
    /\ UNCHANGED <<session, inbox, outbox, owed, events, panel, panelWinner, net>>

\* The question editor opens in the idle view only.  Ids are UUIDs: which
\* unused one is drawn makes no difference.
ClickStart ==
    LET q == CHOOSE x \in Questions \ used : TRUE IN
    /\ IdleView /\ used # Questions
    /\ used' = used \cup {q}
    /\ Click([kind |-> "start", q |-> q])

ClickFinish ==
    /\ ActiveView /\ panel.current # NoQuestion
    /\ Click([kind |-> "finish", q |-> panel.current])
    /\ UNCHANGED used

ClickPause ==
    /\ panel.status \in {"Active", "Paused"}
    /\ Click([kind |-> "pause", on |-> panel.status = "Active"])
    /\ UNCHANGED used

\* Commands the panel has no button for, sent through the public session_tx.
ApiCall ==
    /\ \/ "end" \in Api /\ Click([kind |-> "end"])
       \/ "leave" \in Api /\ \E s \in joined : Click([kind |-> "leave", s |-> s])
    /\ UNCHANGED used

\* Mutant: a task does not wait for room in the inbox.
DeliverClickAtOnce ==
    /\ \E t \in spawned :
          /\ inbox' = Append(inbox, t.cmd)
          /\ spawned' = spawned \ {t}
    /\ UNCHANGED <<session, outbox, owed, events, panel, panelWinner, used, clicks, net>>

\* A spawned task's send().await: tasks get room in no particular order.
DeliverClick ==
    /\ Len(inbox) < InboxCap
    /\ \E t \in spawned :
          /\ inbox' = Append(inbox, t.cmd)
          /\ spawned' = spawned \ {t}
    /\ UNCHANGED <<session, outbox, owed, events, panel, panelWinner, used, clicks,
                   net>>

-----------------------------------------------------------------------------
(* Student connections *)

Forward(cmd) ==
    /\ messages < MaxMessages /\ Len(inbox) < InboxCap
    /\ inbox' = Append(inbox, cmd)
    /\ messages' = messages + 1
    /\ UNCHANGED <<session, outbox, owed, events, ui, acks>>

Hello(c) ==
    /\ conn[c] = "idle"
    /\ Forward([kind |-> "join", s |-> Owner[c], c |-> c])
    /\ conn' = [conn EXCEPT ![c] = "waiting"]

Answer(c) ==
    /\ conn[c] = "idle"
    /\ \E q \in asked, v \in Verdicts :
          Forward([kind |-> "answer", s |-> Owner[c], q |-> q, v |-> v, c |-> c])
    /\ conn' = [conn EXCEPT ![c] = "waiting"]

Buzz(c) ==
    /\ conn[c] = "idle"
    /\ \E q \in asked : Forward([kind |-> "buzz", s |-> Owner[c], q |-> q, c |-> c])
    /\ conn' = [conn EXCEPT ![c] = "waiting"]

\* The socket goes away while its task waits for the reply; the task stays,
\* nobody tells the session, and the reply reaches no one.
Disconnect(c) ==
    /\ conn[c] = "waiting"
    /\ conn' = [conn EXCEPT ![c] = "abandoned"]
    /\ UNCHANGED <<session, inbox, outbox, owed, events, ui, acks, messages>>

Client == \E c \in Conns : Hello(c) \/ Answer(c) \/ Buzz(c) \/ Disconnect(c)

-----------------------------------------------------------------------------
Init ==
    /\ status = "Waiting" /\ joined = {} /\ online = {} /\ asked = {}
    /\ current = NoQuestion
    /\ answers = [q \in Questions |-> [s \in Students |-> "none"]]
    /\ stats = [q \in Questions |-> NoStats]
    /\ winners = [q \in Questions |-> NoStudent]
    /\ inbox = <<>> /\ outbox = <<>> /\ owed = NoConn /\ events = <<>>
    \* no snapshot yet: the panel renders the default one
    /\ panel = [status |-> "Waiting", current |-> NoQuestion, stats |-> NoStats,
                total |-> 0, online |-> 0]
    /\ panelWinner = [q |-> NoQuestion, s |-> NoStudent]
    /\ spawned = {} /\ used = {} /\ clicks = 0
    /\ conn = [c \in Conns |-> "idle"]
    /\ acks = [q \in Questions |-> [s \in Students |-> 0]]
    /\ messages = 0

Panel == ClickStart \/ ClickFinish \/ ClickPause \/ ApiCall

Next == Actor \/ ProxyApply \/ Panel \/ DeliverClick \/ Client

\* Tokio keeps polling the actor, the proxy and the spawned tasks; a teacher
\* need never click and a student need never write.
Fairness == WF_vars(Actor) /\ WF_vars(ProxyApply) /\ WF_vars(DeliverClick)

Spec == Init /\ [][Next]_vars /\ Fairness
-----------------------------------------------------------------------------
(* Properties *)

\* Types, and no channel beyond its capacity.
TypeOK ==
    /\ status \in Status
    /\ joined \subseteq Students /\ online \subseteq joined
    /\ asked \subseteq Questions /\ used \subseteq Questions
    /\ current \in Questions \cup {NoQuestion}
    /\ answers \in [Questions -> [Students -> Verdicts \cup {"none"}]]
    /\ stats \in [Questions -> StatsRec]
    /\ winners \in [Questions -> Students \cup {NoStudent}]
    /\ inbox \in Seq(Command) /\ Len(inbox) <= InboxCap
    /\ outbox \in Seq(Event) /\ Len(outbox) <= 1
    /\ events \in Seq(Event) /\ Len(events) <= UiCap
    /\ owed \in Conns \cup {NoConn}
    /\ panel \in SnapshotRec
    /\ panelWinner \in [q : Questions \cup {NoQuestion}, s : Students \cup {NoStudent}]
    /\ spawned \subseteq [id : Nat, cmd : Command]
    /\ conn \in [Conns -> {"idle", "waiting", "abandoned"}]
    /\ acks \in [Questions -> [Students -> Nat]]
    /\ clicks \in Nat /\ messages \in Nat

\* The running statistics of an open question are exactly the tally of the
\* recorded answers, whatever was resubmitted, paused or closed on the way.
StatsMatchAnswers ==
    \A q \in Questions : stats[q].live =>
        /\ stats[q].answered = Cardinality(AnswersTo(q))
        /\ stats[q].right = Cardinality(RightAnswers(q))

\* A student is told "accepted" at most once per question, and never for an
\* answer that was not recorded, even after losing the socket and retrying.
AckedOnce ==
    \A q \in Questions, s \in Students :
        acks[q][s] <= IF answers[q][s] = "none" THEN 0 ELSE 1

\* The answer count the teacher sees never runs backwards: snapshots reach
\* the panel in the order the actor took them.
SnapshotsInOrder == [][panel'.total >= panel.total]_vars

\* Answers recorded so far eventually show on the panel.
AnswersReachPanel ==
    \A n \in 1..(Cardinality(Questions) * Cardinality(Students)) :
        (TotalOf(answers) = n) ~> (panel.total >= n)

\* Every student request is answered by the actor, through both bounded
\* channels, so that no connection task waits for ever.
EveryRequestReplied ==
    \A c \in Conns : (conn[c] # "idle") ~> (conn[c] = "idle")

\* The session keeps the promises of AnswerBook: first answer and first buzz
\* are final.
ImplementsBook == Book!Spec

\* Nothing is on its way to the panel.
Quiescent == inbox = <<>> /\ outbox = <<>> /\ events = <<>> /\ spawned = {}

\* messages.rs:93 gives the UI actor one duty, to turn the session's state
\* changes into what the panel renders (and messages.rs:68 has it poll for
\* snapshots).  So a panel with no news on its way shows the session's status.
PanelShowsStatus == Quiescent => panel.status = status
=============================================================================
