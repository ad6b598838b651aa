-------------------------- MODULE QuizSessionProofs --------------------------
(***************************************************************************)
(* For any number of students, questions and sockets and any channel       *)
(* capacities: the session is type correct, implements AnswerBook,         *)
(* acknowledges an answer at most once, keeps a true tally of each open    *)
(* question, and shows the teacher a count that never runs backwards.      *)
(***************************************************************************)
EXTENDS QuizSession, FiniteSetTheorems, TLAPS

\* A book has a countable number of answers, so snapshot totals are numbers.
LEMMA TotalIsNat == \A book : TotalOf(book) \in Nat
<1> TAKE book
<1>1. IsFiniteSet(Questions \X Students)
  BY QuizAssumption, FS_Product
<1>2. IsFiniteSet({p \in Questions \X Students : book[p[1]][p[2]] # "none"})
  BY <1>1, FS_Subset
<1> QED
  BY <1>2, FS_CardinalityType DEF TotalOf

\* A snapshot of well-typed state is a snapshot record.
LEMMA SnapshotType ==
  ASSUME TypeOK, NEW st \in Status, NEW cur \in Questions \cup {NoQuestion},
         NEW sts \in [Questions -> StatsRec], NEW book
  PROVE  Snapshot(st, cur, sts, book) \in SnapshotRec
<1>1. Cardinality(online) \in Nat
  <2>1. IsFiniteSet(online)
    BY QuizAssumption, FS_Subset DEF TypeOK
  <2> QED
    BY <2>1, FS_CardinalityType
<1>2. NoStats \in StatsRec
  BY DEF NoStats, StatsRec
<1>3. (IF cur = NoQuestion THEN NoStats ELSE sts[cur]) \in StatsRec
  BY <1>2
<1> QED
  BY <1>1, <1>3, TotalIsNat DEF Snapshot, SnapshotRec

\* Taking the head of a channel leaves a channel; what was taken is a message.
LEMMA ReceiveType ==
  ASSUME TypeOK, NEW kind, Receive(kind)
  PROVE  /\ inbox' \in Seq(Command) /\ Len(inbox') <= InboxCap
         /\ Head(inbox) \in Command /\ Head(inbox).kind = kind
         /\ outbox = <<>>
BY QuizAssumption DEF Receive, TypeOK

LEMMA CommandFields ==
  ASSUME NEW m \in Command
  PROVE  /\ m.kind \in {"join", "answer", "buzz", "leave"} => m.s \in Students
         /\ m.kind \in {"join", "answer", "buzz"} => m.c \in Conns
         /\ m.kind \in {"answer", "buzz", "start", "finish"} => m.q \in Questions
         /\ m.kind = "answer" => m.v \in Verdicts
         /\ m.kind = "pause" => m.on \in BOOLEAN
BY DEF Command, JoinCmd, AnswerCmd, BuzzCmd, LeaveCmd, QuestionCmd, PauseCmd, EndCmd


\* One more acknowledgement in the table leaves a table of numbers.
LEMMA BumpType ==
  ASSUME NEW f \in [Questions -> [Students -> Nat]], NEW q \in Questions, NEW s \in Students
  PROVE  [f EXCEPT ![q][s] = f[q][s] + 1] \in [Questions -> [Students -> Nat]]
<1>1. f[q] \in [Students -> Nat]
  OBVIOUS
<1>2. [f[q] EXCEPT ![s] = f[q][s] + 1] \in [Students -> Nat]
  BY <1>1
<1>3. [f EXCEPT ![q] = [f[q] EXCEPT ![s] = f[q][s] + 1]] \in [Questions -> [Students -> Nat]]
  BY <1>2
<1> QED
  BY <1>3

\* The empty session is well typed.
LEMMA TypeInit == Init => TypeOK
<1> SUFFICES ASSUME Init PROVE TypeOK
  OBVIOUS
<1>1. NoStats \in StatsRec
  BY DEF NoStats, StatsRec
<1>2. panel \in SnapshotRec
  BY <1>1 DEF Init, SnapshotRec, Status
<1> QED
  BY <1>1, <1>2, QuizAssumption DEF Init, TypeOK, Status, Verdicts

(* One lemma per group of actions: the actor's handlers ...                 *)
LEMMA TypeActor == TypeOK /\ Actor => TypeOK'
<1> SUFFICES ASSUME TypeOK, Actor PROVE TypeOK'
  OBVIOUS
<1> USE DEF Emit, Reply
<1>0. [kind |-> "notice"] \in Event
  BY DEF Event
<1>1. CASE HandleJoin
  <2>1. Head(inbox).s \in Students /\ Head(inbox).c \in Conns
    BY <1>1, ReceiveType, CommandFields DEF HandleJoin
  <2> QED
    BY <1>0, <1>1, <2>1, ReceiveType DEF HandleJoin, TypeOK, ui
<1>2. CASE HandleLeave
  BY <1>0, <1>2, ReceiveType DEF HandleLeave, TypeOK, ui, net
<1>3. CASE HandleAnswer
  <2> DEFINE m == Head(inbox)
  <2>1. m.s \in Students /\ m.c \in Conns /\ m.q \in Questions /\ m.v \in Verdicts
    BY <1>3, ReceiveType, CommandFields DEF HandleAnswer
  <2>2. \A st \in StatsRec : Counted(st, m.v) \in StatsRec
    BY DEF Counted, StatsRec
  <2>a. ASSUME Answerable(m)
        PROVE  /\ stats' \in [Questions -> StatsRec]
               /\ answers' \in [Questions -> [Students -> Verdicts \cup {"none"}]]
               /\ acks' \in [Questions -> [Students -> Nat]]
    <3>1. answers' = [answers EXCEPT ![m.q][m.s] = m.v]
      BY <1>3, <2>a DEF HandleAnswer
    <3>2. stats' = stats \/ stats' = [stats EXCEPT ![m.q] = Counted(stats[m.q], m.v)]
      BY <1>3, <2>a, <2>1 DEF HandleAnswer
    <3>3. acks' = acks \/ acks' = [acks EXCEPT ![m.q][m.s] = acks[m.q][m.s] + 1]
      BY <1>3, <2>a, <2>1 DEF HandleAnswer
    <3>4. stats' \in [Questions -> StatsRec]
      <4>1. Counted(stats[m.q], m.v) \in StatsRec
        BY <2>1, <2>2 DEF TypeOK
      <4> HIDE DEF m
      <4> QED
        BY <3>2, <2>1, <4>1 DEF TypeOK
    <3>5. answers' \in [Questions -> [Students -> Verdicts \cup {"none"}]]
      BY <3>1, <2>1 DEF TypeOK
    <3>6. acks' \in [Questions -> [Students -> Nat]]
      <4>1. acks \in [Questions -> [Students -> Nat]]
        BY DEF TypeOK
      <4>2. [acks EXCEPT ![m.q][m.s] = acks[m.q][m.s] + 1] \in [Questions -> [Students -> Nat]]
        BY <4>1, <2>1, BumpType
      <4> QED
        BY <3>3, <4>1, <4>2
    <3> QED
      BY <3>4, <3>5, <3>6
  <2>b. ASSUME ~Answerable(m)
        PROVE  /\ stats' \in [Questions -> StatsRec]
               /\ answers' \in [Questions -> [Students -> Verdicts \cup {"none"}]]
               /\ acks' \in [Questions -> [Students -> Nat]]
    BY <1>3, <2>b DEF HandleAnswer, TypeOK
  <2>3. stats' \in [Questions -> StatsRec]
    BY <2>a, <2>b
  <2>4. answers' \in [Questions -> [Students -> Verdicts \cup {"none"}]]
    BY <2>a, <2>b
  <2>5. acks' \in [Questions -> [Students -> Nat]]
    BY <2>a, <2>b
  <2>6. conn' \in [Conns -> {"idle", "waiting", "abandoned"}]
    BY <1>3, <2>1 DEF HandleAnswer, TypeOK
  <2>7. Snapshot(status, current, stats', answers') \in SnapshotRec
    BY <2>3, SnapshotType DEF TypeOK
  <2>8. outbox' \in Seq(Event) /\ Len(outbox') <= 1
    BY <1>3, <2>7 DEF HandleAnswer, Event
  <2> QED
    BY <1>3, <2>3, <2>4, <2>5, <2>6, <2>8, ReceiveType DEF HandleAnswer, TypeOK, ui
<1>4. CASE HandleBuzz
  <2> DEFINE m == Head(inbox)
  <2>1. m.s \in Students /\ m.c \in Conns /\ m.q \in Questions
    BY <1>4, ReceiveType, CommandFields DEF HandleBuzz
  <2>2. [kind |-> "winner", q |-> m.q, s |-> m.s] \in Event
    BY <2>1 DEF Event
  <2>3. outbox' \in Seq(Event) /\ Len(outbox') <= 1
    <3>1. outbox' = outbox \/ outbox' = <<[kind |-> "winner", q |-> m.q, s |-> m.s]>>
      BY <1>4 DEF HandleBuzz
    <3>2. \A e \in Event : <<e>> \in Seq(Event) /\ Len(<<e>>) <= 1
      OBVIOUS
    <3> QED
      BY <3>1, <3>2, <2>2 DEF TypeOK
  <2>4. winners' \in [Questions -> Students \cup {NoStudent}]
    BY <1>4, <2>1 DEF HandleBuzz, TypeOK
  <2>5. conn' \in [Conns -> {"idle", "waiting", "abandoned"}] /\ owed' \in Conns \cup {NoConn}
    BY <1>4, <2>1 DEF HandleBuzz, TypeOK
  <2> QED
    BY <1>4, <2>3, <2>4, <2>5, ReceiveType DEF HandleBuzz, TypeOK, ui
<1>5. CASE HandleStart
  <2> DEFINE q == Head(inbox).q
  <2>1. q \in Questions
    BY <1>5, ReceiveType, CommandFields DEF HandleStart
  <2>2. [NoStats EXCEPT !.live = TRUE] \in StatsRec
    BY DEF NoStats, StatsRec
  <2>3. stats' \in [Questions -> StatsRec]
    BY <1>5, <2>1, <2>2 DEF HandleStart, TypeOK
  <2>4. status' \in Status /\ current' \in Questions \cup {NoQuestion} /\ asked' \subseteq Questions
    BY <1>5, <2>1 DEF HandleStart, TypeOK, Status
  <2>a. answers' \in [Questions -> [Students -> Verdicts \cup {"none"}]]
    <3>1. [x \in Students |-> "none"] \in [Students -> Verdicts \cup {"none"}]
      OBVIOUS
    <3>2. answers' = answers \/ answers' = [answers EXCEPT ![q] = [x \in Students |-> "none"]]
      BY <1>5 DEF HandleStart
    <3> QED
      BY <2>1, <3>1, <3>2 DEF TypeOK
  <2>5. Snapshot(status', current', stats', answers') \in SnapshotRec
    BY <2>3, <2>4, <2>a, SnapshotType
  <2>6. outbox' \in Seq(Event) /\ Len(outbox') <= 1
    BY <1>5, <2>5 DEF HandleStart, Event
  <2> QED
    BY <1>5, <2>3, <2>4, <2>a, <2>6, ReceiveType DEF HandleStart, TypeOK, ui, net
<1>6. CASE HandleFinish
  <2> DEFINE q == Head(inbox).q
  <2>1. q \in Questions
    BY <1>6, ReceiveType, CommandFields DEF HandleFinish
  <2>2. stats' \in [Questions -> StatsRec]
    BY <1>6, <2>1 DEF HandleFinish, TypeOK, NoStats, StatsRec
  <2>3. [kind |-> "stats", stats |-> stats[q]] \in Event
    BY <2>1 DEF Event, TypeOK
  <2>4. outbox' \in Seq(Event) /\ Len(outbox') <= 1
    BY <1>6, <2>3 DEF HandleFinish
  <2> QED
    BY <1>6, <2>2, <2>4, ReceiveType DEF HandleFinish, TypeOK, Status, ui, net
<1>7. CASE HandleEnd
  BY <1>0, <1>7, ReceiveType DEF HandleEnd, TypeOK, Status, ui, net
<1>8. CASE HandlePause
  BY <1>8, ReceiveType DEF HandlePause, TypeOK, Status, ui, net
<1>9. CASE PushEvent
  <2>1. events' \in Seq(Event) /\ Len(events') <= UiCap
    BY <1>9, QuizAssumption DEF PushEvent, TypeOK
  <2>2. conn' \in [Conns -> {"idle", "waiting", "abandoned"}]
    BY <1>9 DEF PushEvent, TypeOK
  <2> QED
    BY <1>9, <2>1, <2>2 DEF PushEvent, TypeOK, session, ui
<1> QED
  BY <1>1, <1>2, <1>3, <1>4, <1>5, <1>6, <1>7, <1>8, <1>9 DEF Actor

(* ... and the proxy, the panel, the spawned tasks and the connections.     *)
LEMMA TypeRest == TypeOK /\ (ProxyApply \/ Panel \/ DeliverClick \/ Client) => TypeOK'
<1> SUFFICES ASSUME TypeOK, ProxyApply \/ Panel \/ DeliverClick \/ Client PROVE TypeOK'
  OBVIOUS
<1>1. CASE ProxyApply
  <2>1. NextEvent \in Event /\ events' \in Seq(Event) /\ Len(events') <= UiCap
    BY <1>1, QuizAssumption DEF ProxyApply, NextEvent, TypeOK
  <2>2. /\ NextEvent.kind = "snapshot" => NextEvent.snap \in SnapshotRec
        /\ NextEvent.kind = "stats" => NextEvent.stats \in StatsRec
        /\ NextEvent.kind = "winner" => NextEvent.q \in Questions /\ NextEvent.s \in Students
    BY <2>1 DEF Event
  <2>3. \A st \in StatsRec : [panel EXCEPT !.stats = st] \in SnapshotRec
    BY DEF TypeOK, SnapshotRec
  <2>4. panel' \in SnapshotRec
    BY <1>1, <2>2, <2>3 DEF ProxyApply, TypeOK
  <2>5. panelWinner' \in [q : Questions \cup {NoQuestion}, s : Students \cup {NoStudent}]
    BY <1>1, <2>2 DEF ProxyApply, TypeOK
  <2> QED
    BY <1>1, <2>1, <2>4, <2>5 DEF ProxyApply, TypeOK, session, net
<1>2. CASE Panel
  <2>1. \A cmd \in Command : Click(cmd) =>
          /\ spawned' \subseteq [id : Nat, cmd : Command] /\ clicks' \in Nat
          /\ UNCHANGED <<session, inbox, outbox, owed, events, panel, panelWinner, net>>
    BY DEF Click, TypeOK
  <2>2. \A cmd \in Command : Click(cmd) /\ used' \subseteq Questions => TypeOK'
    BY <2>1 DEF TypeOK, session, net
  <2>3. CASE ClickStart
    <3> DEFINE q == CHOOSE x \in Questions \ used : TRUE
    <3>1. q \in Questions
      BY <2>3 DEF ClickStart, TypeOK
    <3>2. [kind |-> "start", q |-> q] \in Command
      BY <3>1 DEF Command, QuestionCmd
    <3> QED
      BY <2>2, <2>3, <3>1, <3>2 DEF ClickStart, TypeOK
  <2>4. CASE ClickFinish
    <3>1. panel.current \in Questions
      BY <2>4 DEF ClickFinish, TypeOK, SnapshotRec
    <3>2. [kind |-> "finish", q |-> panel.current] \in Command
      BY <3>1 DEF Command, QuestionCmd
    <3> QED
      BY <2>2, <2>4, <3>2 DEF ClickFinish, TypeOK
  <2>5. CASE ClickPause
    <3>1. [kind |-> "pause", on |-> panel.status = "Active"] \in Command
      BY DEF Command, PauseCmd
    <3> QED
      BY <2>2, <2>5, <3>1 DEF ClickPause, TypeOK
  <2>6. CASE ApiCall
    <3>1. [kind |-> "end"] \in Command
      BY DEF Command, EndCmd
    <3>2. \A s \in joined : [kind |-> "leave", s |-> s] \in Command
      BY DEF Command, LeaveCmd, TypeOK
    <3> QED
      BY <2>2, <2>6, <3>1, <3>2 DEF ApiCall, TypeOK
  <2> QED
    BY <1>2, <2>3, <2>4, <2>5, <2>6 DEF Panel
<1>3. CASE DeliverClick
  <2>1. inbox' \in Seq(Command) /\ Len(inbox') <= InboxCap
    BY <1>3, QuizAssumption DEF DeliverClick, TypeOK
  <2> QED
    BY <1>3, <2>1 DEF DeliverClick, TypeOK, session, net
<1>4. CASE Client
  <2>1. \A cmd \in Command : Forward(cmd) =>
          /\ inbox' \in Seq(Command) /\ Len(inbox') <= InboxCap /\ messages' \in Nat
          /\ UNCHANGED <<session, outbox, owed, events, ui, acks>>
    BY QuizAssumption DEF Forward, TypeOK
  <2>2. \A cmd \in Command, c \in Conns, st \in {"idle", "waiting", "abandoned"} :
          Forward(cmd) /\ conn' = [conn EXCEPT ![c] = st] => TypeOK'
    BY <2>1 DEF TypeOK, session, ui
  <2> PICK c \in Conns : Hello(c) \/ Answer(c) \/ Buzz(c) \/ Disconnect(c)
    BY <1>4 DEF Client
  <2>3. Owner[c] \in Students
    BY QuizAssumption
  <2>4. CASE Hello(c)
    <3>1. [kind |-> "join", s |-> Owner[c], c |-> c] \in Command
      BY <2>3 DEF Command, JoinCmd
    <3> QED
      BY <2>2, <2>4, <3>1 DEF Hello
  <2>5. CASE Answer(c)
    <3>1. \A q \in asked, v \in Verdicts :
            [kind |-> "answer", s |-> Owner[c], q |-> q, v |-> v, c |-> c] \in Command
      BY <2>3 DEF Command, AnswerCmd, TypeOK
    <3> QED
      BY <2>2, <2>5, <3>1 DEF Answer
  <2>6. CASE Buzz(c)
    <3>1. \A q \in asked : [kind |-> "buzz", s |-> Owner[c], q |-> q, c |-> c] \in Command
      BY <2>3 DEF Command, BuzzCmd, TypeOK
    <3> QED
      BY <2>2, <2>6, <3>1 DEF Buzz
  <2>7. CASE Disconnect(c)
    BY <2>7 DEF Disconnect, TypeOK, session, ui
  <2> QED
    BY <2>4, <2>5, <2>6, <2>7
<1> QED
  BY <1>1, <1>2, <1>3, <1>4

LEMMA TypeStutter == TypeOK /\ UNCHANGED vars => TypeOK'
BY DEF TypeOK, vars, session, ui, net

(* Every reachable state is well typed and no channel exceeds its capacity. *)
THEOREM TypeCorrect == Spec => []TypeOK
<1>1. TypeOK /\ [Next]_vars => TypeOK'
  BY TypeActor, TypeRest, TypeStutter DEF Next
<1> QED
  BY TypeInit, <1>1, PTL DEF Spec

-----------------------------------------------------------------------------
(* The tally: a question is opened once, and nobody answered it before.      *)

\* Whether cmd, on its way to the session, opens q.
Opens(cmd, q) == cmd.kind = "start" /\ cmd.q = q

\* Every opening on its way, in a task or in the inbox, is of a question of its
\* own that is drawn and not asked yet.
FreshStarts ==
    /\ asked \subseteq used
    /\ \A t \in spawned, q \in Questions : Opens(t.cmd, q) =>
          /\ q \in used \ asked
          /\ \A u \in spawned : Opens(u.cmd, q) => u = t
          /\ \A i \in 1..Len(inbox) : ~Opens(inbox[i], q)
    /\ \A i \in 1..Len(inbox), q \in Questions : Opens(inbox[i], q) =>
          /\ q \in used \ asked
          /\ \A j \in 1..Len(inbox) : Opens(inbox[j], q) => j = i

\* Only questions that were asked have answers and a running tally.
AskedFirst ==
    \A q \in Questions \ asked :
        ~stats[q].live /\ \A s \in Students : answers[q][s] = "none"

TallyInv == FreshStarts /\ AskedFirst /\ StatsMatchAnswers

\* At first nothing was asked.
LEMMA TallyInit == Init => TallyInv
<1> SUFFICES ASSUME Init PROVE TallyInv
  OBVIOUS
<1>1. FreshStarts
  BY DEF Init, FreshStarts
<1>2. AskedFirst /\ StatsMatchAnswers
  BY DEF Init, AskedFirst, StatsMatchAnswers, NoStats
<1> QED
  BY <1>1, <1>2 DEF TallyInv

\* Taking a command keeps the openings apart.
LEMMA ReceiveFresh ==
  ASSUME TypeOK, FreshStarts, NEW kind, Receive(kind), UNCHANGED <<spawned, used>>,
         \/ asked' = asked
         \/ kind = "start" /\ asked' = asked \cup {Head(inbox).q}
  PROVE  FreshStarts'
<1>1. /\ inbox' = Tail(inbox) /\ inbox # <<>> /\ inbox \in Seq(Command)
      /\ Head(inbox) = inbox[1] /\ Len(inbox) \in Nat /\ 1 \in 1..Len(inbox)
  BY DEF Receive, TypeOK
<1>2. /\ Len(inbox') = Len(inbox) - 1
      /\ \A i \in 1..Len(inbox') : inbox'[i] = inbox[i+1] /\ i+1 \in 1..Len(inbox) /\ i+1 # 1
  BY <1>1
<1>3. CASE asked' = asked
  <2>1. \A t \in spawned, q \in Questions : Opens(t.cmd, q) =>
          \A i \in 1..Len(inbox') : ~Opens(inbox'[i], q)
    BY <1>2 DEF FreshStarts
  <2>2. \A i \in 1..Len(inbox'), q \in Questions : Opens(inbox'[i], q) =>
          /\ q \in used \ asked
          /\ \A j \in 1..Len(inbox') : Opens(inbox'[j], q) => j + 1 = i + 1
    BY <1>2 DEF FreshStarts
  <2>3. \A i, j \in 1..Len(inbox') : j + 1 = i + 1 => j = i
    BY <1>1, <1>2
  <2> QED
    BY <1>3, <2>1, <2>2, <2>3 DEF FreshStarts
<1>4. CASE kind = "start" /\ asked' = asked \cup {Head(inbox).q}
  <2> PICK n : n = Head(inbox).q
    OBVIOUS
  <2>0. n \in Questions /\ Opens(inbox[1], n)
    BY <1>1, <1>4, ReceiveType, CommandFields DEF Receive, Opens
  <2>1. n \in used /\ asked' = asked \cup {n}
    BY <1>1, <1>4, <2>0 DEF FreshStarts
  <2>2. \A t \in spawned, q \in Questions : Opens(t.cmd, q) =>
          q # n /\ \A i \in 1..Len(inbox') : ~Opens(inbox'[i], q)
    BY <1>1, <1>2, <2>0 DEF FreshStarts
  <2>3. \A i \in 1..Len(inbox'), q \in Questions : Opens(inbox'[i], q) =>
          /\ q \in used \ asked /\ q # n
          /\ \A j \in 1..Len(inbox') : Opens(inbox'[j], q) => j + 1 = i + 1
    BY <1>1, <1>2, <2>0 DEF FreshStarts
  <2>4. \A i, j \in 1..Len(inbox') : j + 1 = i + 1 => j = i
    BY <1>1, <1>2
  <2> QED
    BY <2>1, <2>2, <2>3, <2>4 DEF FreshStarts
<1> QED
  BY <1>3, <1>4

\* Sending a command that opens nothing, or one that a task held, does too.
LEMMA SendFresh ==
  ASSUME TypeOK, FreshStarts, NEW cmd \in Command, inbox' = Append(inbox, cmd),
         UNCHANGED <<asked, used>>,
         \/ spawned' = spawned /\ cmd.kind # "start"
         \/ \E t \in spawned : t.cmd = cmd /\ spawned' = spawned \ {t}
  PROVE  FreshStarts'
<1>1. /\ Len(inbox) \in Nat /\ Len(inbox') = Len(inbox) + 1
      /\ \A i \in 1..Len(inbox) : inbox'[i] = inbox[i] /\ i # Len(inbox) + 1
      /\ inbox'[Len(inbox) + 1] = cmd
      /\ \A i \in 1..Len(inbox') : i \in 1..Len(inbox) \/ i = Len(inbox) + 1
  BY DEF TypeOK
<1>2. ASSUME NEW q \in Questions, Opens(cmd, q)
      PROVE  /\ q \in used \ asked
             /\ \A t \in spawned' : ~Opens(t.cmd, q)
             /\ \A i \in 1..Len(inbox) : ~Opens(inbox[i], q)
  <2> PICK t \in spawned : t.cmd = cmd /\ spawned' = spawned \ {t}
    BY <1>2 DEF Opens
  <2> QED
    BY <1>2 DEF FreshStarts
<1>3. spawned' \subseteq spawned
  OBVIOUS
<1>4. \A t \in spawned', q \in Questions : Opens(t.cmd, q) =>
          /\ q \in used \ asked
          /\ \A u \in spawned' : Opens(u.cmd, q) => u = t
          /\ \A i \in 1..Len(inbox') : ~Opens(inbox'[i], q)
  BY <1>1, <1>2, <1>3 DEF FreshStarts
<1>5. \A i \in 1..Len(inbox'), q \in Questions : Opens(inbox'[i], q) =>
          /\ q \in used \ asked
          /\ \A j \in 1..Len(inbox') : Opens(inbox'[j], q) => j = i
  BY <1>1, <1>2 DEF FreshStarts
<1> QED
  BY <1>4, <1>5 DEF FreshStarts

\* A click opens nothing or a question nobody has drawn.
LEMMA ClickFresh ==
  ASSUME TypeOK, FreshStarts, Panel
  PROVE  FreshStarts'
<1>1. UNCHANGED <<asked, inbox>>
  BY DEF Panel, ClickStart, ClickFinish, ClickPause, ApiCall, Click, session
<1>2. CASE ClickStart
  <2> DEFINE n == CHOOSE x \in Questions \ used : TRUE
             new == [id |-> clicks, cmd |-> [kind |-> "start", q |-> n]]
  <2>1. n \in Questions \ used /\ used' = used \cup {n} /\ spawned' = spawned \cup {new}
    BY <1>2 DEF ClickStart, Click, TypeOK
  <2>2. \A q \in Questions : Opens(new.cmd, q) <=> q = n
    BY DEF Opens
  <2> HIDE DEF n, new
  <2>3. n \notin asked
    BY <2>1 DEF FreshStarts
  <2>4. \A t \in spawned : ~Opens(t.cmd, n)
    BY <2>1 DEF FreshStarts
  <2>5. \A i \in 1..Len(inbox) : ~Opens(inbox[i], n)
    BY <2>1 DEF FreshStarts
  <2> QED
    BY <1>1, <2>1, <2>2, <2>3, <2>4, <2>5 DEF FreshStarts
<1>3. CASE ClickFinish \/ ClickPause \/ ApiCall
  <2>1. PICK new : /\ used' = used /\ spawned' = spawned \cup {new}
                   /\ \A q \in Questions : ~Opens(new.cmd, q)
    <3>1. ASSUME NEW cmd, Click(cmd), cmd.kind # "start"
          PROVE  \E new : /\ spawned' = spawned \cup {new}
                          /\ \A q \in Questions : ~Opens(new.cmd, q)
      <4>1. spawned' = spawned \cup {[id |-> clicks, cmd |-> cmd]}
        BY <3>1 DEF Click
      <4>2. \A q : ~Opens([id |-> clicks, cmd |-> cmd].cmd, q)
        BY <3>1 DEF Opens
      <4> QED
        BY <4>1, <4>2
    <3>2. \E cmd : Click(cmd) /\ cmd.kind # "start"
      <4>1. CASE ClickFinish
        BY <4>1 DEF ClickFinish
      <4>2. CASE ClickPause
        BY <4>2 DEF ClickPause
      <4>3. CASE ApiCall
        <5>1. CASE Click([kind |-> "end"])
          BY <5>1
        <5>2. CASE \E x \in joined : Click([kind |-> "leave", s |-> x])
          BY <5>2
        <5> QED
          BY <4>3, <5>1, <5>2 DEF ApiCall
      <4> QED
        BY <1>3, <4>1, <4>2, <4>3
    <3>3. used' = used
      BY <1>3 DEF ClickFinish, ClickPause, ApiCall
    <3> QED
      BY <3>1, <3>2, <3>3
  <2> QED
    BY <1>1, <2>1 DEF FreshStarts
<1> QED
  BY <1>2, <1>3 DEF Panel

\* Every step keeps the openings apart.
LEMMA FreshStep == TypeOK /\ FreshStarts /\ [Next]_vars => FreshStarts'
<1> SUFFICES ASSUME TypeOK, FreshStarts, [Next]_vars PROVE FreshStarts'
  OBVIOUS
<1>1. CASE \E kind : /\ Receive(kind) /\ UNCHANGED <<spawned, used>>
                     /\ \/ asked' = asked
                        \/ kind = "start" /\ asked' = asked \cup {Head(inbox).q}
  BY <1>1, ReceiveFresh
<1>2. CASE Panel
  BY <1>2, ClickFresh
<1>3. CASE DeliverClick
  <2> PICK t \in spawned : inbox' = Append(inbox, t.cmd) /\ spawned' = spawned \ {t}
    BY <1>3 DEF DeliverClick
  <2>1. t.cmd \in Command /\ UNCHANGED <<asked, used>>
    BY <1>3 DEF DeliverClick, TypeOK, session
  <2> QED
    BY <2>1, SendFresh
<1>4. CASE \E cmd \in Command : Forward(cmd) /\ cmd.kind # "start"
  <2> PICK cmd \in Command : Forward(cmd) /\ cmd.kind # "start"
    BY <1>4
  <2> QED
    BY SendFresh DEF Forward, session, ui
<1>5. CASE UNCHANGED <<asked, used, spawned, inbox>>
  BY <1>5 DEF FreshStarts
<1>6. Actor => PushEvent \/ \E kind : /\ Receive(kind) /\ UNCHANGED <<spawned, used>>
                     /\ \/ asked' = asked
                        \/ kind = "start" /\ asked' = asked \cup {Head(inbox).q}
  BY DEF Actor, HandleJoin, HandleLeave, HandleAnswer, HandleBuzz, HandleStart,
         HandleFinish, HandleEnd, HandlePause, ui
<1>7. Client => \/ \E cmd \in Command : Forward(cmd) /\ cmd.kind # "start"
                \/ UNCHANGED <<asked, used, spawned, inbox>>
  <2> SUFFICES ASSUME NEW c \in Conns, Hello(c) \/ Answer(c) \/ Buzz(c) \/ Disconnect(c)
               PROVE  \/ \E cmd \in Command : Forward(cmd) /\ cmd.kind # "start"
                      \/ UNCHANGED <<asked, used, spawned, inbox>>
    BY DEF Client
  <2>1. Owner[c] \in Students
    BY QuizAssumption
  <2>2. CASE Hello(c)
    <3>1. [kind |-> "join", s |-> Owner[c], c |-> c] \in Command
      BY <2>1 DEF Command, JoinCmd
    <3> QED
      BY <2>2, <3>1 DEF Hello
  <2>3. CASE Answer(c)
    <3>1. \A q \in asked, v \in Verdicts :
            [kind |-> "answer", s |-> Owner[c], q |-> q, v |-> v, c |-> c] \in Command
      BY <2>1 DEF Command, AnswerCmd, TypeOK
    <3> QED
      BY <2>3, <3>1 DEF Answer
  <2>4. CASE Buzz(c)
    <3>1. \A q \in asked : [kind |-> "buzz", s |-> Owner[c], q |-> q, c |-> c] \in Command
      BY <2>1 DEF Command, BuzzCmd, TypeOK
    <3> QED
      BY <2>4, <3>1 DEF Buzz
  <2>5. CASE Disconnect(c)
    BY <2>5 DEF Disconnect, session, ui
  <2> QED
    BY <2>2, <2>3, <2>4, <2>5
<1>8. PushEvent \/ ProxyApply \/ UNCHANGED vars => UNCHANGED <<asked, used, spawned, inbox>>
  BY DEF PushEvent, ProxyApply, vars, session, ui
<1> QED
  BY <1>1, <1>2, <1>3, <1>4, <1>5, <1>6, <1>7, <1>8 DEF Next

\* Who answered, and who answered rightly, in one question's row of the book.
Answerers(row) == {x \in Students : row[x] # "none"}
Righters(row)  == {x \in Students : row[x] = "right"}

\* One more answer is one more in the tally of its question.
LEMMA OneMore ==
  ASSUME NEW row \in [Students -> Verdicts \cup {"none"}], NEW s \in Students,
         NEW v \in Verdicts, row[s] = "none", NEW after, after = [row EXCEPT ![s] = v]
  PROVE  /\ Cardinality(Answerers(after)) = Cardinality(Answerers(row)) + 1
         /\ Cardinality(Righters(after)) =
              IF v = "right" THEN Cardinality(Righters(row)) + 1
                             ELSE Cardinality(Righters(row))
<1>1. Answerers(after) = Answerers(row) \cup {s} /\ s \notin Answerers(row)
  BY DEF Verdicts, Answerers
<1>2. /\ v = "right" => Righters(after) = Righters(row) \cup {s} /\ s \notin Righters(row)
      /\ v # "right" => Righters(after) = Righters(row)
  BY DEF Verdicts, Righters
<1>3. IsFiniteSet(Answerers(row)) /\ IsFiniteSet(Righters(row))
  BY QuizAssumption, FS_Subset DEF Answerers, Righters
<1>4. Cardinality(Answerers(after)) = Cardinality(Answerers(row)) + 1
  BY <1>1, <1>3, FS_AddElement
<1>5. CASE v = "right"
  <2>1. Cardinality(Righters(after)) = Cardinality(Righters(row)) + 1
    BY <1>2, <1>3, <1>5, FS_AddElement
  <2> QED
    BY <1>4, <1>5, <2>1
<1>6. CASE v # "right"
  BY <1>2, <1>4, <1>6
<1> QED
  BY <1>5, <1>6

\* A start wipes the book of a question nobody was asked yet.
LEMMA StartErasesNothing ==
  ASSUME TypeOK, FreshStarts, AskedFirst, HandleStart
  PROVE  answers' = answers /\ (status # "Ended" => Head(inbox).q \notin asked)
<1> PICK n : n = Head(inbox).q
  OBVIOUS
<1>1. n \in Questions
  BY ReceiveType, CommandFields DEF HandleStart
<1>2. n \notin asked
  <2>1. Head(inbox).kind = "start" /\ Head(inbox) = inbox[1] /\ 1 \in 1..Len(inbox)
    BY DEF HandleStart, Receive, TypeOK
  <2> QED
    BY <1>1, <2>1 DEF FreshStarts, Opens
<1>3. answers[n] = [s \in Students |-> "none"]
  BY <1>1, <1>2 DEF AskedFirst, TypeOK
<1>4. answers' = answers \/ answers' = [answers EXCEPT ![n] = [s \in Students |-> "none"]]
  BY DEF HandleStart
<1> QED
  BY <1>1, <1>2, <1>3, <1>4 DEF TypeOK

\* The handlers that write to the book or to the tallies.
LEMMA TallyStep ==
  ASSUME TypeOK, TallyInv, [Next]_vars
  PROVE  AskedFirst' /\ StatsMatchAnswers'
<1> USE DEF TallyInv
<1>1. CASE HandleAnswer
  <2> PICK m : m = Head(inbox)
    OBVIOUS
  <2>1. m.s \in Students /\ m.q \in Questions /\ m.v \in Verdicts
    BY <1>1, ReceiveType, CommandFields DEF HandleAnswer
  <2>2. asked' = asked
    BY <1>1 DEF HandleAnswer
  <2>3. CASE ~Answerable(m)
    <3>1. UNCHANGED <<answers, stats>>
      BY <1>1, <2>3 DEF HandleAnswer
    <3> QED
      BY <2>2, <3>1 DEF AskedFirst, StatsMatchAnswers, AnswersTo, RightAnswers
  <2>4. CASE Answerable(m)
    <3> PICK n, s, v : n = m.q /\ s = m.s /\ v = m.v
      OBVIOUS
    <3>1. /\ answers' = [answers EXCEPT ![n][s] = v] /\ answers[n][s] = "none" /\ n \in asked
          /\ stats' = IF stats[n].live THEN [stats EXCEPT ![n] = Counted(stats[n], v)] ELSE stats
      BY <1>1, <2>4 DEF HandleAnswer, Answerable
    <3>2. /\ answers[n] \in [Students -> Verdicts \cup {"none"}]
          /\ answers'[n] = [answers[n] EXCEPT ![s] = v]
          /\ \A q \in Questions \ {n} : answers'[q] = answers[q] /\ stats'[q] = stats[q]
      BY <2>1, <3>1 DEF TypeOK
    <3>3. AskedFirst'
      BY <2>2, <3>1, <3>2 DEF AskedFirst
    <3>4. \A q \in Questions \ {n} : AnswersTo(q)' = AnswersTo(q) /\ RightAnswers(q)' = RightAnswers(q)
      BY <3>2 DEF AnswersTo, RightAnswers
    <3>5. ASSUME stats'[n].live
          PROVE  /\ stats'[n].answered = Cardinality(AnswersTo(n))'
                 /\ stats'[n].right = Cardinality(RightAnswers(n))'
      <4>1. stats[n].live /\ stats'[n] = Counted(stats[n], v)
        BY <2>1, <3>1, <3>5 DEF TypeOK
      <4>2. /\ stats[n].answered = Cardinality(AnswersTo(n))
            /\ stats[n].right = Cardinality(RightAnswers(n))
        BY <2>1, <4>1 DEF StatsMatchAnswers
      <4>3. /\ Cardinality(AnswersTo(n)') = Cardinality(AnswersTo(n)) + 1
            /\ Cardinality(RightAnswers(n)') =
                 IF v = "right" THEN Cardinality(RightAnswers(n)) + 1
                 ELSE Cardinality(RightAnswers(n))
        <5>1. /\ AnswersTo(n) = Answerers(answers[n]) /\ RightAnswers(n) = Righters(answers[n])
              /\ AnswersTo(n)' = Answerers(answers'[n]) /\ RightAnswers(n)' = Righters(answers'[n])
          BY DEF AnswersTo, RightAnswers, Answerers, Righters
        <5> PICK row, after : row = answers[n] /\ after = answers'[n]
          OBVIOUS
        <5>2. /\ Cardinality(Answerers(after)) = Cardinality(Answerers(row)) + 1
              /\ Cardinality(Righters(after)) =
                   IF v = "right" THEN Cardinality(Righters(row)) + 1
                                  ELSE Cardinality(Righters(row))
          BY <2>1, <3>1, <3>2, OneMore
        <5> QED
          BY <5>1, <5>2
      <4>4. /\ stats'[n].answered = stats[n].answered + 1
            /\ stats'[n].right = IF v = "right" THEN stats[n].right + 1 ELSE stats[n].right
        BY <4>1 DEF Counted
      <4> QED
        BY <4>2, <4>3, <4>4
    <3>6. StatsMatchAnswers'
      BY <3>2, <3>4, <3>5 DEF StatsMatchAnswers
    <3> QED
      BY <3>3, <3>6
  <2> QED
    BY <2>3, <2>4
<1>2. CASE HandleStart
  <2> PICK n : n = Head(inbox).q
    OBVIOUS
  <2>1. n \in Questions /\ answers' = answers
    BY <1>2, ReceiveType, CommandFields, StartErasesNothing DEF HandleStart
  <2>2. \A q : AnswersTo(q)' = AnswersTo(q) /\ RightAnswers(q)' = RightAnswers(q)
    BY <2>1 DEF AnswersTo, RightAnswers
  <2>3. CASE status = "Ended"
    <3>1. UNCHANGED <<asked, stats>>
      BY <1>2, <2>3 DEF HandleStart
    <3> QED
      BY <2>1, <2>2, <3>1 DEF AskedFirst, StatsMatchAnswers
  <2>4. CASE status # "Ended"
    <3>1. asked' = asked \cup {n} /\ stats' = [stats EXCEPT ![n] = [NoStats EXCEPT !.live = TRUE]]
      BY <1>2, <2>4 DEF HandleStart
    <3>2. n \notin asked
      BY <1>2, <2>4, StartErasesNothing
    <3>3. AnswersTo(n) = {} /\ RightAnswers(n) = {}
      BY <2>1, <3>2 DEF AskedFirst, AnswersTo, RightAnswers
    <3>4. /\ stats'[n].answered = 0 /\ stats'[n].right = 0
          /\ \A q \in Questions \ {n} : stats'[q] = stats[q]
      BY <2>1, <3>1 DEF TypeOK, NoStats
    <3>5. StatsMatchAnswers'
      BY <2>2, <3>3, <3>4, FS_EmptySet DEF StatsMatchAnswers
    <3>6. AskedFirst'
      BY <2>1, <3>1, <3>4 DEF AskedFirst
    <3> QED
      BY <3>5, <3>6
  <2> QED
    BY <2>3, <2>4
<1>3. CASE HandleFinish
  <2> PICK n : n = Head(inbox).q
    OBVIOUS
  <2>1. /\ n \in Questions /\ UNCHANGED <<answers, asked>>
        /\ stats' = [stats EXCEPT ![n] = NoStats]
    BY <1>3, ReceiveType, CommandFields DEF HandleFinish
  <2>2. ~stats'[n].live /\ \A q \in Questions \ {n} : stats'[q] = stats[q]
    BY <2>1 DEF TypeOK, NoStats
  <2>3. \A q : AnswersTo(q)' = AnswersTo(q) /\ RightAnswers(q)' = RightAnswers(q)
    BY <2>1 DEF AnswersTo, RightAnswers
  <2> QED
    BY <2>1, <2>2, <2>3 DEF AskedFirst, StatsMatchAnswers
<1>4. CASE UNCHANGED <<asked, answers, stats>>
  BY <1>4 DEF AskedFirst, StatsMatchAnswers, AnswersTo, RightAnswers
<1>5. \/ HandleAnswer \/ HandleStart \/ HandleFinish \/ UNCHANGED <<asked, answers, stats>>
  BY DEF Next, Actor, HandleJoin, HandleLeave, HandleBuzz, HandleEnd, HandlePause, PushEvent,
         ProxyApply, Panel, ClickStart, ClickFinish, ClickPause, ApiCall, Click, DeliverClick,
         Client, Hello, Answer, Buzz, Disconnect, Forward, vars, session
<1> QED
  BY <1>1, <1>2, <1>3, <1>4, <1>5

\* The tally's invariant holds throughout.
LEMMA TallyAlways == Spec => []TallyInv
<1>1. TypeOK /\ TallyInv /\ [Next]_vars => TallyInv'
  BY FreshStep, TallyStep DEF TallyInv
<1> QED
  BY <1>1, TallyInit, TypeCorrect, PTL DEF Spec

(* The running statistics of an open question are the tally of the answers  *)
(* recorded for it, for any class and any order of messages (QuizStats,     *)
(* submit_answer).                                                          *)
THEOREM StatsAreTheTally == Spec => []StatsMatchAnswers
<1>1. TallyInv => StatsMatchAnswers
  BY DEF TallyInv
<1> QED
  BY <1>1, TallyAlways, PTL

-----------------------------------------------------------------------------
(* Only one handler writes an answer, and only one writes a winner.          *)

\* What a step may do to the book of answers, to the acknowledgements and to
\* the winners: one entry at a time, and only an empty one.
AnswerStep ==
    \E q \in Questions, s \in Students, v \in Verdicts :
        /\ answers[q][s] = "none"
        /\ answers' = [answers EXCEPT ![q][s] = v]
        /\ acks' = acks \/ acks' = [acks EXCEPT ![q][s] = acks[q][s] + 1]
        /\ winners' = winners

BuzzStep ==
    \E q \in Questions, s \in Students :
        /\ winners[q] = NoStudent
        /\ winners' = [winners EXCEPT ![q] = s]
        /\ answers' = answers /\ acks' = acks

BookUnchanged == answers' = answers /\ winners' = winners /\ acks' = acks

\* Every step of the session is one of the three.
LEMMA BookSteps ==
  TypeOK /\ TallyInv /\ [Next]_vars => AnswerStep \/ BuzzStep \/ BookUnchanged
<1> SUFFICES ASSUME TypeOK, TallyInv, [Next]_vars
             PROVE  AnswerStep \/ BuzzStep \/ BookUnchanged
  OBVIOUS
<1>1. CASE HandleAnswer
  <2> DEFINE m == Head(inbox)
  <2>1. m.s \in Students /\ m.q \in Questions /\ m.v \in Verdicts
    BY <1>1, ReceiveType, CommandFields DEF HandleAnswer
  <2>2. CASE Answerable(m)
    <3>1. answers[m.q][m.s] = "none" /\ answers' = [answers EXCEPT ![m.q][m.s] = m.v]
      BY <1>1, <2>2 DEF HandleAnswer, Answerable
    <3>2. acks' = acks \/ acks' = [acks EXCEPT ![m.q][m.s] = acks[m.q][m.s] + 1]
      BY <1>1, <2>2 DEF HandleAnswer
    <3>3. winners' = winners
      BY <1>1 DEF HandleAnswer
    <3> HIDE DEF m
    <3> QED
      BY <2>1, <3>1, <3>2, <3>3 DEF AnswerStep
  <2>3. CASE ~Answerable(m)
    BY <1>1, <2>3 DEF HandleAnswer, BookUnchanged
  <2> QED
    BY <2>2, <2>3
<1>2. CASE HandleBuzz
  <2> DEFINE m == Head(inbox)
  <2>1. m.s \in Students /\ m.q \in Questions
    BY <1>2, ReceiveType, CommandFields DEF HandleBuzz
  <2>2. answers' = answers /\ acks' = acks
    BY <1>2 DEF HandleBuzz
  <2>3. \/ winners' = winners
        \/ winners[m.q] = NoStudent /\ winners' = [winners EXCEPT ![m.q] = m.s]
    BY <1>2 DEF HandleBuzz
  <2> HIDE DEF m
  <2> QED
    BY <2>1, <2>2, <2>3 DEF BuzzStep, BookUnchanged
<1>3. CASE HandleJoin \/ HandleLeave \/ HandleFinish \/ HandleEnd \/ HandlePause
           \/ PushEvent
  BY <1>3 DEF HandleJoin, HandleLeave, HandleFinish, HandleEnd, HandlePause, PushEvent,
     BookUnchanged, session, net
<1>8. CASE HandleStart
  BY <1>8, StartErasesNothing DEF HandleStart, TallyInv, BookUnchanged, net
<1>4. CASE ProxyApply \/ DeliverClick
  BY <1>4 DEF ProxyApply, DeliverClick, BookUnchanged, session, net
<1>5. CASE Panel
  BY <1>5 DEF Panel, ClickStart, ClickFinish, ClickPause, ApiCall, Click,
     BookUnchanged, session, net
<1>6. CASE Client
  BY <1>6 DEF Client, Hello, Answer, Buzz, Disconnect, Forward, BookUnchanged, session
<1>7. CASE UNCHANGED vars
  BY <1>7 DEF vars, session, net, BookUnchanged
<1> QED
  BY <1>1, <1>2, <1>3, <1>4, <1>5, <1>6, <1>7, <1>8 DEF Next, Actor

(* Acknowledgements: a connection that dies before its reply, and a student  *)
(* who retries, never see a second "accepted".                               *)
THEOREM AcknowledgedOnce == Spec => []AckedOnce
<1>1. Init => AckedOnce
  BY DEF Init, AckedOnce
<1>2. TypeOK /\ TallyInv /\ AckedOnce /\ [Next]_vars => AckedOnce'
  <2> SUFFICES ASSUME TypeOK, TallyInv, AckedOnce, [Next]_vars,
                      NEW q \in Questions, NEW s \in Students
               PROVE  acks'[q][s] <= IF answers'[q][s] = "none" THEN 0 ELSE 1
    BY DEF AckedOnce
  <2>1. acks[q][s] \in Nat /\ acks[q][s] <= IF answers[q][s] = "none" THEN 0 ELSE 1
    BY DEF TypeOK, AckedOnce
  <2>2. CASE AnswerStep
    <3> PICK q1 \in Questions, s1 \in Students, v \in Verdicts :
          /\ answers[q1][s1] = "none"
          /\ answers' = [answers EXCEPT ![q1][s1] = v]
          /\ acks' = acks \/ acks' = [acks EXCEPT ![q1][s1] = acks[q1][s1] + 1]
      BY <2>2 DEF AnswerStep
    <3>1. CASE q = q1 /\ s = s1
      <4>1. answers'[q][s] = v /\ v # "none"
        BY <3>1 DEF TypeOK, Verdicts
      <4>2. acks[q][s] = 0
        BY <2>1, <3>1
      <4>3. acks'[q][s] = 0 \/ acks'[q][s] = 1
        BY <3>1, <4>2 DEF TypeOK
      <4> QED
        BY <4>1, <4>3
    <3>2. CASE ~(q = q1 /\ s = s1)
      <4>1. answers'[q][s] = answers[q][s]
        BY <3>2 DEF TypeOK
      <4>2. acks'[q][s] = acks[q][s]
        BY <3>2 DEF TypeOK
      <4> QED
        BY <2>1, <4>1, <4>2
    <3> QED
      BY <3>1, <3>2
  <2>3. CASE BuzzStep \/ BookUnchanged
    BY <2>1, <2>3 DEF BuzzStep, BookUnchanged
  <2> QED
    BY <2>2, <2>3, BookSteps
<1> QED
  BY <1>1, <1>2, TypeCorrect, TallyAlways, PTL DEF Spec

(* The session implements AnswerBook: whatever is resubmitted, paused,       *)
(* closed or restarted, a first answer and a first buzz are final.           *)
THEOREM BookImplemented == Spec => ImplementsBook
<1>1. Init => Book!Init
  BY DEF Init, Book!Init
<1>2. TypeOK /\ TallyInv /\ [Next]_vars => [Book!Next]_<<answers, winners>>
  <2> SUFFICES ASSUME TypeOK, TallyInv, [Next]_vars
               PROVE  [Book!Next]_<<answers, winners>>
    OBVIOUS
  <2>1. CASE AnswerStep
    BY <2>1 DEF AnswerStep, Book!Next, Book!Record, Verdicts, Book!Verdicts
  <2>2. CASE BuzzStep
    BY <2>2 DEF BuzzStep, Book!Next, Book!Award
  <2>3. CASE BookUnchanged
    BY <2>3 DEF BookUnchanged
  <2> QED
    BY <2>1, <2>2, <2>3, BookSteps
<1> QED
  BY <1>1, <1>2, TypeCorrect, TallyAlways, PTL DEF Spec, ImplementsBook, Book!Spec

-----------------------------------------------------------------------------
(* Snapshots, from the actor through both channels to the panel             *)

IsSnap(e) == e.kind = "snapshot"

\* On its way a snapshot is older than the book, and than the ones behind it.
Rising ==
    /\ panel.total <= TotalOf(answers)
    /\ \A i \in 1..Len(events) : IsSnap(events[i]) =>
          /\ panel.total <= events[i].snap.total
          /\ events[i].snap.total <= TotalOf(answers)
          /\ \A j \in 1..Len(events) :
                i < j /\ IsSnap(events[j]) => events[i].snap.total <= events[j].snap.total
    /\ outbox # <<>> /\ IsSnap(outbox[1]) =>
          /\ panel.total <= outbox[1].snap.total
          /\ outbox[1].snap.total <= TotalOf(answers)
          /\ \A j \in 1..Len(events) :
                IsSnap(events[j]) => events[j].snap.total <= outbox[1].snap.total

\* The book only grows.
LEMMA TotalGrows ==
  ASSUME TypeOK, TallyInv, [Next]_vars
  PROVE  TotalOf(answers) <= TotalOf(answers')
<1> DEFINE Cells(book) == {p \in Questions \X Students : book[p[1]][p[2]] # "none"}
<1>1. \A q \in Questions, s \in Students : answers[q][s] # "none" => answers'[q][s] # "none"
  <2>1. CASE AnswerStep
    <3> PICK n \in Questions, x \in Students, v \in Verdicts :
          answers' = [answers EXCEPT ![n][x] = v]
      BY <2>1 DEF AnswerStep
    <3>1. v # "none"
      BY DEF Verdicts
    <3> QED
      BY <3>1 DEF TypeOK
  <2>2. CASE BuzzStep \/ BookUnchanged
    BY <2>2 DEF BuzzStep, BookUnchanged
  <2> QED
    BY <2>1, <2>2, BookSteps
<1>2. Cells(answers) \subseteq Cells(answers')
  BY <1>1
<1>3. IsFiniteSet(Cells(answers'))
  <2>1. IsFiniteSet(Questions \X Students)
    BY QuizAssumption, FS_Product
  <2> QED
    BY <2>1, FS_Subset
<1>4. Cardinality(Cells(answers)) <= Cardinality(Cells(answers'))
  <2> HIDE DEF Cells
  <2> QED
    BY <1>2, <1>3, FS_Subset
<1> QED
  BY <1>4 DEF TotalOf

\* What travels is typed.
LEMMA EventFields ==
  ASSUME TypeOK
  PROVE  /\ panel.total \in Nat /\ TotalOf(answers) \in Nat /\ TotalOf(answers') \in Nat
         /\ \A i \in 1..Len(events) : IsSnap(events[i]) => events[i].snap.total \in Nat
         /\ outbox # <<>> /\ IsSnap(outbox[1]) => outbox[1].snap.total \in Nat
         /\ Len(events) \in Nat
<1>1. \A e \in Event : IsSnap(e) => e.snap.total \in Nat
  BY DEF Event, IsSnap, SnapshotRec
<1>2. \A i \in 1..Len(events) : events[i] \in Event
  BY DEF TypeOK
<1>3. outbox # <<>> => outbox[1] \in Event
  BY DEF TypeOK
<1> QED
  BY <1>1, <1>2, <1>3, TotalIsNat DEF TypeOK, SnapshotRec

\* A handler takes a command while no event waits, and emits at most one: a
\* snapshot of the book it leaves behind, or none.
LEMMA EmitRising ==
  ASSUME TypeOK, TallyInv, Rising, [Next]_vars, UNCHANGED <<panel, events>>,
         \/ outbox' = outbox
         \/ \E e : outbox' = <<e>> /\ (IsSnap(e) => e.snap.total = TotalOf(answers'))
  PROVE  Rising'
<1>1. TotalOf(answers) <= TotalOf(answers') /\ TotalOf(answers') = TotalOf(answers)'
  BY TotalGrows DEF TotalOf
<1>2. /\ panel.total <= TotalOf(answers')
      /\ \A i \in 1..Len(events) : IsSnap(events[i]) => events[i].snap.total <= TotalOf(answers')
  BY <1>1, EventFields DEF Rising
<1>3. CASE outbox' = outbox
  <2>1. outbox # <<>> /\ IsSnap(outbox[1]) => outbox[1].snap.total <= TotalOf(answers')
    BY <1>1, EventFields DEF Rising
  <2> QED
    BY <1>1, <1>2, <1>3, <2>1 DEF Rising
<1>4. CASE \E e : outbox' = <<e>> /\ (IsSnap(e) => e.snap.total = TotalOf(answers'))
  <2> PICK e : outbox' = <<e>> /\ (IsSnap(e) => e.snap.total = TotalOf(answers'))
    BY <1>4
  <2>1. outbox'[1] = e
    OBVIOUS
  <2>2. IsSnap(e) => e.snap.total = TotalOf(answers') /\ TotalOf(answers') \in Nat
    BY EventFields
  <2> QED
    BY <1>1, <1>2, <2>1, <2>2 DEF Rising
<1> QED
  BY <1>3, <1>4

\* The event that waited joins the channel behind the others.
LEMMA PushRising ==
  ASSUME TypeOK, Rising, PushEvent
  PROVE  Rising'
<1>1. /\ outbox # <<>> /\ outbox' = <<>> /\ UNCHANGED <<panel, answers>>
      /\ events' = Append(events, outbox[1])
  BY DEF PushEvent, session, ui
<1>2. /\ Len(events) \in Nat /\ Len(events') = Len(events) + 1
      /\ \A i \in 1..Len(events) : events'[i] = events[i]
      /\ events'[Len(events) + 1] = outbox[1]
  BY <1>1 DEF TypeOK
<1>3. TotalOf(answers)' = TotalOf(answers)
  BY <1>1 DEF TotalOf
<1>4. \A i \in 1..Len(events') : IsSnap(events'[i]) =>
          /\ panel.total <= events'[i].snap.total
          /\ events'[i].snap.total <= TotalOf(answers)
          /\ \A j \in 1..Len(events') :
                i < j /\ IsSnap(events'[j]) => events'[i].snap.total <= events'[j].snap.total
  <2>1. \A i \in 1..Len(events') : i \in 1..Len(events) \/ i = Len(events) + 1
    BY <1>2
  <2> QED
    BY <1>1, <1>2, <2>1 DEF Rising
<1> QED
  BY <1>1, <1>3, <1>4 DEF Rising

\* The proxy shows the oldest.
LEMMA ApplyRising ==
  ASSUME TypeOK, Rising, ProxyApply
  PROVE  Rising' /\ panel'.total >= panel.total
<1>1. /\ events # <<>> /\ events' = Tail(events) /\ UNCHANGED <<outbox, answers>>
      /\ NextEvent = events[1] /\ 1 \in 1..Len(events)
  BY DEF ProxyApply, NextEvent, session, TypeOK
<1>2. /\ Len(events) \in Nat /\ Len(events') = Len(events) - 1
      /\ \A i \in 1..Len(events') : events'[i] = events[i+1] /\ i+1 \in 1..Len(events) /\ 1 < i+1
  BY <1>1 DEF TypeOK
<1>3. TotalOf(answers)' = TotalOf(answers)
  BY <1>1 DEF TotalOf
<1>4. \/ IsSnap(events[1]) /\ panel' = events[1].snap
      \/ panel'.total = panel.total
  BY <1>1 DEF ProxyApply, IsSnap, TypeOK, SnapshotRec
<1>5. /\ panel'.total >= panel.total /\ panel'.total <= TotalOf(answers)
      /\ \A i \in 1..Len(events') : IsSnap(events'[i]) => panel'.total <= events'[i].snap.total
      /\ outbox # <<>> /\ IsSnap(outbox[1]) => panel'.total <= outbox[1].snap.total
  BY <1>1, <1>2, <1>4, EventFields DEF Rising
<1>6. \A i \in 1..Len(events') : IsSnap(events'[i]) =>
          /\ events'[i].snap.total <= TotalOf(answers)
          /\ \A j \in 1..Len(events') :
                i < j /\ IsSnap(events'[j]) => events'[i].snap.total <= events'[j].snap.total
  <2>1. \A i, j \in 1..Len(events') : i < j => i + 1 < j + 1
    BY <1>2
  <2> QED
    BY <1>2, <2>1 DEF Rising
<1>7. outbox # <<>> /\ IsSnap(outbox[1]) =>
          \A j \in 1..Len(events') :
                IsSnap(events'[j]) => events'[j].snap.total <= outbox[1].snap.total
  BY <1>2 DEF Rising
<1> QED
  BY <1>1, <1>3, <1>5, <1>6, <1>7 DEF Rising

\* Every step keeps the snapshots in order.
LEMMA RisingStep ==
  ASSUME TypeOK, TallyInv, Rising, [Next]_vars
  PROVE  Rising' /\ panel'.total >= panel.total
<1>1. CASE PushEvent
  <2>1. panel' = panel
    BY <1>1 DEF PushEvent, ui
  <2> QED
    BY <1>1, <2>1, PushRising, EventFields
<1>2. CASE ProxyApply
  BY <1>2, ApplyRising
<1>3. CASE ~PushEvent /\ ~ProxyApply
  <2>1. UNCHANGED <<panel, events>>
    BY <1>3 DEF Next, Actor, HandleJoin, HandleLeave, HandleAnswer, HandleBuzz, HandleStart,
           HandleFinish, HandleEnd, HandlePause, Panel, ClickStart, ClickFinish, ClickPause,
           ApiCall, Click, DeliverClick, Client, Hello, Answer, Buzz, Disconnect, Forward,
           vars, ui
  <2>2. CASE HandleAnswer \/ HandleStart
    <3>1. \E st, cur, sts :
            outbox' = <<[kind |-> "snapshot", snap |-> Snapshot(st, cur, sts, answers')]>>
      <4>1. CASE HandleAnswer
        BY <4>1 DEF HandleAnswer, Emit
      <4>2. CASE HandleStart
        BY <4>2 DEF HandleStart, Emit
      <4> QED
        BY <2>2, <4>1, <4>2
    <3>2. \A st, cur, sts : Snapshot(st, cur, sts, answers').total = TotalOf(answers')
      BY DEF Snapshot
    <3> QED
      BY <2>1, <3>1, <3>2, EmitRising, EventFields
  <2>3. CASE HandleJoin \/ HandleLeave \/ HandleBuzz \/ HandleFinish \/ HandleEnd
    <3>1. \/ outbox' = outbox
          \/ \E e : outbox' = <<e>> /\ e.kind # "snapshot"
      <4>1. CASE HandleJoin \/ HandleLeave \/ HandleEnd
        BY <4>1 DEF HandleJoin, HandleLeave, HandleEnd, Emit
      <4>2. CASE HandleBuzz
        BY <4>2 DEF HandleBuzz, Emit
      <4>3. CASE HandleFinish
        BY <4>3 DEF HandleFinish, Emit
      <4> QED
        BY <2>3, <4>1, <4>2, <4>3
    <3> QED
      BY <2>1, <3>1, EmitRising, EventFields DEF IsSnap
  <2>4. CASE outbox' = outbox
    BY <2>1, <2>4, EmitRising, EventFields
  <2> QED
    BY <1>3, <2>2, <2>3, <2>4 DEF Next, Actor, HandlePause, Panel, ClickStart, ClickFinish,
       ClickPause, ApiCall, Click, DeliverClick, Client, Hello, Answer, Buzz, Disconnect,
       Forward, vars
<1> QED
  BY <1>1, <1>2, <1>3

(* The count the teacher sees never runs backwards: both channels keep the  *)
(* order in which the actor took its snapshots, and the book only grows.    *)
THEOREM SnapshotsStayInOrder == Spec => SnapshotsInOrder
<1>1. Init => Rising
  <2> SUFFICES ASSUME Init PROVE Rising
    OBVIOUS
  <2>1. panel.total = 0 /\ events = <<>> /\ outbox = <<>>
    BY DEF Init
  <2> QED
    BY <2>1, TotalIsNat DEF Rising
<1>2. TypeOK /\ TallyInv /\ Rising /\ [Next]_vars => Rising' /\ [panel'.total >= panel.total]_vars
  BY RisingStep
<1> QED
  BY <1>1, <1>2, TypeCorrect, TallyAlways, PTL DEF Spec, SnapshotsInOrder
=============================================================================
