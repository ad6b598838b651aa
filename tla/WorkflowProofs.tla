--------------------------- MODULE WorkflowProofs ---------------------------
(***************************************************************************)
(* For any number of users, schools, instances, requests and threads: the  *)
(* stored instances are sound however the handlers interleave, and every   *)
(* signature in force is in the audit log; a decision whose handler met no *)
(* other on its instance is never lost, and the abstract procedure, which  *)
(* knows contested instances, is implemented.                              *)
(***************************************************************************)
EXTENDS Workflow, FiniteSetTheorems, TLAPS

(* The engine                                                              *)

\* A procedure has two nodes.
LEMMA TwoNodes ==
  ASSUME NEW inst \in Instance
  PROVE  /\ IsLast(inst) <=> inst.node = 2
         /\ Node(inst, 1).roles = Office /\ Node(inst, 1).mode = "or"
         /\ Node(inst, 2).roles = {"Admin"}
         /\ Node(inst, 2).mode = "counter" \/ Node(inst, 2).mode = "or"
BY DEF Instance, IsLast, Node, Template

\* A node has passed once it holds an approval by a role bound to it.
LEMMA PassedMeans ==
  ASSUME NEW inst \in Instance,
         \A a \in inst.approvals : a.role \in Node(inst, a.node).roles
  PROVE  \A n \in 1..2 : Passed(inst, n) <=>
            \E a \in inst.approvals : a.node = n /\ a.decision = "approve"
<1> TAKE n \in 1..2
<1> DEFINE yes == {a \in RecordsAt(inst, n) : a.decision = "approve"}
<1>1. yes # {} <=> \E a \in inst.approvals : a.node = n /\ a.decision = "approve"
  BY DEF RecordsAt
<1>2. CASE Node(inst, n).mode = "or"
  BY <1>1, <1>2 DEF Passed
<1>3. CASE Node(inst, n).mode # "or"
  <2>1. n = 2 /\ Node(inst, n).roles = {"Admin"}
    BY <1>3, TwoNodes
  <2>2. \A a \in yes : a.role = "Admin"
    BY <2>1 DEF RecordsAt
  <2>3. Passed(inst, n) <=> \E a \in yes : a.role = "Admin"
    BY <1>3, <2>1 DEF Passed
  <2> QED
    BY <1>1, <2>2, <2>3
<1> QED
  BY <1>2, <1>3

\* The fields of an accepted signature.
LEMMA SignedFields ==
  ASSUME NEW inst \in Instance, NEW u \in Users, NEW d \in Decisions, NEW r \in Requests
  PROVE  LET rec == [node |-> inst.node, user |-> u, role |-> RoleOf[u], decision |-> d,
                   at |-> r]
         IN  /\ rec \in Record
             /\ Signed(inst, u, d, r) \in Instance
             /\ Signed(inst, u, d, r) = [inst EXCEPT !.approvals = inst.approvals \cup {rec}]
<1> DEFINE rec == [node |-> inst.node, user |-> u, role |-> RoleOf[u], decision |-> d,
                   at |-> r]
<1>1. rec \in Record
  BY WorkflowAssumption DEF Instance, Record
<1>2. Signed(inst, u, d, r) = [inst EXCEPT !.approvals = inst.approvals \cup {rec}]
  BY DEF Signed, Instance
<1>3. inst.approvals \cup {rec} \in SUBSET Record
  BY <1>1 DEF Instance
<1> HIDE DEF rec
<1>4. Signed(inst, u, d, r) \in Instance
  BY <1>2, <1>3 DEF Instance
<1> QED
  BY <1>1, <1>2, <1>4 DEF rec

LEMMA DecidedType ==
  ASSUME NEW inst \in Instance, NEW u \in Users, NEW d \in Decisions, NEW r \in Requests
  PROVE  Decided(inst, u, d, r) \in Instance
<1>1. Signed(inst, u, d, r) \in Instance
  BY SignedFields
<1>2. \A i \in Instance : [i EXCEPT !.status = "Rejected"] \in Instance
                          /\ [i EXCEPT !.status = "Approved"] \in Instance
  BY DEF Instance
<1>3. \A i \in Instance : Advance(i) \in Instance
  <2> TAKE i \in Instance
  <2>1. ~IsLast(i) => i.node = 1
    BY TwoNodes DEF Instance
  <2>2. i.node = 1 => [i EXCEPT !.node = i.node + 1] \in Instance
    BY DEF Instance
  <2> QED
    BY <1>2, <2>1, <2>2 DEF Advance
<1> QED
  BY <1>1, <1>2, <1>3 DEF Decided

\* An accepted decision on a sound instance leaves a sound instance.
LEMMA DecidedSound ==
  ASSUME NEW inst \in Instance, NEW u \in Users, NEW d \in Decisions, NEW r \in Requests,
         Sound(inst), Accepts(inst, u, d, r)
  PROVE  Sound(Decided(inst, u, d, r))
<1> DEFINE rec == [node |-> inst.node, user |-> u, role |-> RoleOf[u], decision |-> d,
                   at |-> r]
           sgn == Signed(inst, u, d, r)
           dec == Decided(inst, u, d, r)
<1>1. /\ rec \in Record /\ sgn \in Instance /\ dec \in Instance
      /\ sgn.approvals = inst.approvals \cup {rec}
      /\ sgn.node = inst.node /\ sgn.kind = inst.kind /\ sgn.tenant = inst.tenant
      /\ sgn.status = "InProgress"
  BY SignedFields, DecidedType DEF Instance, Accepts
<1>2. /\ dec.approvals = sgn.approvals /\ dec.kind = inst.kind /\ dec.tenant = inst.tenant
      /\ inst.node <= dec.node
  BY <1>1 DEF Decided, Advance, Instance
<1>3. \A n : Node(dec, n) = Node(inst, n) /\ Node(sgn, n) = Node(inst, n)
  BY <1>1, <1>2 DEF Node
<1>4. \A a \in sgn.approvals :
          /\ a.node <= inst.node
          /\ a.role = RoleOf[a.user] /\ TenantOf[a.user] = inst.tenant
          /\ a.role \in Node(inst, a.node).roles
  BY <1>1 DEF Sound, Accepts, MayApprove, Instance
<1>5. \A a, b \in sgn.approvals : a.node = b.node /\ a.user = b.user => a = b
  BY <1>1 DEF Sound, Accepts, RecordsAt
<1>6. \A n \in 1..2 : Passed(inst, n) <=>
          \E a \in inst.approvals : a.node = n /\ a.decision = "approve"
  BY PassedMeans DEF Sound
<1>7. \A n \in 1..2 : /\ Passed(sgn, n) <=>
                          \E a \in sgn.approvals : a.node = n /\ a.decision = "approve"
                      /\ Passed(dec, n) <=>
                          \E a \in sgn.approvals : a.node = n /\ a.decision = "approve"
  BY <1>1, <1>2, <1>3, <1>4, PassedMeans
<1>8. inst.node \in 1..2 /\ inst.status = "InProgress" /\ ~Passed(inst, inst.node)
      /\ Rejections(inst) = {} /\ \A n \in 1..(inst.node - 1) : Passed(inst, n)
  BY DEF Accepts, Sound, Instance
<1>9. \A n \in 1..(inst.node - 1) : n \in 1..2 /\ Passed(dec, n)
  BY <1>1, <1>6, <1>7, <1>8
<1>a. \A a \in dec.approvals :
          /\ a.node <= dec.node
          /\ a.role = RoleOf[a.user] /\ TenantOf[a.user] = dec.tenant
          /\ a.role \in Node(dec, a.node).roles
  <2>1. \A a \in dec.approvals : a.node \in 1..2
    BY <1>1 DEF Instance, Record
  <2>2. dec.node \in 1..2
    BY <1>1 DEF Instance
  <2> HIDE DEF rec, sgn, dec
  <2> QED
    BY <1>2, <1>3, <1>4, <1>8, <2>1, <2>2
<1>b. \A a, b \in dec.approvals : a.node = b.node /\ a.user = b.user => a = b
  BY <1>2, <1>5
<1>10. CASE d = "reject"
  <2>1. dec.status = "Rejected" /\ dec.node = inst.node
    BY <1>1, <1>10 DEF Decided, Instance
  <2>2. ~Passed(dec, dec.node)
    BY <1>1, <1>6, <1>7, <1>8, <1>10, <2>1
  <2>3. Rejections(dec) = {rec} /\ rec \in dec.approvals /\ rec.node = dec.node
    BY <1>1, <1>2, <1>8, <1>10, <2>1 DEF Rejections
  <2>4. \A n \in 1..(dec.node - 1) : Passed(dec, n)
    BY <1>9, <2>1
  <2> HIDE DEF rec, sgn, dec
  <2> QED
    BY <1>a, <1>b, <2>1, <2>2, <2>3, <2>4 DEF Sound, dec
<1>11. CASE d = "approve"
  <2>1. Passed(sgn, inst.node)
    BY <1>1, <1>7, <1>8, <1>11
  <2>2. Rejections(dec) = {}
    BY <1>1, <1>2, <1>8, <1>11 DEF Rejections
  <2>3. CASE inst.node = 2
    <3>1. dec.status = "Approved" /\ dec.node = 2
      BY <1>1, <1>11, <2>1, <2>3, TwoNodes DEF Decided, Advance, Instance
    <3>2. Passed(dec, dec.node) /\ IsLast(dec)
      BY <1>1, <1>7, <2>1, <2>3, <3>1, TwoNodes
    <3>3. \A n \in 1..(dec.node - 1) : Passed(dec, n)
      BY <1>9, <2>3, <3>1
    <3> HIDE DEF rec, sgn, dec
    <3> QED
      BY <1>a, <1>b, <2>2, <3>1, <3>2, <3>3 DEF Sound, dec
  <2>4. CASE inst.node = 1
    <3>1. dec.status = "InProgress" /\ dec.node = 2
      BY <1>1, <1>11, <2>1, <2>4, TwoNodes DEF Decided, Advance, Instance
    <3>2. ~Passed(dec, 2)
      BY <1>4, <1>7, <2>4, <1>1 DEF Instance, Record
    <3>3. Passed(dec, 1)
      BY <1>7, <2>1, <2>4
    <3>4. \A n \in 1..(dec.node - 1) : Passed(dec, n)
      BY <3>1, <3>3
    <3> HIDE DEF rec, sgn, dec
    <3> QED
      BY <1>a, <1>b, <2>2, <3>1, <3>2, <3>4 DEF Sound, dec
  <2> QED
    BY <1>8, <2>3, <2>4
<1> QED
  BY <1>10, <1>11 DEF Decisions

LEMMA NewSound ==
  ASSUME NEW kind \in Kinds, NEW u \in Users, NEW legal \in BOOLEAN
  PROVE  NewInstance(kind, u, legal) \in Instance /\ Sound(NewInstance(kind, u, legal))
<1> DEFINE i == NewInstance(kind, u, legal)
<1>1. /\ i \in Instance /\ i.approvals = {} /\ i.node = 1 /\ i.status = "InProgress"
  BY WorkflowAssumption DEF NewInstance, Instance
<1>2. ~Passed(i, 1)
  BY <1>1, PassedMeans
<1>3. Rejections(i) = {}
  BY <1>1 DEF Rejections
<1> HIDE DEF i
<1> QED
  BY <1>1, <1>2, <1>3 DEF Sound, i

-----------------------------------------------------------------------------
(* Type correctness                                                        *)

Untouched == [phase : {"new"}]
Handling  == [phase : {"decided", "saved", "audited", "done"},
              op : Decisions \cup {"submit"}, w : Workflows, user : Users,
              inst : Instance]

\* Every handler step keeps the types.
LEMMA TypeStep == TypeOK /\ [Next]_vars => TypeOK'
<1> SUFFICES ASSUME TypeOK, [Next]_vars PROVE TypeOK'
  OBVIOUS
<1>1. req \in [Requests -> Untouched \cup Handling]
  BY DEF TypeOK, Untouched, Handling
<1>2. \A h : h \in Handling => h.phase # "new"
  BY DEF Handling
<1>3. \A h \in Untouched \cup Handling :
        h.phase # "new" => h \in Handling
  BY DEF Untouched
<1>4. \A h \in Handling, ph \in {"saved", "audited", "done"} :
        [h EXCEPT !.phase = ph] \in Handling
  BY DEF Handling
<1>5. \A h \in Handling : /\ h.w \in Workflows /\ h.user \in Users /\ h.inst \in Instance
                          /\ h.op \in Decisions \cup {"submit"}
  BY DEF Handling
<1>6. ASSUME NEW r \in Requests, NEW ph \in {"saved", "audited", "done"},
             req[r].phase # "new", Phase(r, ph)
      PROVE  req[r] \in Handling /\ req' \in [Requests -> Untouched \cup Handling]
  <2>1. req[r] \in Handling
    BY <1>1, <1>3, <1>6
  <2>2. req' = [req EXCEPT ![r] = [req[r] EXCEPT !.phase = ph]]
    BY <1>1, <1>6 DEF Phase
  <2> QED
    BY <1>1, <1>4, <2>1, <2>2
<1>7. CASE UNCHANGED vars
  BY <1>7 DEF vars, TypeOK
<1>8. CASE Next
  <2> PICK r \in Requests : Start(r) \/ Decide(r) \/ Handler(r)
    BY <1>8 DEF Next
  <2>1. CASE Start(r)
    <3> PICK u \in Users, w \in Workflows, kind \in Kinds, legal \in BOOLEAN :
          /\ store' = [store EXCEPT ![w] = NewInstance(kind, u, legal)]
          /\ req' = [req EXCEPT ![r] = [phase |-> "saved", op |-> "submit", w |-> w,
                                        user |-> u, inst |-> store'[w]]]
      BY <2>1 DEF Start
    <3>1. NewInstance(kind, u, legal) \in Instance
      BY NewSound
    <3>2. store' \in [Workflows -> Instance \cup {NoInstance}]
          /\ store'[w] = NewInstance(kind, u, legal)
      BY <3>1 DEF TypeOK
    <3>3. [phase |-> "saved", op |-> "submit", w |-> w, user |-> u, inst |-> store'[w]]
            \in Handling
      BY <3>1, <3>2 DEF Handling
    <3>4. req' \in [Requests -> Untouched \cup Handling]
      BY <1>1, <3>3
    <3>5. UNCHANGED <<audits, messages, contested>>
      BY <2>1 DEF Start
    <3> QED
      BY <3>2, <3>4, <3>5 DEF TypeOK, Untouched, Handling
  <2>2. CASE Decide(r)
    <3> PICK u \in Users, w \in Workflows, d \in Decisions :
          /\ store[w] # NoInstance
          /\ req' = [req EXCEPT ![r] = [phase |-> "decided", op |-> d, w |-> w,
                                        user |-> u, inst |-> Decided(store[w], u, d, r)]]
      BY <2>2 DEF Decide
    <3>1. Decided(store[w], u, d, r) \in Instance
      BY DecidedType DEF TypeOK
    <3>2. [phase |-> "decided", op |-> d, w |-> w, user |-> u,
           inst |-> Decided(store[w], u, d, r)] \in Handling
      BY <3>1 DEF Handling
    <3>3. req' \in [Requests -> Untouched \cup Handling]
      BY <1>1, <3>2
    <3>4. contested' \subseteq Requests
      <4>1. \A v : Clones(v) \subseteq Requests
        BY DEF Clones
      <4> QED
        BY <2>2, <4>1 DEF Decide, TypeOK
    <3> QED
      BY <2>2, <3>3, <3>4 DEF Decide, TypeOK, Untouched, Handling
  <2>3. CASE Save(r)
    <3>1. req[r] \in Handling /\ req' \in [Requests -> Untouched \cup Handling]
      BY <1>6, <2>3 DEF Save
    <3>2. store' \in [Workflows -> Instance \cup {NoInstance}]
      BY <1>5, <2>3, <3>1 DEF Save, TypeOK
    <3> QED
      BY <2>3, <3>1, <3>2 DEF Save, TypeOK, Untouched, Handling
  <2>4. CASE Audit(r)
    <3>1. req[r] \in Handling /\ req' \in [Requests -> Untouched \cup Handling]
      BY <1>6, <2>4 DEF Audit
    <3>2. audits' \subseteq [r : Requests, w : Workflows, user : Users,
                             action : Decisions \cup {"submit"}]
      BY <1>5, <2>4, <3>1 DEF Audit, TypeOK
    <3> QED
      BY <2>4, <3>1, <3>2 DEF Audit, TypeOK, Untouched, Handling
  <2>5. CASE Notify(r)
    <3>1. req[r] \in Handling /\ req' \in [Requests -> Untouched \cup Handling]
      BY <1>6, <2>5 DEF Notify
    <3>2. Recipient(r) \subseteq Users \cup {"all"}
      <4>1. req[r].inst.applicant \in Users
        BY <1>5, <3>1 DEF Instance
      <4> QED
        BY <4>1 DEF Recipient
    <3>3. messages' \subseteq [r : Requests, w : Workflows, to : Users \cup {"all"}]
      BY <1>5, <2>5, <3>1, <3>2 DEF Notify, TypeOK
    <3> QED
      BY <2>5, <3>1, <3>3 DEF Notify, TypeOK, Untouched, Handling
  <2> QED
    BY <2>1, <2>2, <2>3, <2>4, <2>5 DEF Handler
<1> QED
  BY <1>7, <1>8

(* Every reachable state is well typed.                                    *)
THEOREM TypeCorrect == Spec => []TypeOK
<1>1. Init => TypeOK
  BY DEF Init, TypeOK
<1> QED
  BY <1>1, TypeStep, PTL DEF Spec

-----------------------------------------------------------------------------
(* Soundness: what a handler holds is as sound as what the store holds.    *)

ClonesSound == \A r \in Requests : req[r].phase = "decided" => Sound(req[r].inst)

(* However many handlers race, every instance the store ever holds is one  *)
(* its signatures account for (workflow_approve, apply_decision).          *)
THEOREM StoreAlwaysSound == Spec => []StoreSound
<1>1. Init => StoreSound /\ ClonesSound
  BY DEF Init, StoreSound, ClonesSound
<1>2. TypeOK /\ StoreSound /\ ClonesSound /\ [Next]_vars => StoreSound' /\ ClonesSound'
  <2> SUFFICES ASSUME TypeOK, StoreSound, ClonesSound, [Next]_vars
               PROVE  StoreSound' /\ ClonesSound'
    OBVIOUS
  <2>1. CASE UNCHANGED vars
    BY <2>1 DEF vars, StoreSound, ClonesSound
  <2>2. CASE Next
    <3> PICK r \in Requests : Start(r) \/ Decide(r) \/ Handler(r)
      BY <2>2 DEF Next
    <3>1. CASE Start(r)
      <4> PICK u \in Users, w \in Workflows, kind \in Kinds, legal \in BOOLEAN :
            /\ store' = [store EXCEPT ![w] = NewInstance(kind, u, legal)]
            /\ req' = [req EXCEPT ![r] = [phase |-> "saved", op |-> "submit", w |-> w,
                                          user |-> u, inst |-> store'[w]]]
        BY <3>1 DEF Start
      <4>1. Sound(NewInstance(kind, u, legal))
        BY NewSound
      <4>2. \A v \in Workflows : store'[v] = IF v = w THEN NewInstance(kind, u, legal)
                                                      ELSE store[v]
        BY DEF TypeOK
      <4>3. \A x \in Requests : req'[x].phase = "decided" => req'[x] = req[x]
        BY DEF TypeOK
      <4> QED
        BY <4>1, <4>2, <4>3 DEF StoreSound, ClonesSound
    <3>2. CASE Decide(r)
      <4> PICK u \in Users, w \in Workflows, d \in Decisions :
            /\ store[w] # NoInstance /\ Accepts(store[w], u, d, r)
            /\ req' = [req EXCEPT ![r] = [phase |-> "decided", op |-> d, w |-> w,
                                          user |-> u, inst |-> Decided(store[w], u, d, r)]]
        BY <3>2 DEF Decide
      <4>1. Sound(Decided(store[w], u, d, r))
        BY DecidedSound DEF TypeOK, StoreSound
      <4>2. \A x \in Requests : req'[x].phase = "decided" =>
              req'[x].inst = Decided(store[w], u, d, r) \/ req'[x] = req[x]
        BY DEF TypeOK
      <4>3. store' = store
        BY <3>2 DEF Decide
      <4> QED
        BY <4>1, <4>2, <4>3 DEF StoreSound, ClonesSound
    <3>3. CASE Save(r)
      <4>1. \A v \in Workflows : store'[v] = req[r].inst \/ store'[v] = store[v]
        BY <3>3 DEF Save, TypeOK
      <4>2. Sound(req[r].inst)
        BY <3>3 DEF Save, ClonesSound
      <4>3. \A x \in Requests : req'[x].phase = "decided" => req'[x] = req[x]
        BY <3>3 DEF Save, Phase, TypeOK
      <4> QED
        BY <4>1, <4>2, <4>3 DEF StoreSound, ClonesSound
    <3>4. CASE Audit(r) \/ Notify(r)
      <4>1. \A x \in Requests : req'[x].phase = "decided" => req'[x] = req[x]
        BY <3>4 DEF Audit, Notify, Phase, TypeOK
      <4>2. store' = store
        BY <3>4 DEF Audit, Notify
      <4> QED
        BY <4>1, <4>2 DEF StoreSound, ClonesSound
    <3> QED
      BY <3>1, <3>2, <3>3, <3>4 DEF Handler
  <2> QED
    BY <2>1, <2>2
<1> QED
  BY <1>1, <1>2, TypeCorrect, PTL DEF Spec

-----------------------------------------------------------------------------
(* Signatures and the audit log                                            *)

\* What an accepted decision adds to the signatures of an instance.
LEMMA DecidedApprovals ==
  ASSUME NEW inst \in Instance, NEW u \in Users, NEW d \in Decisions, NEW r \in Requests
  PROVE  /\ inst.approvals \subseteq Decided(inst, u, d, r).approvals
         /\ \A a \in Decided(inst, u, d, r).approvals :
               a \in inst.approvals \/ (a.at = r /\ a.user = u /\ a.decision = d)
         /\ \E a \in Decided(inst, u, d, r).approvals :
               a.at = r /\ a.user = u /\ a.decision = d
<1> DEFINE rec == [node |-> inst.node, user |-> u, role |-> RoleOf[u], decision |-> d,
                   at |-> r]
           sgn == Signed(inst, u, d, r)
<1>1. /\ rec \in Record /\ sgn \in Instance
      /\ sgn.approvals = inst.approvals \cup {rec}
  BY SignedFields DEF Instance
<1>2. Decided(inst, u, d, r).approvals = sgn.approvals
  BY <1>1 DEF Decided, Advance, Instance
<1>3. rec.at = r /\ rec.user = u /\ rec.decision = d
  OBVIOUS
<1>4. \A a : a \in Decided(inst, u, d, r).approvals <=> a \in inst.approvals \/ a = rec
  BY <1>1, <1>2
<1> HIDE DEF rec, sgn
<1> QED
  BY <1>3, <1>4

\* A signature the log accounts for, now or as soon as its handler gets there.
Accounted(w, a) ==
    \/ [r |-> a.at, w |-> w, user |-> a.user, action |-> a.decision] \in audits
    \/ /\ req[a.at].phase = "saved" /\ req[a.at].w = w
       /\ req[a.at].user = a.user /\ req[a.at].op = a.decision

\* What a handler is about to save holds no signature but its own that is not
\* accounted for.
ClonesAccounted ==
    \A r \in Requests : req[r].phase = "decided" =>
        \A a \in req[r].inst.approvals :
            \/ Accounted(req[r].w, a)
            \/ a.at = r /\ a.user = req[r].user /\ a.decision = req[r].op

StoreAccounted ==
    \A w \in Workflows : store[w] # NoInstance =>
        \A a \in store[w].approvals : Accounted(w, a)

\* What is accounted for stays so: a saved request leaves its place only when
\* its entry is in the log.
LEMMA AccountedStays ==
  ASSUME TypeOK, Next, NEW w, NEW a \in Record, Accounted(w, a)
  PROVE  Accounted(w, a)'
<1> PICK r \in Requests : Start(r) \/ Decide(r) \/ Handler(r)
  BY DEF Next
<1>1. audits \subseteq audits'
  BY DEF Start, Decide, Handler, Save, Audit, Notify
<1>2. CASE [r |-> a.at, w |-> w, user |-> a.user, action |-> a.decision] \in audits
  BY <1>1, <1>2 DEF Accounted
<1>3. ASSUME req[a.at].phase = "saved", req[a.at].w = w, req[a.at].user = a.user,
             req[a.at].op = a.decision
      PROVE  Accounted(w, a)'
  <2>0. a.at \in Requests
    BY DEF Record
  <2>1. CASE Audit(r) /\ a.at = r
    BY <1>3, <2>1 DEF Audit, Accounted
  <2>2. CASE ~(Audit(r) /\ a.at = r)
    <3>1. req'[a.at] = req[a.at]
      BY <1>3, <2>0, <2>2
         DEF Start, Decide, Handler, Save, Audit, Notify, Phase, Arrives, TypeOK
    <3> QED
      BY <1>3, <3>1 DEF Accounted
  <2> QED
    BY <2>1, <2>2
<1> QED
  BY <1>2, <1>3 DEF Accounted

(* No signature is in force without its entry in the log, except while the *)
(* handler that saved it is on its way there (mobile.rs:394-403), for any  *)
(* number of handlers.                                                     *)
THEOREM SignaturesAlwaysAudited == Spec => []SignaturesAudited
<1>1. Init => StoreAccounted /\ ClonesAccounted
  BY DEF Init, StoreAccounted, ClonesAccounted
<1>2. TypeOK /\ StoreAccounted /\ ClonesAccounted /\ [Next]_vars
        => StoreAccounted' /\ ClonesAccounted'
  <2> SUFFICES ASSUME TypeOK, StoreAccounted, ClonesAccounted, [Next]_vars
               PROVE  StoreAccounted' /\ ClonesAccounted'
    OBVIOUS
  <2>1. CASE UNCHANGED vars
    BY <2>1 DEF vars, StoreAccounted, ClonesAccounted, Accounted
  <2>2. CASE Next
    <3> PICK r \in Requests : Start(r) \/ Decide(r) \/ Handler(r)
      BY <2>2 DEF Next
    <3>0. /\ \A w \in Workflows : store[w] # NoInstance => store[w].approvals \subseteq Record
          /\ \A x \in Requests : req[x].phase = "decided" => req[x].inst.approvals \subseteq Record
      BY DEF TypeOK, Instance
    <3>1. \A w : \A a \in Record : Accounted(w, a) => Accounted(w, a)'
      BY <2>2, AccountedStays
    <3>2. ASSUME NEW w \in Workflows, store'[w] # NoInstance, store'[w] = store[w]
          PROVE  \A a \in store'[w].approvals : Accounted(w, a)'
      BY <3>0, <3>1, <3>2 DEF StoreAccounted
    <3>3. ASSUME NEW x \in Requests, req'[x] = req[x], req[x].phase = "decided"
          PROVE  \A a \in req'[x].inst.approvals :
                    \/ Accounted(req[x].w, a)'
                    \/ a.at = x /\ a.user = req'[x].user /\ a.decision = req'[x].op
      BY <3>0, <3>1, <3>3 DEF ClonesAccounted
    <3>4. CASE Start(r)
      <4> PICK u \in Users, w \in Workflows, kind \in Kinds, legal \in BOOLEAN :
            /\ store' = [store EXCEPT ![w] = NewInstance(kind, u, legal)]
            /\ req' = [req EXCEPT ![r] = [phase |-> "saved", op |-> "submit", w |-> w,
                                          user |-> u, inst |-> store'[w]]]
        BY <3>4 DEF Start
      <4>1. store'[w].approvals = {} /\ \A v \in Workflows \ {w} : store'[v] = store[v]
        BY DEF TypeOK, NewInstance
      <4>2. \A x \in Requests : req'[x].phase = "decided" => req'[x] = req[x]
        BY DEF TypeOK
      <4> QED
        BY <3>2, <3>3, <4>1, <4>2 DEF StoreAccounted, ClonesAccounted
    <3>5. CASE Decide(r)
      <4> PICK u \in Users, w \in Workflows, d \in Decisions :
            /\ store[w] # NoInstance
            /\ req' = [req EXCEPT ![r] = [phase |-> "decided", op |-> d, w |-> w,
                                          user |-> u, inst |-> Decided(store[w], u, d, r)]]
        BY <3>5 DEF Decide
      <4>1. store' = store /\ store[w] \in Instance
        BY <3>5 DEF Decide, TypeOK
      <4>2. \A x \in Requests \ {r} : req'[x] = req[x]
        BY DEF TypeOK
      <4>3. req'[r].w = w /\ req'[r].user = u /\ req'[r].op = d
            /\ req'[r].inst = Decided(store[w], u, d, r)
        BY DEF TypeOK
      <4>4. \A a \in req'[r].inst.approvals :
              a \in store[w].approvals \/ (a.at = r /\ a.user = u /\ a.decision = d)
        BY <4>1, <4>3, DecidedApprovals
      <4>5. \A a \in req'[r].inst.approvals :
              Accounted(w, a)' \/ (a.at = r /\ a.user = u /\ a.decision = d)
        BY <3>0, <3>1, <4>4 DEF StoreAccounted
      <4> QED
        BY <3>2, <3>3, <4>1, <4>2, <4>3, <4>5 DEF StoreAccounted, ClonesAccounted
    <3>6. CASE Save(r)
      <4> PICK v : v = req[r].w
        OBVIOUS
      <4>1. store' = [store EXCEPT ![v] = req[r].inst] /\ req[r].phase = "decided"
        BY <3>6 DEF Save
      <4>2. req' = [req EXCEPT ![r].phase = "saved"]
        BY <3>6 DEF Save, Phase
      <4>3. \A x \in Requests : req'[x].phase = "decided" => req'[x] = req[x]
        BY <4>2 DEF TypeOK
      <4>4. req'[r].phase = "saved" /\ req'[r].w = v /\ req'[r].user = req[r].user
            /\ req'[r].op = req[r].op
        BY <4>2 DEF TypeOK
      <4>5. ASSUME NEW a \in req[r].inst.approvals PROVE Accounted(v, a)'
        <5>1. CASE Accounted(v, a)
          BY <3>0, <3>1, <4>1, <5>1
        <5>2. CASE a.at = r /\ a.user = req[r].user /\ a.decision = req[r].op
          BY <4>4, <5>2 DEF Accounted
        <5> QED
          BY <4>1, <5>1, <5>2 DEF ClonesAccounted
      <4>6. \A x \in Workflows : store'[x] = store[x] \/ (x = v /\ store'[x] = req[r].inst)
        BY <4>1 DEF TypeOK
      <4>7. ClonesAccounted'
        BY <3>3, <4>3 DEF ClonesAccounted
      <4>8. StoreAccounted'
        BY <3>2, <4>5, <4>6 DEF StoreAccounted
      <4> QED
        BY <4>7, <4>8
    <3>7. CASE Audit(r) \/ Notify(r)
      <4>1. store' = store /\ \A x \in Requests : req'[x].phase = "decided" => req'[x] = req[x]
        BY <3>7 DEF Audit, Notify, Phase, TypeOK
      <4> QED
        BY <3>2, <3>3, <4>1 DEF StoreAccounted, ClonesAccounted
    <3> QED
      BY <3>4, <3>5, <3>6, <3>7 DEF Handler
  <2> QED
    BY <2>1, <2>2
<1>3. StoreAccounted => SignaturesAudited
  BY DEF StoreAccounted, SignaturesAudited, Accounted
<1> QED
  BY <1>1, <1>2, <1>3, TypeCorrect, PTL DEF Spec

-----------------------------------------------------------------------------
(* A handler that meets no other: its clone is one step ahead of the store,*)
(* and what it saved stays, in the store and in every later clone.         *)

\* Whoever holds a clone of an instance beside another handler is contested.
OnlyClone ==
    \A x, y \in Requests :
        /\ x \notin contested /\ req[x].phase = "decided"
        /\ req[y].phase = "decided" /\ req[y].w = req[x].w
        => x = y

CloneIsNext ==
    \A r \in Requests \ contested : req[r].phase = "decided" =>
        /\ store[req[r].w] # NoInstance /\ req[r].op \in Decisions
        /\ Accepts(store[req[r].w], req[r].user, req[r].op, r)
        /\ req[r].inst = Decided(store[req[r].w], req[r].user, req[r].op, r)

Has(inst, r, user, d) ==
    \E a \in inst.approvals : a.at = r /\ a.user = user /\ a.decision = d

\* The decision d of this request is on the instance w and on its clones.
Holds(w, r, user, d) ==
    /\ store[w] # NoInstance /\ Has(store[w], r, user, d)
    /\ \A x \in Clones(w) : Has(req[x].inst, r, user, d)

\* What is logged, or about to be, is in the instance it was decided on.
LoggedHeld ==
    /\ \A e \in audits : e.action # "submit" /\ e.r \notin contested
          => Holds(e.w, e.r, e.user, e.action)
    /\ \A r \in Requests \ contested : req[r].phase = "saved" /\ req[r].op # "submit"
          => Holds(req[r].w, r, req[r].user, req[r].op)

\* A request that was taken up is one on an instance there is.
Known ==
    /\ \A r \in Requests : req[r].phase # "new" => store[req[r].w] # NoInstance
    /\ \A r \in contested : req[r].phase # "new"

KeptInv == OnlyClone /\ CloneIsNext /\ LoggedHeld /\ Known

\* Once a decision is on an instance and its clones, no step takes it off.
LEMMA HoldsStays ==
  ASSUME TypeOK, Next, NEW w \in Workflows, NEW q, NEW user, NEW d, Holds(w, q, user, d)
  PROVE  Holds(w, q, user, d)'
<1> PICK r \in Requests : Start(r) \/ Decide(r) \/ Handler(r)
  BY DEF Next
<1>1. \A x \in Requests \ {r} : req'[x] = req[x]
  BY DEF Start, Decide, Handler, Save, Audit, Notify, Phase, TypeOK
<1>2. \A x \in Requests \ {r} : x \in Clones(w)' => Has(req'[x].inst, q, user, d)
  BY <1>1 DEF Clones, Holds
<1>3. CASE Start(r)
  <2> PICK u \in Users, v \in Workflows, kind \in Kinds, legal \in BOOLEAN :
        /\ store[v] = NoInstance
        /\ store' = [store EXCEPT ![v] = NewInstance(kind, u, legal)]
        /\ req' = [req EXCEPT ![r] = [phase |-> "saved", op |-> "submit", w |-> v,
                                      user |-> u, inst |-> store'[v]]]
    BY <1>3 DEF Start
  <2>1. store'[w] = store[w] /\ req'[r].phase = "saved"
    BY DEF Holds, TypeOK
  <2>2. r \notin Clones(w)'
    BY <2>1 DEF Clones
  <2>3. \A x \in Clones(w)' : x \in Requests \ {r}
    BY <2>2 DEF Clones
  <2> QED
    BY <1>2, <2>1, <2>3 DEF Holds
<1>4. CASE Decide(r)
  <2> PICK u \in Users, v \in Workflows, c \in Decisions :
        /\ store[v] # NoInstance
        /\ req' = [req EXCEPT ![r] = [phase |-> "decided", op |-> c, w |-> v,
                                      user |-> u, inst |-> Decided(store[v], u, c, r)]]
    BY <1>4 DEF Decide
  <2>1. store' = store /\ req'[r].w = v /\ req'[r].inst = Decided(store[v], u, c, r)
    BY <1>4 DEF Decide, TypeOK
  <2>2. v = w => store[w].approvals \subseteq req'[r].inst.approvals
    BY <2>1, DecidedApprovals DEF TypeOK
  <2>3. r \in Clones(w)' => Has(req'[r].inst, q, user, d)
    BY <2>1, <2>2 DEF Clones, Holds, Has
  <2>4. \A x \in Clones(w)' : x \in Requests
    BY DEF Clones
  <2> QED
    BY <1>2, <2>1, <2>3, <2>4 DEF Holds
<1>5. CASE Save(r)
  <2>1. /\ req[r].phase = "decided" /\ req'[r].phase = "saved"
        /\ store' = [store EXCEPT ![req[r].w] = req[r].inst]
    BY <1>5 DEF Save, Phase, TypeOK
  <2>2. req[r].inst \in Instance
    BY <2>1 DEF TypeOK
  <2>3. \A x \in Clones(w)' : x \in Requests \ {r}
    BY <2>1 DEF Clones
  <2>4. CASE req[r].w = w
    <3>1. store'[w] = req[r].inst /\ r \in Clones(w)
      BY <2>1, <2>4 DEF TypeOK, Clones
    <3> QED
      BY <1>2, <2>2, <2>3, <3>1, NoInstanceAssumption DEF Holds
  <2>5. CASE req[r].w # w
    <3>1. store'[w] = store[w]
      BY <2>1, <2>5 DEF TypeOK
    <3> QED
      BY <1>2, <2>3, <3>1 DEF Holds
  <2> QED
    BY <2>4, <2>5
<1>6. CASE Audit(r) \/ Notify(r)
  <2>1. store' = store /\ req'[r].phase \in {"audited", "done"}
    BY <1>6 DEF Audit, Notify, Phase, TypeOK
  <2>2. \A x \in Clones(w)' : x \in Requests \ {r}
    BY <2>1 DEF Clones
  <2> QED
    BY <1>2, <2>1, <2>2 DEF Holds
<1> QED
  BY <1>3, <1>4, <1>5, <1>6 DEF Handler

\* What was logged or saved and held stays held, and contested requests stay
\* contested; only the handler that just moved is left to look at.
LEMMA LoggedStays ==
  ASSUME TypeOK, LoggedHeld, Next, contested \subseteq contested'
  PROVE  /\ \A e \in audits : e.action # "submit" /\ e.r \notin contested'
               => Holds(e.w, e.r, e.user, e.action)'
         /\ \A x \in Requests \ contested' :
               req[x].phase = "saved" /\ req[x].op # "submit" /\ req'[x] = req[x]
               => Holds(req[x].w, x, req[x].user, req[x].op)'
<1>1. \A e \in audits : e.w \in Workflows
  BY DEF TypeOK
<1>2. \A x \in Requests : req[x].phase = "saved" => req[x].w \in Workflows
  BY DEF TypeOK
<1>3. \A w \in Workflows : \A q, user, d :
        Holds(w, q, user, d) => Holds(w, q, user, d)'
  BY HoldsStays
<1>4. \A e \in audits : e.action # "submit" /\ e.r \notin contested'
               => Holds(e.w, e.r, e.user, e.action)'
  BY <1>1, <1>3 DEF LoggedHeld
<1>5. ASSUME NEW x \in Requests \ contested', req[x].phase = "saved", req[x].op # "submit",
             req'[x] = req[x]
      PROVE  Holds(req[x].w, x, req[x].user, req[x].op)'
  <2>1. Holds(req[x].w, x, req[x].user, req[x].op)
    BY <1>5 DEF LoggedHeld
  <2>2. PICK w, user, d : w = req[x].w /\ user = req[x].user /\ d = req[x].op
    OBVIOUS
  <2> QED
    BY <1>2, <1>3, <1>5, <2>1, <2>2
<1> QED
  BY <1>4, <1>5

\* Every handler step keeps the invariant.
LEMMA KeptStep == TypeOK /\ KeptInv /\ [Next]_vars => KeptInv'
<1> SUFFICES ASSUME TypeOK, KeptInv, [Next]_vars PROVE KeptInv'
  OBVIOUS
<1> USE DEF KeptInv
<1>1. CASE UNCHANGED vars
  BY <1>1 DEF vars, OnlyClone, CloneIsNext, LoggedHeld, Holds, Has, Clones, Known
<1>2. CASE Next
  <2> PICK r \in Requests : Start(r) \/ Decide(r) \/ Handler(r)
    BY <1>2 DEF Next
  <2>1. \A x \in Requests \ {r} : req'[x] = req[x]
    BY DEF Start, Decide, Handler, Save, Audit, Notify, Phase, TypeOK
  <2>2. contested \subseteq contested'
    BY DEF Start, Decide, Handler, Save, Audit, Notify
  <2>3. /\ \A e \in audits : e.action # "submit" /\ e.r \notin contested'
               => Holds(e.w, e.r, e.user, e.action)'
        /\ \A x \in Requests \ contested' :
               req[x].phase = "saved" /\ req[x].op # "submit" /\ req'[x] = req[x]
               => Holds(req[x].w, x, req[x].user, req[x].op)'
    BY <1>2, <2>2, LoggedStays
  <2>4. \A x \in Requests \ contested' :
            req'[x] = req[x] /\ req'[x].phase = "saved" /\ req'[x].op # "submit"
            => Holds(req[x].w, x, req[x].user, req[x].op)'
    BY <2>3
  <2>5. CASE Start(r)
    <3> PICK u \in Users, w \in Workflows, kind \in Kinds, legal \in BOOLEAN :
          /\ store[w] = NoInstance
          /\ store' = [store EXCEPT ![w] = NewInstance(kind, u, legal)]
          /\ req' = [req EXCEPT ![r] = [phase |-> "saved", op |-> "submit", w |-> w,
                                        user |-> u, inst |-> store'[w]]]
      BY <2>5 DEF Start
    <3>1. /\ req'[r].phase = "saved" /\ req'[r].op = "submit" /\ req'[r].w = w
          /\ audits' = audits /\ contested' = contested
      BY <2>5 DEF Start, TypeOK
    <3>2. /\ store'[w] # NoInstance
          /\ \A v \in Workflows : store[v] # NoInstance => store'[v] = store[v]
      BY NewSound, NoInstanceAssumption DEF TypeOK
    <3>3. \A x \in Requests : req[x].phase # "new" => req[x].w \in Workflows
      BY DEF TypeOK
    <3>4. OnlyClone'
      BY <2>1, <3>1 DEF OnlyClone
    <3>5. CloneIsNext'
      BY <2>1, <3>1, <3>2, <3>3 DEF CloneIsNext
    <3>6. LoggedHeld'
      BY <2>1, <2>3, <2>4, <3>1 DEF LoggedHeld
    <3>7. Known'
      BY <2>1, <3>1, <3>2, <3>3 DEF Known
    <3> QED
      BY <3>4, <3>5, <3>6, <3>7
  <2>6. CASE Decide(r)
    <3> PICK u \in Users, w \in Workflows, d \in Decisions :
          /\ store[w] # NoInstance /\ Accepts(store[w], u, d, r)
          /\ req' = [req EXCEPT ![r] = [phase |-> "decided", op |-> d, w |-> w,
                                        user |-> u, inst |-> Decided(store[w], u, d, r)]]
          /\ contested' = contested \cup
                (IF Clones(w) = {} THEN {} ELSE Clones(w) \cup {r})
      BY <2>6 DEF Decide
    <3>1. store' = store /\ audits' = audits
      BY <2>6 DEF Decide
    <3>2. /\ req'[r].phase = "decided" /\ req'[r].op = d /\ req'[r].w = w
          /\ req'[r].user = u /\ req'[r].inst = Decided(store[w], u, d, r)
      BY DEF TypeOK
    <3>3. req[r].phase = "new" /\ r \notin contested
      BY <2>6 DEF Decide, Arrives, Known
    <3>4. OnlyClone'
      <4>1. \A x \in Requests \ {r} : x \notin contested' /\ req[x].phase = "decided"
                => req[x].w # w
        BY DEF Clones
      <4>2. r \notin contested' =>
                \A x \in Requests : req[x].phase = "decided" => req[x].w # w
        BY DEF Clones
      <4> QED
        BY <2>1, <2>2, <3>2, <4>1, <4>2 DEF OnlyClone
    <3>5. CloneIsNext'
      BY <2>1, <2>2, <3>1, <3>2 DEF CloneIsNext
    <3>6. LoggedHeld'
      BY <2>1, <2>3, <2>4, <3>1, <3>2 DEF LoggedHeld
    <3>7. Known'
      <4>1. \A x \in Clones(w) : x \in Requests /\ req[x].phase # "new"
        BY DEF Clones
      <4> QED
        BY <2>1, <3>1, <3>2, <3>3, <4>1 DEF Known, TypeOK
    <3> QED
      BY <3>4, <3>5, <3>6, <3>7
  <2>7. CASE Save(r)
    <3> PICK v, u, d : v = req[r].w /\ u = req[r].user /\ d = req[r].op
      OBVIOUS
    <3>1. /\ req[r].phase = "decided" /\ audits' = audits /\ contested' = contested
          /\ store' = [store EXCEPT ![v] = req[r].inst]
          /\ req' = [req EXCEPT ![r].phase = "saved"]
      BY <2>7 DEF Save, Phase
    <3>2. /\ req'[r].phase = "saved" /\ req'[r].w = v /\ req'[r].user = u
          /\ req'[r].op = d
      BY <3>1 DEF TypeOK
    <3>3. /\ v \in Workflows /\ u \in Users /\ req[r].inst \in Instance
          /\ store'[v] = req[r].inst /\ store'[v] # NoInstance
          /\ \A w \in Workflows \ {v} : store'[w] = store[w]
      BY <3>1, NoInstanceAssumption DEF TypeOK
    <3>4. OnlyClone'
      BY <2>1, <3>1, <3>2 DEF OnlyClone
    <3>5. CloneIsNext'
      <4>1. \A x \in Requests \ contested : req'[x].phase = "decided" =>
                x # r /\ req[x].w # v /\ req[x].w \in Workflows
        BY <2>1, <3>1, <3>2 DEF OnlyClone, TypeOK
      <4> QED
        BY <2>1, <3>1, <3>3, <4>1 DEF CloneIsNext
    <3>6. r \notin contested => Holds(v, r, u, d)'
      <4> SUFFICES ASSUME r \notin contested PROVE Holds(v, r, u, d)'
        OBVIOUS
      <4>1. /\ store[v] \in Instance /\ d \in Decisions
            /\ req[r].inst = Decided(store[v], u, d, r)
        BY <3>1, <3>3 DEF CloneIsNext, TypeOK
      <4>2. Has(req[r].inst, r, u, d)
        BY <3>3, <4>1, DecidedApprovals DEF Has
      <4>3. Clones(v)' = {}
        BY <2>1, <3>1, <3>2 DEF OnlyClone, Clones
      <4> QED
        BY <3>3, <4>2, <4>3 DEF Holds
    <3>7. LoggedHeld'
      BY <2>1, <2>3, <2>4, <3>1, <3>2, <3>6 DEF LoggedHeld
    <3>8. Known'
      <4>1. \A x \in Requests : req[x].phase # "new" => req[x].w \in Workflows
        BY DEF TypeOK
      <4> QED
        BY <2>1, <3>1, <3>2, <3>3, <4>1 DEF Known
    <3> QED
      BY <3>4, <3>5, <3>7, <3>8
  <2>8. CASE Audit(r)
    <3> PICK v, u, d : v = req[r].w /\ u = req[r].user /\ d = req[r].op
      OBVIOUS
    <3>1. /\ req[r].phase = "saved" /\ store' = store /\ contested' = contested
          /\ audits' = audits \cup {[r |-> r, w |-> v, user |-> u, action |-> d]}
      BY <2>8 DEF Audit
    <3>2. req'[r].phase = "audited" /\ req'[r].w = v
      BY <2>8 DEF Audit, Phase, TypeOK
    <3>3. v \in Workflows
      BY <3>1 DEF TypeOK
    <3>4. d # "submit" /\ r \notin contested => Holds(v, r, u, d)
      BY <3>1 DEF LoggedHeld
    <3>5. d # "submit" /\ r \notin contested => Holds(v, r, u, d)'
      BY <1>2, <3>3, <3>4, HoldsStays
    <3>6. \A e \in audits' : e.action # "submit" /\ e.r \notin contested'
              => Holds(e.w, e.r, e.user, e.action)'
      BY <2>3, <3>1, <3>5
    <3>7. LoggedHeld'
      BY <2>1, <2>4, <3>2, <3>6 DEF LoggedHeld
    <3>8. OnlyClone' /\ CloneIsNext' /\ Known'
      BY <2>1, <3>1, <3>2 DEF OnlyClone, CloneIsNext, Known, TypeOK
    <3> QED
      BY <3>7, <3>8
  <2>9. CASE Notify(r)
    <3>1. /\ store' = store /\ audits' = audits /\ contested' = contested
          /\ req[r].phase = "audited" /\ req'[r].phase = "done" /\ req'[r].w = req[r].w
      BY <2>9 DEF Notify, Phase, TypeOK
    <3>2. LoggedHeld'
      BY <2>1, <2>3, <2>4, <3>1 DEF LoggedHeld
    <3>3. OnlyClone' /\ CloneIsNext' /\ Known'
      BY <2>1, <3>1 DEF OnlyClone, CloneIsNext, Known, TypeOK
    <3> QED
      BY <3>2, <3>3
  <2> QED
    BY <2>5, <2>6, <2>7, <2>8, <2>9 DEF Handler
<1> QED
  BY <1>1, <1>2

\* At first there is no handler and no entry.
LEMMA KeptStart == Init => KeptInv
BY DEF Init, KeptInv, OnlyClone, CloneIsNext, LoggedHeld, Known

(* However many handlers are under way: a decision in the log is missing   *)
(* from the instance it was made on only if another handler held a clone   *)
(* of that instance while its own did (mobile.rs:343-404).                 *)
THEOREM DecisionsAreKept == Spec => []NoDecisionLost
<1>1. KeptInv => NoDecisionLost
  BY DEF KeptInv, LoggedHeld, Holds, Has, NoDecisionLost
<1> QED
  BY <1>1, KeptStep, KeptStart, TypeCorrect, PTL DEF Spec

-----------------------------------------------------------------------------
(* The procedure an applicant sees                                         *)

\* What one accepted decision does to a sound instance.
LEMMA DecidedOutcome ==
  ASSUME NEW inst \in Instance, NEW u \in Users, NEW d \in Decisions, NEW r \in Requests,
         Sound(inst), Accepts(inst, u, d, r)
  PROVE  LET dec == Decided(inst, u, d, r)
         IN  /\ d = "reject" => dec.status = "Rejected" /\ dec.node = inst.node
             /\ d = "approve" /\ inst.node = 1 => dec.status = "InProgress" /\ dec.node = 2
             /\ d = "approve" /\ inst.node = 2 => dec.status = "Approved" /\ dec.node = 2
<1> DEFINE rec == [node |-> inst.node, user |-> u, role |-> RoleOf[u], decision |-> d,
                   at |-> r]
           sgn == Signed(inst, u, d, r)
           dec == Decided(inst, u, d, r)
<1>1. /\ sgn \in Instance /\ dec \in Instance /\ sgn.approvals = inst.approvals \cup {rec}
      /\ sgn.node = inst.node /\ sgn.kind = inst.kind /\ sgn.status = "InProgress"
      /\ inst.node \in 1..2
  <2>1. inst.status = "InProgress" /\ inst.node \in 1..2
    BY DEF Accepts, Instance
  <2>2. sgn \in Instance /\ dec \in Instance
        /\ sgn = [inst EXCEPT !.approvals = inst.approvals \cup {rec}]
    BY SignedFields, DecidedType
  <2> HIDE DEF sgn, dec, rec
  <2> QED
    BY <2>1, <2>2 DEF Instance
<1>2. CASE d = "reject"
  BY <1>1, <1>2 DEF Decided, Instance
<1>3. CASE d = "approve"
  <2>1. Passed(sgn, inst.node)
    <3>1. \A a \in sgn.approvals : a.role \in Node(sgn, a.node).roles
      <4>1. Sound(dec) /\ dec.approvals = sgn.approvals /\ dec.kind = sgn.kind
        BY <1>1, DecidedSound DEF Decided, Advance, Instance
      <4>2. \A n : Node(dec, n) = Node(sgn, n)
        BY <4>1 DEF Node
      <4> QED
        BY <4>1, <4>2 DEF Sound
    <3>2. rec \in sgn.approvals /\ rec.node = inst.node /\ rec.decision = "approve"
      BY <1>1, <1>3
    <3> QED
      BY <1>1, <3>1, <3>2, PassedMeans
  <2>2. dec = Advance(sgn)
    BY <1>3 DEF Decided
  <2>3. IsLast(sgn) <=> inst.node = 2
    BY <1>1, TwoNodes
  <2> HIDE DEF sgn, dec, rec
  <2> QED
    BY <1>1, <1>3, <2>1, <2>2, <2>3 DEF Advance, Instance, dec
<1> QED
  BY <1>2, <1>3 DEF Decisions

FlowVerdict == [w \in Workflows |-> VerdictOf(w)]
FlowPassed  == [w \in Workflows |-> PassedBy(w)]

FlowStep == \E w \in Workflows : Flow!Open(w) \/ Flow!Sign(w) \/ Flow!Refuse(w) \/ Flow!Contest(w)

\* An instance changes its place in the procedure alone.
LEMMA OneMoves ==
  ASSUME NEW w \in Workflows,
         \A v \in Workflows \ {w} : VerdictOf(v)' = VerdictOf(v) /\ PassedBy(v)' = PassedBy(v)
  PROVE  /\ FlowVerdict' = [FlowVerdict EXCEPT ![w] = VerdictOf(w)']
         /\ FlowPassed' = [FlowPassed EXCEPT ![w] = PassedBy(w)']
<1>1. /\ FlowVerdict = [v \in Workflows |-> FlowVerdict[v]]
      /\ FlowPassed = [v \in Workflows |-> FlowPassed[v]]
  BY DEF FlowVerdict, FlowPassed
<1>2. \A v \in Workflows : /\ FlowVerdict'[v] = VerdictOf(v)' /\ FlowVerdict[v] = VerdictOf(v)
                           /\ FlowPassed'[v] = PassedBy(v)' /\ FlowPassed[v] = PassedBy(v)
  BY DEF FlowVerdict, FlowPassed
<1>3. /\ FlowVerdict' = [v \in Workflows |-> FlowVerdict'[v]]
      /\ FlowPassed' = [v \in Workflows |-> FlowPassed'[v]]
  BY DEF FlowVerdict, FlowPassed
<1> QED
  BY <1>1, <1>2, <1>3

\* Nobody moves.
LEMMA NoneMoves ==
  ASSUME \A v \in Workflows : VerdictOf(v)' = VerdictOf(v) /\ PassedBy(v)' = PassedBy(v)
  PROVE  UNCHANGED <<FlowVerdict, FlowPassed>>
BY DEF FlowVerdict, FlowPassed

\* An instance whose record and whose handlers' past stay as they are keeps
\* its place.
LEMMA PlaceKept ==
  ASSUME NEW v \in Workflows, store'[v] = store[v], Contested(v)' = Contested(v)
  PROVE  VerdictOf(v)' = VerdictOf(v) /\ PassedBy(v)' = PassedBy(v)
BY DEF VerdictOf, PassedBy

\* A request that changes the store is a step of the abstract procedure, a
\* second clone makes its instance contested, any other step is none.
LEMMA StepsOfFlow ==
  ASSUME TypeOK, StoreSound, KeptInv, [Next]_vars
  PROVE  FlowStep \/ UNCHANGED <<FlowVerdict, FlowPassed>>
<1> USE DEF KeptInv
<1>1. CASE UNCHANGED vars
  <2>1. \A v \in Workflows : store'[v] = store[v] /\ Contested(v)' = Contested(v)
    BY <1>1 DEF vars, Contested
  <2> QED
    BY <2>1, PlaceKept, NoneMoves
<1>2. CASE Next
  <2> PICK r \in Requests : Start(r) \/ Decide(r) \/ Handler(r)
    BY <1>2 DEF Next
  <2>1. \A x \in Requests \ {r} : req'[x] = req[x]
    BY DEF Start, Decide, Handler, Save, Audit, Notify, Phase, TypeOK
  <2>2. contested \subseteq Requests /\ contested' \subseteq Requests
    BY <1>2, TypeStep DEF TypeOK
  <2>3. CASE Start(r)
    <3> PICK u \in Users, w \in Workflows, kind \in Kinds, legal \in BOOLEAN :
          /\ store[w] = NoInstance
          /\ store' = [store EXCEPT ![w] = NewInstance(kind, u, legal)]
          /\ req' = [req EXCEPT ![r] = [phase |-> "saved", op |-> "submit", w |-> w,
                                        user |-> u, inst |-> store'[w]]]
      BY <2>3 DEF Start
    <3>1. contested' = contested /\ r \notin contested
      BY <2>3 DEF Start, Arrives, Known
    <3>2. \A v \in Workflows : Contested(v)' = Contested(v)
      BY <2>1, <2>2, <3>1 DEF Contested
    <3>3. ~Contested(w)
      BY <2>2 DEF Contested, Known
    <3>4. \A v \in Workflows \ {w} : store'[v] = store[v]
      BY DEF TypeOK
    <3>5. /\ store'[w] = NewInstance(kind, u, legal) /\ store'[w] # NoInstance
          /\ store'[w].status = "InProgress" /\ store'[w].node = 1
      BY NewSound, NoInstanceAssumption DEF TypeOK, NewInstance
    <3>6. VerdictOf(w) = "none" /\ PassedBy(w) = 0
      BY DEF VerdictOf, PassedBy
    <3>7. VerdictOf(w)' = "InProgress" /\ PassedBy(w)' = 0
      BY <3>2, <3>3, <3>5 DEF VerdictOf, PassedBy
    <3>8. /\ FlowVerdict' = [FlowVerdict EXCEPT ![w] = "InProgress"]
          /\ FlowPassed' = [FlowPassed EXCEPT ![w] = 0]
      BY <3>2, <3>4, <3>7, PlaceKept, OneMoves
    <3>9. FlowVerdict[w] = "none" /\ FlowPassed[w] = 0
      BY <3>6 DEF FlowVerdict, FlowPassed
    <3>10. FlowPassed' = FlowPassed
      BY <3>8, <3>9 DEF FlowPassed
    <3>11. Flow!Open(w)
      BY <3>8, <3>9, <3>10 DEF Flow!Open, FlowVerdict, FlowPassed
    <3> QED
      BY <3>11 DEF FlowStep
  <2>4. CASE Decide(r)
    <3> PICK u \in Users, w \in Workflows, d \in Decisions :
          /\ store[w] # NoInstance /\ Accepts(store[w], u, d, r)
          /\ req' = [req EXCEPT ![r] = [phase |-> "decided", op |-> d, w |-> w,
                                        user |-> u, inst |-> Decided(store[w], u, d, r)]]
          /\ contested' = contested \cup
                (IF Clones(w) = {} THEN {} ELSE Clones(w) \cup {r})
      BY <2>4 DEF Decide
    <3>1. store' = store /\ req'[r].w = w /\ r \notin contested
      BY <2>4 DEF Decide, Arrives, Known, TypeOK
    <3>2. \A x \in Clones(w) : x \in Requests \ {r} /\ req[x].w = w
      BY <2>4 DEF Clones, Decide, Arrives
    <3>3. \A v \in Workflows \ {w} : Contested(v)' = Contested(v)
      BY <2>1, <2>2, <3>1, <3>2 DEF Contested
    <3>4. Contested(w) => Contested(w)'
      BY <2>1, <2>2, <3>1 DEF Contested
    <3>5. CASE Contested(w)' = Contested(w)
      BY <3>1, <3>3, <3>5, PlaceKept, NoneMoves
    <3>6. CASE Contested(w)' /\ ~Contested(w)
      <4>1. /\ VerdictOf(w) = "InProgress"
            /\ VerdictOf(w)' = "contested" /\ PassedBy(w)' = 0
        BY <3>1, <3>6 DEF VerdictOf, PassedBy, Accepts
      <4>2. /\ FlowVerdict' = [FlowVerdict EXCEPT ![w] = "contested"]
            /\ FlowPassed' = [FlowPassed EXCEPT ![w] = 0]
        BY <3>1, <3>3, <4>1, PlaceKept, OneMoves
      <4>3. FlowVerdict[w] = "InProgress"
        BY <4>1 DEF FlowVerdict
      <4>4. Flow!Contest(w)
        BY <4>2, <4>3 DEF Flow!Contest, FlowVerdict, FlowPassed
      <4> QED
        BY <4>4 DEF FlowStep
    <3>7. Contested(w)' = Contested(w) \/ (Contested(w)' /\ ~Contested(w))
      BY <3>4 DEF Contested
    <3> QED
      BY <3>5, <3>6, <3>7
  <2>5. CASE Save(r)
    <3> PICK w, u, d : w = req[r].w /\ u = req[r].user /\ d = req[r].op
      OBVIOUS
    <3> PICK inst : inst = store[w]
      OBVIOUS
    <3> DEFINE dec == Decided(inst, u, d, r)
    <3>1. /\ req[r].phase = "decided" /\ store' = [store EXCEPT ![w] = req[r].inst]
          /\ contested' = contested /\ req'[r].w = w
      BY <2>5 DEF Save, Phase, TypeOK
    <3>2. /\ w \in Workflows /\ u \in Users /\ inst # NoInstance /\ inst \in Instance
          /\ Sound(inst) /\ req[r].inst \in Instance /\ req[r].inst # NoInstance
      BY <3>1, NoInstanceAssumption DEF Known, TypeOK, StoreSound
    <3>3. /\ \A v \in Workflows \ {w} : store'[v] = store[v]
          /\ store'[w] = req[r].inst
      BY <3>1, <3>2 DEF TypeOK
    <3>4. \A v \in Workflows : Contested(v)' = Contested(v)
      BY <2>1, <2>2, <3>1 DEF Contested
    <3>5. CASE Contested(w)
      <4>1. VerdictOf(w)' = VerdictOf(w) /\ PassedBy(w)' = PassedBy(w)
        BY <3>2, <3>3, <3>4, <3>5 DEF VerdictOf, PassedBy
      <4> QED
        BY <3>3, <3>4, <4>1, PlaceKept, NoneMoves
    <3>6. CASE ~Contested(w)
      <4>1. d \in Decisions /\ Accepts(inst, u, d, r) /\ req[r].inst = dec
        BY <3>1, <3>6 DEF CloneIsNext, Contested
      <4>2. /\ FlowVerdict' = [FlowVerdict EXCEPT ![w] = VerdictOf(w)']
            /\ FlowPassed' = [FlowPassed EXCEPT ![w] = PassedBy(w)']
        BY <3>2, <3>3, <3>4, PlaceKept, OneMoves
      <4>3. /\ VerdictOf(w)' = dec.status
            /\ PassedBy(w)' = IF dec.status = "Approved" THEN 2 ELSE dec.node - 1
        BY <3>2, <3>3, <3>4, <3>6, <4>1 DEF VerdictOf, PassedBy
      <4>4. /\ FlowVerdict[w] = "InProgress" /\ FlowPassed[w] = inst.node - 1
            /\ inst.node \in 1..2
        BY <3>2, <3>6, <4>1 DEF FlowVerdict, FlowPassed, VerdictOf, PassedBy, Accepts, Instance
      <4>5. CASE d = "reject"
        <5>1. VerdictOf(w)' = "Rejected" /\ PassedBy(w)' = inst.node - 1
          BY <3>2, <4>1, <4>3, <4>5, DecidedOutcome
        <5>2. FlowPassed' = FlowPassed
          BY <4>2, <4>4, <5>1 DEF FlowPassed
        <5>3. Flow!Refuse(w)
          BY <4>2, <4>4, <5>1, <5>2 DEF Flow!Refuse, FlowVerdict, FlowPassed
        <5> QED
          BY <3>2, <5>3 DEF FlowStep
      <4>6. CASE d = "approve"
        <5>1. /\ inst.node = 1 => VerdictOf(w)' = "InProgress" /\ PassedBy(w)' = 1
              /\ inst.node = 2 => VerdictOf(w)' = "Approved" /\ PassedBy(w)' = 2
          BY <3>2, <4>1, <4>3, <4>6, DecidedOutcome
        <5>2. /\ PassedBy(w)' = FlowPassed[w] + 1
              /\ VerdictOf(w)' = IF PassedBy(w)' = 2 THEN "Approved" ELSE FlowVerdict[w]
          BY <4>4, <5>1
        <5>3. FlowPassed'[w] = PassedBy(w)'
          BY <3>2, <4>2 DEF FlowPassed
        <5> HIDE DEF dec
        <5>4. Flow!Sign(w)
          BY <4>2, <4>4, <5>2, <5>3 DEF Flow!Sign, FlowVerdict, FlowPassed
        <5> QED
          BY <3>2, <5>4 DEF FlowStep
      <4> QED
        BY <4>1, <4>5, <4>6 DEF Decisions
    <3> QED
      BY <3>5, <3>6
  <2>6. CASE Audit(r) \/ Notify(r)
    <3>1. store' = store /\ contested' = contested /\ req'[r].w = req[r].w
      BY <2>6 DEF Audit, Notify, Phase, TypeOK
    <3>2. \A v \in Workflows : Contested(v)' = Contested(v)
      BY <2>1, <2>2, <3>1 DEF Contested
    <3> QED
      BY <3>1, <3>2, PlaceKept, NoneMoves
  <2> QED
    BY <2>3, <2>4, <2>5, <2>6 DEF Handler
<1> QED
  BY <1>1, <1>2

(* However many handlers are under way: an instance on which no two held   *)
(* clones at once goes through its two nodes in order and its final status *)
(* is final (engine.rs:151-159); it can become contested only while it is  *)
(* in progress.                                                            *)
THEOREM FlowImplemented == Spec => ImplementsFlow
<1>1. Init => Flow!Init
  BY DEF Init, Flow!Init, VerdictOf, PassedBy, Contested
<1>2. TypeOK /\ StoreSound /\ KeptInv /\ [Next]_vars
        => [Flow!Next]_<<FlowVerdict, FlowPassed>>
  BY StepsOfFlow DEF Flow!Next, FlowStep
<1> QED
  BY <1>1, <1>2, KeptStep, KeptStart, TypeCorrect, StoreAlwaysSound, PTL
     DEF Spec, ImplementsFlow, Flow!Spec, FlowVerdict, FlowPassed
=============================================================================
