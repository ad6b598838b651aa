------------------------------ MODULE Workflow ------------------------------
(***************************************************************************)
(* Approval workflows of the backend (drafftink-backend, workflow/ and     *)
(* api/mobile.rs).  The engine is a pure state machine over one instance;  *)
(* a request handler clones the instance out of the store, lets the engine *)
(* decide on the clone, and writes the clone back, each store access under *)
(* a lock of its own.  Handlers run in parallel on the server's threads.   *)
(***************************************************************************)
EXTENDS Naturals, Sequences, FiniteSets

CONSTANTS
    Workflows, Users, Tenants,
    RoleOf, TenantOf,       \* the claims of a user's access token
    Kinds,                  \* the workflow types in use
    NoInstance,
    MaxRequests,            \* bound: accepted requests, numbered as they arrive
    Workers                 \* how many handlers can be under way at once

Roles     == {"Admin", "Teacher", "Student"}
Decisions == {"approve", "reject"}
Requests  == 1..MaxRequests

ASSUME WorkflowAssumption ==
    /\ RoleOf \in [Users -> Roles] /\ TenantOf \in [Users -> Tenants]
    /\ Kinds \subseteq {"OfficialDoc", "Seal", "Vehicle"}
    /\ MaxRequests \in Nat /\ Workers \in Nat \ {0}

VARIABLES
    store,      \* WorkflowStore.workflows
    audits,     \* WorkflowStore.audits, one entry at most per request
    messages,   \* WorkflowStore.messages, one at most per request
    req,        \* each request's handler: where it is, and its local clone
    contested   \* history, read by no guard: the requests decided while another
                \* handler held a clone of the same instance

vars == <<store, audits, messages, req, contested>>

-----------------------------------------------------------------------------
(* The engine *)

Office == {"Admin", "Teacher"}

\* Nodes are numbered from 1; an official document's second node asks for
\* the signature of every bound role.
Template(kind) ==
    <<[roles |-> Office, mode |-> "or"],
      [roles |-> {"Admin"}, mode |-> IF kind = "OfficialDoc" THEN "counter" ELSE "or"]>>

Node(inst, n) == Template(inst.kind)[n]
IsLast(inst)  == inst.node + 1 > Len(Template(inst.kind))

RecordsAt(inst, n) == {a \in inst.approvals : a.node = n}

\* Mutant: node roles are not consulted.
AnyoneMayApprove(inst, u) == RoleOf[u] \in Office

\* can_approve, checked by the handler and again by the engine.
MayApprove(inst, u) == RoleOf[u] \in Node(inst, inst.node).roles

\* The node's condition on the approvals it has collected.
Passed(inst, n) ==
    LET yes == {a \in RecordsAt(inst, n) : a.decision = "approve"} IN
    IF Node(inst, n).mode = "or"
    THEN yes # {}
    ELSE \A role \in Node(inst, n).roles : \E a \in yes : a.role = role

\* A signature carries its time, which is told by the request that brought
\* it: two of one person are two, though all else in them be the same.
Signed(inst, u, d, r) ==
    [inst EXCEPT !.approvals =
        @ \cup {[node |-> inst.node, user |-> u, role |-> RoleOf[u], decision |-> d,
                 at |-> r]}]

\* Mutant: the node counter moves on even past the last node.
AdvanceTooFar(inst) ==
    IF ~Passed(inst, inst.node) THEN inst
    ELSE [inst EXCEPT !.node = @ + 1, !.status = IF IsLast(inst) THEN "Approved" ELSE @]

Advance(inst) ==
    IF ~Passed(inst, inst.node) THEN inst
    ELSE IF IsLast(inst) THEN [inst EXCEPT !.status = "Approved"]
    ELSE [inst EXCEPT !.node = @ + 1]

\* Mutant: a rejection closes the instance before the record is added.
DecidedUnsigned(inst, u, d, r) ==
    IF d = "reject"
    THEN [inst EXCEPT !.status = "Rejected"]
    ELSE Advance(Signed(inst, u, d, r))

\* The instance after an accepted decision.
Decided(inst, u, d, r) ==
    IF d = "reject"
    THEN [Signed(inst, u, d, r) EXCEPT !.status = "Rejected"]
    ELSE Advance(Signed(inst, u, d, r))

\* The last signature on an official document whose data do not validate is
\* an error: nothing is saved.
DocInvalid(inst, u, d, r) ==
    /\ inst.kind = "OfficialDoc" /\ ~inst.legal
    /\ Decided(inst, u, d, r).status = "Approved"

\* Mutant: decisions on a closed instance are let through.
AcceptsAnyStatus(inst, u, d, r) ==
    /\ TenantOf[u] = inst.tenant
    /\ MayApprove(inst, u)
    /\ \A a \in RecordsAt(inst, inst.node) : a.user # u
    /\ ~DocInvalid(inst, u, d, r)

\* The checks of workflow_approve and apply_decision, all of them on the clone.
Accepts(inst, u, d, r) ==
    /\ TenantOf[u] = inst.tenant
    /\ inst.status = "InProgress"
    /\ MayApprove(inst, u)
    /\ \A a \in RecordsAt(inst, inst.node) : a.user # u
    /\ ~DocInvalid(inst, u, d, r)

NewInstance(kind, u, legal) ==
    [kind |-> kind, legal |-> legal, tenant |-> TenantOf[u], applicant |-> u,
     status |-> "InProgress", node |-> 1, approvals |-> {}]

-----------------------------------------------------------------------------
(* The handlers *)

UnderWay(r) == req[r].phase \notin {"new", "done"}

\* A thread is free, and r is the next request.
Arrives(r) ==
    /\ Cardinality({x \in Requests : UnderWay(x)}) < Workers
    /\ req[r].phase = "new"
    /\ \A x \in 1..(r - 1) : req[x].phase # "new"

Phase(r, ph) == req' = [req EXCEPT ![r].phase = ph]

\* The handlers that hold a clone of w they have not written back.
Clones(w) == {x \in Requests : req[x].phase = "decided" /\ req[x].w = w}

\* workflow_start and seal_apply, up to the insert into the store.
Start(r) ==
    /\ Arrives(r)
    /\ \E u \in Users, w \in Workflows, kind \in Kinds, legal \in BOOLEAN :
          /\ RoleOf[u] \in Office
          /\ store[w] = NoInstance
          /\ store' = [store EXCEPT ![w] = NewInstance(kind, u, legal)]
          /\ req' = [req EXCEPT ![r] =
                [phase |-> "saved", op |-> "submit", w |-> w, user |-> u,
                 inst |-> store'[w]]]
    /\ UNCHANGED <<audits, messages, contested>>

\* workflow_approve, up to the engine's verdict on its clone of the instance.
\* A refused decision changes nothing.
Decide(r) ==
    /\ Arrives(r)
    /\ \E u \in Users, w \in Workflows, d \in Decisions :
          /\ store[w] # NoInstance
          /\ Accepts(store[w], u, d, r)
          /\ req' = [req EXCEPT ![r] =
                [phase |-> "decided", op |-> d, w |-> w, user |-> u,
                 inst |-> Decided(store[w], u, d, r)]]
          /\ contested' = contested \cup
                (IF Clones(w) = {} THEN {} ELSE Clones(w) \cup {r})
    /\ UNCHANGED <<store, audits, messages>>

\* save_workflow: the clone replaces whatever the store holds by now.
Save(r) ==
    /\ req[r].phase = "decided"
    /\ store' = [store EXCEPT ![req[r].w] = req[r].inst]
    /\ Phase(r, "saved")
    /\ UNCHANGED <<audits, messages, contested>>

\* Mutant: rejections leave no trace in the log.
AuditApprovals(r) ==
    /\ req[r].phase = "saved"
    /\ audits' = IF req[r].op = "reject" THEN audits
                 ELSE audits \cup {[r |-> r, w |-> req[r].w, user |-> req[r].user,
                                    action |-> req[r].op]}
    /\ Phase(r, "audited")
    /\ UNCHANGED <<store, messages, contested>>

Audit(r) ==
    /\ req[r].phase = "saved"
    /\ audits' = audits \cup {[r |-> r, w |-> req[r].w, user |-> req[r].user,
                               action |-> req[r].op]}
    /\ Phase(r, "audited")
    /\ UNCHANGED <<store, messages, contested>>

\* Mutant: the one who signed last is told instead of the applicant.
RecipientSigner(r) ==
    CASE req[r].op = "submit"               -> {"all"}
      [] req[r].inst.status = "Approved"    -> {req[r].user}
      [] OTHER                              -> {}

\* A submission is announced to everyone, an approval to the applicant.
Recipient(r) ==
    CASE req[r].op = "submit"               -> {"all"}
      [] req[r].inst.status = "Approved"    -> {req[r].inst.applicant}
      [] OTHER                              -> {}

Notify(r) ==
    /\ req[r].phase = "audited"
    /\ messages' = messages \cup {[r |-> r, w |-> req[r].w, to |-> t] : t \in Recipient(r)}
    /\ Phase(r, "done")
    /\ UNCHANGED <<store, audits, contested>>

-----------------------------------------------------------------------------
Init ==
    /\ store = [w \in Workflows |-> NoInstance]
    /\ audits = {} /\ messages = {} /\ contested = {}
    /\ req = [r \in Requests |-> [phase |-> "new"]]

Handler(r) == Save(r) \/ Audit(r) \/ Notify(r)

Next == \E r \in Requests : Start(r) \/ Decide(r) \/ Handler(r)

\* A handler has no await between its first and its last step: once it runs
\* it runs to the end.
Spec == Init /\ [][Next]_vars /\ \A r \in Requests : WF_vars(Handler(r))
-----------------------------------------------------------------------------
(* Properties *)

Record   == [node : 1..2, user : Users, role : Roles, decision : Decisions,
             at : Requests]
Instance == [kind : Kinds, legal : BOOLEAN, tenant : Tenants, applicant : Users,
             status : {"InProgress", "Approved", "Rejected"}, node : 1..2,
             approvals : SUBSET Record]

\* The empty slot of the store is no instance.
ASSUME NoInstanceAssumption == NoInstance \notin Instance

TypeOK ==
    /\ store \in [Workflows -> Instance \cup {NoInstance}]
    /\ audits \subseteq [r : Requests, w : Workflows, user : Users,
                         action : Decisions \cup {"submit"}]
    /\ messages \subseteq [r : Requests, w : Workflows, to : Users \cup {"all"}]
    /\ req \in [Requests -> [phase : {"new"}] \cup
                            [phase : {"decided", "saved", "audited", "done"},
                             op : Decisions \cup {"submit"}, w : Workflows,
                             user : Users, inst : Instance]]
    /\ contested \subseteq Requests

Rejections(inst) == {a \in inst.approvals : a.decision = "reject"}

\* The status and the node of an instance are what its signatures say: the
\* nodes behind it passed and the current one has not, only roles bound to a
\* node signed it and each person once, an approved instance has every
\* signature and no rejection, a rejected one has exactly one rejection.
Sound(inst) ==
    /\ \A a \in inst.approvals :
          /\ a.node <= inst.node
          /\ a.role = RoleOf[a.user] /\ TenantOf[a.user] = inst.tenant
          /\ a.role \in Node(inst, a.node).roles
    /\ \A a, b \in inst.approvals : a.node = b.node /\ a.user = b.user => a = b
    /\ \A n \in 1..(inst.node - 1) : Passed(inst, n)
    /\ Passed(inst, inst.node) <=> inst.status = "Approved"
    /\ inst.status = "Approved" => IsLast(inst)
    /\ IF inst.status = "Rejected"
       THEN \E a \in inst.approvals : Rejections(inst) = {a} /\ a.node = inst.node
       ELSE Rejections(inst) = {}

\* However requests race, every instance ever stored is one that some legal
\* sequence of decisions leads to.
StoreSound == \A w \in Workflows : store[w] # NoInstance => Sound(store[w])

\* No signature is in force without its own entry in the audit log, except while
\* the handler that saved it is on its way to the log.
SignaturesAudited ==
    \A w \in Workflows : store[w] # NoInstance =>
        \A a \in store[w].approvals :
            \/ [r |-> a.at, w |-> w, user |-> a.user, action |-> a.decision] \in audits
            \/ /\ req[a.at].phase = "saved" /\ req[a.at].w = w
               /\ req[a.at].user = a.user /\ req[a.at].op = a.decision

\* Whoever applied for what was approved is told so.
ApplicantTold ==
    \A w \in Workflows, u \in Users :
        (store[w] # NoInstance /\ store[w].status = "Approved" /\ store[w].applicant = u)
            ~> (\E m \in messages : m.w = w /\ m.to = u)

\* What a procedure is to its applicant.  Where two decisions were taken at
\* once the later save erased the earlier, and nothing is promised any more.
Contested(w) == \E r \in contested : req[r].w = w

VerdictOf(w) ==
    IF store[w] = NoInstance THEN "none"
    ELSE IF Contested(w) THEN "contested" ELSE store[w].status

PassedBy(w) ==
    IF store[w] = NoInstance \/ Contested(w) THEN 0
    ELSE IF store[w].status = "Approved" THEN 2
    ELSE store[w].node - 1

Flow == INSTANCE ApprovalFlow WITH
    Length  <- 2,
    verdict <- [w \in Workflows |-> VerdictOf(w)],
    passed  <- [w \in Workflows |-> PassedBy(w)]

\* With any number of handlers under way: an instance goes through its nodes
\* in order and its final status is final (engine.rs:151-159), unless two
\* handlers held clones of it at once.
ImplementsFlow == Flow!Spec

\* A decision that was logged (and so reported to its author as accepted) is
\* on the stored instance for good, whatever is decided before it and after,
\* unless another handler held a clone of the instance between its own
\* handler's reading and writing (mobile.rs:360-394).
NoDecisionLost ==
    \A e \in audits : e.action # "submit" /\ e.r \notin contested =>
        \E a \in store[e.w].approvals :
            a.at = e.r /\ a.user = e.user /\ a.decision = e.action

\* engine.rs:155 says that any rejection rejects the whole instance.
RejectionStands ==
    \A e \in audits : e.action = "reject" => store[e.w].status = "Rejected"
=============================================================================
