------------------------------ MODULE ChangeSet ------------------------------
(***************************************************************************)
(* The ChangeSet resource: the assistant's proposed edits to the graph of  *)
(* one series, proposed, then confirmed, rejected or reverted by its user. *)
(*                                                                         *)
(* Confirm and revert are callbacks of Neo4j's execute_write: a list of    *)
(* statements in one read-committed transaction.  Every statement is an    *)
(* action here, so requests interleave between statements.  A statement    *)
(* sees the committed state and its own transaction's writes, a write      *)
(* locks the resource it changes until the transaction ends, and nothing   *)
(* a transaction wrote is seen by others before its commit.  The queries   *)
(* are scoped to one user and one series, so there is one of each.         *)
(***************************************************************************)
EXTENDS Integers, Sequences

CONSTANTS
    Client,       \* requests the server may be handling at the same time
    ChangeSetId,
    NoChangeSetId, \* no ChangeSet at all
    Resource,     \* ids of graph resources: the seeded ones and those uuid4 makes
    Seed,         \* [seeded id -> [kind, origin, order]]
    OpLists,      \* operation lists a proposal may carry
    MaxOrder,     \* number of episodes
    MaxClock      \* bound: number of timestamps handed out

Order == 1 .. MaxOrder
Kind == {"Character", "Node", "Episode", "Claim", "Source", "EvidenceFragment", "UserNote"}

\* The operation types, and the label of what a create-shaped one makes.
Makes == [create_node |-> "Node", create_relationship |-> "Claim",
          create_claim |-> "Claim", attach_evidence |-> "EvidenceFragment",
          create_note |-> "UserNote"]
CREATE_OPERATION_TYPES == DOMAIN Makes
DIRECT_MUTATION_OPERATION_TYPES ==
    {"update_node", "delete_node", "update_relationship",
     "delete_relationship", "update_claim", "delete_claim"}
NoteEdits == {"update_note", "delete_note"}
Deletes == {"delete_node", "delete_relationship", "delete_claim"}
OpType == CREATE_OPERATION_TYPES \cup DIRECT_MUTATION_OPERATION_TYPES \cup NoteEdits

\* An operation names the resources it refers to, its episode among them.
Operation == [type : OpType, targets : SUBSET Resource]

ASSUME ChangeSetAssumption ==
    /\ MaxOrder \in Nat \ {0}
    /\ MaxClock \in Nat
    /\ NoChangeSetId \notin ChangeSetId
    /\ DOMAIN Seed \subseteq Resource
    /\ Seed \in [DOMAIN Seed -> [kind : Kind, order : Order,
                                 origin : {"canonical", "candidate", "user"}]]
    /\ OpLists \subseteq Seq(Operation)

ChangeSetStatus == {"absent", "awaiting_confirmation", "applied", "failed",
                    "rejected", "reverted"}

\* kind "unborn" is an id nothing carries yet.
Unborn == [kind |-> "unborn", origin |-> "user", order |-> 1, stamp |-> 0, refs |-> {}]
Attr == [kind : Kind \cup {"unborn"}, origin : {"canonical", "candidate", "user"},
         order : Order, stamp : Nat, refs : SUBSET Resource]

NoChangeSet == [status |-> "absent", snapshot |-> 1, ops |-> <<>>, applied_at |-> 0,
                revision |-> 0, revert_revision |-> 0]
Revision == [of : ChangeSetId, action : {"Created", "Reverted"}, types : SUBSET OpType,
             affected : Seq(Resource), order : Order, at : Nat]

VARIABLES
    live,        \* ids of the resources in the graph
    attr,        \* their properties; those of a deleted one stay as it left them
    changeSet,
    revisions,   \* the append-only Revision log; a revision's id is its position
    progress,    \* the user's UserSeriesProgress, 0 for no record
    clock,       \* next timestamp
    tx           \* what each client's request has read and written so far

vars == <<live, attr, changeSet, revisions, progress, clock, tx>>

Idle == [pc |-> "idle", cs |-> NoChangeSetId, ops |-> <<>>,
         made |-> <<>>, order |-> 1, at |-> 0]

Init ==
    /\ live = DOMAIN Seed
    /\ attr = [r \in Resource |->
                 IF r \in DOMAIN Seed
                 THEN [kind |-> Seed[r].kind, origin |-> Seed[r].origin,
                       order |-> Seed[r].order, stamp |-> 0, refs |-> {}]
                 ELSE Unborn]
    /\ changeSet = [k \in ChangeSetId |-> NoChangeSet]
    /\ revisions = <<>>
    /\ progress = [view |-> 0, watched |-> 0]
    /\ clock = 1
    /\ tx = [c \in Client |-> Idle]

-----------------------------------------------------------------------------
(* Reads.                                                                  *)

\* Mutant: the missing record is not looked for.
ProgressAssumed == TRUE

HasProgress == progress.watched # 0
CurrentProgress ==
    IF progress.view <= progress.watched THEN progress.view ELSE progress.watched

Steps(t) == 1 .. Len(t.made)
Wrote(t) == {t.made[i] : i \in Steps(t)}

\* A revert's writes are all deletes; a confirm's follow its operations.
Made(t) == {t.made[i] : i \in {j \in Steps(t) : t.ops[j].type \in CREATE_OPERATION_TYPES}}
Deleted(t) == {t.made[i] : i \in {j \in Steps(t) : t.ops[j].type \in Deletes}}
\* Mutant: a create also sets the properties of what it matches.
UpdatedWithTargets(t) == UNION {t.ops[i].targets : i \in Steps(t)}
Updated(t) ==
    {t.made[i] : i \in {j \in Steps(t) :
        t.ops[j].type \in DIRECT_MUTATION_OPERATION_TYPES \ Deletes}}

\* TARGET_VISIBILITY_QUERY at a boundary, by a transaction that deleted gone.
Visible(r, boundary, gone) ==
    /\ r \in live \ gone
    /\ attr[r].order <= boundary

\* A transaction holds the lock of what it wrote until it ends.
Holds(d, r) == tx[d].pc \in {"applying", "undoing", "undone"} /\ r \in Wrote(tx[d])
Locked(r, c) == \E d \in Client \ {c} : Holds(d, r)

\* Mutant: an id is compared with those that were committed alone.
FreshInGraph(r) == attr[r].kind = "unborn"

Fresh(r) == attr[r].kind = "unborn" /\ \A d \in Client : r \notin Wrote(tx[d])

MutableBy(op, r) == op.type \in DIRECT_MUTATION_OPERATION_TYPES \cup NoteEdits => attr[r].origin = "user"

Become(c, t) == tx' = [tx EXCEPT ![c] = t]
NextOp(c) == tx[c].ops[Len(tx[c].made) + 1]
AllOpsDone(c) == Len(tx[c].made) = Len(tx[c].ops)

-----------------------------------------------------------------------------
(* Stage 1: propose.                                                       *)

\* ChangeSetService.propose resolves the boundary the draft is checked against.
ProposeStart(c, k, ops) ==
    /\ tx[c].pc = "idle"
    /\ changeSet[k].status = "absent"
    /\ \A d \in Client : tx[d].pc = "idle" \/ tx[d].cs # k
    /\ HasProgress
    /\ Become(c, [Idle EXCEPT !.pc = "proposing", !.cs = k, !.ops = ops,
                              !.order = CurrentProgress])
    /\ UNCHANGED <<live, attr, changeSet, revisions, progress, clock>>

\* _note_target_type: an override note attaches to a Character or a Claim only.
NoteTarget(r) == attr[r].kind \in {"Character", "Claim"}

\* What is stored in place of an operation on a resource the user does not own.
Protect(op) ==
    IF /\ op.type \in DIRECT_MUTATION_OPERATION_TYPES
       /\ \E r \in op.targets : attr[r].origin # "user"
    THEN [op EXCEPT !.type = "create_note"]
    ELSE op

\* _validate_and_protect, one operation.
ProposeValidate(c) ==
    /\ tx[c].pc = "proposing"
    /\ ~AllOpsDone(c)
    /\ LET op == NextOp(c)
           i  == Len(tx[c].made) + 1 IN
         /\ \A r \in op.targets : Visible(r, tx[c].order, {})
         /\ Protect(op) # op => \A r \in op.targets : NoteTarget(r)
         /\ \E r \in op.targets :
              Become(c, [tx[c] EXCEPT !.ops[i] = Protect(op), !.made = Append(@, r)])
    /\ UNCHANGED <<live, attr, changeSet, revisions, progress, clock>>

\* CHANGE_SET_CREATE_QUERY: the draft is written once every operation passed.
ProposePersist(c) ==
    /\ tx[c].pc = "proposing"
    /\ AllOpsDone(c)
    /\ changeSet' = [changeSet EXCEPT ![tx[c].cs] =
            [NoChangeSet EXCEPT !.status = "awaiting_confirmation",
                                !.snapshot = tx[c].order, !.ops = tx[c].ops]]
    /\ Become(c, Idle)
    /\ UNCHANGED <<live, attr, revisions, progress, clock>>

-----------------------------------------------------------------------------
(* Stage 2: confirm and reject.                                            *)

\* A request to confirm or to revert k arrives; its command carries the time.
Begin(c, k, pc) ==
    /\ tx[c].pc = "idle"
    /\ changeSet[k].status # "absent"
    /\ clock < MaxClock
    /\ Become(c, [Idle EXCEPT !.pc = pc, !.cs = k, !.at = clock])
    /\ clock' = clock + 1
    /\ UNCHANGED <<live, attr, changeSet, revisions, progress>>

ConfirmBegin(c, k) == Begin(c, k, "confirm")

\* Mutant: no conflict for what was rejected or failed.
ConfirmReadUnlessApplied(c) ==
    /\ tx[c].pc = "confirm"
    /\ LET row == changeSet[tx[c].cs] IN
         IF row.status # "applied"
         THEN Become(c, [tx[c] EXCEPT !.pc = "checking", !.ops = row.ops])
         ELSE Become(c, Idle)
    /\ UNCHANGED <<live, attr, changeSet, revisions, progress, clock>>

\* The row is read; only a draft still awaiting confirmation goes on.  An applied
\* one is returned as stored, any other is a conflict: the request just ends.
ConfirmRead(c) ==
    /\ tx[c].pc = "confirm"
    /\ LET row == changeSet[tx[c].cs] IN
         IF row.status = "awaiting_confirmation"
         THEN Become(c, [tx[c] EXCEPT !.pc = "checking", !.ops = row.ops])
         ELSE Become(c, Idle)
    /\ UNCHANGED <<live, attr, changeSet, revisions, progress, clock>>

\* _read_current_progress against the snapshot of the proposal.
Stale(c) == ~HasProgress \/ changeSet[tx[c].cs].snapshot > CurrentProgress

ConfirmCheckProgress(c) ==
    /\ tx[c].pc = "checking"
    /\ IF Stale(c)
       THEN Become(c, [tx[c] EXCEPT !.pc = "stale"])
       ELSE Become(c, [tx[c] EXCEPT !.pc = "applying", !.order = CurrentProgress])
    /\ UNCHANGED <<live, attr, changeSet, revisions, progress, clock>>

\* MARK_CHANGE_SET_FAILED_QUERY and the commit that makes it durable.
ConfirmMarkFailed(c) ==
    /\ tx[c].pc = "stale"
    /\ changeSet' = [changeSet EXCEPT ![tx[c].cs].status = "failed"]
    /\ Become(c, Idle)
    /\ UNCHANGED <<live, attr, revisions, progress, clock>>

\* _require_visible on every target of the operation.
Applicable(c, op) ==
    \A r \in op.targets : Visible(r, tx[c].order, Deleted(tx[c])) /\ MutableBy(op, r)

\* _apply_one_operation: a create takes a new id, a mutation its target's.
\* The note edits are not here: see ConfirmFails.
ConfirmApply(c) ==
    /\ tx[c].pc = "applying"
    /\ ~AllOpsDone(c)
    /\ LET op == NextOp(c) IN
         /\ Applicable(c, op)
         /\ \E r \in IF op.type \in CREATE_OPERATION_TYPES
                     THEN {n \in Resource : Fresh(n)}
                     ELSE {t \in op.targets : op.type \notin NoteEdits /\ ~Locked(t, c)} :
              Become(c, [tx[c] EXCEPT !.made = Append(@, r)])
    /\ UNCHANGED <<live, attr, changeSet, revisions, progress, clock>>

\* An operation that fails re-validation aborts the transaction.  So does every
\* note edit: NOTE_UPDATE_QUERY and NOTE_DELETE_QUERY need parameters that
\* _params_update_note and _params_delete_note do not pass.
ConfirmFails(c) ==
    /\ tx[c].pc = "applying"
    /\ ~AllOpsDone(c)
    /\ NextOp(c).type \in NoteEdits \/ ~Applicable(c, NextOp(c))
    /\ Become(c, Idle)
    /\ UNCHANGED <<live, attr, changeSet, revisions, progress, clock>>

\* Mutant: the boundary of a user without progress.
NewOrderDefault(t) == 1

\* derive_visible_from_order: no episode an operation may name is above the progress.
NewOrder(t) == t.order

\* The properties a commit leaves on what the transaction created or updated.
Written(t) ==
    [r \in Resource |->
        IF r \in Made(t)
        THEN LET i == CHOOSE j \in Steps(t) :
                        t.made[j] = r /\ t.ops[j].type \in CREATE_OPERATION_TYPES IN
             [kind |-> Makes[t.ops[i].type], origin |-> "user", order |-> NewOrder(t),
              stamp |-> t.at, refs |-> t.ops[i].targets]
        ELSE IF r \in Updated(t) THEN [attr[r] EXCEPT !.stamp = t.at] ELSE attr[r]]

LogRevision(t, action, types) ==
    revisions' = Append(revisions, [of |-> t.cs, action |-> action, types |-> types,
                                    affected |-> t.made, order |-> t.order, at |-> t.at])

\* One Created revision, MARK_CHANGE_SET_APPLIED_QUERY (which matches the
\* ChangeSet whatever its status is by now), and the commit of all of it.
ConfirmCommit(c) ==
    /\ tx[c].pc = "applying"
    /\ AllOpsDone(c)
    /\ LET t == tx[c] IN
         /\ live' = (live \cup Made(t)) \ Deleted(t)
         /\ attr' = Written(t)
         /\ LogRevision(t, "Created", {t.ops[i].type : i \in 1 .. Len(t.ops)})
         /\ changeSet' = [changeSet EXCEPT ![t.cs].status = "applied",
                                           ![t.cs].applied_at = t.at,
                                           ![t.cs].revision = Len(revisions) + 1]
    /\ Become(c, Idle)
    /\ UNCHANGED <<progress, clock>>

\* Mutant: the status is not part of the match.
RejectAnyStatus(c, k) ==
    /\ tx[c].pc = "idle"
    /\ changeSet[k].status # "absent"
    /\ changeSet' = [changeSet EXCEPT ![k].status = "rejected"]
    /\ UNCHANGED <<live, attr, revisions, progress, clock, tx>>

\* MARK_CHANGE_SET_REJECTED_QUERY: the only status write guarded by the status.
Reject(c, k) ==
    /\ tx[c].pc = "idle"
    /\ changeSet[k].status = "awaiting_confirmation"
    /\ changeSet' = [changeSet EXCEPT ![k].status = "rejected"]
    /\ UNCHANGED <<live, attr, revisions, progress, clock, tx>>

-----------------------------------------------------------------------------
(* Stage 3: revert.                                                        *)

RevertBegin(c, k) == Begin(c, k, "revert")

\* The row and its apply-time revision are read.  Only an applied ChangeSet whose
\* operations all created something goes on.  ops is kept for its types, all of
\* them deletes from here on.
RevertRead(c) ==
    /\ tx[c].pc = "revert"
    /\ LET row == changeSet[tx[c].cs] IN
         IF /\ row.status = "applied"
            /\ revisions[row.revision].types \subseteq CREATE_OPERATION_TYPES
         THEN Become(c, [tx[c] EXCEPT !.pc = "undoing",
                !.ops = [i \in 1 .. Len(revisions[row.revision].affected) |->
                          [type |-> "delete_node", targets |-> {revisions[row.revision].affected[i]}]]])
         ELSE Become(c, Idle)
    /\ UNCHANGED <<live, attr, changeSet, revisions, progress, clock>>

\* Mutant: the stamp is not compared.
OwnedAndLive(c, r) == r \in live /\ attr[r].origin = "user"

\* CHANGE_SET_REVERT_DELETE_QUERY matches a resource as the apply left it.
Untouched(c, r) ==
    /\ r \in live
    /\ attr[r].origin = "user"
    /\ attr[r].stamp = changeSet[tx[c].cs].applied_at

RevertDelete(c) ==
    /\ tx[c].pc = "undoing"
    /\ ~AllOpsDone(c)
    /\ \E r \in NextOp(c).targets :
         /\ ~Locked(r, c)
         /\ Untouched(c, r)
         /\ Become(c, [tx[c] EXCEPT !.made = Append(@, r)])
    /\ UNCHANGED <<live, attr, changeSet, revisions, progress, clock>>

\* Mutant: what changed since is left out of the revert instead.
RevertSkipsChanged(c) ==
    /\ tx[c].pc = "undoing"
    /\ ~AllOpsDone(c)
    /\ \E r \in NextOp(c).targets : ~Locked(r, c) /\ ~Untouched(c, r)
    /\ LET i == Len(tx[c].made) + 1 IN
         Become(c, [tx[c] EXCEPT !.ops = SubSeq(@, 1, i - 1) \o SubSeq(@, i + 1, Len(@))])
    /\ UNCHANGED <<live, attr, changeSet, revisions, progress, clock>>

\* ChangeSetRevertConflict: a resource changed since; the transaction rolls back.
RevertConflict(c) ==
    /\ tx[c].pc = "undoing"
    /\ ~AllOpsDone(c)
    /\ \E r \in NextOp(c).targets : ~Locked(r, c) /\ ~Untouched(c, r)
    /\ Become(c, Idle)
    /\ UNCHANGED <<live, attr, changeSet, revisions, progress, clock>>

RevertReadProgress(c) ==
    /\ tx[c].pc = "undoing"
    /\ AllOpsDone(c)
    /\ Become(c, [tx[c] EXCEPT !.pc = "undone",
            !.order = IF HasProgress THEN CurrentProgress ELSE changeSet[tx[c].cs].snapshot])
    /\ UNCHANGED <<live, attr, changeSet, revisions, progress, clock>>

\* Mutant: the one revision property is overwritten (PROB-27).
RevertCommitOverwriting(c) ==
    /\ tx[c].pc = "undone"
    /\ LET t == tx[c] IN
         IF changeSet[t.cs].status = "applied"
         THEN /\ live' = live \ Deleted(t)
              /\ LogRevision(t, "Reverted", {})
              /\ changeSet' = [changeSet EXCEPT ![t.cs].status = "reverted",
                                                ![t.cs].revision = Len(revisions) + 1]
         ELSE UNCHANGED <<live, revisions, changeSet>>
    /\ Become(c, Idle)
    /\ UNCHANGED <<attr, progress, clock>>

\* One Reverted revision, MARK_CHANGE_SET_REVERTED_QUERY guarded by the status,
\* and the commit; the assertion after the guard fails for the loser of a race.
RevertCommit(c) ==
    /\ tx[c].pc = "undone"
    /\ LET t == tx[c] IN
         IF changeSet[t.cs].status = "applied"
         THEN /\ live' = live \ Deleted(t)
              /\ LogRevision(t, "Reverted", {})
              /\ changeSet' = [changeSet EXCEPT ![t.cs].status = "reverted",
                                                ![t.cs].revert_revision = Len(revisions) + 1]
         ELSE UNCHANGED <<live, revisions, changeSet>>
    /\ Become(c, Idle)
    /\ UNCHANGED <<attr, progress, clock>>

-----------------------------------------------------------------------------
(* What else happens to a transaction, and to what it reads.               *)

\* Rollback for a reason outside the callback: a lost connection, a cancelled
\* request, a missing chat session.
Abandon(c) ==
    /\ tx[c].pc # "idle"
    /\ Become(c, Idle)
    /\ UNCHANGED <<live, attr, changeSet, revisions, progress, clock>>

\* The driver runs the callback again, with the same command, after a transient
\* error such as a deadlock.
Retry(c) ==
    /\ tx[c].pc \in {"checking", "stale", "applying", "undoing", "undone"}
    /\ Become(c, [Idle EXCEPT !.cs = tx[c].cs, !.at = tx[c].at,
            !.pc = IF tx[c].pc \in {"undoing", "undone"} THEN "revert" ELSE "confirm"])
    /\ UNCHANGED <<live, attr, changeSet, revisions, progress, clock>>

\* ProgressService.upsert, at the granularity this module needs.
SetProgress(view, watched) ==
    /\ view <= watched
    /\ progress' = [view |-> view, watched |-> watched]
    /\ UNCHANGED <<live, attr, changeSet, revisions, clock, tx>>

\* The direct user-content API, editing or deleting a user's node, relationship
\* or note.  A node something of the user's refers to cannot be deleted.
DirectUpdate(r) ==
    /\ r \in live
    /\ attr[r].origin = "user"
    /\ \A c \in Client : ~Holds(c, r)
    /\ clock < MaxClock
    /\ attr' = [attr EXCEPT ![r].stamp = clock]
    /\ clock' = clock + 1
    /\ UNCHANGED <<live, changeSet, revisions, progress, tx>>

InUse(r) == \E d \in live : attr[d].kind \in {"UserNote", "Claim"} /\ r \in attr[d].refs

DirectDelete(r) ==
    /\ r \in live
    /\ attr[r].origin = "user"
    /\ \A c \in Client : ~Holds(c, r)
    /\ attr[r].kind \in {"Character", "Node"} => ~InUse(r)
    /\ live' = live \ {r}
    /\ UNCHANGED <<attr, changeSet, revisions, progress, clock, tx>>

-----------------------------------------------------------------------------
Request(c, k) ==
    \/ \E ops \in OpLists : ProposeStart(c, k, ops)
    \/ ConfirmBegin(c, k)
    \/ Reject(c, k)
    \/ RevertBegin(c, k)

Statement(c) ==
    \/ ProposeValidate(c)
    \/ ProposePersist(c)
    \/ ConfirmRead(c)
    \/ ConfirmCheckProgress(c)
    \/ ConfirmMarkFailed(c)
    \/ ConfirmApply(c)
    \/ ConfirmFails(c)
    \/ ConfirmCommit(c)
    \/ RevertRead(c)
    \/ RevertDelete(c)
    \/ RevertConflict(c)
    \/ RevertReadProgress(c)
    \/ RevertCommit(c)
    \/ Abandon(c)
    \/ Retry(c)

Environment ==
    \/ \E view, watched \in Order : SetProgress(view, watched)
    \/ \E r \in Resource : DirectUpdate(r) \/ DirectDelete(r)

Next ==
    \/ \E c \in Client : Statement(c) \/ \E k \in ChangeSetId : Request(c, k)
    \/ Environment

Spec == Init /\ [][Next]_vars

-----------------------------------------------------------------------------
(* Properties.                                                             *)

Tx == [pc : {"idle", "proposing", "confirm", "checking", "stale", "applying",
             "revert", "undoing", "undone"},
       cs : ChangeSetId \cup {NoChangeSetId}, ops : Seq(Operation),
       made : Seq(Resource), order : Order, at : Nat]

ChangeSetType ==
    [status : ChangeSetStatus, snapshot : Order, ops : Seq(Operation),
     applied_at : Nat, revision : Nat, revert_revision : Nat]

\* Every variable has its type (the properties of the nodes the queries write).
TypeOK ==
    /\ live \subseteq Resource
    /\ attr \in [Resource -> Attr]
    /\ changeSet \in [ChangeSetId -> ChangeSetType]
    /\ revisions \in Seq(Revision)
    /\ progress \in [view : 0 .. MaxOrder, watched : 0 .. MaxOrder]
    /\ (progress.view = 0) = (progress.watched = 0)
    /\ clock \in Nat
    /\ tx \in [Client -> Tx]

CreatedRevisions(k) ==
    {i \in DOMAIN revisions : revisions[i].of = k /\ revisions[i].action = "Created"}

\* A ChangeSet that is or was applied keeps the link to a Created revision of its
\* own, made at a boundary not below its snapshot, and a reverted one also keeps
\* the link to its later Reverted revision (PROB-27), however requests interleave.
AuditLinks ==
    \A k \in ChangeSetId : LET cs == changeSet[k] IN
        /\ cs.status \in {"applied", "reverted"} =>
              /\ cs.revision \in CreatedRevisions(k)
              /\ revisions[cs.revision].order >= cs.snapshot
              /\ revisions[cs.revision].at = cs.applied_at
        /\ cs.status = "reverted" =>
              /\ cs.revert_revision \in DOMAIN revisions
              /\ revisions[cs.revert_revision].of = k
              /\ revisions[cs.revert_revision].action = "Reverted"
              /\ \E i \in CreatedRevisions(k) : i < cs.revert_revision

\* A draft that is still waiting, or was rejected and stayed so, changed nothing.
UndecidedHasNoEffect ==
    \A k \in ChangeSetId :
        changeSet[k].status \in {"absent", "awaiting_confirmation", "rejected"}
            => CreatedRevisions(k) = {}

\* Where revision i says that its ChangeSet created r: entry n of what it affected
\* is operation n's, a create.  (Other entries name what was updated or deleted.)
CreationsOf(r, i) ==
    {n \in DOMAIN revisions[i].affected :
        /\ revisions[i].affected[n] = r
        /\ revisions[i].action = "Created"
        /\ changeSet[revisions[i].of].ops[n].type \in CREATE_OPERATION_TYPES}

\* All or nothing, and once: what confirms create and the revisions that name it
\* commit together, so one entry of one revision says that a resource was created,
\* also of overlapping confirms, none says so of what was there from the start, and
\* no revision names a resource that never came to be.
EffectsAreAudited ==
    /\ \A r \in Resource \ DOMAIN Seed :
          attr[r].kind # "unborn" => \E i \in DOMAIN revisions : CreationsOf(r, i) # {}
    /\ \A r \in Resource : \A i, j \in DOMAIN revisions :
          \A m \in CreationsOf(r, i), n \in CreationsOf(r, j) : i = j /\ m = n
    /\ \A r \in DOMAIN Seed : \A i \in DOMAIN revisions : CreationsOf(r, i) = {}
    /\ \A i \in DOMAIN revisions : \A n \in DOMAIN revisions[i].affected :
          attr[revisions[i].affected[n]].kind # "unborn"

\* Spoiler safety of what a confirm creates: a resource never becomes visible
\* before something it refers to.
NotVisibleBeforeReferences ==
    \A r \in Resource : \A t \in attr[r].refs : attr[t].order <= attr[r].order

\* No ChangeSet ever alters or removes canonical or candidate content.
StoryUntouched ==
    [][\A r \in live : attr[r].origin # "user" => r \in live' /\ attr'[r] = attr[r]]_vars

\* A revert removes only what a Created revision of the same ChangeSet, one of
\* creates alone, names and nothing has written since, even when other requests run
\* between its statements.
RevertKeepsLaterEdits ==
    [][\A k \in ChangeSetId :
         changeSet[k].status = "applied" /\ changeSet'[k].status = "reverted" =>
           \A r \in live \ live' : \E i \in CreatedRevisions(k) :
              /\ attr[r].stamp = revisions[i].at
              /\ revisions[i].types \subseteq CREATE_OPERATION_TYPES
              /\ \E n \in DOMAIN revisions[i].affected : revisions[i].affected[n] = r]_vars

\* Confirming again is a no-op: no second mutation and no second revision
\* (the docstring of ChangeSetRepository.confirm).
ConfirmIsIdempotent ==
    \A k \in ChangeSetId : \A i, j \in CreatedRevisions(k) : i = j

\* After a revert nothing the ChangeSet created is left.
RevertedLeavesNothing ==
    \A k \in ChangeSetId : changeSet[k].status = "reverted" =>
        \A i \in CreatedRevisions(k) : \A n \in DOMAIN revisions[i].affected :
            revisions[i].affected[n] \notin live

\* Requests handled one at a time decide a ChangeSet once, atomically.
LC == INSTANCE ChangeSetLifecycle WITH
        status  <- [k \in ChangeSetId |-> changeSet[k].status],
        log     <- [i \in DOMAIN revisions |->
                      [of |-> revisions[i].of, action |-> revisions[i].action]],
        content <- live

\* The refinement: every statement of a request is a step of the promised life of
\* a ChangeSet or changes nothing of it.  True of one client, not of two.
ImplementsLifecycle == LC!Spec

=============================================================================
