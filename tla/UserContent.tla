----------------------------- MODULE UserContent -----------------------------
(***************************************************************************)
(* What users and reviewers write into the graph of one series: custom     *)
(* nodes, custom relationships and notes, candidate claims and their       *)
(* review, and the Revision log with its revert.                           *)
(*                                                                         *)
(* Every operation is a callback of execute_write: statements of one       *)
(* read-committed transaction.  A read is a step of its own, other         *)
(* requests may commit after it.  The statement that writes is one step    *)
(* with the revision and the commit: it locks what it changes, and until   *)
(* the commit nobody else sees its writes or may write the same thing.     *)
(*                                                                         *)
(* A request that is refused, fails or is cancelled rolls back (Abandon).  *)
(***************************************************************************)
EXTENDS Integers, Sequences, FiniteSets

CONSTANTS
    Client,     \* requests the server may be handling at the same time
    User,
    Admin,      \* the users whose role is admin
    NoUser,     \* the owner of what no user created
    Resource,   \* ids of graph resources: the seeded ones and those uuid4 makes
    Seed,       \* [seeded id -> Item]
    Request,    \* the requests that may arrive, but for reverts
    Value,      \* labels, predicates and contents
    NoValue,    \* a property that is not set
    MaxOrder,   \* number of episodes
    MaxLog      \* bound: number of revisions

Order == 1 .. MaxOrder
Kind == {"Node", "Claim", "UserNote"}
Origin == {"canonical", "candidate", "user"}
Status == {"none", "candidate", "canonical", "rejected"}

\* refs: subject_id and object_id of a claim, target_id of a note.
\* authored: claim_type is 'user_authored'.
\* attached: the note has its REFERS_TO relationship.
Item == [kind : Kind, origin : Origin, owner : User \cup {NoUser},
         value : Value \cup {NoValue}, refs : SUBSET Resource, order : Order,
         authored : BOOLEAN, attached : BOOLEAN, status : Status]
Absent == [kind |-> "absent", origin |-> "user", owner |-> NoUser, value |-> NoValue,
           refs |-> {}, order |-> 1, authored |-> FALSE, attached |-> FALSE,
           status |-> "none"]
Present(item) == item.kind # "absent"

Op == {"create", "update", "delete", "ingest", "approve", "reject", "edit", "revert"}
Req == [op : Op, of : Resource, kind : Kind, actor : User, value : Value \cup {NoValue},
        refs : SUBSET Resource, episode : Order]

ASSUME UserContentAssumption ==
    /\ Admin \subseteq User
    /\ NoUser \notin User
    /\ NoValue \notin Value
    /\ MaxOrder \in Nat \ {0}
    /\ MaxLog \in Nat
    /\ DOMAIN Seed \subseteq Resource
    /\ Seed \in [DOMAIN Seed -> Item]
    /\ \A r \in DOMAIN Seed : Seed[r].origin = "canonical" /\ Seed[r].refs = {}
    /\ Request \subseteq {q \in Req : q.op # "revert"}
    \* A candidate's id has a prefix of its own, which no uuid4 has.
    /\ \A p, q \in Request : p.op = "create" /\ q.op = "ingest" => p.of # q.of

\* by: which code wrote it, a review's decision being approve or reject.
\* at: created_at, see Stamps.
Revision == [of : Resource, action : {"Created", "Updated", "Deleted", "Reverted"},
             by : {"content", "decision", "edit", "revert"}, actor : User,
             before : Item \cup {Absent}, after : Item \cup {Absent}, at : Nat]

VARIABLES
    graph,   \* what each id carries now
    born,    \* history: what each id carried when it was first created
    log,     \* the append-only Revision log, in the order of the commits
    tx       \* what each client's request has read so far

vars == <<graph, born, log, tx>>

\* rev: the revision a revert is about.  order: derived from what was matched.
\* gone: what was matched has been deleted since.
\* at: the newest revision of the resource when the request read its first row.
\* quiet: history, nobody has committed since the last statement.
NoReq == [op |-> "none"]
Idle == [pc |-> "idle", req |-> NoReq, seen |-> Absent, rev |-> 0, order |-> 1,
         at |-> 0, gone |-> FALSE, quiet |-> TRUE]

Init ==
    /\ graph = [r \in Resource |-> IF r \in DOMAIN Seed THEN Seed[r] ELSE Absent]
    /\ born = graph
    /\ log = <<>>
    /\ tx = [c \in Client |-> Idle]

-----------------------------------------------------------------------------
(* Statements.                                                             *)

Largest(S) == CHOOSE n \in S : \A m \in S : m <= n

\* Mutant: content is visible from its own episode on, whatever it refers to.
DeriveFromEpisode(episode, refs) == episode

\* Mutant: content becomes visible one episode late.
DeriveLate(episode, refs) == Largest({episode} \cup {graph[x].order : x \in refs}) + 1

\* derive_visible_from_order, and the CASE of the relationship query.
Derive(episode, refs) == Largest({episode} \cup {graph[x].order : x \in refs})

AllPresent(refs) == \A x \in refs : Present(graph[x])

\* The owner-scoped MATCH of the update and delete queries.
Matches(q) ==
    /\ graph[q.of].kind = q.kind
    /\ graph[q.of].origin = "user"
    /\ q.kind = "Claim" => graph[q.of].authored
    /\ q.actor = graph[q.of].owner \/ q.actor \in Admin

\* What CUSTOM_NODE_DELETE_QUERY counts.
Dependants(r) ==
    {x \in Resource :
        /\ r \in graph[x].refs
        /\ graph[x].origin = "user"
        /\ graph[x].kind = "UserNote" \/ (graph[x].kind = "Claim" /\ graph[x].authored)}

Logged(r) == {i \in DOMAIN log : log[i].of = r}

\* A time stamp, as far as the revisions of r can tell: the position of the last one
\* logged when the clock was read, 0 for none.  The route or repository reads the
\* clock before execute_write, which may wait and run the callback again, so the
\* request that read its first row when revision n was the newest may bear any stamp
\* up to n since its resource had an id.  Two requests with the same stamp may have
\* read the clock in either order.
Stamps(r, n) ==
    LET past == {i \in Logged(r) : i <= n} IN
    past \cup (IF \E i \in past : log[i].action = "Created" THEN {} ELSE {0})

\* The clock of a delete, which reads it after it has deleted.
Now(r) == Largest({0} \cup Logged(r))

\* REVISION_LIST_QUERY returns created_at DESC: which of the revisions S of one
\* resource may come first.
ListedFirst(S) == {i \in S : \A j \in S : log[j].at <= log[i].at}

Attachments(r) == {x \in Resource : graph[x].attached /\ r \in graph[x].refs}

\* The write of a request, its revision and its commit.
Write(r, item) == graph' = [graph EXCEPT ![r] = item]

Remove(r) ==
    graph' = [x \in Resource |->
                 IF x = r THEN Absent
                 ELSE IF r \in graph[x].refs THEN [graph[x] EXCEPT !.attached = FALSE]
                 ELSE graph[x]]

Log(r, action, by, actor, before, after, at) ==
    /\ Len(log) < MaxLog
    /\ log' = Append(log, [of |-> r, action |-> action, by |-> by, actor |-> actor,
                           before |-> before, after |-> after, at |-> at])

Enter(c, t) == tx' = [tx EXCEPT ![c] = t]

\* c commits; a request between two statements goes on with what it has read.
Commit(c) ==
    tx' = [d \in Client |->
              IF d = c THEN Idle
              ELSE IF tx[d].pc \in {"matched", "counted"}
              THEN [tx[d] EXCEPT !.quiet = FALSE,
                                 !.gone = @ \/ (Present(graph[tx[d].req.of])
                                                /\ ~Present(graph'[tx[d].req.of]))]
              ELSE tx[d]]

-----------------------------------------------------------------------------
(* Creating.                                                               *)

\* uuid4 never makes an id again.
Fresh(r) == ~Present(born[r])

Born(q, order) ==
    [kind |-> q.kind, origin |-> "user", owner |-> q.actor, value |-> q.value,
     refs |-> q.refs, order |-> order, authored |-> q.kind = "Claim",
     attached |-> q.kind = "UserNote", status |-> "none"]

\* Before its creation a resource has no revision.
Create(c, q, order) ==
    /\ Write(q.of, Born(q, order))
    /\ born' = [born EXCEPT ![q.of] = Born(q, order)]
    /\ Log(q.of, "Created", "content", q.actor, Absent, Born(q, order), 0)
    /\ Commit(c)

\* _create_custom_node: nothing deletes the episode its order comes from.
CreateNode(c, q) ==
    /\ tx[c].pc = "idle"
    /\ q.op = "create" /\ q.kind = "Node" /\ q.refs = {} /\ Fresh(q.of)
    /\ Create(c, q, Derive(q.episode, {}))

\* _create_note locks the target it attaches the note to.
CreateNote(c, q) ==
    /\ tx[c].pc = "idle"
    /\ q.op = "create" /\ q.kind = "UserNote" /\ Fresh(q.of)
    /\ \E target \in Resource :
         /\ q.refs = {target}
         /\ graph[target].kind \in {"Node", "Claim"}
         /\ Create(c, q, graph[target].order)

\* _create_custom_relationship matches its ends and locks neither.
MatchEnds(c, q) ==
    /\ tx[c].pc = "idle"
    /\ q.op = "create" /\ q.kind = "Claim" /\ Fresh(q.of)
    /\ AllPresent(q.refs)
    /\ Enter(c, [Idle EXCEPT !.pc = "matched", !.req = q, !.order = Derive(q.episode, q.refs)])
    /\ UNCHANGED <<graph, born, log>>

CreateRelationship(c) ==
    /\ tx[c].pc = "matched"
    /\ Fresh(tx[c].req.of)
    /\ Create(c, tx[c].req, tx[c].order)

-----------------------------------------------------------------------------
(* Updating and deleting.                                                  *)

\* _capture_old_node, _capture_old_claim, _capture_old_note.
CaptureOld(c, q) ==
    /\ tx[c].pc = "idle"
    /\ q.op \in {"update", "delete"}
    /\ Enter(c, [Idle EXCEPT !.pc = "captured", !.req = q,
                             !.at = IF q.op = "delete" THEN 0 ELSE Now(q.of),
                             !.seen = IF graph[q.of].kind = q.kind THEN graph[q.of] ELSE Absent])
    /\ UNCHANGED <<graph, born, log>>

\* Mutant: the after-snapshot is computed from the captured state.
UpdateFromCapture(c) ==
    LET q == tx[c].req IN
    /\ tx[c].pc = "captured" /\ q.op = "update"
    /\ Matches(q)
    /\ Write(q.of, [graph[q.of] EXCEPT !.value = q.value])
    /\ \E at \in Stamps(q.of, tx[c].at) :
         Log(q.of, "Updated", "content", q.actor, tx[c].seen,
             [tx[c].seen EXCEPT !.value = q.value], at)
    /\ Commit(c)
    /\ UNCHANGED born

\* What _update_custom_node, _update_custom_relationship and _update_note share.
Update(c) ==
    LET q == tx[c].req IN
    /\ tx[c].pc = "captured" /\ q.op = "update"
    /\ Matches(q)
    /\ Write(q.of, [graph[q.of] EXCEPT !.value = q.value])
    /\ \E at \in Stamps(q.of, tx[c].at) :
         Log(q.of, "Updated", "content", q.actor, tx[c].seen, graph'[q.of], at)
    /\ Commit(c)
    /\ UNCHANGED born

UpdateNode(c) == Update(c) /\ tx[c].req.kind = "Node"
UpdateRelationship(c) == Update(c) /\ tx[c].req.kind = "Claim"
UpdateNote(c) == Update(c) /\ tx[c].req.kind = "UserNote"

\* Mutant: only the notes of a node count as its dependants.
CountNotes(c) ==
    LET q == tx[c].req IN
    /\ tx[c].pc = "captured" /\ q.op = "delete" /\ q.kind = "Node"
    /\ Matches(q)
    /\ {x \in Dependants(q.of) : graph[x].kind = "UserNote"} = {}
    /\ Enter(c, [tx[c] EXCEPT !.pc = "counted", !.gone = FALSE, !.quiet = TRUE])
    /\ UNCHANGED <<graph, born, log>>

\* CUSTOM_NODE_DELETE_QUERY up to its count; a node in use is a conflict.
CountDependencies(c) ==
    LET q == tx[c].req IN
    /\ tx[c].pc = "captured" /\ q.op = "delete" /\ q.kind = "Node"
    /\ Matches(q)
    /\ Dependants(q.of) = {}
    /\ Enter(c, [tx[c] EXCEPT !.pc = "counted", !.gone = FALSE, !.quiet = TRUE])
    /\ UNCHANGED <<graph, born, log>>

\* An unlogged delete: the capture found nothing, a revert came in between.
LogDeleted(c) ==
    LET q == tx[c].req IN
    IF Present(tx[c].seen)
    THEN Log(q.of, "Deleted", "content", q.actor, tx[c].seen, Absent, Now(q.of))
    ELSE UNCHANGED log

\* Its DETACH DELETE.  A node that somebody else deleted stays deleted.
DeleteNode(c) ==
    /\ tx[c].pc = "counted"
    /\ IF tx[c].gone THEN UNCHANGED graph ELSE Remove(tx[c].req.of)
    /\ LogDeleted(c)
    /\ Commit(c)
    /\ UNCHANGED born

\* CUSTOM_RELATIONSHIP_DELETE_QUERY does not detach: notes on it stop it.
DeleteRelationship(c) ==
    LET q == tx[c].req IN
    /\ tx[c].pc = "captured" /\ q.op = "delete" /\ q.kind = "Claim"
    /\ Matches(q)
    /\ Attachments(q.of) = {}
    /\ Remove(q.of)
    /\ LogDeleted(c)
    /\ Commit(c)
    /\ UNCHANGED born

\* NOTE_DELETE_QUERY wants the attachment.
DeleteNote(c) ==
    LET q == tx[c].req IN
    /\ tx[c].pc = "captured" /\ q.op = "delete" /\ q.kind = "UserNote"
    /\ Present(tx[c].seen)
    /\ Matches(q) /\ graph[q.of].attached
    /\ Remove(q.of)
    /\ LogDeleted(c)
    /\ Commit(c)
    /\ UNCHANGED born

-----------------------------------------------------------------------------
(* Reverting a revision.                                                   *)

RevertOf(i, u) ==
    [op |-> "revert", of |-> log[i].of, kind |-> "Node", actor |-> u, value |-> NoValue,
     refs |-> {}, episode |-> 1]

\* Mutant: whoever sees a revision may revert it.
MayRevertAny(u, item) == u \in User

\* The actor must own what the revision is about; item is the evidence.
MayRevert(u, item) == u = item.owner \/ u \in Admin

\* The reads and guards of revert_revision_work.
ReadRevision(c, i, u) ==
    LET rev == log[i]
        Read(pc) == Enter(c, [Idle EXCEPT !.pc = pc, !.req = RevertOf(i, u), !.rev = i,
                                          !.seen = graph[rev.of], !.at = Now(rev.of)]) IN
    /\ tx[c].pc = "idle"
    /\ \/ /\ rev.action = "Updated"
          /\ Present(graph[rev.of]) /\ graph[rev.of].origin = "user"
          /\ MayRevert(u, graph[rev.of])
          /\ Read("restoring")
       \/ /\ rev.action = "Deleted"
          /\ MayRevert(u, rev.before)
          /\ ~Present(graph[rev.of])
          /\ Read("rebuilding")
    /\ UNCHANGED <<graph, born, log>>

\* Mutant: a revision without an owner takes the owner away.
RestoredUnowned(item, rev) ==
    IF rev.by = "content" THEN item ELSE [item EXCEPT !.owner = NoUser]

\* SET r += the mutable fields of the before-snapshot.  The one of a custom
\* relationship names its fields source, target and type and has no
\* claim_type; the graph and the queries use subject_id, object_id and
\* predicate.  A review's has those, but no owner.
Restored(item, rev) ==
    LET s == rev.before
        kept == s.kind = "Claim" /\ rev.by = "content" IN
    IF ~Present(s) THEN item
    ELSE [item EXCEPT
            !.owner = IF rev.by = "content" THEN s.owner ELSE @,
            !.refs = IF kept THEN @ ELSE s.refs,
            !.value = IF kept THEN @ ELSE s.value,
            !.authored = IF kept THEN @ ELSE s.authored]

\* A resource deleted since it was read is not there to SET; that is logged too.
Restore(c) ==
    LET r == tx[c].req.of
        new == IF Present(graph[r]) THEN Restored(graph[r], log[tx[c].rev]) ELSE Absent IN
    /\ tx[c].pc = "restoring"
    /\ Write(r, new)
    /\ \E at \in Stamps(r, tx[c].at) :
         Log(r, "Reverted", "revert", tx[c].req.actor, tx[c].seen, new, at)
    /\ Commit(c)
    /\ UNCHANGED born

\* CREATE with the before-snapshot as properties: no claim_type, and a custom
\* relationship's ends and predicate under names nothing reads.
Rebuilt(s) ==
    [s EXCEPT
       !.refs = IF s.kind = "Claim" THEN {} ELSE @,
       !.value = IF s.kind = "Claim" THEN NoValue ELSE @,
       !.authored = FALSE,
       !.attached = s.kind = "UserNote" /\ \A x \in s.refs : Present(graph[x])]

\* The id is unique: a second re-creation fails.
Rebuild(c) ==
    LET r == tx[c].req.of
        s == log[tx[c].rev].before IN
    /\ tx[c].pc = "rebuilding"
    /\ ~Present(graph[r])
    /\ Write(r, Rebuilt(s))
    /\ \E at \in Stamps(r, tx[c].at) :
         Log(r, "Reverted", "revert", tx[c].req.actor, s, Rebuilt(s), at)
    /\ Commit(c)
    /\ UNCHANGED born

-----------------------------------------------------------------------------
(* Candidate claims.                                                       *)

\* _resolve_claim_visibility: the order comes from what is there now.
Prepass(c, q) ==
    /\ tx[c].pc = "idle"
    /\ q.op = "ingest"
    /\ AllPresent(q.refs)
    /\ Enter(c, [Idle EXCEPT !.pc = "ingesting", !.req = q, !.order = Derive(q.episode, q.refs)])
    /\ UNCHANGED <<graph, born, log>>

Candidate(q, order) ==
    [kind |-> "Claim", origin |-> "candidate", owner |-> NoUser, value |-> q.value,
     refs |-> q.refs, order |-> order, authored |-> FALSE, attached |-> FALSE,
     status |-> "candidate"]

\* Mutant: MERGE sets the status of a claim it matches as well.
IngestResets(c) ==
    LET q == tx[c].req
        item == Candidate(q, tx[c].order) IN
    /\ tx[c].pc = "ingesting"
    /\ Write(q.of, item)
    /\ born' = IF Fresh(q.of) THEN [born EXCEPT ![q.of] = item] ELSE born
    /\ Commit(c)
    /\ UNCHANGED log

\* INGEST_CANDIDATE_QUERY: the id is derived from the content, so the same
\* claim comes again; MERGE leaves what it matches as it is, but for its
\* confidence and validity.
Ingest(c) ==
    LET q == tx[c].req
        item == Candidate(q, tx[c].order) IN
    /\ tx[c].pc = "ingesting"
    /\ IF Present(graph[q.of]) THEN UNCHANGED graph ELSE Write(q.of, item)
    /\ born' = IF Fresh(q.of) THEN [born EXCEPT ![q.of] = item] ELSE born
    /\ Commit(c)
    /\ UNCHANGED log

\* _read_candidate_claim; only approve looks at the origin.
ReadClaim(c, q) ==
    /\ tx[c].pc = "idle"
    /\ q.op \in {"approve", "reject", "edit"} /\ q.actor \in Admin
    /\ graph[q.of].kind = "Claim"
    /\ q.op = "approve" => graph[q.of].origin = "candidate"
    /\ Enter(c, [Idle EXCEPT !.pc = "reviewing", !.req = q, !.seen = graph[q.of],
                             !.at = Now(q.of)])
    /\ UNCHANGED <<graph, born, log>>

Reviewed(item, q) ==
    CASE q.op = "approve" -> [item EXCEPT !.status = "canonical"]
      [] q.op = "reject"  -> [item EXCEPT !.status = "rejected"]
      [] q.op = "edit"    -> [item EXCEPT !.value = q.value]

\* _approve_claim_work, _reject_claim_work, _edit_claim_work: the write matches
\* candidates only, the revision tells what was read with the change on top.
Review(c) ==
    LET q == tx[c].req IN
    /\ tx[c].pc = "reviewing"
    /\ IF graph[q.of].kind = "Claim" /\ graph[q.of].origin = "candidate"
       THEN Write(q.of, Reviewed(graph[q.of], q))
       ELSE UNCHANGED graph
    /\ \E at \in Stamps(q.of, tx[c].at) :
         Log(q.of, "Updated", IF q.op = "edit" THEN "edit" ELSE "decision", q.actor,
             tx[c].seen, Reviewed(tx[c].seen, q), at)
    /\ Commit(c)
    /\ UNCHANGED born

-----------------------------------------------------------------------------
\* Refusal, transient error, cancellation: the transaction rolls back.
Abandon(c) ==
    /\ tx[c].pc # "idle"
    /\ Enter(c, Idle)
    /\ UNCHANGED <<graph, born, log>>

Next ==
    \E c \in Client :
        \/ \E q \in Request :
             \/ CreateNode(c, q)
             \/ CreateNote(c, q)
             \/ MatchEnds(c, q)
             \/ CaptureOld(c, q)
             \/ Prepass(c, q)
             \/ ReadClaim(c, q)
        \/ \E i \in DOMAIN log, u \in User : ReadRevision(c, i, u)
        \/ CreateRelationship(c)
        \/ UpdateNode(c) \/ UpdateRelationship(c) \/ UpdateNote(c)
        \/ CountDependencies(c)
        \/ DeleteNode(c)
        \/ DeleteRelationship(c)
        \/ DeleteNote(c)
        \/ Restore(c)
        \/ Rebuild(c)
        \/ Ingest(c)
        \/ Review(c)
        \/ Abandon(c)

Spec == Init /\ [][Next]_vars

-----------------------------------------------------------------------------
(* Properties.                                                             *)

Pc == {"idle", "matched", "captured", "counted", "restoring", "rebuilding",
       "ingesting", "reviewing"}

\* The type invariant: what a request has read, the graph and the log keep
\* their shape through every transaction.
TypeOK ==
    /\ graph \in [Resource -> Item \cup {Absent}]
    /\ born \in [Resource -> Item \cup {Absent}]
    /\ log \in Seq(Revision) /\ Len(log) <= MaxLog
    /\ tx \in [Client -> [pc : Pc, req : Req \cup {NoReq}, seen : Item \cup {Absent},
                          rev : Nat, order : Order, at : Nat, gone : BOOLEAN,
                          quiet : BOOLEAN]]

\* An item, whether or not its attachment is there.
Bare(item) == [item EXCEPT !.attached = FALSE]

SameIdentity(item, first) == item.owner = first.owner /\ item.order = first.order

\* What an id stands for never changes hands or moves in the story: through
\* updates, deletes and reverts of any revision, it has the owner and the
\* order it was created with (revert_revision_work restores user_id and
\* re-creates whole resources from snapshots that other requests logged).
IdentityKept ==
    \A r \in Resource : Present(graph[r]) =>
        /\ Present(born[r])
        /\ SameIdentity(graph[r], born[r])
        /\ graph[r].origin = born[r].origin

\* No content can be seen earlier than what it refers to, also when the
\* content or its target was deleted and brought back in between.
NotVisibleBeforeReferences ==
    \A r \in Resource : \A x \in graph[r].refs :
        Present(graph[x]) => graph[r].order >= graph[x].order

\* The revisions of its own routes that left a user resource in the graph.
Left(r) == {i \in Logged(r) : log[i].by \in {"content", "revert"} /\ Present(log[i].after)}

\* Of the revisions S, those in R tell what is there.  Whoever lists S sees one of R
\* first, or one that was logged while the request of one of R was under way: it
\* had been stamped, and it committed later.
ListTells(S, R) ==
    /\ S # {}
    /\ \A i \in ListedFirst(S) : i \in R \/ \E k \in R : i < k /\ log[k].at < i

\* The log tells the present: of the states the log says a user resource was left
\* in, the one listed first is what the graph holds, whatever the request that
\* logged it had read before.  Only requests that overlapped can be listed in the
\* other order; then a revision further down is the present.  (Of deletes the log
\* may tell too few or too many: see LogDeleted and DeleteNode.)
LogTellsPresent ==
    \A r \in Resource :
        Present(graph[r]) /\ graph[r].origin = "user" =>
            ListTells(Left(r), {i \in Left(r) : Bare(log[i].after) = Bare(graph[r])})

Decisions(r) == {i \in Logged(r) : log[i].by = "decision"}

\* A reviewed claim has the status of the decision that is listed first: no edit
\* and no repeated ingest of the same claim leaves another.  Where approve and
\* reject overlapped it may be the other one's, which then committed last though
\* it was stamped first.
StatusIsLastDecision ==
    \A r \in Resource :
        graph[r].origin = "candidate" =>
            IF graph[r].status = "candidate" THEN Decisions(r) = {}
            ELSE ListTells(Decisions(r),
                           {i \in Decisions(r) : log[i].after.status = graph[r].status})

\* Whose request step it is.
Steps(c) == tx[c].pc # "idle" /\ tx'[c].pc = "idle"

\* What users own changes only by a request of the owner or an administrator,
\* although the check and the write are separate statements.  (A note loses
\* its attachment when its target goes.)
OnlyOwnerChanges ==
    [][\A r \in Resource :
          Present(graph[r]) /\ graph[r].origin = "user" /\ Bare(graph[r])' # Bare(graph[r])
             => \E c \in Client : Steps(c) /\ tx[c].req.actor \in Admin \cup {born[r].owner}]_vars

\* What a user made lacks a node it refers to, or is a note that is not
\* attached to anything.
Dangles(r) ==
    /\ graph[r].origin = "user"
    /\ \/ \E x \in graph[r].refs : born[x].kind = "Node" /\ ~Present(graph[x])
       \/ graph[r].kind = "UserNote" /\ ~graph[r].attached

\* A relationship loses a node it connects, or a note its target, only when a
\* commit came between two statements of the delete or of the creation, or
\* when a revert of the relationship or note itself brings the reference
\* back.  (Deleting a relationship or a note counts nothing that refers to
\* it, and a relationship may end at one: those ends are not promised.)
DanglesOnlyIfOvertaken ==
    [][\A r \in Resource : Dangles(r)' /\ ~Dangles(r)
          => \E c \in Client :
                /\ Steps(c)
                /\ \/ ~tx[c].quiet
                   \/ tx[c].pc \in {"restoring", "rebuilding"} /\ tx[c].req.of = r]_vars

\* Request c re-creates what a revision says was deleted.
Rebuilds(c) ==
    LET r == tx[c].req.of IN
    Steps(c) /\ tx[c].pc = "rebuilding" /\ ~Present(graph[r]) /\ Present(graph'[r])

\* Reverting a deletion brings the resource back as it was: api/revisions.py
\* promises "the state captured in a revision".
RevertRestores ==
    [][\A c \in Client :
          Rebuilds(c) => Bare(graph'[tx[c].req.of]) = Bare(log[tx[c].rev].before)]_vars

=============================================================================
