# Spoilerless: specifications

TLA+ models, model-checking runs and machine-checked proofs for the backend of
Spoilerless, a spoiler-safe knowledge graph of TV series: users read the graph
up to the episode they have watched, ask an assistant about it, and let the
assistant propose edits. Paths are relative to `src/spoilerless/app/` unless
they start with `src/`.

## 1. The system

The backend is a FastAPI process (asyncio, one event loop) over Neo4j, with
Redis as an optional cache. Nothing in the process is persistent, so all
agreement between requests goes through three kinds of shared state: the rows
in Neo4j, the keys in Redis, and two module-level variables of the chat service.

| Component | State | Operations | Correct when |
|---|---|---|---|
| ChangeSets (`services/`, `repository/`, `graph/`, `api/change_set.py`) | `ChangeSet` nodes; what they create | propose, confirm, reject, revert | decided once and as a whole; audited; never touches story content; spoiler-safe; a revert undoes its own work only |
| Watch progress (`services/`, `repository/`, `graph/progress.py`, `spoiler/policy.py`) | `UserSeriesProgress`, one per user and series | upsert, migrate, resolve | view never past watched, only real episodes, no reader told more than was confirmed, never lowered by a view change |
| Chat (`services/chat.py`, `repository/chat.py`) | sessions, messages, `_concurrent_generations`, `_llm_semaphore` | create, send, stream, delete | one generation a user, permits returned, statuses settled, answers within the user's progress and under an honest snapshot |
| Retrieval pipeline (`retrieval/`) | per turn | gather, tool loop, ground | tools never read past the boundary |
| Graph cache (`cache/graph_cache.py`) | `graph:*`, `viz:*`, `graph_revision:*`, `vizfocus:*` | get, set, invalidate, expire | never needed for correctness; stale content bounded |
| Graph reads (`services/graph.py`, `spoiler/filter.py`, `retrieval/tools.py`) | none | fetch, path, neighborhood, export | nothing past the boundary, no dangling edge, walks exact |
| Visualization (`services/visualization/`) | none | project, expand | a view of the visible graph only, closed, capped |
| User content (`repository/user_content.py`) | user nodes, relationships, notes | create, edit, delete | owner only; nothing in use deleted; each change logged |
| Revisions (`revisions/`) | append-only `Revision` nodes | log, list, revert | every change has its revision; a revert restores |
| Candidates (`graph/candidates.py`) | extracted claims | ingest, approve, reject, edit | reviewed once; logged |
| Sessions and shares (`repository/session.py`, `repository/share.py`) | tokens with an expiry | create, validate, revoke, sweep | an expired or revoked token is never accepted |
| Rate limits, settings, LLM provider, seed | buckets, one settings node | | |
| Frontend hooks (`src/frontend/src/hooks/`) | React state per key | fetch, stream, hydrate | a late reply never lands on another key |

How they meet: every read and every chat turn asks Progress for its boundary;
the pipeline may propose a ChangeSet; ChangeSets and user content write the same
nodes and append to the same Revision log; every content route invalidates the
cache after its commit.

What is hard: requests that read in one transaction and write in another
(Progress), status that is read and not tested again when written (ChangeSets),
a fetch that overlaps a write and its invalidation (cache), cancellation at any
`await` (chat), transactions that the driver runs again, and a process that dies
between two steps.

## 2. Modules

| Module | What it is |
|---|---|
| `ChangeSet` | the ChangeSet resource, one Cypher statement per action |
| `ChangeSetLifecycle` | the abstract specification: five decisions, each one step |
| `ChangeSetProofs`, `ChangeSetSerialProofs` | its safety for any number of clients; idempotence and refinement for one request at a time |
| `Progress`, `ProgressProofs` | the watch-progress record, one statement per action, and its theorems |
| `ChatTurn`, `ChatTurnProofs` | the turns of one user, composed with `Progress` by `INSTANCE`; its theorems, composed with those of `Progress` the same way |
| `GraphCache`, `GraphCacheProofs` | the cache-aside layer with its invalidation, and its theorems |
| `UserContent`, `UserContentProofs` | custom nodes, relationships, notes, candidate review and the revert of revisions; its theorems |
| `Projections` | the visualization projections as operators on one graph |
| `GraphReads`, `GraphReadsProofs` | the multi-query graph fetch with its projections and the tools' walks, against writers; its theorems |
| `Sessions`, `SessionsProofs` | login sessions and share links against a clock and a sweep; its theorems |
| `MC*` | small instances for TLC; the `.cfg` files name their constants |

### ChangeSet

Confirm and revert are callbacks of Neo4j's `execute_write`. Each statement of a
callback is an action, so `ConfirmRead`, `ConfirmCheckProgress`, one
`ConfirmApply` per operation and `ConfirmCommit` are the body of
`_apply_change_set`, and `RevertRead`, one `RevertDelete` per resource,
`RevertReadProgress` and `RevertCommit` that of `_revert_change_set`. `tx[c]`
holds what a request has read and written. Neo4j is read-committed: a statement
sees committed data and its own writes, a write holds a lock until the end of the
transaction (`Holds`, which other transactions and direct edits wait for: `Locked`), and everything becomes visible in the commit. The last
status write and the commit are one action: the write takes the lock of the
ChangeSet node, so nobody sees or changes that node between the two.
`Abandon` is a rollback, `Retry` the driver running the callback again.
`Protect` is the replacement of an operation on canonical or candidate content
by a note. `ConfirmFails` includes both note edits, whose parameter builders do
not fit the note queries, so that a confirm with one can only fail.

Data is abstracted to what the properties distinguish: a resource has a kind, an
origin, an order (`visible_from_order`), the stamp of its last write
(`updated_at`), and the resources it refers to. `DirectUpdate`, `DirectDelete` and
`SetProgress` are the other routes that write what a ChangeSet reads.

Taken as given: an operation names targets of the kind its query matches (a
mismatch ends like `ConfirmFails`); an operation's targets are checked in one
step; the episode an operation names is one of its targets; `CREATE`'s locks
on endpoints are left out, which only allows more interleavings; `uuid4` never
repeats. An `InUse` count and the delete after it are one statement in the code
and one action here.

### Progress

`ProgressService` sends every statement as a transaction of its own, so an upsert
is three actions (`StartUpsert` with the migration, `FindExisting` or `Refuse`,
`Save`) and a resolve two. `StartCreate` is the chat route creating a missing
record at order 1. `told` is what the last resolve returned, `confirmed` a
history of every watched order somebody asked for, `overtaken` history of one request:
whether another saved since it read (`HasRead`). The record may start in the
form it had before the watched and view orders were split. Taken as given: the
`MERGE` yields one record (the repository says so; no constraint enforces it),
and episodes do not change.

### ChatTurn

A turn goes through the states of `answer_stream` in order; `pc` is the await it
is at. `slots` is `_concurrent_generations` of the user, `permits` the value of
`_llm_semaphore`, `others` what other users hold. The boundary comes from the
real `Progress` actions, twice: `ResolveBoundary` in the service and `Ground` in
the pipeline, which is where two boundaries of one turn can differ. An answer is
abstracted to `knows`, the largest order it may draw on, through its tools or
through earlier answers in its history. `Break` is the `except` and `finally`
of the turn for every failure, timeout or disconnect; its status write may be
lost. A status may be committed before the turn learns of it (`MarkCompleted`,
`TurnCompleted`). `CancelQueued` is cancellation in the one await that is
outside the `try`. `Crash` loses everything but Neo4j. The streaming route checks
first (`Check`), the plain one does not. Settings reads and what the
session check reads besides existence are left out; they change nothing.

### GraphCache

Content is a version, the number of committed writes; a payload carries the
version of the oldest of the reads `fetch_graph` issues in parallel. A read is
epoch, get, fetch, epoch again, set (no epochs for the plain graph keys); a write
is commit, bump, scan and delete of each key family. Every Redis step may fail
(`Miss`, `Abandon`, `GiveUp`); a process that dies after the commit is `GiveUp` at
once. `overlapped` marks a payload whose store an epoch bump overtook. A SCAN
returns the keys there are when it starts; a key it returns in addition is
`ExpireGraph` or `ExpireViz`, which may run at any time. Redis is taken as durable
while the system runs: the epoch is not lost.

### UserContent

Every operation is one callback of `execute_write`. What it reads is a step of its
own (`CaptureOld`, `MatchEnds`, `CountDependencies`, `ReadRevision`, `Prepass`,
`ReadClaim`), because another request may commit before the next statement. The
statement that writes is one step with its revision and the commit, since it locks
what it changes until then. `Abandon` is every refusal and failure: a rollback.

A resource is its kind, origin, owner, order, one value (label, predicate or
content), the ids it refers to and the properties that decide what the queries
match: `authored` (`claim_type`), `attached` (the note's `REFERS_TO`) and the
review status. `born` is a history variable: what an id was first created with.
`quiet` and `gone` are history of one request: whether anybody has committed
since it read, and whether what it matched was deleted. `Restored` and `Rebuilt`
say what a revert really writes, given which property names a snapshot carries and
which the graph uses: the snapshot of a custom relationship names its ends
`source` and `target`, the graph `subject_id` and `object_id`.

The log is appended in the order of the commits, but the program lists it by
`created_at`, newest first (`api/revisions.py:43`), and reads that clock before the
transaction begins: a request may wait for another's commit, or be run again, and
carry the older stamp. A revision therefore has a stamp `at` (`Stamps`): the
number of the last revision of its resource that was logged when the clock was
read, anything from the one that gave the resource its id to the newest when the
request read its first row (`tx.at`). A delete reads the clock after it has
written (`Now`). `ListedFirst` is what may come first in the listing; equal stamps
may come in either order. What the program promises of its log is stated in that
order (`ListTells`): the first entry tells what is there, unless it was logged while the
request of the one that does was under way. One clock is assumed, that of the one
process, and that it does not go back.

Taken as given: `uuid4` never repeats, and a candidate's id, which is derived from
its content, has a prefix no `uuid4` has; a reverter sees the revision at the boundary
it names; episodes are not deleted. A repeated ingest also updates confidence and
validity, which no property of this module distinguishes (`GraphReads` has the
window).

### Projections and GraphReads

`fetch_graph` sends its queries as separate transactions under `asyncio.gather`, so
`FetchNodes`, `FetchStructure`, `FetchClaims` and `FetchRelationships` are actions
that run in any order, with writes between. `Assemble` is `enforce_graph_closure`
and the projection. `find_path` and `get_neighborhood` are `FindSource`, `FindTarget`,
one `WalkRound` for each frontier query and the reply. A removed resource is
`"absent"` and keeps its order, so that a reply can be judged by what it names.
`reply` stays until the next read begins.

An id is a number, ordered as the code orders strings; the walk takes its rows by
order and id and so do the caps. A cut of a sorted list is the set of what has
fewer than so many in front of it (`FirstOf`), which needs no list. Sources, evidence and media metadata go with their
claim and are left out, and with them the investigation view and the clue
and evidence expansions. An edge of a type without a mapping makes a view fail
(`node_builders.py:44`, `expansion.py:209`); every type that a route or the seed can write
has one, so that is left out. The routes pass neither editorial events nor plot threads;
`Projections` has none. The writers are those of `UserContent`, reduced to what a
read can tell; they include `AddClaim` with an end of a label no graph shows,
which the relationship query allows.

### Sessions

Each statement is a transaction of its own whose `$now` was read before it was sent:
a statement at time `now` compares with some `at \in req[c].at .. now`. `Login` and
`Logout` are the routes, `Begin` and `Authenticate` `require_current_user`,
`ReadBoundary` and `CreateLink` the creation of a link, `FindLink` and
`RevokeLink` its revocation, `Visit` and `LookUp` the public route. The sweep goes
round `SweepSessions`, `SweepLinks`, asleep; a statement that fails ends the round
(`SweepFails`). `Restart` drops the requests in the process, and a process that
starts without a database has no loop. `dead` is history: the token was not valid when
the request came in. `last_seen_at`, which nothing reads, is left out; the Google
verification is what admits a `Login`; a token is never issued twice.

## 3. Runs

| Run | Bounds | Distinct states | Shows |
|---|---|---|---|
| `changeset_concurrent` | 2 clients, 1 ChangeSet, 3 operation lists, 5 resources, 2 episodes, 3 time stamps | 21,692 | seven properties under interleaving, rollback and retry |
| `changeset_serial` | 1 client, 2 ChangeSets, 4 further operation lists | 602,828 | complete reverts, refinement of `ChangeSetLifecycle` (in which a repeated confirm does nothing) |
| `changeset_confirm_twice` | as the first | violation | disagreement 1 |
| `progress_concurrent` | 2 clients, orders 1..4 of which 3 is no episode, all requests | 1,066,416 | validity and boundary under overlap; who can lower the watched order |
| `progress_lost_update` | same | violation | disagreement 2 |
| `chat_turns` | 2 turns, 1 browser, 3 progress changes, 1 permit, 2 episodes | 172,866 | six safety properties and `TurnEnds` |
| `chat_slot_leak` | same | violation | disagreement 3 |
| `cache_reads` | 1 reader, 2 writers, 2 versions, 1 key | 464,180 | staleness has one cause, and ends |
| `user_content` | 2 clients, 3 users of whom 1 is an administrator, 5 resources, 15 requests and every revert, 4 revisions | 1,036,112 | identity, spoiler order, log, decisions, ownership and the one cause of loose ends |
| `revert_relationship` | 1 client, the rest the same | violation | disagreement 4 |
| `graph_reads` | 16 starting graphs, 7 nodes, 7 claims, 2 orders, 3 writes, 18 reads | 444,820 | nothing hidden, exact walks, views that stand alone, failures with a cause |
| `sessions` | 2 clients, 1 user, 1 session token, 1 link, clock 0..2, session TTL 2, link TTL 1, 2 orders | 367,007 | dead tokens stay dead, links stay within what was confirmed, the sweep gets there |

Why the bounds are enough to be interesting. Every race found in ChangeSets and
in Progress needs two requests, and both runs let the two be of any kind. The
operation lists have a create on content only a later episode shows, a create
before an update, a forbidden edit that becomes a note, and, in the serial run,
a delete after a create, two creates a revert must undo together, an attachment
and a note edit. `MaxClock` = 4 gives three stamps: apply, edit, revert. `MaxClock`
bounds timestamps and with them confirms, reverts and edits; proposals and
rejections are bounded by the ChangeSet ids. In `Progress` a non-episode between
episodes lets validation fail for both orders. One permit makes two turns and
other users compete; two episodes let the boundary move both ways. Two writers let
one invalidation run in another's middle; the key is one because keys interact
only through the epoch, and the proofs cover any number of keys, readers and
versions. In `cache_reads` one reader starts again and again, so what it stored is
served to a later request of its own.

In `user_content` the node is of the second episode while what refers to it claims
the first, so a derived order differs from the one asked for; a relationship, a note
and a candidate refer to the one node, so each can lose its end. Four revisions are
enough to create, edit, delete and revert one resource, or to overlap two creations
with a delete, or to log four requests in any order of their stamps. Bob's
update of Ann's relationship and root's review of it are requests that must not succeed. In `graph_reads` the four
canonical claims are a triangle and a tail, present or not, so that there are paths
of one, two and three hops and none; one is over by the second episode, one begins
with it, one has an end of it. The caps (overview 3 nodes and 2 edges, focus 2 nodes)
are small so that graphs fall on either side of them, and `MaxHops` and `MaxDepth`
below what is asked for. In `sessions` the clock can pass both expiries, and two
clients let one log out or revoke while another is being served. Its clock stops at
`MaxTime` and a process may have no loop, so the system may really stop and
deadlock is not checked.

Symmetry is used in safety runs only (and in `changeset_serial`, whose refinement
is checked without fairness).

Fairness. `ChatTurn`: weak fairness of a turn's own next step or failure, because
statements and provider calls have timeouts, and of the end of other users'
generations for the same reason; strong fairness of `Begin`, because
`asyncio.Semaphore` wakes waiters first in, first out. Clients need not
send anything. `GraphCache`: weak fairness of a request's next step, and of expiry,
which Redis does for every key stored with SETEX. Writers are under no fairness:
an invalidation may never finish, and `EventuallyFresh` still holds. `Sessions`: the
loop wakes up (weak) and its statements do not fail for ever (strong);
`EventuallySwept` claims nothing unless processes with a loop keep running.
The other modules make no liveness claim.

Each property of a passing run has a mutant of the code in `PROJECT.json`
that breaks it: a missing guard, a dropped reset, a release in the wrong place.

## 4. Proofs

All theorems hold for every value of the constants that satisfies the module's
named assumption.

`ChangeSetProofs`, for any number of clients, builds its inductive invariants on one another.
`TypeInv` adds to `TypeOK` that a request is through a prefix of its operations and
that the revision a decided ChangeSet points at is in the log: without the second,
what a revert reads has no type. `AuditInv` adds to `AuditLinks` and
`UndecidedHasNoEffect` that a proposal has its ChangeSet for itself
(`ProposalAlone`) and that every other request is about a ChangeSet that was
proposed and applies at a boundary its snapshot is not above (`AllKnown`): the
commit's status write tests nothing, so what it relies on must travel in the
request. `EffectInv` says of everything an unfinished request has written that it
is a new resource whose references exist at or below the request's boundary, or
one the user owns (`AllSettled`), and that two confirms never take the same new id
(`Apart`); `SpoilerSafeCreates` is part of it and `StoryNeverTouched`, an action
property, follows from it.
`EffectsAudited` is of a confirm's commit, which makes what the request wrote visible
and logs it in one step (`Audited`). That it is logged once (`OnceInv`) needs that the ids
a transaction takes differ (`OwnApart`), that a new one is never an old one, and that the
operations of a ChangeSet, which say what in a revision is a creation, stay as they were. `RevertsKeepEdits`, an action property, needs to
know that the stamp a revert compares tells who wrote last, and goes on telling until
the commit. `RevertInv` says why: what a transaction wrote is nobody else's until it ends
(`Exclusive`, Neo4j's locks); every request has a timestamp that nothing bears before
it commits (`Timely`), so that a stamp names its revision (`StampsNamed`); a confirm
applies the ChangeSet's own operations (`OpsKept`); and what a revert in progress has
deleted bears the stamp of a Created revision of its ChangeSet (`AllUndoing`).

`ChangeSetSerialProofs` assumes `OneAtATime`: at most one client. Then the
status a request read is still there at each of its later statements
(`StatusHeld`), which with the two invariants above is inductive and gives
`SerialConfirmIsIdempotent` and, action by action, `SerialImplementsLifecycle`: the
initial states map to initial states and every statement to one decision or a
stutter. `SerialRevertIsComplete` adds that a revert goes through all its revision
names, in order, to the end (`AllRevertsAll`), and that what it deleted stays gone, because
an id is not made twice (`NothingLeft`). The run `changeset_confirm_twice` shows that the assumption cannot be
dropped.

`ProgressProofs`: `RecordValid` and `BoundaryWasConfirmed` become inductive with
`Migrates` (while any request is under way the record is no longer a legacy one),
`SavesValid` (what a pending save will write was validated and stays valid, since
it is validated against itself and the episodes alone) and `RecordConfirmed`.
`LowersOnlyIfOvertaken` adds `ReadStillThere`: while no other request has saved since, the
watched order a view-only change will write back is the record's, and a question that
found no record still has none before it. `progress_lost_update` shows the other case.

`GraphCacheProofs`: the invariant calls a payload sound for a version when it has
every write up to it or an epoch bump overtook it. It says that a payload on its
way to the cache is sound for what is bumped (`Carried`), that the `viz` entries of the
current epoch and those of an epoch a request is looking in are (`VizSound`,
`VizReadSound`), that the `graph` entries are sound for what is swept, and those a
scan is done with for that writer's version (`GraphSound`, `ScanSound`). The theorems
hold for any number of readers, writers and keys, without the bounds of `TypeOK`.
`TypeCorrect` adds those: there are at most as many bumps, those still to come
counted in, as committed writes (`Answered`, over the set of writers about to bump).

`ChatTurnProofs` instantiates `ProgressProofs` as `ChatTurn` instantiates `Progress`, so
the Progress invariant is a lemma here and is not proved again. To it the invariant
adds that the slot is taken by the one turn that is running (`SlotHasTurn`, `SlotTaken`), from
which `OneGeneration` follows; that the free permits and those held by turns and by others
add up (`PermitsAccounted`, by counting the holders); that a boundary a turn has
resolved, and whatever its history knows, is at most something confirmed
(`Resolved`); and that a turn about to mark its question has stored the answer, and one whose
question failed is over (`Settles`), which gives `CompletedIsAnswered` and, action by action, `StatusIsFinal`.

`UserContentProofs`: `IdentityKept` alone is not inductive, because a revert writes
what a snapshot says, and a snapshot is what some other request had captured. The
invariant (`Mine`) says of every copy of a resource, in the graph, in a request or in
the log, that it has the owner, kind, order and origin it was created with. With it
`NotVisibleBeforeReferences` holds of resources that come back. `LogTellsPresent`
needs that a request's write and its revision are one step, and `StatusIsLastDecision` that
no other write touches a status; then the last commit tells the present, and a revision listed
before it (`ListingTells`) bears a stamp no older, but from before its own commit (`Dated`): the
request of the last commit had read its clock by then and was under way. `OnlyOwnerChanges` is an action
property: whoever passed the check is still the owner or an administrator at the write
(`Authorised`), because the identity of the resource cannot have changed.
`AlwaysDanglesOnlyIfOvertaken`, also of actions, needs that the count of a delete
counts every copy that refers to something (`Counts`, a part of `Mine`), and that what a
request nobody overtook has counted or matched is still so (`QuietInv`).

`GraphReadsProofs`: removed resources keep their order, so what a read has taken is judged
by orders that never change (`Present`), and the seeded ends of structural edges stay
(`Seeded`). `ReadWithin` and `ReplyWithin` say
that what a read has collected, and the graph, neighborhood and walk behind a reply,
are within the boundary. `Current` says that an edge a quiet fetch has collected still has
both ends, and displayed ones unless some relationship has an odd end; with
`FailedForCause` it gives `FailsOnlyIfOvertakenOrOddEnd`.

Four more rest on this invariant. A view in a reply is the projection of the graph in
the same reply (`Served`); so `AlwaysStandsAlone` is about the projections alone, and they
rest on one lemma about cuts (`CutIs`: under a strict order of a finite set,
what has fewer than n in front is all of it or exactly n elements, and `FocusKept`: the
focus, being in front, is among them). A walk knows of every node it has visited the round in which it got there, its
parent one round earlier and the claim that joins them (`Way`, where the rounds are
under a quantifier: no variable has them); that gives `TypeCorrect`, and makes the recursion of
`WayBack` well founded, so that a path in a reply is a chain within the boundary
(`Chained`), from which `AlwaysNothingHidden` follows. While nobody writes, a walk of k rounds has visited what
k hops reach, has read every claim that touches it except those at its frontier, and has not met its
target before (`ExactWalk`); when a round finds nothing new no later one would
(`ReachedEnds`). With the length of the chain this is `AlwaysExact`.

`SessionsProofs`: what a request carries fits what is stored (`Fits`: a token it was
admitted with is one that was issued), and a record that is dead when a request
comes in is dead at every later `$now` of it (`Ages`): tokens never come back and the
clock never goes back. `ServedIsLive` and `SharedWithinConfirmed` follow. `Sessions` has no
type invariant among its run's properties; its theorem `TypeCorrect` states it for every
value of the constants.

Model-checked only: `TurnEnds`, `EventuallyFresh` and `EventuallySwept`, which are
liveness under fairness and outside what the prover does. Every safety invariant and every
action property of a passing run is a theorem; those of `changeset_serial` assume one
client, and `changeset_confirm_twice` shows why. There is no `RECURSIVE` operator in any
module.

What proof attempts found wrong with the models, each confirmed with TLC and corrected:

- `ChangeSet`: with one client, a direct edit did not wait for the locks of the
  client's own transaction, since the guard quantified over the *other* clients; the
  serial run had states in which an edit broke into a transaction.
- `UserContent`: a revert of a reviewed claim restores its `claim_type` with the other fields, and
  with it whether a delete counts the claim.
- `UserContent`: a relationship may refer to relationships and notes, which the count in front of
  a delete does not look at. `DanglesOnlyIfOvertaken` speaks of nodes, as the count does.

## 5. Where code and documentation disagree

With a run:

1. `changeset_confirm_twice`: confirming twice is documented as a no-op; overlapping
   confirms apply twice and log two revisions, one of them unlinked. The same unguarded
   status write lets a draft rejected during its confirm end as applied.
2. `progress_lost_update`: a view-only change is documented never to lower the watched
   order; overlapping a confirmation, it does.
3. `chat_slot_leak`: the slot is documented never to leak; cancelled while waiting for
   the semaphore, it does, and the user is refused until a restart. With `CancelQueued`
   removed, `SlotNeverLeaks` holds in the same state space.
4. `revert_relationship`: reverting a deletion is documented to recreate the resource; a
   custom relationship comes back without its ends, its predicate and its
   `claim_type`, so that no read, edit or delete finds it again.

Met while modelling, without a run of their own:

- A chat message is documented to carry the exact boundary used (`services/chat.py:305`);
  the pipeline resolves a second one (`retrieval/pipeline.py:716`). The models have both,
  and `AnswersWithinConfirmed` holds.
- A projection from before a write is documented never to be served after it
  (`cache/graph_cache.py:45`, `270`); the epoch is read after the fetch (`281`), so it can
  be, until its TTL. `VizStaleOnlyIfOverlapped` is what does hold.
- Edges of users are documented to be left out when an end does not survive the
  filter (`src/docs/API.md:201`). A relationship may end in a node of a label the graph
  does not show; then its edge is not left out but `enforce_graph_closure` fails
  every read at that boundary. This is `OddEnd`, the
  second cause `FailsOnlyIfOvertakenOrOddEnd` admits.
- The ingest of a candidate makes no link from the claim to a Source, which the graph
  fetch wants: candidates are in no graph. The tools' walks want none and do not look
  at the status: they follow candidates, rejected ones included. `FetchClaims` and
  `Rows` differ in this.
- `get_note` runs the list query and ignores its id (`src/docs/API.md:117`,
  `api/user_content.py:98`).
- A ChangeSet with an `update_note` or `delete_note` operation can be proposed and never
  confirmed (`repository/change_set.py:715`): `ConfirmFails`.
- The route that revokes a link says it takes the token, its hash or its id; nothing
  looks a link up by id.
- Revisions are documented to be returned newest first (`src/docs/API.md:286`), and they are, by
  a stamp from before the transaction. Of two requests that overlap, the one that
  committed last may be listed second, so the first entry need not be what the graph
  holds; with requests apart it is. `LogTellsPresent` and `StatusIsLastDecision` say so.

## 6. Not modelled

`PROJECT.json` lists every component with its status.

- What the views `plot_threads`, `character_network` and `full` leave out is defined in
  `Projections`; beyond closure no property speaks of it.
- Of modelled components: the lists, timeline, search and summary tools (one query
  each, no state); sources and evidence and the views that go by them; the Markdown
  export; creating and listing chat sessions; the focus-signature capacity set, which
  bounds memory only; two first upserts of one progress record at the same time, which
  would need a model of Neo4j's `MERGE` without a constraint.
- Small and sequential: the rate limiter around a library, the settings node (whose
  read-merge-write in three transactions can lose an update of one of two
  administrators, `services/settings.py:52`), Google verification, cookies and the
  origin guard.
- Data, text or wiring: prompts and provider HTTP, seeding and the ontology, scripts,
  the application shell, the user interface.
- The frontend hooks, whose late replies are listed as hazards: left for a module of
  their own (below).

## 7. Plan

Done: `ChangeSet` with its lifecycle and proofs, `Progress`, `ChatTurn` over `Progress`,
`GraphCache`, `UserContent` with candidates and reverts, `GraphReads` over `Projections`,
`Sessions`, and proofs for each.

Left, most important first:

1. An abstract specification of `UserContent`: a log from which the current content can
   be told, of which `LogTellsPresent` is the invariant form, and the refinement proved.
2. `Workspace`: `useFetchState`, `useChatMessages` and `useWatchProgress` against replies
   that arrive in any order and after their key has changed.
3. Sources and evidence in `GraphReads`, with the investigation view.
