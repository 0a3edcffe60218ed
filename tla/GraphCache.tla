----------------------------- MODULE GraphCache -----------------------------
(***************************************************************************)
(* The cache-aside layer in front of the graph and visualization reads of  *)
(* one series, and the invalidation that follows every content write.      *)
(*                                                                         *)
(* Each Redis command and each database read is an await, so requests      *)
(* interleave between them.  Any of them may fail: a reader then goes to   *)
(* the database, a writer leaves the rest of its invalidation undone.      *)
(*                                                                         *)
(* Graph content is abstracted to a version, the number of content writes  *)
(* committed; a payload has the version of its oldest database read.       *)
(***************************************************************************)
EXTENDS Integers

CONSTANTS
    Reader,    \* requests that may read at the same time
    Writer,    \* the content writes
    Key,       \* boundary and user scope (and view, for a visualization)
    MaxVersion \* bound: content writes, and so epochs

Version == 0 .. MaxVersion

ASSUME CacheAssumption == MaxVersion \in Nat /\ Key # {}

Kind == {"graph", "viz"}

VARIABLES
    version,   \* of the content in Neo4j
    epoch,     \* graph_revision of the series
    graph,     \* graph:{series}:{key}
    viz,       \* viz:{series}:{key}:{epoch}, one entry for a key and an epoch
    reader,    \* what each request is doing
    served,    \* history: the reply that was given last
    writer,    \* what each content write is doing
    bumped,    \* history: newest version whose invalidation bumped the epoch
    swept      \* history: newest version whose invalidation deleted graph keys

cacheVars == <<epoch, graph, viz>>
historyVars == <<bumped, swept>>
vars == <<version, cacheVars, reader, served, writer, historyVars>>

\* overlapped: an epoch bump fell between the database read and the store.
None == [version |-> -1, overlapped |-> FALSE]
Payload == [version : Version, overlapped : BOOLEAN]
VizEntry == [key : Key, epoch : Version, payload : Payload]

IdleReader == [pc |-> "idle", kind |-> "graph", key |-> CHOOSE k \in Key : TRUE,
               epoch |-> 0, payload |-> None, since |-> 0]
Fresh == [stale |-> FALSE, kind |-> "graph", overlapped |-> FALSE]
IdleWriter == [pc |-> "idle", version |-> 0, todo |-> {}]

Init ==
    /\ version = 0
    /\ epoch = 0
    /\ graph = [k \in Key |-> None]
    /\ viz = {}
    /\ reader = [r \in Reader |-> IdleReader]
    /\ served = Fresh
    /\ writer = [w \in Writer |-> IdleWriter]
    /\ bumped = 0
    /\ swept = 0

-----------------------------------------------------------------------------
(* A read request.                                                         *)

At(r, pc) == reader[r].pc = pc
Goto(r, pc) == reader' = [reader EXCEPT ![r].pc = pc]

Start(r, kind, k) ==
    /\ At(r, "idle")
    /\ reader' = [reader EXCEPT ![r] =
         [IdleReader EXCEPT !.pc = IF kind = "viz" THEN "epoch" ELSE "get",
                            !.kind = kind, !.key = k,
                            !.since = IF kind = "viz" THEN bumped ELSE swept]]
    /\ UNCHANGED <<version, cacheVars, served, writer, historyVars>>

\* _graph_revision, of a get and again of a set
ReadEpoch(r) ==
    /\ reader[r].pc \in {"epoch", "set_epoch"}
    /\ reader' = [reader EXCEPT ![r].epoch = epoch,
                                ![r].pc = IF @ = "epoch" THEN "get" ELSE "set"]
    /\ UNCHANGED <<version, cacheVars, served, writer, historyVars>>

\* The viz key of a request.
Slot(r) == {x \in viz : x.key = reader[r].key /\ x.epoch = reader[r].epoch}

\* A reply is stale when it lacks a write invalidated before its request began.
Reply(r, payload) ==
    served' = IF payload.version < reader[r].since
              THEN [stale |-> TRUE, kind |-> reader[r].kind,
                    overlapped |-> payload.overlapped]
              ELSE Fresh

Hit(r) ==
    /\ At(r, "get")
    /\ \/ /\ reader[r].kind = "graph"
          /\ graph[reader[r].key] # None
          /\ Reply(r, graph[reader[r].key])
       \/ /\ reader[r].kind = "viz"
          /\ \E x \in Slot(r) : Reply(r, x.payload)
    /\ reader' = [reader EXCEPT ![r] = IdleReader]
    /\ UNCHANGED <<version, cacheVars, writer, historyVars>>

\* No entry, or no Redis.
Miss(r) ==
    /\ reader[r].pc \in {"epoch", "get"}
    /\ Goto(r, "fetch")
    /\ UNCHANGED <<version, cacheVars, served, writer, historyVars>>

\* fetch_graph; the store follows.
Fetch(r) ==
    /\ At(r, "fetch")
    /\ LET payload == [version |-> version, overlapped |-> FALSE]
       IN  /\ Reply(r, payload)
           /\ reader' = [reader EXCEPT ![r].payload = payload, ![r].since = 0,
                  ![r].pc = IF reader[r].kind = "viz" THEN "set_epoch" ELSE "set"]
    /\ UNCHANGED <<version, cacheVars, writer, historyVars>>

Set(r) ==
    /\ At(r, "set")
    /\ LET q == reader[r]
       IN  \/ /\ q.kind = "viz"
              /\ viz' = (viz \ Slot(r))
                          \cup {[key |-> q.key, epoch |-> q.epoch, payload |-> q.payload]}
              /\ UNCHANGED graph
           \/ /\ q.kind = "graph"
              /\ graph' = [graph EXCEPT ![q.key] = q.payload]
              /\ UNCHANGED viz
    /\ reader' = [reader EXCEPT ![r] = IdleReader]
    /\ UNCHANGED <<version, epoch, served, writer, historyVars>>

\* A database read fails or the request is cancelled; a store is given up.
Abandon(r) ==
    /\ reader[r].pc \in {"fetch", "set_epoch", "set"}
    /\ reader' = [reader EXCEPT ![r] = IdleReader]
    /\ UNCHANGED <<version, cacheVars, served, writer, historyVars>>

-----------------------------------------------------------------------------
(* A content write: commit, then invalidate_series.                        *)

Commit(w) ==
    /\ writer[w].pc = "idle"
    /\ version < MaxVersion
    /\ version' = version + 1
    /\ writer' = [writer EXCEPT ![w].pc = "bump", ![w].version = version + 1]
    /\ UNCHANGED <<cacheVars, reader, served, historyVars>>

Newest(v, w) == IF v < writer[w].version THEN writer[w].version ELSE v

\* Mutant: the keys are deleted, the epoch stays.
Unbumped == epoch
\* redis.incr
NextEpoch == epoch + 1

\* Mutant: the plain graph keys are not scanned for.
NoGraphKeys == {k \in Key : FALSE}
\* scan_iter goes over the keys there are when it starts.
GraphKeys == {k \in Key : graph[k] # None}
VizKeys == {x.key : x \in viz}

Bump(w) ==
    /\ writer[w].pc = "bump"
    /\ epoch' = NextEpoch
    /\ reader' = [r \in Reader |-> [reader[r] EXCEPT !.payload.overlapped = @ \/
                                      reader[r].pc \in {"set_epoch", "set"}]]
    /\ bumped' = Newest(bumped, w)
    /\ writer' = [writer EXCEPT ![w].pc = "graph", ![w].todo = GraphKeys]
    /\ UNCHANGED <<version, graph, viz, served, swept>>

DeleteGraph(w) ==
    /\ writer[w].pc = "graph"
    /\ \E k \in writer[w].todo :
        /\ graph' = [graph EXCEPT ![k] = None]
        /\ writer' = [writer EXCEPT ![w].todo = @ \ {k}]
    /\ UNCHANGED <<version, epoch, viz, reader, served, historyVars>>

ScanViz(w) ==
    /\ writer[w].pc = "graph"
    /\ writer[w].todo = {}
    /\ swept' = Newest(swept, w)
    /\ writer' = [writer EXCEPT ![w].pc = "viz", ![w].todo = VizKeys]
    /\ UNCHANGED <<version, cacheVars, reader, served, bumped>>

DeleteViz(w) ==
    /\ writer[w].pc = "viz"
    /\ \E k \in writer[w].todo :
        /\ viz' = {x \in viz : x.key # k}
        /\ writer' = [writer EXCEPT ![w].todo = @ \ {k}]
    /\ UNCHANGED <<version, epoch, graph, reader, served, historyVars>>

Invalidated(w) ==
    /\ writer[w].pc = "viz"
    /\ writer[w].todo = {}
    /\ writer' = [writer EXCEPT ![w].pc = "over"]
    /\ UNCHANGED <<version, cacheVars, reader, served, historyVars>>

\* Mutant: the whole invalidation is tried again.
GiveUpRetrying(w) ==
    /\ writer[w].pc \in {"bump", "graph", "viz"}
    /\ writer' = [writer EXCEPT ![w].pc = "bump", ![w].todo = {}]
    /\ UNCHANGED <<version, cacheVars, reader, served, historyVars>>
\* A Redis command fails, or the process dies between commit and invalidation.
GiveUp(w) ==
    /\ writer[w].pc \in {"bump", "graph", "viz"}
    /\ writer' = [writer EXCEPT ![w].pc = "over", ![w].todo = {}]
    /\ UNCHANGED <<version, cacheVars, reader, served, historyVars>>

-----------------------------------------------------------------------------
(* Every entry was stored with a TTL.                                      *)

\* Mutant: the payload is stored with SET, not SETEX.
ExpireNever(k) == FALSE /\ UNCHANGED vars
ExpireGraph(k) ==
    /\ graph[k] # None
    /\ graph' = [graph EXCEPT ![k] = None]
    /\ UNCHANGED <<version, epoch, viz, reader, served, writer, historyVars>>

ExpireViz(k, e) ==
    /\ \E x \in viz : x.key = k /\ x.epoch = e
    /\ viz' = {x \in viz : x.key # k \/ x.epoch # e}
    /\ UNCHANGED <<version, epoch, graph, reader, served, writer, historyVars>>

Read(r) ==
    ReadEpoch(r) \/ Hit(r) \/ Miss(r) \/ Fetch(r) \/ Set(r) \/ Abandon(r)

Next ==
    \/ \E r \in Reader :
        \/ \E kind \in Kind, k \in Key : Start(r, kind, k)
        \/ Read(r)
    \/ \E w \in Writer :
        \/ Commit(w) \/ Bump(w) \/ DeleteGraph(w) \/ ScanViz(w) \/ DeleteViz(w)
        \/ Invalidated(w) \/ GiveUp(w)
    \/ \E k \in Key : ExpireGraph(k) \/ \E e \in Version : ExpireViz(k, e)

\* Requests end, and Redis drops an entry when its time is up.
Fairness ==
    /\ \A r \in Reader : WF_vars(Read(r))
    /\ \A k \in Key : WF_vars(ExpireGraph(k)) /\ \A e \in Version : WF_vars(ExpireViz(k, e))

Spec == Init /\ [][Next]_vars /\ Fairness

-----------------------------------------------------------------------------
(* Properties.                                                             *)

MaybePayload == Payload \cup {None}

\* Every variable has its type.
TypeOK ==
    /\ {version, epoch, bumped, swept} \subseteq Version
    /\ graph \in [Key -> MaybePayload]
    /\ viz \subseteq VizEntry
    /\ reader \in [Reader -> [pc : {"idle", "epoch", "get", "fetch", "set_epoch", "set"},
                              kind : Kind, key : Key, epoch : Version,
                              payload : MaybePayload, since : Version]]
    /\ served \in [stale : BOOLEAN, kind : Kind, overlapped : BOOLEAN]
    /\ writer \in [Writer -> [pc : {"idle", "bump", "graph", "viz", "over"},
                              version : Version, todo : SUBSET Key]]

\* A graph request that starts after a write's keys were deleted is served
\* content without that write only if a fetch in flight across an epoch bump
\* stored it: failures, expiry and other writers never resurrect old content.
GraphStaleOnlyIfOverlapped ==
    served.stale /\ served.kind = "graph" => served.overlapped

\* The same for a visualization request that starts after the epoch bump, whose
\* keys need not have been deleted (D-30).
VizStaleOnlyIfOverlapped ==
    served.stale /\ served.kind = "viz" => served.overlapped

\* Whatever was lost or overlapped, once the writes have stopped the cache comes
\* to hold nothing but the current content: the TTL bounds every staleness.
EventuallyFresh ==
    <>[](/\ \A k \in Key : graph[k] # None => graph[k].version = version
         /\ \A x \in viz : x.epoch = epoch => x.payload.version = version)
=============================================================================
