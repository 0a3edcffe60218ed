------------------------------ MODULE GraphReads ------------------------------
(***************************************************************************)
(* One reader of the graph of a series at its spoiler boundary, while       *)
(* users and the candidate pipeline write: the seven-query graph fetch and  *)
(* its projections, and the retrieval tools' breadth-first walks.           *)
(*                                                                         *)
(* Every query is a transaction of its own (execute_query), so writes may   *)
(* commit between any two queries of a read.  The queries of a fetch run    *)
(* together (asyncio.gather), in any order.                                *)
(*                                                                         *)
(* The boundary of a request is the effective one (Progress); a reply that  *)
(* comes from a cache is GraphCache's.  Sources and evidence go along with  *)
(* their claim and are left out.                                           *)
(***************************************************************************)
EXTENDS Projections, Sequences, Functions

CONSTANTS
    Node,        \* ids of graph nodes, positive
    Claim,       \* ids of claims, positive, which are the ids of their edges as well
    Structure,   \* seeded structural edges; their ends are never removed
    Starts,      \* graphs to start from: [nodes, claims]
    Request,     \* reads that may arrive
    NewNode,     \* custom nodes users may add: [of, item]
    NewClaim,    \* relationships and candidates that may be added: [of, item]
    Window,      \* validity windows an edit may give a candidate: <<from, until>>
    MaxOrder,    \* number of episodes
    MaxHops,     \* MAX_PATH_HOPS
    MaxDepth,    \* MAX_TRAVERSAL_DEPTH
    MaxWrites    \* bound: number of writes

Order == 1 .. MaxOrder

\* The narrative node types, VISIBLE_NODE_LABELS, and every label.
Story == {"Character", "Event", "Location", "Organization", "Object"}
Displayed == Story \cup {"Series", "Episode"}
Label == Displayed \cup {"Source"}

\* A removed node or relationship is absent and keeps its order.
NodeItem == [type : Label \cup {"absent"}, order : 0 .. MaxOrder, episode : Node \cup {0},
             user : BOOLEAN]
\* A window without an end is until MaxOrder.
ClaimItem == [origin : {"canonical", "candidate", "user", "absent"},
              subject : Node, object : Node, type : STRING,
              order : 0 .. MaxOrder, from : Order, until : Order]

Op == {"graph", "view", "path", "hood"}

ASSUME GraphReadsAssumption ==
    /\ Node \subseteq Nat \ {0} /\ IsFiniteSet(Node)
    /\ Claim \subseteq Nat \ {0}
    /\ MaxOrder \in Nat \ {0}
    /\ {MaxHops, MaxDepth} \subseteq Nat \ {0}
    /\ MaxWrites \in Nat
    /\ \A q \in Request : q.op \in Op /\ q.boundary \in Order /\ q.limit \in Nat \ {0}
    /\ \A s \in Starts :
         /\ s.nodes \in [Node -> NodeItem]
         /\ \A n \in Node : s.nodes[n].type # "absent" => s.nodes[n].order \in Order
         /\ DOMAIN s.claims = Claim
         /\ \A c \in Claim :
              /\ s.claims[c] \in ClaimItem
              /\ s.claims[c].origin # "absent" => s.claims[c].order \in Order
         /\ \A e \in Structure : \A n \in {e.source, e.target} :
              n \in Node /\ s.nodes[n].type \in Displayed /\ ~s.nodes[n].user
    /\ \A new \in NewNode : /\ new.of \in Node /\ new.item \in NodeItem
                            /\ new.item.order \in Order
    /\ \A new \in NewClaim : /\ new.of \in Claim /\ new.item \in ClaimItem
                             /\ new.item.order \in Order
    /\ Window \subseteq Order \X Order

VARIABLES
    nodes,    \* story and custom nodes
    claims,   \* canonical and candidate claims, user relationships
    read,     \* the read in progress
    reply,    \* what the last one returned, until the next begins
    writes    \* number of writes so far

vars == <<nodes, claims, read, reply, writes>>

EmptyGraph == [nodes |-> <<>>, edges |-> {}]
NoWalk == [frontier |-> {}, visited |-> {}, parent |-> <<>>, via |-> <<>>, claims |-> {}, depth |-> 0]
NoReply == [outcome |-> "none", q |-> [op |-> "none"], quiet |-> TRUE, g |-> EmptyGraph,
            dto |-> Refused, path |-> <<>>, via |-> <<>>, claims |-> {}]

\* quiet: history, nobody has written since the read began.
Idle == [pc |-> "idle", q |-> [op |-> "none"], todo |-> {}, g |-> EmptyGraph,
         walk |-> NoWalk, quiet |-> TRUE]

Init ==
    /\ \E s \in Starts : nodes = s.nodes /\ claims = s.claims
    /\ read = Idle
    /\ reply = NoReply
    /\ writes = 0

-----------------------------------------------------------------------------
(* What the queries match at boundary b.                                   *)

VisibleAt(n, b) == nodes[n].type # "absent" /\ nodes[n].order <= b

VisibleNodes(types, b) == {n \in Node : nodes[n].type \in types /\ VisibleAt(n, b)}

Ends(c) == {claims[c].subject, claims[c].object}

\* Mutant: only the claim itself is held against the boundary.
EndsPresent(c, b) == \A n \in Ends(c) : nodes[n].type # "absent"

EndsVisible(c, b) == \A n \in Ends(c) : VisibleAt(n, b)

\* visible_claim_where.
VisibleClaim(c, b) ==
    /\ claims[c].origin \in {"canonical", "candidate"}
    /\ claims[c].order <= b
    /\ claims[c].from <= b /\ b <= claims[c].until

EdgeOf(c) ==
    [id |-> c, source |-> claims[c].subject, target |-> claims[c].object,
     type |-> claims[c].type, order |-> claims[c].order]

-----------------------------------------------------------------------------
(* The graph fetch.                                                        *)

Queries == {"nodes", "structure", "claims", "relationships"}

\* read_visible_graph past its cache, get_visualization, get_expansion.
StartFetch(q) ==
    /\ read.pc = "idle"
    /\ q.op \in {"graph", "view"}
    /\ read' = [Idle EXCEPT !.pc = "fetching", !.q = q, !.todo = Queries]
    /\ reply' = NoReply
    /\ UNCHANGED <<nodes, claims, writes>>

Take(query, g) ==
    /\ read.pc = "fetching" /\ query \in read.todo
    /\ read' = [read EXCEPT !.todo = @ \ {query}, !.g = g]
    /\ UNCHANGED <<nodes, claims, reply, writes>>

WithEdges(edges) == [read.g EXCEPT !.edges = @ \cup edges]

\* Mutant: containers are left out, as in the retrieval tools.
FetchStoryNodes ==
    LET b == read.q.boundary IN
    Take("nodes", [read.g EXCEPT
        !.nodes = [n \in VisibleNodes(Story, b) |->
                      [type |-> nodes[n].type, order |-> nodes[n].order,
                       episode |-> nodes[n].episode]]])

\* NODES_QUERY.
FetchNodes ==
    LET b == read.q.boundary IN
    Take("nodes", [read.g EXCEPT
        !.nodes = [n \in VisibleNodes(Displayed, b) |->
                      [type |-> nodes[n].type, order |-> nodes[n].order,
                       episode |-> nodes[n].episode]]])

\* STRUCTURAL_EDGES_QUERY.
FetchStructure ==
    LET b == read.q.boundary IN
    Take("structure",
         WithEdges({e \in Structure : e.order <= b /\ VisibleAt(e.source, b)
                                                  /\ VisibleAt(e.target, b)}))

\* VISIBLE_CLAIMS_QUERY wants the claim's own link to a Source: the seed makes
\* one, the ingest of a candidate does not.
FetchClaims ==
    LET b == read.q.boundary IN
    Take("claims",
         WithEdges({EdgeOf(c) : c \in {d \in Claim : /\ claims[d].origin = "canonical"
                                                     /\ VisibleClaim(d, b) /\ EndsVisible(d, b)}}))

\* VISIBLE_USER_RELATIONSHIPS_QUERY.
FetchRelationships ==
    LET b == read.q.boundary IN
    Take("relationships",
         WithEdges({EdgeOf(c) : c \in {d \in Claim : /\ claims[d].origin = "user"
                                                     /\ claims[d].order <= b /\ EndsVisible(d, b)}}))

Answer(r) ==
    /\ reply' = [NoReply EXCEPT !.q = read.q, !.quiet = read.quiet, !.outcome = r.outcome,
                                !.g = r.g, !.dto = r.dto, !.path = r.path, !.via = r.via,
                                !.claims = r.claims]
    /\ read' = Idle
    /\ UNCHANGED <<nodes, claims, writes>>

\* enforce_graph_closure, then the projection the route asked for.
Assemble ==
    LET g == read.g IN
    /\ read.pc = "fetching" /\ read.todo = {}
    /\ IF \E e \in g.edges : ~EndsIn(DOMAIN g.nodes, e)
       THEN Answer([NoReply EXCEPT !.outcome = "failed"])
       ELSE Answer([NoReply EXCEPT
                      !.outcome = IF read.q.op = "view" THEN "dto" ELSE "graph",
                      !.g = g,
                      !.dto = IF read.q.op = "view" THEN Project(g, read.q) ELSE Refused])

-----------------------------------------------------------------------------
(* find_path and get_neighborhood.                                         *)

StartWalk(q) ==
    /\ read.pc = "idle"
    /\ q.op \in {"path", "hood"}
    /\ read' = [Idle EXCEPT !.pc = "source", !.q = q]
    /\ reply' = NoReply
    /\ UNCHANGED <<nodes, claims, writes>>

Walking(t) ==
    /\ read' = t
    /\ UNCHANGED <<nodes, claims, reply, writes>>

Least(n, m) == IF n < m THEN n ELSE m

\* The clamped max_hops or depth.
Hops(q) == Least(q.limit, IF q.op = "path" THEN MaxHops ELSE MaxDepth)

From(n) == [NoWalk EXCEPT !.frontier = {n}, !.visited = {n},
                          !.parent = [m \in {n} |-> 0], !.via = [m \in {n} |-> 0]]

NotFound == [NoReply EXCEPT !.outcome = read.q.op]

\* get_entity for the source: hidden and missing are the same.
FindSource ==
    LET q == read.q
        walking == [read EXCEPT !.pc = "walking", !.walk = From(q.from)] IN
    /\ read.pc = "source"
    /\ IF q.from \notin VisibleNodes(Story, q.boundary) THEN Answer(NotFound)
       ELSE IF q.op = "hood" THEN Walking(walking)
       ELSE IF q.from = q.to THEN Answer([NotFound EXCEPT !.path = <<q.from>>])
       ELSE Walking([walking EXCEPT !.pc = "target"])

\* get_entity for the target.
FindTarget ==
    /\ read.pc = "target"
    /\ IF read.q.to \notin VisibleNodes(Story, read.q.boundary) THEN Answer(NotFound)
       ELSE Walking([read EXCEPT !.pc = "walking"])

\* Mutant: claims are followed from subject to object only.
RowsOfSubjects(frontier, b) ==
    {c \in Claim : VisibleClaim(c, b) /\ EndsVisible(c, b) /\ claims[c].subject \in frontier}

\* CLAIMS_FOR_FRONTIER_QUERY.
Rows(frontier, b) ==
    {c \in Claim : VisibleClaim(c, b) /\ EndsVisible(c, b) /\ Ends(c) \cap frontier # {}}

\* The rows come by visible_from_order, then id.
First(S) ==
    CHOOSE c \in S : \A d \in S : \/ claims[c].order < claims[d].order
                                  \/ claims[c].order = claims[d].order /\ c <= d

\* Mutant: a round forgets how the earlier ones were reached.
StepForgetting(w, rows) ==
    LET ends == UNION {Ends(c) : c \in rows}
        way(n) == First({c \in rows : n \in Ends(c)}) IN
    [frontier |-> ends \ w.visited,
     visited  |-> w.visited \cup ends,
     via      |-> [n \in ends |-> way(n)],
     parent   |-> [n \in ends |-> CHOOSE m \in Ends(way(n)) : m # n],
     claims   |-> w.claims \cup rows,
     depth    |-> w.depth + 1]

\* One round over the rows not seen before.
Step(w, rows) ==
    LET ends == w.visited \cup UNION {Ends(c) : c \in rows}
        way(n) == First({c \in rows : n \in Ends(c)}) IN
    [frontier |-> ends \ w.visited,
     visited  |-> ends,
     via      |-> [n \in ends |-> IF n \in w.visited THEN w.via[n] ELSE way(n)],
     parent   |-> [n \in ends |-> IF n \in w.visited THEN w.parent[n]
                                  ELSE CHOOSE m \in Ends(way(n)) : m # n],
     claims   |-> w.claims \cup rows,
     depth    |-> w.depth + 1]

\* _walk_visible_claims.
WalkRound ==
    LET q == read.q
        rows == Rows(read.walk.frontier, q.boundary) \ read.walk.claims
        w == Step(read.walk, rows)
        ended == \/ q.op = "path" /\ q.to \in w.visited
                 \/ w.frontier = {}
                 \/ w.depth = Hops(q) IN
    /\ read.pc = "walking"
    /\ IF rows = {} THEN Walking([read EXCEPT !.pc = "walked"])
       ELSE Walking([read EXCEPT !.walk = w, !.pc = IF ended THEN "walked" ELSE @])

\* find_path follows the parents back from the target.
WayBack(w, to) ==
    LET back[n \in w.visited] == IF w.parent[n] = 0 THEN <<n>> ELSE Append(back[w.parent[n]], n)
    IN back[to]

AnswerPath ==
    LET w == read.walk
        path == WayBack(w, read.q.to) IN
    /\ read.pc = "walked" /\ read.q.op = "path"
    /\ IF read.q.to \notin w.visited THEN Answer(NotFound)
       ELSE Answer([NotFound EXCEPT !.path = path,
                                    !.via = [i \in 1 .. Len(path) - 1 |-> w.via[path[i + 1]]]])

\* NODES_BY_IDS_QUERY leaves only story nodes; the claims stay as they were read.
AnswerHood ==
    LET b == read.q.boundary IN
    /\ read.pc = "walked" /\ read.q.op = "hood"
    /\ Answer([NotFound EXCEPT
                 !.g = [EmptyGraph EXCEPT
                          !.nodes = [n \in read.walk.visited \cap VisibleNodes(Story, b) |->
                                        [type |-> nodes[n].type, order |-> nodes[n].order,
                                         episode |-> nodes[n].episode]]],
                 !.claims = read.walk.claims])

-----------------------------------------------------------------------------
(* The writers (UserContent), as far as reads can tell.                    *)

Writes ==
    /\ writes < MaxWrites
    /\ writes' = writes + 1
    /\ read' = [read EXCEPT !.quiet = FALSE]
    /\ UNCHANGED reply

AddNode(new) ==
    /\ nodes[new.of].order = 0
    /\ nodes' = [nodes EXCEPT ![new.of] = new.item]
    /\ Writes
    /\ UNCHANGED claims

RemoveNode(n) ==
    /\ nodes[n].user /\ nodes[n].type # "absent"
    /\ \A c \in Claim : claims[c].origin = "user" => n \notin Ends(c)
    /\ nodes' = [nodes EXCEPT ![n].type = "absent"]
    /\ Writes
    /\ UNCHANGED claims

\* A relationship (user) or a candidate claim, no earlier than its ends.  The
\* queries match any node with the id, whatever its label.
AddClaim(new) ==
    LET ends == {new.item.subject, new.item.object} IN
    /\ claims[new.of].order = 0
    /\ \A n \in ends : nodes[n].type # "absent" /\ nodes[n].order <= new.item.order
    /\ claims' = [claims EXCEPT ![new.of] = new.item]
    /\ Writes
    /\ UNCHANGED nodes

RemoveRelationship(c) ==
    /\ claims[c].origin = "user"
    /\ claims' = [claims EXCEPT ![c].origin = "absent"]
    /\ Writes
    /\ UNCHANGED nodes

\* An edit of a candidate, or a repeated ingest of it.
EditWindow(c, window) ==
    /\ claims[c].origin = "candidate"
    /\ claims' = [claims EXCEPT ![c].from = window[1], ![c].until = window[2]]
    /\ Writes
    /\ UNCHANGED nodes

Next ==
    \/ \E q \in Request : StartFetch(q) \/ StartWalk(q)
    \/ FetchNodes \/ FetchStructure \/ FetchClaims \/ FetchRelationships
    \/ Assemble
    \/ FindSource \/ FindTarget \/ WalkRound \/ AnswerPath \/ AnswerHood
    \/ \E new \in NewNode : AddNode(new)
    \/ \E n \in Node : RemoveNode(n)
    \/ \E new \in NewClaim : AddClaim(new)
    \/ \E c \in Claim : RemoveRelationship(c)
    \/ \E c \in Claim, window \in Window : EditWindow(c, window)

Spec == Init /\ [][Next]_vars

-----------------------------------------------------------------------------
(* Properties.                                                             *)

Pc == {"idle", "fetching", "source", "target", "walking", "walked"}

\* The type invariant: the walk's way back stays defined for all it has visited.
TypeOK ==
    /\ nodes \in [Node -> NodeItem]
    /\ DOMAIN claims = Claim /\ \A c \in Claim : claims[c] \in ClaimItem
    /\ read.pc \in Pc /\ read.todo \subseteq Queries /\ read.quiet \in BOOLEAN
    /\ DOMAIN read.g.nodes \subseteq Node
    /\ read.walk.visited \subseteq Node /\ read.walk.frontier \subseteq read.walk.visited
    /\ read.walk.claims \subseteq Claim
    /\ read.walk.parent \in [read.walk.visited -> Node \cup {0}]
    /\ read.walk.via \in [read.walk.visited -> Claim \cup {0}]
    /\ read.walk.depth \in Nat
    /\ read.pc \in {"walking", "walked"} => read.walk.depth <= Hops(read.q)
    /\ writes \in 0 .. MaxWrites

OrdersWithin(S, b) == \A n \in S : nodes[n].order \in 1 .. b

\* Nothing above the boundary is in a reply: no node or claim, no end of an
\* edge, and nothing in the middle of a path, which no query has read as a node
\* (find_path: "hidden path existence is never revealed").
NothingHidden ==
    LET b == reply.q.boundary
        edges == reply.g.edges
        shown == Range(reply.via) \cup reply.claims IN
    reply.outcome # "none" =>
        /\ OrdersWithin(DOMAIN reply.g.nodes \cup reply.dto.nodes \cup Range(reply.path), b)
        /\ \A e \in edges : e.order <= b /\ OrdersWithin({e.source, e.target}, b)
        /\ \A c \in shown : claims[c].order \in 1 .. b /\ OrdersWithin(Ends(c), b)

\* The visible claims that touch S, and what they reach from n in k hops.
Touching(S, b) ==
    {c \in Claim : /\ VisibleClaim(c, b) /\ EndsVisible(c, b)
                   /\ claims[c].subject \in S \/ claims[c].object \in S}

Reached(n, k, b) ==
    LET within[i \in 0 .. k] ==
            IF i = 0 THEN {n}
            ELSE within[i - 1] \cup UNION {Ends(c) : c \in Touching(within[i - 1], b)}
    IN within[k]

IsChain(path, via) ==
    /\ Len(via) = Len(path) - 1
    /\ IsInjective(path)
    /\ \A i \in DOMAIN via : Ends(via[i]) = {path[i], path[i + 1]}

\* A walk that no write overtook is exact: a path is found whenever there is
\* one within the hops and no shorter one exists, a neighborhood has all that
\* the depth reaches.  An overtaken one still returns a chain of claims from
\* source to target within the hops, never one stitched from loose ends.
WalkIsExact ==
    LET q == reply.q
        b == q.boundary
        k == Hops(q)
        hops == Len(reply.path) - 1
        found == reply.path # <<>>
        story == VisibleNodes(Story, b) IN
    /\ reply.outcome = "path" =>
         /\ found => /\ reply.path[1] = q.from /\ reply.path[hops + 1] = q.to
                     /\ hops <= k
                     /\ IsChain(reply.path, reply.via)
         /\ reply.quiet /\ read.pc = "idle" /\ read.quiet /\ {q.from, q.to} \subseteq story =>
              /\ found <=> q.to \in Reached(q.from, k, b)
              /\ found /\ hops > 0 => q.to \notin Reached(q.from, hops - 1, b)
    /\ reply.outcome = "hood" /\ reply.quiet /\ read.pc = "idle" /\ read.quiet /\ q.from \in story =>
         /\ DOMAIN reply.g.nodes = Reached(q.from, k, b) \cap story
         /\ reply.claims = Touching(Reached(q.from, k - 1, b), b)

\* A relationship or claim within the boundary has an end that is not displayed,
\* whether or not the read returned it.
OddEnd(b) ==
    \E c \in Claim : /\ claims[c].order \in 1 .. b
                     /\ \E n \in Ends(c) : nodes[n].type \notin Displayed

\* The graph is refused as torn only if a write came between its queries or a
\* relationship leads to a label the graph does not show: the four queries,
\* each with its own conditions, agree on what is closed.
FailsOnlyIfOvertakenOrOddEnd ==
    reply.outcome = "failed" => ~reply.quiet \/ OddEnd(reply.q.boundary)

\* A view stands alone and is not refused without reason: of a closed graph
\* only a cap, an unknown focus or an unfit anchor refuses it; the answer graph
\* has its whole focus and leaves a neighbour out only when it is full; an
\* expansion shows its anchor, and no more than its limit.
DtoStandsAlone ==
    LET q == reply.q
        g == reply.g
        dto == reply.dto
        refused == dto = Refused
        of == DOMAIN g.nodes IN
    reply.outcome = "dto" /\ of # {} =>
        /\ dto.nodes \subseteq of /\ dto.edges \subseteq g.edges
        /\ CASE q.view = "graphrag_focus" ->
                  /\ refused <=> FocusRefused(g, q.focus)
                  /\ ~refused =>
                       /\ q.focus \subseteq dto.nodes /\ dto.focus \in q.focus
                       /\ dto.nodes \subseteq q.focus \cup AroundFocus(g, q.focus)
                       /\ \/ AroundFocus(g, q.focus) \subseteq dto.nodes
                          \/ Cardinality(dto.nodes) = FocusMaxNodes
             [] q.view \in DOMAIN NeighbourTypes \cup {"episode_events"} ->
                  /\ ~refused => q.from \in dto.nodes
                  /\ refused <=> \/ q.from \notin of
                                 \/ q.view = "episode_events" /\ g.nodes[q.from].type # "Episode"
                  /\ Cardinality(dto.nodes \ {q.from}) <= q.limit
             [] q.view = "episode_overview" ->
                  LET whole == PlotThreads(g) IN
                  IF \/ Cardinality(whole.nodes) > OverviewMaxNodes
                     \/ Cardinality(whole.edges) > OverviewMaxEdges
                  THEN refused ELSE dto = whole
             [] OTHER -> TRUE

=============================================================================
