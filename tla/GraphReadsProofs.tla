-------------------------- MODULE GraphReadsProofs --------------------------
(***************************************************************************)
(* What module GraphReads keeps for every graph, every request, every order *)
(* of queries and every interleaving of writers: nothing past the boundary *)
(* is gathered or shown; a fetch nobody wrote into is refused only for a   *)
(* relationship to a label that is not shown; every view is the projection *)
(* of what was fetched; a walk knows how it came to where it is, and one   *)
(* that nobody overtook has all there is within its hops, and no more.     *)
(*                                                                         *)
(* The recursive functions (WayBack, Reached) and the cuts of the           *)
(* projections are met without induction over formulas: the set of numbers *)
(* for which a fact fails would have a least one (LeastNat, UpTo).         *)
(***************************************************************************)
EXTENDS GraphReads, FiniteSetTheorems, WellFoundedInduction, TLAPS

\* What is there has an order, also what was removed since.
Present ==
    /\ nodes \in [Node -> NodeItem]
    /\ \A n \in Node : nodes[n].type # "absent" => nodes[n].order \in Order
    /\ DOMAIN claims = Claim
    /\ \A c \in Claim :
         /\ claims[c] \in ClaimItem
         /\ claims[c].origin # "absent" => claims[c].order \in Order

\* Nobody removes the seeded ends of the structural edges.
Seeded ==
    \A e \in Structure : \A n \in {e.source, e.target} :
        n \in Node /\ nodes[n].type \in Displayed /\ ~nodes[n].user

Shaped ==
    /\ DOMAIN read = {"pc", "q", "todo", "g", "walk", "quiet"}
    /\ DOMAIN read.g = {"nodes", "edges"}
    /\ read.pc # "idle" => read.q \in Request

ReplyKnown == reply.outcome # "none" => reply.q.boundary \in Order

Within(S, b) == S \subseteq Node /\ OrdersWithin(S, b)

EdgesWithin(edges, b) ==
    \A e \in edges : e.order <= b /\ Within({e.source, e.target}, b)

ClaimsWithin(S, b) ==
    \A c \in S : c \in Claim /\ claims[c].order \in 1 .. b /\ Within(Ends(c), b)

GraphWithin(g, b) == Within(DOMAIN g.nodes, b) /\ EdgesWithin(g.edges, b)

\* Nothing past the boundary is on its way to a reply, or in one.
ReadWithin ==
    read.pc # "idle" => /\ GraphWithin(read.g, read.q.boundary)
                        /\ Within(read.walk.visited, read.q.boundary)
                        /\ read.walk.frontier \subseteq read.walk.visited
                        /\ ClaimsWithin(read.walk.claims, read.q.boundary)

ReplyWithin ==
    reply.outcome # "none" => /\ GraphWithin(reply.g, reply.q.boundary)
                              /\ ClaimsWithin(reply.claims, reply.q.boundary)

\* OddEnd in a form no later write takes back: the end was there.
OddSeen(b) ==
    \E c \in Claim : /\ claims[c].order \in 1 .. b
                     /\ \E n \in Ends(c) : nodes[n].order # 0 /\ nodes[n].type \notin Displayed

\* Nobody having written, what was fetched is what is there.
Current ==
    read.pc = "fetching" /\ read.quiet =>
        /\ "nodes" \notin read.todo
             => VisibleNodes(Displayed, read.q.boundary) \subseteq DOMAIN read.g.nodes
        /\ \A e \in read.g.edges : \A n \in {e.source, e.target} :
             \/ n \in VisibleNodes(Displayed, read.q.boundary)
             \/ OddSeen(read.q.boundary)

FailedForCause ==
    reply.outcome = "failed" => ~reply.quiet \/ OddSeen(reply.q.boundary)

Inv ==
    /\ Present /\ Seeded /\ Shaped /\ ReplyKnown
    /\ ReadWithin /\ ReplyWithin
    /\ Current /\ FailedForCause

-----------------------------------------------------------------------------
(* Facts about the queries.                                                *)

LEMMA VisibleWithin ==
    ASSUME Present, NEW b \in Order, NEW n \in Node, VisibleAt(n, b)
    PROVE  nodes[n].order \in 1 .. b
BY DEF Present, VisibleAt, Order

LEMMA ClaimEnds ==
    ASSUME Present, NEW c \in Claim
    PROVE  /\ Ends(c) = {claims[c].subject, claims[c].object}
           /\ Ends(c) \subseteq Node
BY DEF Present, ClaimItem, Ends

LEMMA NodesWithin ==
    ASSUME Present, NEW b \in Order, NEW types
    PROVE  Within(VisibleNodes(types, b), b)
BY VisibleWithin DEF VisibleNodes, Within, OrdersWithin

\* A claim with visible ends is within the boundary, and so is its edge.
LEMMA VisibleClaimWithin ==
    ASSUME Present, NEW b \in Order, NEW c \in Claim, claims[c].origin # "absent",
           claims[c].order <= b, EndsVisible(c, b)
    PROVE  /\ claims[c].order \in 1 .. b
           /\ Within(Ends(c), b)
<1>1. claims[c].order \in Order
  BY DEF Present
<1>2. claims[c].order \in 1 .. b
  BY <1>1 DEF Order
<1>3. \A n \in Ends(c) : n \in Node /\ nodes[n].order \in 1 .. b
  BY ClaimEnds, VisibleWithin DEF EndsVisible
<1> QED BY <1>2, <1>3 DEF Within, OrdersWithin

\* Its ends are displayed, or it is the odd one.
LEMMA VisibleClaimShown ==
    ASSUME Present, NEW b \in Order, NEW c \in Claim, claims[c].origin # "absent",
           claims[c].order <= b, EndsVisible(c, b), NEW n \in Ends(c)
    PROVE  n \in VisibleNodes(Displayed, b) \/ OddSeen(b)
<1>1. claims[c].order \in 1 .. b /\ n \in Node /\ nodes[n].order \in 1 .. b
  BY VisibleClaimWithin DEF Within, OrdersWithin
<1>2. VisibleAt(n, b)
  BY DEF EndsVisible
<1>3. CASE nodes[n].type \in Displayed
  BY <1>1, <1>2, <1>3 DEF VisibleNodes
<1>4. CASE nodes[n].type \notin Displayed
  BY <1>1, <1>4 DEF OddSeen
<1> QED BY <1>3, <1>4

LEMMA BoundaryIsOrder ==
    ASSUME Shaped, read.pc # "idle"
    PROVE  read.q.boundary \in Order
BY GraphReadsAssumption DEF Shaped

-----------------------------------------------------------------------------
(* The writers: what has an order keeps it, and its ends.                  *)

Write ==
    \/ \E new \in NewNode : AddNode(new)
    \/ \E n \in Node : RemoveNode(n)
    \/ \E new \in NewClaim : AddClaim(new)
    \/ \E c \in Claim : RemoveRelationship(c)
    \/ \E c \in Claim, window \in Window : EditWindow(c, window)

LEMMA WriteSteps ==
    ASSUME Present, Seeded, Write
    PROVE  /\ Present' /\ Seeded'
           /\ \A n \in Node : nodes[n].order # 0 =>
                /\ nodes'[n].order = nodes[n].order
                /\ nodes[n].type \notin Displayed => nodes'[n].type \notin Displayed
           /\ \A c \in Claim : claims[c].order # 0 =>
                /\ claims'[c].order = claims[c].order
                /\ claims'[c].subject = claims[c].subject
                /\ claims'[c].object = claims[c].object
<1> USE DEF Present
<1>0. "absent" \notin Displayed /\ 0 \notin Order
  BY DEF Displayed, Story, Order
<1>1. ASSUME NEW new \in NewNode, AddNode(new)
      PROVE  /\ Present' /\ Seeded'
             /\ \A n \in Node : nodes[n].order # 0 => nodes'[n] = nodes[n]
             /\ claims' = claims
  <2>1. /\ new.of \in Node /\ new.item \in NodeItem /\ new.item.order \in Order
        /\ nodes[new.of].order = 0 /\ claims' = claims
        /\ nodes' = [nodes EXCEPT ![new.of] = new.item]
    BY <1>1, GraphReadsAssumption DEF AddNode
  <2>2. Present'
    BY <2>1
  <2>3. \A n \in Node : nodes[n].order # 0 => nodes'[n] = nodes[n]
    BY <2>1
  <2>4. \A n \in Node : nodes[n].type \in Displayed => nodes[n].order # 0
    BY <1>0
  <2> QED BY <2>1, <2>2, <2>3, <2>4 DEF Seeded
<1>2. ASSUME NEW m \in Node, RemoveNode(m)
      PROVE  /\ Present' /\ Seeded'
             /\ \A n \in Node : /\ nodes'[n].order = nodes[n].order
                                /\ nodes'[n].type \in {nodes[n].type, "absent"}
             /\ claims' = claims
  <2>1. /\ nodes' = [nodes EXCEPT ![m].type = "absent"] /\ claims' = claims
        /\ nodes[m].user
    BY <1>2 DEF RemoveNode
  <2>2. \A n \in Node : nodes'[n] = IF n = m THEN [nodes[n] EXCEPT !.type = "absent"]
                                             ELSE nodes[n]
    BY <2>1
  <2>3. \A n \in Node : /\ nodes'[n].order = nodes[n].order
                        /\ nodes'[n].type = IF n = m THEN "absent" ELSE nodes[n].type
                        /\ nodes'[n].user = nodes[n].user
                        /\ nodes'[n] \in NodeItem
    BY <2>2 DEF NodeItem
  <2>4. Present'
    BY <2>1, <2>3
  <2>5. Seeded'
    BY <2>1, <2>3 DEF Seeded
  <2> QED BY <2>1, <2>3, <2>4, <2>5
<1>3. ASSUME NEW new \in NewClaim, AddClaim(new)
      PROVE  /\ Present' /\ nodes' = nodes
             /\ \A c \in Claim : claims[c].order # 0 => claims'[c] = claims[c]
  <2>1. /\ new.of \in Claim /\ new.item \in ClaimItem /\ new.item.order \in Order
        /\ claims[new.of].order = 0 /\ nodes' = nodes
        /\ claims' = [claims EXCEPT ![new.of] = new.item]
    BY <1>3, GraphReadsAssumption DEF AddClaim
  <2> QED BY <2>1
<1>4. ASSUME NEW d \in Claim, claims[d].origin # "absent", nodes' = nodes,
             NEW item \in ClaimItem, claims' = [claims EXCEPT ![d] = item],
             item.order = claims[d].order, item.subject = claims[d].subject,
             item.object = claims[d].object
      PROVE  /\ Present' /\ nodes' = nodes
             /\ \A c \in Claim : /\ claims'[c].order = claims[c].order
                                 /\ claims'[c].subject = claims[c].subject
                                 /\ claims'[c].object = claims[c].object
  BY <1>4
<1>5. ASSUME NEW d \in Claim, RemoveRelationship(d)
      PROVE  \E item \in ClaimItem :
                /\ claims' = [claims EXCEPT ![d] = item] /\ claims[d].origin # "absent"
                /\ item.order = claims[d].order /\ item.subject = claims[d].subject
                /\ item.object = claims[d].object /\ nodes' = nodes
  <2>1. claims' = [claims EXCEPT ![d] = [claims[d] EXCEPT !.origin = "absent"]]
    BY <1>5 DEF RemoveRelationship
  <2>2. [claims[d] EXCEPT !.origin = "absent"] \in ClaimItem
    BY DEF ClaimItem
  <2> QED BY <1>5, <2>1, <2>2 DEF RemoveRelationship, ClaimItem
<1>6. ASSUME NEW d \in Claim, NEW window \in Window, EditWindow(d, window)
      PROVE  \E item \in ClaimItem :
                /\ claims' = [claims EXCEPT ![d] = item] /\ claims[d].origin # "absent"
                /\ item.order = claims[d].order /\ item.subject = claims[d].subject
                /\ item.object = claims[d].object /\ nodes' = nodes
  <2> DEFINE item == [claims[d] EXCEPT !.from = window[1], !.until = window[2]]
  <2>1. claims' = [claims EXCEPT ![d] = item]
    BY <1>6 DEF EditWindow
  <2>2. window[1] \in Order /\ window[2] \in Order
    BY GraphReadsAssumption
  <2>3. item \in ClaimItem
    BY <2>2 DEF ClaimItem
  <2>4. /\ item.order = claims[d].order /\ item.subject = claims[d].subject
        /\ item.object = claims[d].object
    BY DEF ClaimItem
  <2>5. claims[d].origin # "absent" /\ nodes' = nodes
    BY <1>6 DEF EditWindow
  <2> HIDE DEF item
  <2> QED BY <2>1, <2>3, <2>4, <2>5
<1> HIDE DEF Present
<1>7. nodes' = nodes => Seeded'
  BY DEF Seeded
<1> QED BY <1>0, <1>1, <1>2, <1>3, <1>4, <1>5, <1>6, <1>7 DEF Write

LEMMA WriteInv ==
    ASSUME Inv, Write
    PROVE  Inv'
<1> USE DEF Inv
<1>1. /\ Present' /\ Seeded'
      /\ \A n \in Node : nodes[n].order # 0 =>
           /\ nodes'[n].order = nodes[n].order
           /\ nodes[n].type \notin Displayed => nodes'[n].type \notin Displayed
      /\ \A c \in Claim : claims[c].order # 0 =>
           /\ claims'[c].order = claims[c].order
           /\ claims'[c].subject = claims[c].subject
           /\ claims'[c].object = claims[c].object
  BY WriteSteps
<1>2. read' = [read EXCEPT !.quiet = FALSE] /\ reply' = reply
  BY DEF Write, AddNode, RemoveNode, AddClaim, RemoveRelationship, EditWindow, Writes
<1>3. /\ read'.pc = read.pc /\ read'.q = read.q /\ read'.g = read.g /\ read'.walk = read.walk
      /\ ~read'.quiet /\ DOMAIN read' = DOMAIN read
  BY <1>2 DEF Shaped
<1>4. ASSUME NEW S, NEW b, b \in Order, Within(S, b)
      PROVE  Within(S, b)'
  BY <1>1, <1>4 DEF Within, OrdersWithin, Order
<1>5. ASSUME NEW S, NEW b, b \in Order, EdgesWithin(S, b)
      PROVE  EdgesWithin(S, b)'
  BY <1>4, <1>5 DEF EdgesWithin
<1>6. ASSUME NEW S, NEW b, b \in Order, ClaimsWithin(S, b)
      PROVE  ClaimsWithin(S, b)'
  <2> SUFFICES ASSUME NEW c \in S
               PROVE  c \in Claim /\ claims'[c].order \in 1 .. b /\ Within(Ends(c), b)'
    BY DEF ClaimsWithin
  <2>1. c \in Claim /\ claims[c].order \in 1 .. b /\ Within(Ends(c), b)
    BY <1>6 DEF ClaimsWithin
  <2>2. claims'[c].order = claims[c].order /\ Ends(c)' = Ends(c)
    BY <1>1, <2>1 DEF Ends
  <2>3. \A n \in Ends(c) : nodes'[n].order = nodes[n].order
    BY <1>1, <2>1 DEF Within, OrdersWithin
  <2> QED BY <2>1, <2>2, <2>3 DEF Within, OrdersWithin
<1>7. ASSUME NEW b, OddSeen(b)
      PROVE  OddSeen(b)'
  <2>1. PICK c \in Claim : /\ claims[c].order \in 1 .. b
                           /\ \E n \in Ends(c) : /\ nodes[n].order # 0
                                                 /\ nodes[n].type \notin Displayed
    BY <1>7 DEF OddSeen
  <2>2. claims'[c].order = claims[c].order /\ Ends(c)' = Ends(c)
    BY <1>1, <2>1 DEF Ends
  <2>3. \A n \in Ends(c) : n \in Node
    BY ClaimEnds
  <2> QED BY <1>1, <2>1, <2>2, <2>3 DEF OddSeen
<1>8. Shaped'
  BY <1>3 DEF Shaped
<1>9. ReadWithin'
  BY <1>3, <1>4, <1>5, <1>6, BoundaryIsOrder DEF ReadWithin, GraphWithin
<1>10. reply.outcome # "none" => reply.q.boundary \in Order
  BY DEF ReplyKnown
<1>11. ReplyWithin'
  BY <1>2, <1>4, <1>5, <1>6, <1>10 DEF ReplyWithin, GraphWithin
<1>12. Current' /\ FailedForCause'
  BY <1>2, <1>3, <1>7 DEF Current, FailedForCause
<1>13. ReplyKnown'
  BY <1>2 DEF ReplyKnown
<1> QED BY <1>1, <1>8, <1>9, <1>11, <1>12, <1>13

-----------------------------------------------------------------------------
(* The reader.  It changes nothing of the graph, so it is enough to look   *)
(* at what it gathers and what it answers.                                 *)

LEMMA ReaderInv ==
    ASSUME Inv, UNCHANGED <<nodes, claims>>, Shaped', ReplyKnown', ReadWithin',
           ReplyWithin', Current', FailedForCause'
    PROVE  Inv'
<1>1. Present' /\ Seeded'
  BY DEF Inv, Present, Seeded
<1> QED BY <1>1 DEF Inv

LEMMA StartInv ==
    ASSUME Inv, NEW q \in Request, NEW t,
           t = [Idle EXCEPT !.pc = "fetching", !.q = q, !.todo = Queries]
             \/ t = [Idle EXCEPT !.pc = "source", !.q = q],
           read' = t, reply' = NoReply, UNCHANGED <<nodes, claims>>
    PROVE  Inv'
<1>1. /\ t.pc \in {"fetching", "source"} /\ t.q = q /\ t.g = EmptyGraph /\ t.walk = NoWalk
      /\ t.pc = "fetching" => t.todo = Queries
      /\ DOMAIN t = {"pc", "q", "todo", "g", "walk", "quiet"}
  BY DEF Idle
<1>2. /\ DOMAIN EmptyGraph = {"nodes", "edges"}
      /\ DOMAIN EmptyGraph.nodes = {} /\ EmptyGraph.edges = {}
      /\ NoWalk.visited = {} /\ NoWalk.frontier = {} /\ NoWalk.claims = {}
  BY DEF EmptyGraph, NoWalk
<1>3. reply'.outcome = "none"
  BY DEF NoReply
<1>4. Shaped' /\ ReplyKnown' /\ ReplyWithin' /\ FailedForCause'
  BY <1>1, <1>2, <1>3 DEF Shaped, ReplyKnown, ReplyWithin, FailedForCause
<1>5. ReadWithin'
  BY <1>1, <1>2 DEF ReadWithin, GraphWithin, Within, OrdersWithin, EdgesWithin, ClaimsWithin
<1>6. Current'
  BY <1>1, <1>2 DEF Current, Queries
<1> QED BY <1>4, <1>5, <1>6, ReaderInv

LEMMA AnswerInv ==
    ASSUME Inv, read.pc # "idle", NEW r, Answer(r),
           GraphWithin(r.g, read.q.boundary), ClaimsWithin(r.claims, read.q.boundary),
           r.outcome = "failed" => ~read.quiet \/ OddSeen(read.q.boundary)
    PROVE  Inv'
<1>1. /\ reply'.q = read.q /\ reply'.quiet = read.quiet /\ reply'.outcome = r.outcome
      /\ reply'.g = r.g /\ reply'.claims = r.claims
  BY DEF Answer, NoReply
<1>2. UNCHANGED <<nodes, claims>> /\ read' = Idle
  BY DEF Answer
<1>3. read.q.boundary \in Order
  BY BoundaryIsOrder DEF Inv
<1>4. /\ DOMAIN read' = {"pc", "q", "todo", "g", "walk", "quiet"} /\ read'.pc = "idle"
      /\ DOMAIN read'.g = {"nodes", "edges"}
  BY <1>2 DEF Idle, EmptyGraph
<1>5. GraphWithin(reply.g, reply.q.boundary)'
  BY <1>1, <1>2 DEF GraphWithin, EdgesWithin, Within, OrdersWithin
<1>6. ClaimsWithin(reply.claims, reply.q.boundary)'
  BY <1>1, <1>2 DEF ClaimsWithin, Within, OrdersWithin, Ends
<1>7. OddSeen(read.q.boundary) => OddSeen(reply.q.boundary)'
  BY <1>1, <1>2 DEF OddSeen, Ends
<1>8. ReplyKnown' /\ ReplyWithin' /\ FailedForCause'
  BY <1>1, <1>3, <1>5, <1>6, <1>7 DEF ReplyKnown, ReplyWithin, FailedForCause
<1>9. Shaped' /\ ReadWithin' /\ Current'
  BY <1>4 DEF Shaped, ReadWithin, Current
<1> QED BY <1>2, <1>8, <1>9, ReaderInv

\* A step of a fetch: the graph grows by what its query matched.
LEMMA TakeInv ==
    ASSUME Inv, NEW query, NEW g, Take(query, g), DOMAIN g = {"nodes", "edges"},
           GraphWithin(g, read.q.boundary),
           "nodes" \notin read.todo \ {query}
             => VisibleNodes(Displayed, read.q.boundary) \subseteq DOMAIN g.nodes
                \/ ~read.quiet,
           \A e \in g.edges : e \in read.g.edges \/ \A n \in {e.source, e.target} :
             n \in VisibleNodes(Displayed, read.q.boundary) \/ OddSeen(read.q.boundary)
    PROVE  Inv'
<1>1. /\ read' = [read EXCEPT !.todo = read.todo \ {query}, !.g = g]
      /\ reply' = reply /\ UNCHANGED <<nodes, claims>> /\ read.pc = "fetching"
  BY DEF Take
<1>2. /\ read'.pc = read.pc /\ read'.q = read.q /\ read'.g = g /\ read'.walk = read.walk
      /\ read'.todo = read.todo \ {query} /\ read'.quiet = read.quiet
      /\ DOMAIN read' = DOMAIN read
  BY <1>1 DEF Inv, Shaped
<1>3. Shaped' /\ ReplyKnown'
  BY <1>1, <1>2 DEF Inv, Shaped, ReplyKnown
<1>4. ReplyWithin' /\ FailedForCause'
  BY <1>1 DEF Inv, ReplyWithin, FailedForCause, GraphWithin, EdgesWithin,
              ClaimsWithin, Within, OrdersWithin, OddSeen, Ends
<1>5. ReadWithin'
  BY <1>1, <1>2 DEF Inv, ReadWithin, GraphWithin, EdgesWithin, ClaimsWithin, Within,
                    OrdersWithin, Ends
<1>6. Current'
  BY <1>1, <1>2 DEF Inv, Current, VisibleNodes, VisibleAt, OddSeen, Ends
<1> QED BY <1>1, <1>3, <1>4, <1>5, <1>6, ReaderInv

\* A step of a walk, which gathers no graph.
LEMMA WalkingInv ==
    ASSUME Inv, read.pc # "idle", NEW t, Walking(t),
           DOMAIN t = DOMAIN read, t.q = read.q, t.g = read.g,
           t.pc \notin {"idle", "fetching"},
           Within(t.walk.visited, read.q.boundary),
           t.walk.frontier \subseteq t.walk.visited,
           ClaimsWithin(t.walk.claims, read.q.boundary)
    PROVE  Inv'
<1>1. read' = t /\ reply' = reply /\ UNCHANGED <<nodes, claims>>
  BY DEF Walking
<1>2. Shaped' /\ ReplyKnown' /\ Current'
  BY <1>1 DEF Inv, Shaped, ReplyKnown, Current
<1>3. ReplyWithin' /\ FailedForCause'
  BY <1>1 DEF Inv, ReplyWithin, FailedForCause, GraphWithin, EdgesWithin,
              ClaimsWithin, Within, OrdersWithin, OddSeen, Ends
<1>4. ReadWithin'
  BY <1>1 DEF Inv, ReadWithin, GraphWithin, EdgesWithin, ClaimsWithin, Within,
              OrdersWithin, Ends
<1> QED BY <1>1, <1>2, <1>3, <1>4, ReaderInv

LEMMA FetchInv ==
    ASSUME Inv, FetchNodes \/ FetchStructure \/ FetchClaims \/ FetchRelationships
    PROVE  Inv'
<1> DEFINE b == read.q.boundary
<1>1. read.pc = "fetching" /\ Present /\ Shaped /\ Seeded
  BY DEF FetchNodes, FetchStructure, FetchClaims, FetchRelationships, Take, Inv
<1>2. b \in Order /\ GraphWithin(read.g, b) /\ DOMAIN read.g = {"nodes", "edges"}
  BY <1>1, BoundaryIsOrder DEF Inv, ReadWithin, Shaped
<1>3. "nodes" \notin read.todo
        => VisibleNodes(Displayed, b) \subseteq DOMAIN read.g.nodes \/ ~read.quiet
  BY <1>1 DEF Inv, Current
<1>4. CASE FetchNodes
  <2> DEFINE shown == [n \in VisibleNodes(Displayed, b) |->
                          [type |-> nodes[n].type, order |-> nodes[n].order,
                           episode |-> nodes[n].episode]]
             g == [read.g EXCEPT !.nodes = shown]
  <2>1. Take("nodes", g)
    BY <1>4 DEF FetchNodes
  <2>2. /\ DOMAIN g = {"nodes", "edges"} /\ g.edges = read.g.edges
        /\ DOMAIN g.nodes = VisibleNodes(Displayed, b)
    BY <1>2
  <2> HIDE DEF g
  <2>3. GraphWithin(g, b)
    BY <1>1, <1>2, <2>2, NodesWithin DEF GraphWithin
  <2> QED BY <2>1, <2>2, <2>3, TakeInv
<1>5. ASSUME NEW query \in {"structure", "claims", "relationships"}, NEW edges,
             Take(query, WithEdges(edges)),
             \A e \in edges : /\ e.order <= b
                              /\ Within({e.source, e.target}, b)
                              /\ \A n \in {e.source, e.target} :
                                   n \in VisibleNodes(Displayed, b) \/ OddSeen(b)
      PROVE  Inv'
  <2> DEFINE g == WithEdges(edges)
  <2>1. /\ DOMAIN g = {"nodes", "edges"} /\ g.edges = read.g.edges \cup edges
        /\ g.nodes = read.g.nodes
    BY <1>2 DEF WithEdges
  <2>2. Take(query, g)
    BY <1>5
  <2> HIDE DEF g
  <2>3. GraphWithin(g, b)
    BY <1>2, <1>5, <2>1 DEF GraphWithin, EdgesWithin
  <2>4. \A e \in g.edges : e \in read.g.edges \/ \A n \in {e.source, e.target} :
             n \in VisibleNodes(Displayed, b) \/ OddSeen(b)
    BY <1>5, <2>1
  <2> QED BY <1>3, <2>1, <2>2, <2>3, <2>4, TakeInv
<1>6. CASE FetchStructure
  <2> DEFINE edges == {e \in Structure : e.order <= b /\ VisibleAt(e.source, b)
                                                      /\ VisibleAt(e.target, b)}
  <2>1. Take("structure", WithEdges(edges))
    BY <1>6 DEF FetchStructure
  <2>2. ASSUME NEW e \in edges, NEW n \in {e.source, e.target}
        PROVE  /\ n \in Node /\ nodes[n].order \in 1 .. b
               /\ n \in VisibleNodes(Displayed, b)
    BY <1>1, <1>2, <2>2, VisibleWithin DEF Seeded, VisibleNodes
  <2>3. \A e \in edges : e.order <= b /\ Within({e.source, e.target}, b)
    BY <2>2 DEF Within, OrdersWithin
  <2> HIDE DEF edges
  <2> QED BY <1>5, <2>1, <2>2, <2>3
<1>7. ASSUME NEW S \in SUBSET Claim,
             \A c \in S : /\ claims[c].origin # "absent" /\ claims[c].order <= b
                          /\ EndsVisible(c, b),
             NEW query \in {"claims", "relationships"},
             Take(query, WithEdges({EdgeOf(c) : c \in S}))
      PROVE  Inv'
  <2>1. ASSUME NEW c \in S
        PROVE  /\ EdgeOf(c).order <= b
               /\ {EdgeOf(c).source, EdgeOf(c).target} = Ends(c)
               /\ Within(Ends(c), b)
               /\ \A n \in Ends(c) : n \in VisibleNodes(Displayed, b) \/ OddSeen(b)
    <3>1. /\ c \in Claim /\ claims[c].origin # "absent" /\ claims[c].order <= b
          /\ EndsVisible(c, b)
      BY <1>7
    <3>2. Within(Ends(c), b)
      BY <1>1, <1>2, <3>1, VisibleClaimWithin
    <3>3. \A n \in Ends(c) : n \in VisibleNodes(Displayed, b) \/ OddSeen(b)
      BY <1>1, <1>2, <3>1, VisibleClaimShown
    <3> QED BY <3>1, <3>2, <3>3 DEF EdgeOf, Ends
  <2> DEFINE edges == {EdgeOf(c) : c \in S}
  <2>2. \A e \in edges : /\ e.order <= b
                         /\ Within({e.source, e.target}, b)
                         /\ \A n \in {e.source, e.target} :
                              n \in VisibleNodes(Displayed, b) \/ OddSeen(b)
    BY <2>1
  <2>3. Take(query, WithEdges(edges))
    BY <1>7
  <2> HIDE DEF edges
  <2> QED BY <1>5, <2>2, <2>3
<1>8. CASE FetchClaims
  <2> DEFINE S == {d \in Claim : /\ claims[d].origin = "canonical"
                                 /\ VisibleClaim(d, b) /\ EndsVisible(d, b)}
  <2>1. Take("claims", WithEdges({EdgeOf(c) : c \in S}))
    BY <1>8 DEF FetchClaims
  <2>2. \A c \in S : /\ claims[c].origin # "absent" /\ claims[c].order <= b
                     /\ EndsVisible(c, b)
    BY DEF VisibleClaim
  <2>3. S \in SUBSET Claim
    OBVIOUS
  <2> HIDE DEF S
  <2> QED BY <1>7, <2>1, <2>2, <2>3
<1>9. CASE FetchRelationships
  <2> DEFINE S == {d \in Claim : /\ claims[d].origin = "user"
                                 /\ claims[d].order <= b /\ EndsVisible(d, b)}
  <2>1. Take("relationships", WithEdges({EdgeOf(c) : c \in S}))
    BY <1>9 DEF FetchRelationships
  <2>2. \A c \in S : /\ claims[c].origin # "absent" /\ claims[c].order <= b
                     /\ EndsVisible(c, b)
    OBVIOUS
  <2>3. S \in SUBSET Claim
    OBVIOUS
  <2> HIDE DEF S
  <2> QED BY <1>7, <2>1, <2>2, <2>3
<1> QED BY <1>4, <1>6, <1>8, <1>9

LEMMA EmptyWithin ==
    ASSUME NEW b
    PROVE  GraphWithin(EmptyGraph, b) /\ ClaimsWithin({}, b)
BY DEF EmptyGraph, GraphWithin, Within, OrdersWithin, EdgesWithin, ClaimsWithin

LEMMA AssembleInv ==
    ASSUME Inv, Assemble
    PROVE  Inv'
<1>1. read.pc = "fetching" /\ read.todo = {}
  BY DEF Assemble
<1>2. CASE \E e \in read.g.edges : ~EndsIn(DOMAIN read.g.nodes, e)
  <2> DEFINE r == [NoReply EXCEPT !.outcome = "failed"]
  <2>1. Answer(r)
    BY <1>2 DEF Assemble
  <2>2. r.g = EmptyGraph /\ r.claims = {}
    BY DEF NoReply
  <2>3. ~read.quiet \/ OddSeen(read.q.boundary)
    BY <1>1, <1>2 DEF EndsIn, Inv, Current
  <2> HIDE DEF r
  <2> QED BY <1>1, <2>1, <2>2, <2>3, EmptyWithin, AnswerInv
<1>3. CASE ~ \E e \in read.g.edges : ~EndsIn(DOMAIN read.g.nodes, e)
  <2> DEFINE r == [NoReply EXCEPT
                     !.outcome = IF read.q.op = "view" THEN "dto" ELSE "graph",
                     !.g = read.g,
                     !.dto = IF read.q.op = "view" THEN Project(read.g, read.q) ELSE Refused]
  <2>1. Answer(r)
    BY <1>3 DEF Assemble
  <2>2. r.g = read.g /\ r.claims = {} /\ r.outcome # "failed"
    BY DEF NoReply
  <2>3. GraphWithin(read.g, read.q.boundary)
    BY <1>1 DEF Inv, ReadWithin
  <2> HIDE DEF r
  <2> QED BY <1>1, <2>1, <2>2, <2>3, EmptyWithin, AnswerInv
<1> QED BY <1>2, <1>3

-----------------------------------------------------------------------------
(* The walks.                                                              *)

LEMMA NothingFound ==
    ASSUME Inv, read.pc # "idle", NEW r, Answer(r),
           r.g = EmptyGraph, r.claims = {}, r.outcome = read.q.op
    PROVE  Inv'
<1>1. read.q.op # "failed"
  BY GraphReadsAssumption DEF Inv, Shaped, Op
<1> QED BY <1>1, EmptyWithin, AnswerInv

LEMMA NotFoundFields ==
    NotFound.g = EmptyGraph /\ NotFound.claims = {} /\ NotFound.outcome = read.q.op
BY DEF NotFound, NoReply

LEMMA FindInv ==
    ASSUME Inv, FindSource \/ FindTarget
    PROVE  Inv'
<1>1. read.pc \in {"source", "target"} /\ Shaped /\ Present
  BY DEF FindSource, FindTarget, Inv
<1>2. read.q.boundary \in Order /\ ReadWithin
  BY <1>1, BoundaryIsOrder DEF Inv
<1>3. CASE Answer(NotFound)
  BY <1>1, <1>3, NotFoundFields, NothingFound
<1>4. CASE Answer([NotFound EXCEPT !.path = <<read.q.from>>])
  <2> DEFINE r == [NotFound EXCEPT !.path = <<read.q.from>>]
  <2>1. r.g = EmptyGraph /\ r.claims = {} /\ r.outcome = read.q.op
    BY DEF NotFound, NoReply
  <2> HIDE DEF r
  <2> QED BY <1>1, <1>4, <2>1, NothingFound DEF r
<1>5. ASSUME NEW pc \in {"walking", "target"},
             read.q.from \in VisibleNodes(Story, read.q.boundary),
             Walking([read EXCEPT !.pc = pc, !.walk = From(read.q.from)])
      PROVE  Inv'
  <2> DEFINE t == [read EXCEPT !.pc = pc, !.walk = From(read.q.from)]
  <2>1. /\ DOMAIN t = DOMAIN read /\ t.q = read.q /\ t.g = read.g /\ t.pc = pc
        /\ t.walk = From(read.q.from)
    BY <1>1 DEF Shaped
  <2>2. /\ From(read.q.from).visited = {read.q.from}
        /\ From(read.q.from).frontier = {read.q.from}
        /\ From(read.q.from).claims = {}
    BY DEF From, NoWalk
  <2>3. Within({read.q.from}, read.q.boundary)
    BY <1>1, <1>2, <1>5, NodesWithin DEF Within, OrdersWithin
  <2>4. Walking(t)
    BY <1>5
  <2> HIDE DEF t
  <2> QED BY <1>1, <2>1, <2>2, <2>3, <2>4, EmptyWithin, WalkingInv
<1>6. CASE FindSource
  <2> DEFINE walking == [read EXCEPT !.pc = "walking", !.walk = From(read.q.from)]
  <2>1. [walking EXCEPT !.pc = "target"]
          = [read EXCEPT !.pc = "target", !.walk = From(read.q.from)]
    BY <1>1 DEF Shaped
  <2> QED BY <1>3, <1>4, <1>5, <1>6, <2>1 DEF FindSource
<1>7. CASE FindTarget
  <2> DEFINE t == [read EXCEPT !.pc = "walking"]
  <2>1. /\ DOMAIN t = DOMAIN read /\ t.q = read.q /\ t.g = read.g /\ t.pc = "walking"
        /\ t.walk = read.walk
    BY <1>1 DEF Shaped
  <2>2. Answer(NotFound) \/ Walking(t)
    BY <1>7 DEF FindTarget
  <2> HIDE DEF t
  <2> QED BY <1>1, <1>2, <1>3, <2>1, <2>2, WalkingInv DEF ReadWithin
<1> QED BY <1>6, <1>7

\* A round only ever adds the ends of visible claims.
LEMMA RoundInv ==
    ASSUME Inv, WalkRound
    PROVE  Inv'
<1> DEFINE b == read.q.boundary
           w == read.walk
           rows == Rows(w.frontier, b) \ w.claims
           ended == \/ read.q.op = "path" /\ read.q.to \in Step(w, rows).visited
                    \/ Step(w, rows).frontier = {}
                    \/ Step(w, rows).depth = Hops(read.q)
           pc == IF ended THEN "walked" ELSE read.pc
           next == [read EXCEPT !.walk = Step(w, rows), !.pc = pc]
           over == [read EXCEPT !.pc = "walked"]
<1>1. read.pc = "walking" /\ Shaped /\ Present
  BY DEF WalkRound, Inv
<1>2. /\ b \in Order /\ Within(w.visited, b) /\ w.frontier \subseteq w.visited
      /\ ClaimsWithin(w.claims, b)
  BY <1>1, BoundaryIsOrder DEF Inv, ReadWithin
<1>3. Walking(over) \/ Walking(next)
  BY DEF WalkRound
<1>4. ASSUME NEW c \in rows
      PROVE  c \in Claim /\ claims[c].order \in 1 .. b /\ Within(Ends(c), b)
  <2>1. c \in Claim /\ VisibleClaim(c, b) /\ EndsVisible(c, b)
    BY DEF Rows
  <2>2. claims[c].origin # "absent" /\ claims[c].order <= b
    BY <2>1 DEF VisibleClaim
  <2> QED BY <1>1, <1>2, <2>1, <2>2, VisibleClaimWithin
<1>5. /\ Step(w, rows).visited = w.visited \cup UNION {Ends(c) : c \in rows}
      /\ Step(w, rows).frontier \subseteq Step(w, rows).visited
      /\ Step(w, rows).claims = w.claims \cup rows
  BY DEF Step
<1>6. /\ over.walk = w /\ over.q = read.q /\ over.g = read.g /\ DOMAIN over = DOMAIN read
      /\ over.pc = "walked"
  BY <1>1 DEF Shaped
<1>7. /\ next.walk = Step(w, rows) /\ next.q = read.q /\ next.g = read.g
      /\ DOMAIN next = DOMAIN read /\ next.pc = pc
  BY <1>1 DEF Shaped
<1>8. pc \in {"walked", "walking"}
  BY <1>1
<1> HIDE DEF rows, pc, next, over
<1>9. Within(Step(w, rows).visited, b) /\ ClaimsWithin(Step(w, rows).claims, b)
  BY <1>2, <1>4, <1>5 DEF Within, OrdersWithin, ClaimsWithin
<1>10. CASE Walking(over)
  BY <1>1, <1>2, <1>6, <1>10, WalkingInv
<1>11. CASE Walking(next)
  BY <1>1, <1>5, <1>7, <1>8, <1>9, <1>11, WalkingInv
<1> QED BY <1>3, <1>10, <1>11

LEMMA AnswerWalkInv ==
    ASSUME Inv, AnswerPath \/ AnswerHood
    PROVE  Inv'
<1>1. read.pc = "walked" /\ Shaped /\ Present /\ ReadWithin
  BY DEF AnswerPath, AnswerHood, Inv
<1>2. CASE AnswerPath
  <2>1. Answer(NotFound) \/ \E path, via : Answer([NotFound EXCEPT !.path = path, !.via = via])
    BY <1>2 DEF AnswerPath
  <2>2. ASSUME NEW path, NEW via, Answer([NotFound EXCEPT !.path = path, !.via = via])
        PROVE  Inv'
    <3> DEFINE r == [NotFound EXCEPT !.path = path, !.via = via]
    <3>1. r.g = EmptyGraph /\ r.claims = {} /\ r.outcome = read.q.op
      BY DEF NotFound, NoReply
    <3>2. Answer(r)
      BY <2>2
    <3> HIDE DEF r
    <3> QED BY <1>1, <3>1, <3>2, NothingFound
  <2> QED BY <1>1, <2>1, <2>2, NotFoundFields, NothingFound
<1>3. CASE AnswerHood
  <2> DEFINE shown == [n \in read.walk.visited \cap VisibleNodes(Story, read.q.boundary) |->
                          [type |-> nodes[n].type, order |-> nodes[n].order,
                           episode |-> nodes[n].episode]]
             g == [EmptyGraph EXCEPT !.nodes = shown]
             r == [NotFound EXCEPT !.g = g, !.claims = read.walk.claims]
  <2>1. Answer(r)
    BY <1>3 DEF AnswerHood
  <2>2. DOMAIN g.nodes \subseteq read.walk.visited /\ g.edges = {}
    BY DEF EmptyGraph
  <2>3. r.g = g /\ r.claims = read.walk.claims /\ r.outcome = read.q.op
    BY DEF NotFound, NoReply
  <2> HIDE DEF g, r
  <2>4. GraphWithin(g, read.q.boundary)
    BY <1>1, <2>2 DEF ReadWithin, GraphWithin, Within, OrdersWithin, EdgesWithin
  <2>5. ClaimsWithin(read.walk.claims, read.q.boundary) /\ read.q.op # "failed"
    BY <1>1, GraphReadsAssumption DEF ReadWithin, Shaped, Op
  <2> QED BY <1>1, <2>1, <2>3, <2>4, <2>5, AnswerInv
<1> QED BY <1>2, <1>3

-----------------------------------------------------------------------------
(* The invariant and the theorems.                                         *)

LEMMA InitInv == Init => Inv
<1> SUFFICES ASSUME Init PROVE Inv
  OBVIOUS
<1>1. PICK s \in Starts : nodes = s.nodes /\ claims = s.claims
  BY DEF Init
<1>2. Present /\ Seeded
  BY <1>1, GraphReadsAssumption DEF Present, Seeded
<1>3. /\ DOMAIN read = {"pc", "q", "todo", "g", "walk", "quiet"} /\ read.pc = "idle"
      /\ DOMAIN read.g = {"nodes", "edges"} /\ reply.outcome = "none"
  BY DEF Init, Idle, EmptyGraph, NoReply
<1> QED BY <1>2, <1>3 DEF Inv, Shaped, ReplyKnown, ReadWithin, ReplyWithin, Current,
                          FailedForCause

LEMMA StepInv == Inv /\ [Next]_vars => Inv'
<1> SUFFICES ASSUME Inv, [Next]_vars PROVE Inv'
  OBVIOUS
<1>1. ASSUME NEW q \in Request, StartFetch(q) \/ StartWalk(q)
      PROVE  Inv'
  BY <1>1, StartInv DEF StartFetch, StartWalk
<1>2. CASE UNCHANGED vars
  BY <1>2 DEF vars, Inv, Present, Seeded, Shaped, ReplyKnown, ReadWithin, ReplyWithin, Current,
              FailedForCause, GraphWithin, EdgesWithin, ClaimsWithin, Within, OrdersWithin,
              OddSeen, Ends, VisibleNodes, VisibleAt
<1> QED BY <1>1, <1>2, FetchInv, AssembleInv, FindInv, RoundInv, AnswerWalkInv, WriteInv
        DEF Next, Write

\* Whatever is read and written, and in whatever order, what a read has gathered
\* and what a reply says was there to be seen.
THEOREM Invariance == Spec => []Inv
BY InitInv, StepInv, PTL DEF Spec

NothingPastBoundary == ReplyWithin /\ ReadWithin

\* Whatever is written meanwhile, a reply of the graph or of a neighborhood, and
\* a walk before it is turned into a path, hold nothing past the boundary.
THEOREM NeverPastBoundary == Spec => []NothingPastBoundary
<1>1. Inv => NothingPastBoundary
  BY DEF Inv, NothingPastBoundary
<1> QED BY <1>1, Invariance, PTL

\* A fetch is refused as torn only if a write came between its queries, or for a
\* relationship with an end the graph does not show.
THEOREM AlwaysFailsForCause == Spec => []FailsOnlyIfOvertakenOrOddEnd
<1>1. Inv => FailsOnlyIfOvertakenOrOddEnd
  BY DEF Inv, FailedForCause, FailsOnlyIfOvertakenOrOddEnd, OddSeen, OddEnd
<1> QED BY <1>1, Invariance, PTL

-----------------------------------------------------------------------------
(* Numbers.                                                                *)

\* A nonempty set of naturals has a least element.
LEMMA LeastNat ==
    ASSUME NEW S \in SUBSET Nat, S # {}
    PROVE  \E n \in S : \A m \in S : n <= m
<1> DEFINE R == OpToRel(<, Nat)
<1>1. \A x, y \in Nat : <<x, y>> \in R <=> x < y
  BY DEF OpToRel
<1>2. IsWellFoundedOn(R, Nat)
  BY NatLessThanWellFounded
<1> HIDE DEF R
<1>3. PICK n \in S : \A m \in S : <<m, n>> \notin R
  BY <1>2, WFMin
<1>4. ASSUME NEW m \in S PROVE n <= m
  <2>1. m \in Nat /\ n \in Nat
    OBVIOUS
  <2>2. ~(m < n)
    BY <1>1, <1>3, <2>1
  <2> QED BY <2>1, <2>2
<1> QED BY <1>4

\* A bounded one has a largest.
LEMMA LargestNat ==
    ASSUME NEW N \in Nat, NEW S \in SUBSET (0 .. N), S # {}
    PROVE  \E n \in S : \A m \in S : m <= n
<1> DEFINE T == {N - n : n \in S}
<1>1. \A n \in S : n \in Nat /\ N - n \in Nat /\ N - n \in T
  OBVIOUS
<1>2. T \in SUBSET Nat /\ T # {}
  BY <1>1
<1>3. PICK t \in T : \A u \in T : t <= u
  BY <1>2, LeastNat
<1>4. PICK n \in S : t = N - n
  OBVIOUS
<1>5. \A m \in S : m <= n
  BY <1>1, <1>3, <1>4
<1> QED BY <1>5

-----------------------------------------------------------------------------
(* The cuts of the projections.                                            *)

\* ahead orders S: what is in front of what.
Orders(ahead, S) ==
    /\ \A x \in S : ahead[x] \subseteq S /\ x \notin ahead[x]
    /\ \A x, y \in S : x = y \/ x \in ahead[y] \/ y \in ahead[x]
    /\ \A x, y, z \in S : x \in ahead[y] /\ y \in ahead[z] => x \in ahead[z]

\* A cut has the bound's size or leaves nothing out, and keeps whatever has
\* fewer than the bound in front.
LEMMA CutIs ==
    ASSUME NEW S, IsFiniteSet(S), NEW n \in Nat, NEW ahead, Orders(ahead, S)
    PROVE  /\ FirstOf(S, n, ahead) \subseteq S
           /\ IsFiniteSet(FirstOf(S, n, ahead))
           /\ Cardinality(FirstOf(S, n, ahead)) <= n
           /\ FirstOf(S, n, ahead) = S \/ Cardinality(FirstOf(S, n, ahead)) = n
<1> DEFINE cut == FirstOf(S, n, ahead)
           left == S \ cut
           rank(x) == Cardinality(ahead[x])
<1>1. \A x \in S : IsFiniteSet(ahead[x]) /\ rank(x) \in Nat
  BY FS_Subset, FS_CardinalityType DEF Orders
<1>2. ASSUME NEW x \in S, NEW y \in S, x \in ahead[y] PROVE rank(x) < rank(y)
  <2>1. ahead[x] \cup {x} \subseteq ahead[y] /\ x \notin ahead[x]
    BY <1>2 DEF Orders
  <2>2. IsFiniteSet(ahead[x] \cup {x}) /\ Cardinality(ahead[x] \cup {x}) = rank(x) + 1
    BY <1>1, <2>1, FS_AddElement
  <2>3. Cardinality(ahead[x] \cup {x}) <= rank(y)
    BY <1>1, <2>1, FS_Subset
  <2> QED BY <1>1, <2>2, <2>3
<1>3. cut \subseteq S /\ \A x \in S : x \in cut <=> rank(x) < n
  BY DEF FirstOf
<1> HIDE DEF cut
<1>4. IsFiniteSet(cut) /\ Cardinality(cut) \in Nat
  BY <1>3, FS_Subset, FS_CardinalityType
<1>5. Cardinality(cut) <= n
  <2>1. CASE cut = {}
    BY <2>1, FS_EmptySet
  <2>2. CASE cut # {}
    <3> DEFINE ranks == {rank(x) : x \in cut}
    <3>1. ranks \in SUBSET (0 .. n) /\ ranks # {}
      BY <1>1, <1>3, <2>2
    <3>2. PICK k \in ranks : \A m \in ranks : m <= k
      BY <3>1, LargestNat
    <3>3. PICK z \in cut : k = rank(z)
      OBVIOUS
    <3>4. \A x \in cut : rank(x) <= rank(z)
      BY <3>2, <3>3
    <3>5. \A x \in cut : x \in ahead[z] \cup {z}
      <4> SUFFICES ASSUME NEW x \in cut, x # z, x \notin ahead[z] PROVE FALSE
        OBVIOUS
      <4>1. z \in ahead[x] /\ x \in S /\ z \in S
        BY <1>3 DEF Orders
      <4>2. rank(z) < rank(x) /\ rank(x) <= rank(z) /\ rank(x) \in Nat /\ rank(z) \in Nat
        BY <1>1, <1>2, <3>4, <4>1
      <4> QED BY <4>2
    <3>6. z \in S /\ z \notin ahead[z] /\ rank(z) < n /\ rank(z) \in Nat
      BY <1>1, <1>3 DEF Orders
    <3>7. /\ IsFiniteSet(ahead[z] \cup {z})
          /\ Cardinality(ahead[z] \cup {z}) = rank(z) + 1
      BY <1>1, <3>6, FS_AddElement
    <3>8. Cardinality(cut) <= rank(z) + 1
      BY <3>5, <3>7, FS_Subset
    <3> QED BY <1>4, <3>6, <3>8
  <2> QED BY <2>1, <2>2
<1>6. ASSUME cut # S PROVE Cardinality(cut) = n
  <2> DEFINE ranks == {rank(x) : x \in left}
  <2>1. ranks \in SUBSET Nat /\ ranks # {}
    BY <1>1, <1>3, <1>6
  <2>2. PICK k \in ranks : \A m \in ranks : k <= m
    BY <2>1, LeastNat
  <2>3. PICK t \in left : k = rank(t)
    OBVIOUS
  <2>4. t \in S /\ rank(t) \in Nat /\ n <= rank(t)
    BY <1>1, <1>3
  <2>5. ahead[t] \subseteq cut
    <3> SUFFICES ASSUME NEW x \in ahead[t], x \notin cut PROVE FALSE
      OBVIOUS
    <3>1. x \in S /\ x \in left
      BY <2>4 DEF Orders
    <3>2. rank(t) <= rank(x) /\ rank(x) < rank(t) /\ rank(x) \in Nat
      BY <1>1, <1>2, <2>2, <2>3, <2>4, <3>1
    <3> QED BY <2>4, <3>2
  <2>6. rank(t) <= Cardinality(cut)
    BY <1>4, <2>5, FS_Subset
  <2> QED BY <1>4, <1>5, <2>4, <2>6
<1> QED BY <1>3, <1>4, <1>5, <1>6 DEF cut

-----------------------------------------------------------------------------
(* What the projections make of a graph.                                   *)

\* A graph whose ids and orders are numbers, as the queries return it.
Numbered(g) == \A n \in DOMAIN g.nodes : n \in Node /\ g.nodes[n].order \in Nat

LEMMA FocusFirstOrders ==
    ASSUME NEW focus \in SUBSET Nat, NEW around \in SUBSET Nat
    PROVE  Orders(FocusFirst(focus, around), focus \cup around)
<1> DEFINE ahead == FocusFirst(focus, around)
           S == focus \cup around
<1>1. \A x \in S : ahead[x] = {y \in S : IF x \in focus THEN y \in focus /\ y < x
                                         ELSE y \in focus \/ y < x}
  BY DEF FocusFirst
<1> HIDE DEF ahead
<1>2. \A x \in S : x \in Nat
  OBVIOUS
<1>3. \A x \in S : ahead[x] \subseteq S /\ x \notin ahead[x]
  BY <1>1, <1>2
<1>4. \A x, y \in S : x = y \/ x \in ahead[y] \/ y \in ahead[x]
  BY <1>1, <1>2
<1>5. \A x, y, z \in S : x \in ahead[y] /\ y \in ahead[z] => x \in ahead[z]
  BY <1>1, <1>2
<1> QED BY <1>3, <1>4, <1>5 DEF ahead, Orders

LEMMA ByOrderOrders ==
    ASSUME NEW g, Numbered(g), NEW S \in SUBSET DOMAIN g.nodes
    PROVE  Orders(ByOrder(g, S), S)
<1> DEFINE ahead == ByOrder(g, S)
<1>1. \A x \in S : ahead[x] = {y \in S : \/ g.nodes[y].order < g.nodes[x].order
                                         \/ g.nodes[y].order = g.nodes[x].order /\ y < x}
  BY DEF ByOrder
<1> HIDE DEF ahead
<1>2. \A x \in S : x \in Nat /\ g.nodes[x].order \in Nat
  BY GraphReadsAssumption DEF Numbered
<1>3. \A x \in S : ahead[x] \subseteq S /\ x \notin ahead[x]
  BY <1>1, <1>2
<1>4. \A x, y \in S : x = y \/ x \in ahead[y] \/ y \in ahead[x]
  BY <1>1, <1>2
<1>5. \A x, y, z \in S : x \in ahead[y] /\ y \in ahead[z] => x \in ahead[z]
  BY <1>1, <1>2
<1> QED BY <1>3, <1>4, <1>5 DEF ahead, Orders

\* The focus is in front of its neighbours, so a bound its size keeps it.
LEMMA FocusKept ==
    ASSUME NEW focus \in SUBSET Nat, IsFiniteSet(focus), NEW around, NEW n \in Nat,
           Cardinality(focus) <= n
    PROVE  focus \subseteq FirstOf(focus \cup around, n, FocusFirst(focus, around))
<1> SUFFICES ASSUME NEW x \in focus
             PROVE  Cardinality(FocusFirst(focus, around)[x]) < n
  BY DEF FirstOf
<1>1. FocusFirst(focus, around)[x] = {y \in focus : y < x}
  BY DEF FocusFirst
<1> DEFINE T == {y \in focus : y < x}
<1>2. T \subseteq focus /\ x \notin T /\ x \in Nat
  OBVIOUS
<1> HIDE DEF T
<1>3. IsFiniteSet(T) /\ Cardinality(T) <= Cardinality(focus) /\ Cardinality(T) # Cardinality(focus)
  BY <1>2, FS_Subset
<1>4. Cardinality(T) \in Nat /\ Cardinality(focus) \in Nat
  BY <1>3, FS_CardinalityType
<1> QED BY <1>1, <1>3, <1>4 DEF T

\* A projection whose edges end in it and whose focus is in it passes the check.
LEMMA CheckedIs ==
    ASSUME NEW nodeset, NEW edges, NEW focus, \A e \in edges : EndsIn(nodeset, e),
           focus = 0 \/ focus \in nodeset
    PROVE  Checked([nodes |-> nodeset, edges |-> edges, focus |-> focus])
             = [nodes |-> nodeset, edges |-> edges, focus |-> focus]
BY DEF Checked

LEMMA AnswerGraphIs ==
    ASSUME NEW g, Numbered(g), NEW focus, ~FocusRefused(g, focus)
    PROVE  LET dto == AnswerGraph(g, focus) IN
           /\ dto # Refused
           /\ dto.nodes \subseteq DOMAIN g.nodes /\ dto.edges \subseteq g.edges
           /\ focus \subseteq dto.nodes /\ dto.focus \in focus
           /\ dto.nodes \subseteq focus \cup AroundFocus(g, focus)
           /\ \/ AroundFocus(g, focus) \subseteq dto.nodes
              \/ Cardinality(dto.nodes) = FocusMaxNodes
<1> DEFINE around == AroundFocus(g, focus)
           S == focus \cup around
           ahead == FocusFirst(focus, around)
           kept == FirstOf(S, FocusMaxNodes, ahead)
           least == LeastOf(focus \cap kept)
<1>1. /\ focus \subseteq DOMAIN g.nodes /\ focus # {} /\ Cardinality(focus) <= FocusMaxIds
      /\ around \subseteq DOMAIN g.nodes
  <2>1. IsFiniteSet(focus)
    BY GraphReadsAssumption, FS_Subset DEF FocusRefused, Numbered
  <2>2. Cardinality(focus) \in Nat /\ FocusMaxIds \in Nat
    BY <2>1, FS_CardinalityType, ProjectionsAssumption
  <2> QED BY <2>2 DEF FocusRefused, AroundFocus, Neighbours
<1>2. S \subseteq Node /\ S \subseteq Nat /\ IsFiniteSet(S) /\ IsFiniteSet(focus)
  <2>1. S \subseteq Node /\ focus \subseteq Node
    BY <1>1 DEF Numbered
  <2>2. IsFiniteSet(S) /\ IsFiniteSet(focus)
    BY <2>1, GraphReadsAssumption, FS_Subset
  <2> QED BY <2>1, <2>2, GraphReadsAssumption
<1>3. FocusMaxNodes \in Nat /\ FocusMaxIds \in Nat /\ FocusMaxIds <= FocusMaxNodes
  BY ProjectionsAssumption
<1>4. Cardinality(focus) <= FocusMaxNodes
  BY <1>1, <1>2, <1>3, FS_CardinalityType
<1>5. focus \subseteq kept
  BY <1>2, <1>3, <1>4, FocusKept
<1>6. Orders(ahead, S)
  BY <1>2, FocusFirstOrders
<1>7. kept \subseteq S /\ (kept = S \/ Cardinality(kept) = FocusMaxNodes)
  <2> HIDE DEF S, ahead
  <2> QED BY <1>2, <1>3, <1>6, CutIs
<1>8. least \in focus
  <2>1. focus \cap kept = focus
    BY <1>5
  <2>2. \E n \in focus : \A m \in focus : n <= m
    BY <1>1, <1>2, LeastNat
  <2> QED BY <2>1, <2>2 DEF LeastOf
<1>9. \A e \in NarrativeEdges(g, kept) : e \in g.edges /\ EndsIn(kept, e)
  BY DEF NarrativeEdges
<1>10. AnswerGraph(g, focus)
         = Checked([nodes |-> kept, edges |-> NarrativeEdges(g, kept), focus |-> least])
  BY DEF AnswerGraph
<1> HIDE DEF kept, least, around
<1>11. AnswerGraph(g, focus) = [nodes |-> kept, edges |-> NarrativeEdges(g, kept), focus |-> least]
  BY <1>5, <1>8, <1>9, <1>10, CheckedIs
<1>12. /\ AnswerGraph(g, focus).nodes = kept /\ AnswerGraph(g, focus).focus = least
       /\ AnswerGraph(g, focus).edges = NarrativeEdges(g, kept)
  BY <1>11
<1>13. AnswerGraph(g, focus) # Refused
  BY <1>1, <1>5, <1>12 DEF Refused
<1> QED BY <1>1, <1>5, <1>7, <1>8, <1>9, <1>12, <1>13 DEF around

LEMMA ExpansionIs ==
    ASSUME NEW g, Numbered(g), NEW anchor, NEW key, NEW limit \in Nat,
           anchor \in DOMAIN g.nodes,
           key = "episode_events" => g.nodes[anchor].type = "Episode"
    PROVE  LET dto == Expansion(g, anchor, key, limit) IN
           /\ dto # Refused
           /\ dto.nodes \subseteq DOMAIN g.nodes /\ dto.edges \subseteq g.edges
           /\ anchor \in dto.nodes
           /\ Cardinality(dto.nodes \ {anchor}) <= limit
<1> DEFINE additions == Additions(g, anchor, key)
           cut == FirstOf(additions, limit, ByOrder(g, additions))
           kept == {anchor} \cup cut
           edges == {e \in g.edges : /\ EndsIn(kept, e)
                                     /\ key # "episode_events" => e.type \in NeighbourTypes[key]}
<1>1. additions \subseteq DOMAIN g.nodes
  BY DEF Additions, OfType
<1>2. IsFiniteSet(additions)
  BY <1>1, GraphReadsAssumption, FS_Subset DEF Numbered
<1>3. cut \subseteq additions /\ IsFiniteSet(cut) /\ Cardinality(cut) <= limit
  <2> DEFINE ahead == ByOrder(g, additions)
  <2> HIDE DEF additions
  <2>1. Orders(ahead, additions)
    BY <1>1, ByOrderOrders
  <2> HIDE DEF ahead
  <2>2. /\ FirstOf(additions, limit, ahead) \subseteq additions
        /\ IsFiniteSet(FirstOf(additions, limit, ahead))
        /\ Cardinality(FirstOf(additions, limit, ahead)) <= limit
    BY <1>2, <2>1, CutIs
  <2> QED BY <2>2 DEF ahead
<1>4. Expansion(g, anchor, key, limit) = Checked([nodes |-> kept, edges |-> edges, focus |-> 0])
  BY DEF Expansion
<1>5. \A e \in edges : e \in g.edges /\ EndsIn(kept, e)
  OBVIOUS
<1> HIDE DEF edges, cut, additions
<1>6. Cardinality(kept \ {anchor}) <= limit
  <2>1. kept \ {anchor} \subseteq cut
    OBVIOUS
  <2>2. Cardinality(kept \ {anchor}) <= Cardinality(cut) /\ IsFiniteSet(kept \ {anchor})
    BY <1>3, <2>1, FS_Subset
  <2> QED BY <1>3, <2>2, FS_CardinalityType
<1>7. kept \subseteq DOMAIN g.nodes /\ anchor \in kept
  BY <1>1, <1>3
<1> HIDE DEF kept
<1>8. Expansion(g, anchor, key, limit) = [nodes |-> kept, edges |-> edges, focus |-> 0]
  BY <1>4, <1>5, CheckedIs
<1>9. /\ Expansion(g, anchor, key, limit).nodes = kept
      /\ Expansion(g, anchor, key, limit).edges = edges
  BY <1>8
<1>10. Expansion(g, anchor, key, limit) # Refused
  BY <1>7, <1>9 DEF Refused
<1> QED BY <1>5, <1>6, <1>7, <1>9, <1>10

LEMMA RefusedIs == Refused.nodes = {} /\ Refused.edges = {} /\ Refused.focus = 0
BY DEF Refused

LEMMA CheckedWithin ==
    ASSUME NEW nodeset, NEW edges, NEW focus
    PROVE  /\ Checked([nodes |-> nodeset, edges |-> edges, focus |-> focus]).nodes \subseteq nodeset
           /\ Checked([nodes |-> nodeset, edges |-> edges, focus |-> focus]).edges \subseteq edges
BY RefusedIs DEF Checked

LEMMA NarrativeWithin ==
    ASSUME NEW g, NEW types
    PROVE  /\ Narrative(g, types).nodes \subseteq DOMAIN g.nodes
           /\ Narrative(g, types).edges \subseteq g.edges
<1> DEFINE kept == OfType(g, types)
           edges == NarrativeEdges(g, kept)
<1>1. kept \subseteq DOMAIN g.nodes /\ edges \subseteq g.edges
  BY DEF OfType, NarrativeEdges
<1>2. Narrative(g, types) = Checked([nodes |-> kept, edges |-> edges, focus |-> 0])
  BY DEF Narrative
<1> HIDE DEF kept, edges
<1> QED BY <1>1, <1>2, CheckedWithin

\* No projection shows what the graph does not hold.
LEMMA ProjectWithin ==
    ASSUME NEW g, Numbered(g), NEW q, q.limit \in Nat
    PROVE  /\ Project(g, q).nodes \subseteq DOMAIN g.nodes
           /\ Project(g, q).edges \subseteq g.edges
<1>1. CASE q.view = "episode_overview"
  <2>1. Project(g, q) \in {Refused, PlotThreads(g)}
    BY <1>1 DEF Project, Overview, PlotThreads
  <2> QED BY <2>1, RefusedIs, NarrativeWithin DEF PlotThreads
<1>2. CASE q.view \in {"character_network", "plot_threads"}
  BY <1>2, NarrativeWithin DEF Project, CharacterNetwork, PlotThreads
<1>3. CASE q.view = "full"
  BY <1>3, CheckedWithin DEF Project, Full
<1>4. CASE q.view = "graphrag_focus"
  <2>1. Project(g, q) = AnswerGraph(g, q.focus)
    BY <1>4 DEF Project
  <2>2. FocusRefused(g, q.focus) => Project(g, q) = Refused
    BY <2>1 DEF AnswerGraph
  <2>3. ~FocusRefused(g, q.focus) => /\ Project(g, q).nodes \subseteq DOMAIN g.nodes
                                     /\ Project(g, q).edges \subseteq g.edges
    BY <2>1, AnswerGraphIs
  <2> QED BY <2>2, <2>3, RefusedIs
<1>5. CASE q.view \notin {"episode_overview", "character_network", "plot_threads", "full",
                          "graphrag_focus"}
  <2>1. Project(g, q) = Expansion(g, q.from, q.view, q.limit)
    BY <1>5 DEF Project
  <2>2. CASE \/ q.from \notin DOMAIN g.nodes
             \/ q.view = "episode_events" /\ g.nodes[q.from].type # "Episode"
    <3>1. Project(g, q) = Refused
      BY <2>1, <2>2 DEF Expansion
    <3> QED BY <3>1, RefusedIs
  <2>3. CASE ~ \/ q.from \notin DOMAIN g.nodes
               \/ q.view = "episode_events" /\ g.nodes[q.from].type # "Episode"
    <3>1. /\ q.from \in DOMAIN g.nodes
          /\ q.view = "episode_events" => g.nodes[q.from].type = "Episode"
      BY <2>3
    <3>2. /\ Expansion(g, q.from, q.view, q.limit).nodes \subseteq DOMAIN g.nodes
          /\ Expansion(g, q.from, q.view, q.limit).edges \subseteq g.edges
      BY <3>1, ExpansionIs
    <3> QED BY <2>1, <3>2
  <2> QED BY <2>2, <2>3
<1> QED BY <1>1, <1>2, <1>3, <1>4, <1>5

-----------------------------------------------------------------------------
(* Every DTO is the projection of the graph that was fetched for it.       *)

Served ==
    /\ read.pc = "fetching" => Numbered(read.g)
    /\ reply.outcome = "dto" => /\ reply.q \in Request /\ Numbered(reply.g)
                                /\ reply.dto = Project(reply.g, reply.q)
    /\ reply.outcome # "dto" => reply.dto = Refused

LEMMA InitServed == Init => Served
<1>1. NoReply.outcome = "none" /\ NoReply.dto = Refused /\ Idle.pc = "idle"
  BY DEF NoReply, Idle
<1> QED BY <1>1 DEF Init, Served

\* An answer without a projection.
LEMMA AnswerServed ==
    ASSUME NEW r, Answer(r), r.dto = Refused, r.outcome # "dto"
    PROVE  Served'
<1>1. reply'.dto = Refused /\ reply'.outcome # "dto" /\ read'.pc = "idle"
  BY DEF Answer, NoReply, Idle
<1> QED BY <1>1 DEF Served

LEMMA FetchServed ==
    ASSUME Inv, Served, FetchNodes \/ FetchStructure \/ FetchClaims \/ FetchRelationships
    PROVE  Served'
<1>1. read.pc = "fetching" /\ reply' = reply
  BY DEF FetchNodes, FetchStructure, FetchClaims, FetchRelationships, Take
<1>2. /\ DOMAIN read = {"pc", "q", "todo", "g", "walk", "quiet"}
      /\ DOMAIN read.g = {"nodes", "edges"} /\ Numbered(read.g)
  BY <1>1 DEF Inv, Shaped, Served
<1>3. PICK query, g : Take(query, g) /\ Numbered(g)
  <2>1. CASE FetchNodes
    <3> DEFINE shown == [n \in VisibleNodes(Displayed, read.q.boundary) |->
                            [type |-> nodes[n].type, order |-> nodes[n].order,
                             episode |-> nodes[n].episode]]
               g == [read.g EXCEPT !.nodes = shown]
    <3>1. Take("nodes", g)
      BY <2>1 DEF FetchNodes
    <3>2. g.nodes = shown
      BY <1>2
    <3>3. \A n \in Node : nodes[n].order \in Nat
      BY GraphReadsAssumption DEF Inv, Present, NodeItem
    <3>4. DOMAIN shown \subseteq Node /\ \A n \in DOMAIN shown : shown[n].order = nodes[n].order
      BY DEF VisibleNodes
    <3> HIDE DEF g, shown
    <3>5. Numbered(g)
      BY <3>2, <3>3, <3>4 DEF Numbered
    <3> QED BY <3>1, <3>5
  <2>2. CASE FetchStructure \/ FetchClaims \/ FetchRelationships
    <3>1. PICK query, edges : Take(query, WithEdges(edges))
      BY <2>2 DEF FetchStructure, FetchClaims, FetchRelationships
    <3>2. WithEdges(edges).nodes = read.g.nodes
      BY <1>2 DEF WithEdges
    <3> QED BY <1>2, <3>1, <3>2 DEF Numbered
  <2> QED BY <2>1, <2>2
<1>4. read'.g = g
  BY <1>2, <1>3 DEF Take
<1> QED BY <1>1, <1>3, <1>4 DEF Served, Numbered

LEMMA AssembleServed ==
    ASSUME Inv, Served, Assemble
    PROVE  Served'
<1>1. read.pc = "fetching" /\ read.q \in Request /\ Numbered(read.g)
  BY DEF Assemble, Inv, Shaped, Served
<1>2. ASSUME Answer([NoReply EXCEPT !.outcome = "failed"]) PROVE Served'
  <2> DEFINE r == [NoReply EXCEPT !.outcome = "failed"]
  <2>1. r.dto = Refused /\ r.outcome = "failed"
    BY DEF NoReply
  <2> QED BY <1>2, <2>1, AnswerServed
<1>3. ASSUME Answer([NoReply EXCEPT
                       !.outcome = IF read.q.op = "view" THEN "dto" ELSE "graph",
                       !.g = read.g,
                       !.dto = IF read.q.op = "view" THEN Project(read.g, read.q) ELSE Refused])
      PROVE  Served'
  <2> DEFINE dto == Project(read.g, read.q)
  <2>1. /\ reply'.outcome = IF read.q.op = "view" THEN "dto" ELSE "graph"
        /\ reply'.dto = IF read.q.op = "view" THEN dto ELSE Refused
        /\ reply'.g = read.g /\ reply'.q = read.q /\ read'.pc = "idle"
    <3> HIDE DEF dto
    <3> QED BY <1>3 DEF Answer, NoReply, Idle, dto
  <2>2. read.q.op = "view" => reply'.dto = Project(reply'.g, reply'.q)
    BY <2>1
  <2>3. Numbered(reply'.g) /\ reply'.q \in Request
    BY <1>1, <2>1
  <2> QED BY <2>1, <2>2, <2>3 DEF Served, Numbered
<1> QED BY <1>2, <1>3 DEF Assemble

\* What a step of a walk does: it goes on, or it is answered.
Goes(pc, walk) ==
    /\ UNCHANGED <<nodes, claims, reply, writes>>
    /\ read'.pc = pc /\ read'.walk = walk /\ read'.q = read.q /\ read'.quiet = read.quiet
    /\ read'.todo = read.todo

Replies(path, via, g, shown) ==
    /\ UNCHANGED <<nodes, claims, writes>> /\ read' = Idle
    /\ reply'.outcome = read.q.op /\ reply'.q = read.q /\ reply'.quiet = read.quiet
    /\ reply'.dto = Refused /\ reply'.path = path /\ reply'.via = via
    /\ reply'.g = g /\ reply'.claims = shown

LEMMA RepliesIs ==
    /\ Answer(NotFound) => Replies(<<>>, <<>>, EmptyGraph, {})
    /\ \A path : Answer([NotFound EXCEPT !.path = path])
                   => Replies(path, <<>>, EmptyGraph, {})
    /\ \A path, via : Answer([NotFound EXCEPT !.path = path, !.via = via])
                        => Replies(path, via, EmptyGraph, {})
    /\ \A g, S : Answer([NotFound EXCEPT !.g = g, !.claims = S])
                   => Replies(<<>>, <<>>, g, S)
<1> DEFINE Says(r, path, via, g, S) ==
             /\ r.outcome = read.q.op /\ r.dto = Refused /\ r.path = path /\ r.via = via
             /\ r.g = g /\ r.claims = S
<1>1. ASSUME NEW r, NEW path, NEW via, NEW g, NEW S, Answer(r), Says(r, path, via, g, S)
      PROVE  Replies(path, via, g, S)
  <2>1. /\ reply'.outcome = r.outcome /\ reply'.q = read.q /\ reply'.quiet = read.quiet
        /\ reply'.dto = r.dto /\ reply'.path = r.path /\ reply'.via = r.via
        /\ reply'.g = r.g /\ reply'.claims = r.claims
    BY <1>1 DEF Answer, NoReply
  <2> QED BY <1>1, <2>1 DEF Answer, Replies
<1>2. Says(NotFound, <<>>, <<>>, EmptyGraph, {})
  BY DEF NotFound, NoReply
<1>3. ASSUME NEW path PROVE Says([NotFound EXCEPT !.path = path], path, <<>>, EmptyGraph, {})
  BY DEF NotFound, NoReply
<1>4. ASSUME NEW path, NEW via
      PROVE  Says([NotFound EXCEPT !.path = path, !.via = via], path, via, EmptyGraph, {})
  BY DEF NotFound, NoReply
<1>5. ASSUME NEW g, NEW S
      PROVE  Says([NotFound EXCEPT !.g = g, !.claims = S], <<>>, <<>>, g, S)
  BY DEF NotFound, NoReply
<1> HIDE DEF Says
<1> QED BY <1>1, <1>2, <1>3, <1>4, <1>5

LEMMA GoesIs ==
    ASSUME Shaped
    PROVE  /\ \A pc : Walking([read EXCEPT !.pc = pc]) => Goes(pc, read.walk)
           /\ \A pc, w : Walking([read EXCEPT !.pc = pc, !.walk = w]) => Goes(pc, w)
           /\ \A pc, w : Walking([[read EXCEPT !.pc = "walking", !.walk = w] EXCEPT !.pc = pc])
                            => Goes(pc, w)
           /\ \A pc, w : Walking([read EXCEPT !.walk = w, !.pc = pc]) => Goes(pc, w)
BY DEF Walking, Goes, Shaped

LEMMA FindSourceIs ==
    ASSUME Shaped, FindSource
    PROVE  LET q == read.q
               story == VisibleNodes(Story, q.boundary) IN
           /\ read.pc = "source"
           /\ \/ q.from \notin story /\ Replies(<<>>, <<>>, EmptyGraph, {})
              \/ q.from \in story /\ q.op # "hood" /\ q.from = q.to
                    /\ Replies(<<q.from>>, <<>>, EmptyGraph, {})
              \/ q.from \in story /\ q.op = "hood" /\ Goes("walking", From(q.from))
              \/ q.from \in story /\ q.op # "hood" /\ q.from # q.to
                    /\ Goes("target", From(q.from))
<1> DEFINE q == read.q
           story == VisibleNodes(Story, q.boundary)
           w == From(q.from)
<1>1. read.pc = "source"
  BY DEF FindSource
<1>2. \/ q.from \notin story /\ Answer(NotFound)
      \/ q.from \in story /\ q.op # "hood" /\ q.from = q.to
            /\ Answer([NotFound EXCEPT !.path = <<q.from>>])
      \/ q.from \in story /\ q.op = "hood"
            /\ Walking([read EXCEPT !.pc = "walking", !.walk = w])
      \/ q.from \in story /\ q.op # "hood" /\ q.from # q.to
            /\ Walking([[read EXCEPT !.pc = "walking", !.walk = w] EXCEPT !.pc = "target"])
  BY DEF FindSource
<1> HIDE DEF story, w
<1>3. Answer([NotFound EXCEPT !.path = <<q.from>>])
        => Replies(<<q.from>>, <<>>, EmptyGraph, {})
  BY RepliesIs
<1>4. /\ Walking([read EXCEPT !.pc = "walking", !.walk = w]) => Goes("walking", w)
      /\ Walking([[read EXCEPT !.pc = "walking", !.walk = w] EXCEPT !.pc = "target"])
            => Goes("target", w)
  BY GoesIs, Zenon
<1> QED BY <1>1, <1>2, <1>3, <1>4, RepliesIs DEF story, w

LEMMA FindTargetIs ==
    ASSUME Shaped, FindTarget
    PROVE  /\ read.pc = "target"
           /\ \/ /\ read.q.to \notin VisibleNodes(Story, read.q.boundary)
                 /\ Replies(<<>>, <<>>, EmptyGraph, {})
              \/ Goes("walking", read.walk)
BY RepliesIs, GoesIs DEF FindTarget

LEMMA WalkRoundIs ==
    ASSUME Shaped, WalkRound
    PROVE  LET q == read.q
               rows == Rows(read.walk.frontier, q.boundary) \ read.walk.claims
               w == Step(read.walk, rows) IN
           /\ read.pc = "walking"
           /\ \/ rows = {} /\ Goes("walked", read.walk)
              \/ rows # {} /\ Goes("walked", w)
                    /\ \/ q.op = "path" /\ q.to \in w.visited
                       \/ w.frontier = {}
                       \/ w.depth = Hops(q)
              \/ rows # {} /\ Goes("walking", w)
                    /\ ~(q.op = "path" /\ q.to \in w.visited) /\ w.frontier # {}
                    /\ w.depth # Hops(q)
<1> DEFINE q == read.q
           rows == Rows(read.walk.frontier, q.boundary) \ read.walk.claims
           w == Step(read.walk, rows)
           ended == \/ q.op = "path" /\ q.to \in w.visited
                    \/ w.frontier = {}
                    \/ w.depth = Hops(q)
           pc == IF ended THEN "walked" ELSE read.pc
<1>1. /\ read.pc = "walking"
      /\ \/ rows = {} /\ Walking([read EXCEPT !.pc = "walked"])
         \/ rows # {} /\ Walking([read EXCEPT !.walk = w, !.pc = pc])
  BY DEF WalkRound
<1>2. \/ ended /\ pc = "walked"
      \/ ~ended /\ pc = "walking"
  BY <1>1
<1> HIDE DEF pc, rows, w
<1>3. /\ Walking([read EXCEPT !.pc = "walked"]) => Goes("walked", read.walk)
      /\ Walking([read EXCEPT !.walk = w, !.pc = pc]) => Goes(pc, w)
  BY GoesIs, Zenon
<1> QED BY <1>1, <1>2, <1>3 DEF w, rows

LEMMA AnswerPathIs ==
    ASSUME AnswerPath
    PROVE  LET w == read.walk
               path == WayBack(w, read.q.to) IN
           /\ read.pc = "walked" /\ read.q.op = "path"
           /\ \/ read.q.to \notin w.visited /\ Replies(<<>>, <<>>, EmptyGraph, {})
              \/ read.q.to \in w.visited
                    /\ Replies(path, [i \in 1 .. Len(path) - 1 |-> w.via[path[i + 1]]],
                               EmptyGraph, {})
<1> DEFINE w == read.walk
           path == WayBack(w, read.q.to)
           via == [i \in 1 .. Len(path) - 1 |-> w.via[path[i + 1]]]
<1>1. /\ read.pc = "walked" /\ read.q.op = "path"
      /\ \/ read.q.to \notin w.visited /\ Answer(NotFound)
         \/ read.q.to \in w.visited /\ Answer([NotFound EXCEPT !.path = path, !.via = via])
  BY DEF AnswerPath
<1> HIDE DEF path, via
<1>2. Answer([NotFound EXCEPT !.path = path, !.via = via])
        => Replies(path, via, EmptyGraph, {})
  BY RepliesIs
<1> QED BY <1>1, <1>2, RepliesIs DEF path, via

LEMMA AnswerHoodIs ==
    ASSUME AnswerHood
    PROVE  LET shown == read.walk.visited \cap VisibleNodes(Story, read.q.boundary) IN
           /\ read.pc = "walked" /\ read.q.op = "hood"
           /\ \E g : DOMAIN g.nodes = shown /\ g.edges = {}
                     /\ Replies(<<>>, <<>>, g, read.walk.claims)
<1> DEFINE shown == [n \in read.walk.visited \cap VisibleNodes(Story, read.q.boundary) |->
                        [type |-> nodes[n].type, order |-> nodes[n].order,
                         episode |-> nodes[n].episode]]
           g == [EmptyGraph EXCEPT !.nodes = shown]
<1>1. /\ read.pc = "walked" /\ read.q.op = "hood"
      /\ Answer([NotFound EXCEPT !.g = g, !.claims = read.walk.claims])
  BY DEF AnswerHood
<1>2. /\ DOMAIN g.nodes = read.walk.visited \cap VisibleNodes(Story, read.q.boundary)
      /\ g.edges = {}
  BY DEF EmptyGraph
<1> HIDE DEF g
<1>3. Replies(<<>>, <<>>, g, read.walk.claims)
  BY <1>1, RepliesIs
<1> QED BY <1>1, <1>2, <1>3

LEMMA WalkServed ==
    ASSUME Inv, Served, FindSource \/ FindTarget \/ WalkRound \/ AnswerPath \/ AnswerHood
    PROVE  Served'
<1>1. Shaped /\ (read.pc # "idle" => read.q.op # "dto")
  BY GraphReadsAssumption DEF Inv, Shaped, Op
<1>2. ASSUME NEW pc \in {"target", "walking", "walked"}, NEW w, Goes(pc, w) PROVE Served'
  BY <1>2 DEF Goes, Served, Numbered
<1>3. ASSUME read.pc # "idle", NEW path, NEW via, NEW g, NEW S, Replies(path, via, g, S)
      PROVE  Served'
  <2>1. Idle.pc = "idle"
    BY DEF Idle
  <2> QED BY <1>1, <1>3, <2>1 DEF Replies, Served
<1>4. CASE FindSource
  BY <1>1, <1>2, <1>3, <1>4, FindSourceIs
<1>5. CASE FindTarget
  BY <1>1, <1>2, <1>3, <1>5, FindTargetIs
<1>6. CASE WalkRound
  BY <1>1, <1>2, <1>6, WalkRoundIs
<1>7. CASE AnswerPath
  BY <1>3, <1>7, AnswerPathIs
<1>8. CASE AnswerHood
  BY <1>3, <1>8, AnswerHoodIs
<1> QED BY <1>4, <1>5, <1>6, <1>7, <1>8

LEMMA StepServed == Inv /\ Served /\ [Next]_vars => Served'
<1> SUFFICES ASSUME Inv, Served, [Next]_vars PROVE Served'
  OBVIOUS
<1>1. ASSUME NEW q \in Request, StartFetch(q) \/ StartWalk(q)
      PROVE  Served'
  <2>1. reply' = NoReply /\ NoReply.outcome = "none" /\ NoReply.dto = Refused
    BY <1>1 DEF StartFetch, StartWalk, NoReply
  <2>2. DOMAIN EmptyGraph.nodes = {}
    BY DEF EmptyGraph
  <2>3. read'.pc = "fetching" => read'.g = EmptyGraph
    BY <1>1 DEF StartFetch, StartWalk, Idle, Inv, Shaped
  <2> QED BY <2>1, <2>2, <2>3 DEF Served, Numbered
<1>2. CASE Write
  <2>1. read' = [read EXCEPT !.quiet = FALSE] /\ reply' = reply
    BY <1>2 DEF Write, AddNode, RemoveNode, AddClaim, RemoveRelationship, EditWindow, Writes
  <2>2. read'.pc = read.pc /\ read'.g = read.g
    BY <2>1 DEF Inv, Shaped
  <2> QED BY <2>1, <2>2 DEF Served, Numbered
<1>3. CASE UNCHANGED vars
  BY <1>3 DEF vars, Served, Numbered
<1> QED BY <1>1, <1>2, <1>3, FetchServed, AssembleServed, WalkServed DEF Next, Write

\* A view is the projection of the graph in the same reply (get_visualization).
THEOREM AlwaysServed == Spec => []Served
BY InitServed, StepServed, Invariance, PTL DEF Spec

\* A view stands alone and is not refused without reason; the answer graph has
\* its whole focus, an expansion its anchor and no more than its limit.
THEOREM AlwaysStandsAlone == Spec => []DtoStandsAlone
<1> DEFINE q == reply.q
           g == reply.g
           dto == reply.dto
           refused == dto = Refused
           of == DOMAIN g.nodes
           whole == PlotThreads(g)
           unfit == \/ q.from \notin of
                    \/ q.view = "episode_events" /\ g.nodes[q.from].type # "Episode"
           expands == q.view \in DOMAIN NeighbourTypes \cup {"episode_events"}
           Answers == /\ refused <=> FocusRefused(g, q.focus)
                      /\ ~refused =>
                           /\ q.focus \subseteq dto.nodes /\ dto.focus \in q.focus
                           /\ dto.nodes \subseteq q.focus \cup AroundFocus(g, q.focus)
                           /\ \/ AroundFocus(g, q.focus) \subseteq dto.nodes
                              \/ Cardinality(dto.nodes) = FocusMaxNodes
           Expands == /\ ~refused => q.from \in dto.nodes
                      /\ refused <=> unfit
                      /\ Cardinality(dto.nodes \ {q.from}) <= q.limit
           Overviews == IF \/ Cardinality(whole.nodes) > OverviewMaxNodes
                           \/ Cardinality(whole.edges) > OverviewMaxEdges
                        THEN refused ELSE dto = whole
<1>1. ASSUME Served, reply.outcome = "dto" PROVE DtoStandsAlone
  <2>1. Numbered(g) /\ q.limit \in Nat /\ dto = Project(g, q)
    BY <1>1, GraphReadsAssumption DEF Served
  <2>2. dto.nodes \subseteq of /\ dto.edges \subseteq g.edges
    BY <2>1, ProjectWithin
  <2>3. ASSUME q.view = "graphrag_focus" PROVE Answers
    <3>1. dto = AnswerGraph(g, q.focus)
      BY <2>1, <2>3 DEF Project
    <3>2. CASE FocusRefused(g, q.focus)
      <4>1. refused
        BY <3>1, <3>2 DEF AnswerGraph
      <4> QED BY <3>2, <4>1
    <3>3. CASE ~FocusRefused(g, q.focus)
      BY <2>1, <3>1, <3>3, AnswerGraphIs
    <3> QED BY <3>2, <3>3
  <2>4. ASSUME expands PROVE Expands
    <3>1. q.view \in {"family", "work", "conflict", "locations", "episode_events"}
      BY <2>4 DEF NeighbourTypes
    <3>2. dto = Expansion(g, q.from, q.view, q.limit)
      BY <2>1, <3>1 DEF Project
    <3>3. CASE unfit
      <4>1. refused
        BY <3>2, <3>3 DEF Expansion
      <4>2. dto.nodes \ {q.from} = {}
        BY <4>1, RefusedIs
      <4> QED BY <2>1, <3>3, <4>1, <4>2, FS_EmptySet
    <3>4. CASE ~unfit
      <4>1. q.from \in of /\ (q.view = "episode_events" => g.nodes[q.from].type = "Episode")
        BY <3>4
      <4>2. /\ ~refused /\ q.from \in dto.nodes
            /\ Cardinality(dto.nodes \ {q.from}) <= q.limit
        BY <2>1, <3>2, <4>1, ExpansionIs
      <4> QED BY <3>4, <4>2
    <3> QED BY <3>3, <3>4
  <2>5. ASSUME q.view = "episode_overview" PROVE Overviews
    BY <2>1, <2>5 DEF Project, Overview, PlotThreads
  <2>6. q.view = "graphrag_focus" => ~expands
    BY DEF NeighbourTypes
  <2>7. DtoStandsAlone
          = (reply.outcome = "dto" /\ of # {} =>
               /\ dto.nodes \subseteq of /\ dto.edges \subseteq g.edges
               /\ CASE q.view = "graphrag_focus"   -> Answers
                    [] expands                     -> Expands
                    [] q.view = "episode_overview" -> Overviews
                    [] OTHER                       -> TRUE)
    BY DEF DtoStandsAlone
  <2>8. q.view = "episode_overview" => ~expands
    BY DEF NeighbourTypes
  <2> HIDE DEF Answers, Expands, Overviews, expands
  <2> QED BY <2>2, <2>3, <2>4, <2>5, <2>6, <2>7, <2>8
<1>2. reply.outcome # "dto" => DtoStandsAlone
  BY DEF DtoStandsAlone
<1>3. Served => DtoStandsAlone
  BY <1>1, <1>2
<1> QED BY <1>3, AlwaysServed, PTL

-----------------------------------------------------------------------------
(* How a walk reached what it has visited.                                 *)

\* d counts the rounds it took: every visited node but the source was first
\* reached from its parent, one round before, by a claim that joins the two.
Ranked(w, from, d) ==
    /\ d \in [w.visited -> 0 .. w.depth]
    /\ w.parent \in [w.visited -> Node \cup {0}]
    /\ w.via \in [w.visited -> Claim \cup {0}]
    /\ w.frontier = {n \in w.visited : d[n] = w.depth}
    /\ from \in w.visited /\ d[from] = 0 /\ w.parent[from] = 0
    /\ \A n \in w.visited \ {from} :
         /\ w.parent[n] \in w.visited /\ d[n] = d[w.parent[n]] + 1
         /\ w.via[n] \in w.claims /\ Ends(w.via[n]) = {n, w.parent[n]}

OnItsWay ==
    /\ read.walk.depth \in 0 .. Hops(read.q)
    /\ \E d : Ranked(read.walk, read.q.from, d)
    /\ read.q.op = "path" =>
         /\ read.q.from # read.q.to
         /\ read.q.to \in read.walk.visited => read.pc = "walked" /\ read.q.to \in read.walk.frontier

Way ==
    /\ read.pc = "idle" => read.g = EmptyGraph
    /\ read.pc \in {"idle", "fetching", "source"} => read.walk = NoWalk
    /\ read.pc \in {"source", "target", "walking", "walked"} => read.q.op \in {"path", "hood"}
    /\ read.pc \in {"target", "walking", "walked"} => OnItsWay
    /\ read.pc \in {"target", "walking"} => read.walk.depth < Hops(read.q)
    /\ read.pc \in Pc /\ read.todo \subseteq Queries /\ read.quiet \in BOOLEAN
    /\ writes \in 0 .. MaxWrites

LEMMA HopsIs ==
    ASSUME NEW q \in Request
    PROVE  Hops(q) \in Nat \ {0}
BY GraphReadsAssumption DEF Hops, Least

LEMMA FirstIs ==
    ASSUME Present, NEW S \in SUBSET Claim, S # {}
    PROVE  First(S) \in S
<1>1. \A c \in S : c \in Nat /\ claims[c].order \in Nat
  <2>1. \A c \in S : claims[c] \in ClaimItem
    BY DEF Present
  <2>2. \A x \in ClaimItem : x.order \in 0 .. MaxOrder
    BY DEF ClaimItem
  <2>3. \A c \in S : claims[c].order \in Nat
    BY <2>1, <2>2
  <2>4. \A c \in S : c \in Nat
    BY GraphReadsAssumption
  <2> QED BY <2>3, <2>4
<1> DEFINE orders == {claims[c].order : c \in S}
<1>2. PICK k \in orders : \A m \in orders : k <= m
  BY <1>1, LeastNat
<1> DEFINE T == {c \in S : claims[c].order = k}
<1>3. T \in SUBSET Nat /\ T # {}
  BY <1>1
<1>4. PICK c \in T : \A d \in T : c <= d
  BY <1>3, LeastNat
<1>5. ASSUME NEW d \in S
      PROVE  \/ claims[c].order < claims[d].order
             \/ claims[c].order = claims[d].order /\ c <= d
  <2>1. claims[c].order = k /\ k <= claims[d].order /\ k \in Nat /\ claims[d].order \in Nat
    BY <1>1, <1>2
  <2>2. claims[d].order = k => c <= d
    BY <1>4
  <2> QED BY <2>1, <2>2
<1>6. c \in S
  OBVIOUS
<1> QED BY <1>5, <1>6 DEF First

\* What a round reaches first, it reaches from the frontier.
LEMMA RoundReaches ==
    ASSUME Present, NEW w, w.frontier \subseteq w.visited, NEW rows \in SUBSET Claim,
           \A c \in rows : Ends(c) \cap w.frontier # {},
           NEW n \in Step(w, rows).visited, n \notin w.visited
    PROVE  /\ Step(w, rows).via[n] \in rows
           /\ Step(w, rows).parent[n] \in w.frontier
           /\ Ends(Step(w, rows).via[n]) = {n, Step(w, rows).parent[n]}
<1> DEFINE S == {c \in rows : n \in Ends(c)}
           c == First(S)
           ends == w.visited \cup UNION {Ends(d) : d \in rows}
<1>1. Step(w, rows).visited = ends
  BY DEF Step
<1>2. S # {}
  BY <1>1
<1>3. c \in rows /\ n \in Ends(c)
  <2> HIDE DEF S
  <2>1. c \in S
    BY <1>2, FirstIs DEF S
  <2> QED BY <2>1 DEF S
<1> HIDE DEF c, S
<1>4. /\ Step(w, rows).via[n] = c
      /\ Step(w, rows).parent[n] = CHOOSE m \in Ends(c) : m # n
  BY <1>1 DEF Step, c, S
<1>5. PICK m \in Ends(c) : m \in w.frontier
  BY <1>3
<1>6. Ends(c) = {claims[c].subject, claims[c].object}
  BY DEF Ends
<1>7. m # n
  BY <1>5
<1>8. Ends(c) = {n, m}
  BY <1>3, <1>5, <1>6, <1>7
<1>9. (CHOOSE x \in Ends(c) : x # n) = m
  BY <1>7, <1>8
<1> QED BY <1>3, <1>4, <1>5, <1>8, <1>9

LEMMA RoundRanked ==
    ASSUME Present, NEW w, w.depth \in Nat, NEW from, NEW d, Ranked(w, from, d),
           NEW rows \in SUBSET Claim, \A c \in rows : Ends(c) \cap w.frontier # {}
    PROVE  \E e : Ranked(Step(w, rows), from, e)
<1> DEFINE v == Step(w, rows)
           e == [n \in v.visited |-> IF n \in w.visited THEN d[n] ELSE w.depth + 1]
<1>1. /\ v.visited = w.visited \cup UNION {Ends(c) : c \in rows}
      /\ v.frontier = v.visited \ w.visited
      /\ v.claims = w.claims \cup rows /\ v.depth = w.depth + 1
  BY DEF Step
<1>2. /\ DOMAIN v.via = v.visited /\ v.via = [n \in v.visited |-> v.via[n]]
      /\ DOMAIN v.parent = v.visited /\ v.parent = [n \in v.visited |-> v.parent[n]]
      /\ \A n \in w.visited : v.via[n] = w.via[n] /\ v.parent[n] = w.parent[n]
  BY DEF Step
<1>3. w.frontier \subseteq w.visited /\ \A n \in w.frontier : d[n] = w.depth
  BY DEF Ranked
<1>4. ASSUME NEW n \in v.visited, n \notin w.visited
      PROVE  /\ v.via[n] \in rows /\ v.parent[n] \in w.frontier
             /\ Ends(v.via[n]) = {n, v.parent[n]}
  BY <1>3, <1>4, RoundReaches
<1> HIDE DEF v
<1>5. \A n \in v.visited : e[n] = IF n \in w.visited THEN d[n] ELSE w.depth + 1
  OBVIOUS
<1>6. DOMAIN e = v.visited /\ e = [n \in v.visited |-> e[n]]
  OBVIOUS
<1> HIDE DEF e
<1>7. \A n \in w.visited : d[n] \in 0 .. w.depth
  BY DEF Ranked
<1>8. e \in [v.visited -> 0 .. v.depth]
  BY <1>1, <1>5, <1>6, <1>7
<1>9. v.parent \in [v.visited -> Node \cup {0}] /\ v.via \in [v.visited -> Claim \cup {0}]
  <2>1. \A n \in w.visited : w.parent[n] \in Node \cup {0} /\ w.via[n] \in Claim \cup {0}
    BY DEF Ranked
  <2>2. \A n \in v.visited \ w.visited : v.parent[n] \in Ends(v.via[n]) /\ v.via[n] \in Claim
    BY <1>4
  <2>3. \A n \in v.visited \ w.visited : v.parent[n] \in Node
    BY <2>2, ClaimEnds
  <2> QED BY <1>2, <2>1, <2>2, <2>3
<1>10. v.frontier = {n \in v.visited : e[n] = v.depth}
  BY <1>1, <1>5, <1>7
<1>11. from \in v.visited /\ e[from] = 0 /\ v.parent[from] = 0
  BY <1>1, <1>2, <1>5 DEF Ranked
<1>12. ASSUME NEW n \in v.visited \ {from}
       PROVE  /\ v.parent[n] \in v.visited /\ e[n] = e[v.parent[n]] + 1
              /\ v.via[n] \in v.claims /\ Ends(v.via[n]) = {n, v.parent[n]}
  <2>1. CASE n \in w.visited
    <3>1. /\ w.parent[n] \in w.visited /\ d[n] = d[w.parent[n]] + 1
          /\ w.via[n] \in w.claims /\ Ends(w.via[n]) = {n, w.parent[n]}
      BY <2>1 DEF Ranked
    <3>2. v.parent[n] = w.parent[n] /\ v.via[n] = w.via[n]
      BY <1>2, <2>1
    <3> QED BY <1>1, <1>5, <2>1, <3>1, <3>2
  <2>2. CASE n \notin w.visited
    BY <1>1, <1>3, <1>4, <1>5, <2>2
  <2> QED BY <2>1, <2>2
<1>13. Ranked(v, from, e)
  BY <1>8, <1>9, <1>10, <1>11, <1>12 DEF Ranked
<1> QED BY <1>13 DEF v

LEMMA FromRanked ==
    ASSUME NEW n \in Node
    PROVE  Ranked(From(n), n, [m \in {n} |-> 0]) /\ From(n).depth = 0 /\ From(n).visited = {n}
<1> DEFINE w == From(n)
           d == [m \in {n} |-> 0]
<1>1. /\ w.frontier = {n} /\ w.visited = {n} /\ w.parent = [m \in {n} |-> 0]
      /\ w.via = [m \in {n} |-> 0] /\ w.depth = 0
  BY DEF From, NoWalk
<1> HIDE DEF w
<1>2. Ranked(w, n, d)
  BY <1>1 DEF Ranked
<1> QED BY <1>1, <1>2 DEF w

LEMMA InitWay == Init => Way
<1>1. /\ Idle.pc = "idle" /\ Idle.g = EmptyGraph /\ Idle.walk = NoWalk /\ Idle.todo = {}
      /\ Idle.quiet = TRUE
  BY DEF Idle
<1>2. 0 \in 0 .. MaxWrites
  BY GraphReadsAssumption
<1> QED BY <1>1, <1>2 DEF Init, Way, Pc

LEMMA IdleWay ==
    ASSUME Way, read' = Idle, writes' = writes
    PROVE  Way'
<1>1. /\ Idle.pc = "idle" /\ Idle.g = EmptyGraph /\ Idle.walk = NoWalk /\ Idle.todo = {}
      /\ Idle.quiet = TRUE
  BY DEF Idle
<1> QED BY <1>1 DEF Way, Pc

LEMMA GoesWay ==
    ASSUME Way, NEW pc \in {"target", "walking", "walked"}, NEW w, Goes(pc, w),
           read.pc \in {"source", "target", "walking"},
           w.depth \in 0 .. Hops(read.q), pc # "walked" => w.depth < Hops(read.q),
           NEW d, Ranked(w, read.q.from, d),
           read.q.op = "path" =>
             /\ read.q.from # read.q.to
             /\ read.q.to \in w.visited => pc = "walked" /\ read.q.to \in w.frontier
    PROVE  Way'
<1>1. /\ read'.pc = pc /\ read'.walk = w /\ read'.q = read.q /\ read'.quiet = read.quiet
      /\ read'.todo = read.todo /\ writes' = writes /\ claims' = claims
  BY DEF Goes
<1>2. Ranked(read.walk, read.q.from, d)'
  BY <1>1 DEF Ranked, Ends
<1>3. Hops(read.q)' = Hops(read.q)
  BY <1>1 DEF Hops
<1>4. OnItsWay'
  BY <1>1, <1>2, <1>3 DEF OnItsWay
<1> QED BY <1>1, <1>3, <1>4 DEF Way, Pc

LEMMA FindWay ==
    ASSUME Inv, Way, FindSource \/ FindTarget
    PROVE  Way'
<1> DEFINE q == read.q
<1>1. Shaped /\ Present /\ read.pc \in {"source", "target"}
  BY DEF Inv, FindSource, FindTarget
<1>2. Hops(q) \in Nat \ {0} /\ q.boundary \in Order
  BY <1>1, HopsIs, BoundaryIsOrder DEF Shaped
<1>3. ASSUME NEW path, NEW via, NEW g, NEW S, Replies(path, via, g, S) PROVE Way'
  BY <1>3, IdleWay DEF Replies
<1>4. ASSUME q.from \in Node, NEW pc \in {"target", "walking"}, Goes(pc, From(q.from)),
             read.pc = "source", q.op = "path" => q.from # q.to
      PROVE  Way'
  <2> DEFINE w == From(q.from)
  <2>1. PICK d : Ranked(w, q.from, d) /\ w.depth = 0 /\ w.visited = {q.from}
    BY <1>4, FromRanked
  <2>2. w.depth \in 0 .. Hops(q) /\ w.depth < Hops(q)
    BY <1>2, <2>1
  <2>3. q.op = "path" => q.from # q.to /\ q.to \notin w.visited
    BY <1>4, <2>1
  <2>4. Goes(pc, w)
    BY <1>4
  <2> HIDE DEF w
  <2> QED BY <1>4, <2>1, <2>2, <2>3, <2>4, GoesWay
<1>5. CASE FindSource
  <2>1. q.from \in VisibleNodes(Story, q.boundary) => q.from \in Node
    BY DEF VisibleNodes
  <2> QED BY <1>1, <1>3, <1>4, <1>5, <2>1, FindSourceIs
<1>6. CASE FindTarget
  <2>1. ASSUME Goes("walking", read.walk), read.pc = "target" PROVE Way'
    <3>1. OnItsWay /\ read.walk.depth < Hops(q)
      BY <2>1 DEF Way
    <3>2. PICK d : Ranked(read.walk, q.from, d)
      BY <3>1 DEF OnItsWay
    <3>3. q.op = "path" => q.from # q.to /\ q.to \notin read.walk.visited
      BY <2>1, <3>1 DEF OnItsWay
    <3>4. read.walk.depth \in 0 .. Hops(q)
      BY <3>1 DEF OnItsWay
    <3> QED BY <2>1, <3>1, <3>2, <3>3, <3>4, GoesWay
  <2> QED BY <1>1, <1>3, <1>6, <2>1, FindTargetIs
<1> QED BY <1>5, <1>6

LEMMA RoundWay ==
    ASSUME Inv, Way, WalkRound
    PROVE  Way'
<1> DEFINE q == read.q
           w == read.walk
           rows == Rows(w.frontier, q.boundary) \ w.claims
           v == Step(w, rows)
<1>1. Shaped /\ Present /\ read.pc = "walking"
  BY DEF Inv, WalkRound
<1>2. Hops(q) \in Nat \ {0}
  BY <1>1, HopsIs DEF Shaped
<1>3. /\ w.depth \in Nat /\ w.depth < Hops(q) /\ q.op \in {"path", "hood"}
      /\ q.op = "path" => q.from # q.to /\ q.to \notin w.visited
  BY <1>1, <1>2 DEF Way, OnItsWay
<1>4. PICK d : Ranked(w, q.from, d)
  BY <1>1 DEF Way, OnItsWay
<1>5. rows \in SUBSET Claim /\ \A c \in rows : Ends(c) \cap w.frontier # {}
  BY DEF Rows
<1>6. PICK e : Ranked(v, q.from, e)
  <2> HIDE DEF rows
  <2> QED BY <1>1, <1>3, <1>4, <1>5, RoundRanked
<1>7. v.depth = w.depth + 1 /\ v.frontier = v.visited \ w.visited
  BY DEF Step
<1>8. CASE Goes("walked", w)
  BY <1>1, <1>2, <1>3, <1>4, <1>8, GoesWay
<1>9. \/ Goes("walked", w)
      \/ Goes("walked", v)
      \/ Goes("walking", v) /\ ~(q.op = "path" /\ q.to \in v.visited) /\ v.depth # Hops(q)
  BY <1>1, WalkRoundIs
<1> HIDE DEF v
<1>10. v.depth \in 0 .. Hops(q) /\ (v.depth # Hops(q) => v.depth < Hops(q))
  BY <1>2, <1>3, <1>7
<1>11. q.op = "path" => q.from # q.to /\ (q.to \in v.visited => q.to \in v.frontier)
  BY <1>3, <1>7
<1>12. CASE Goes("walked", v)
  BY <1>1, <1>6, <1>10, <1>11, <1>12, GoesWay
<1>13. CASE /\ Goes("walking", v) /\ ~(q.op = "path" /\ q.to \in v.visited)
            /\ v.depth # Hops(q)
  BY <1>1, <1>6, <1>10, <1>11, <1>13, GoesWay
<1> QED BY <1>8, <1>9, <1>12, <1>13

LEMMA WriteWay ==
    ASSUME Inv, Way, Write
    PROVE  Way'
<1>1. /\ read' = [read EXCEPT !.quiet = FALSE] /\ writes' = writes + 1 /\ writes < MaxWrites
  BY DEF Write, AddNode, RemoveNode, AddClaim, RemoveRelationship, EditWindow, Writes
<1>2. /\ read'.pc = read.pc /\ read'.q = read.q /\ read'.g = read.g /\ read'.walk = read.walk
      /\ ~read'.quiet /\ read'.quiet \in BOOLEAN /\ read'.todo = read.todo
  BY <1>1 DEF Inv, Shaped
<1>3. writes' \in 0 .. MaxWrites
  BY <1>1, GraphReadsAssumption DEF Way
<1>4. ASSUME read.pc # "idle", NEW d, Ranked(read.walk, read.q.from, d)
      PROVE  Ranked(read.walk, read.q.from, d)'
  <2>1. ClaimsWithin(read.walk.claims, read.q.boundary) /\ read.q.boundary \in Order
    BY <1>4, BoundaryIsOrder DEF Inv, ReadWithin
  <2>2. \A c \in read.walk.claims : c \in Claim /\ claims[c].order # 0
    BY <2>1 DEF ClaimsWithin, Order
  <2>3. \A c \in read.walk.claims : Ends(c)' = Ends(c)
    BY <2>2, WriteSteps DEF Inv, Ends
  <2> QED BY <1>2, <1>4, <2>3 DEF Ranked
<1>5. Hops(read.q)' = Hops(read.q)
  BY <1>2 DEF Hops
<1>6. read.pc # "idle" /\ OnItsWay => OnItsWay'
  BY <1>2, <1>4, <1>5 DEF OnItsWay
<1> QED BY <1>2, <1>3, <1>5, <1>6 DEF Way

LEMMA StepWay == Inv /\ Way /\ [Next]_vars => Way'
<1> SUFFICES ASSUME Inv, Way, [Next]_vars PROVE Way'
  OBVIOUS
<1>1. ASSUME NEW q \in Request, StartFetch(q) \/ StartWalk(q)
      PROVE  Way'
  <2>1. /\ read'.walk = NoWalk /\ read'.quiet = TRUE /\ writes' = writes
        /\ read'.q = q /\ read'.pc \in {"fetching", "source"} /\ read'.todo \subseteq Queries
        /\ read'.pc = "source" => q.op \in {"path", "hood"}
    <3>1. CASE StartFetch(q)
      <4> DEFINE t == [Idle EXCEPT !.pc = "fetching", !.q = q, !.todo = Queries]
      <4>1. /\ t.walk = NoWalk /\ t.quiet = TRUE /\ t.q = q /\ t.pc = "fetching"
            /\ t.todo = Queries
        BY DEF Idle
      <4> QED BY <3>1, <4>1 DEF StartFetch
    <3>2. CASE StartWalk(q)
      <4> DEFINE t == [Idle EXCEPT !.pc = "source", !.q = q]
      <4>1. /\ t.walk = NoWalk /\ t.quiet = TRUE /\ t.q = q /\ t.pc = "source" /\ t.todo = {}
        BY DEF Idle
      <4> QED BY <3>2, <4>1 DEF StartWalk
    <3> QED BY <1>1, <3>1, <3>2
  <2> QED BY <2>1 DEF Way, Pc
<1>2. CASE FetchNodes \/ FetchStructure \/ FetchClaims \/ FetchRelationships
  <2>1. PICK query, g : Take(query, g)
    BY <1>2 DEF FetchNodes, FetchStructure, FetchClaims, FetchRelationships
  <2>2. /\ read.pc = "fetching" /\ read'.pc = "fetching" /\ read'.walk = read.walk
        /\ read'.todo \subseteq read.todo /\ read'.quiet = read.quiet /\ writes' = writes
    BY <2>1 DEF Take, Inv, Shaped
  <2> QED BY <2>2 DEF Way, Pc
<1>3. CASE Assemble
  BY <1>3, IdleWay DEF Assemble, Answer
<1>4. CASE AnswerPath
  BY <1>4, AnswerPathIs, IdleWay DEF Replies
<1>5. CASE AnswerHood
  BY <1>5, AnswerHoodIs, IdleWay DEF Replies
<1>6. CASE UNCHANGED vars
  <2>1. read' = read /\ claims' = claims /\ writes' = writes
    BY <1>6 DEF vars
  <2>2. ASSUME NEW d, Ranked(read.walk, read.q.from, d)
        PROVE  Ranked(read.walk, read.q.from, d)'
    BY <2>1, <2>2 DEF Ranked, Ends
  <2>3. OnItsWay => OnItsWay'
    BY <2>1, <2>2 DEF OnItsWay, Hops
  <2> QED BY <2>1, <2>3 DEF Way, Hops
<1> QED BY <1>1, <1>2, <1>3, <1>4, <1>5, <1>6, FindWay, RoundWay, WriteWay DEF Next, Write

\* A walk got to all it has visited from its source, round by round, and ends
\* within its hops or as soon as it meets its target (_walk_visible_claims).
THEOREM AlwaysWay == Spec => []Way
BY InitWay, StepWay, Invariance, PTL DEF Spec

\* Whatever the graph and whoever writes, a read's state is well formed; a walk
\* knows a parent and a claim for all it has visited.
THEOREM TypeCorrect == Spec => []TypeOK
<1>1. ASSUME Inv, Way PROVE TypeOK
  <2>1. /\ nodes \in [Node -> NodeItem]
        /\ DOMAIN claims = Claim /\ \A c \in Claim : claims[c] \in ClaimItem
    BY <1>1 DEF Inv, Present
  <2>2. CASE read.pc \in {"target", "walking", "walked"}
    <3>1. PICK d : Ranked(read.walk, read.q.from, d)
      BY <1>1, <2>2 DEF Way, OnItsWay
    <3>2. Hops(read.q) \in Nat
      BY <1>1, <2>2, HopsIs DEF Inv, Shaped
    <3>3. /\ read.walk.visited \subseteq Node /\ read.walk.claims \subseteq Claim
          /\ DOMAIN read.g.nodes \subseteq Node
      BY <1>1, <2>2 DEF Inv, ReadWithin, GraphWithin, Within, ClaimsWithin
    <3>4. /\ read.walk.depth \in Nat /\ read.walk.depth <= Hops(read.q)
          /\ read.walk.frontier \subseteq read.walk.visited
      BY <1>1, <2>2, <3>1, <3>2 DEF Way, OnItsWay, Ranked
    <3>5. /\ read.walk.parent \in [read.walk.visited -> Node \cup {0}]
          /\ read.walk.via \in [read.walk.visited -> Claim \cup {0}]
      BY <3>1 DEF Ranked
    <3>6. /\ read.pc \in Pc /\ read.todo \subseteq Queries /\ read.quiet \in BOOLEAN
          /\ writes \in 0 .. MaxWrites
      BY <1>1 DEF Way
    <3> QED BY <2>1, <3>3, <3>4, <3>5, <3>6 DEF TypeOK
  <2>3. CASE read.pc \notin {"target", "walking", "walked"}
    <3>1. read.walk = NoWalk /\ read.pc \in {"idle", "fetching", "source"}
      BY <1>1, <2>3 DEF Way, Pc
    <3>2. /\ NoWalk.visited = {} /\ NoWalk.frontier = {} /\ NoWalk.claims = {}
          /\ NoWalk.depth = 0 /\ NoWalk.parent = <<>> /\ NoWalk.via = <<>>
      BY DEF NoWalk
    <3>3. \A S : <<>> \in [{} -> S]
      OBVIOUS
    <3>4. DOMAIN read.g.nodes \subseteq Node
      BY <1>1 DEF Inv, ReadWithin, GraphWithin, Within, Way, EmptyGraph
    <3> QED BY <1>1, <2>1, <3>1, <3>2, <3>3, <3>4 DEF TypeOK, Way
  <2> QED BY <2>2, <2>3
<1> QED BY <1>1, Invariance, AlwaysWay, PTL

-----------------------------------------------------------------------------
(* The way back.                                                           *)

\* Induction up to a bound, over a set.
LEMMA UpTo ==
    ASSUME NEW N \in Nat, NEW S, 0 \in S, \A k \in 0 .. N : k \in S /\ k < N => k + 1 \in S
    PROVE  0 .. N \subseteq S
<1> DEFINE bad == {k \in 0 .. N : k \notin S}
<1>1. SUFFICES ASSUME bad # {} PROVE FALSE
  OBVIOUS
<1>2. PICK k \in bad : \A m \in bad : k <= m
  <2>1. bad \in SUBSET Nat
    OBVIOUS
  <2> HIDE DEF bad
  <2> QED BY <1>1, <2>1, LeastNat
<1>3. k \in 1 .. N /\ k \notin S
  OBVIOUS
<1>4. k - 1 \in 0 .. N /\ k - 1 < N /\ (k - 1) + 1 = k
  BY <1>3
<1>5. k - 1 \notin bad
  BY <1>2, <1>3, <1>4
<1> QED BY <1>3, <1>4, <1>5

\* One more on the way back.
Further(w, back, n) == IF w.parent[n] = 0 THEN <<n>> ELSE Append(back[w.parent[n]], n)

\* The recursion is well founded, as parents have smaller ranks.
LEMMA WayBackIs ==
    ASSUME NEW w, NEW from, NEW d, Ranked(w, from, d), w.depth \in Nat,
           w.visited \subseteq Node
    PROVE  \E back : /\ back = [n \in w.visited |-> Further(w, back, n)]
                     /\ \A n : WayBack(w, n) = back[n]
<1> DEFINE V(k) == {n \in w.visited : d[n] <= k}
           Good(k) == \E f : f = [n \in V(k) |-> Further(w, f, n)]
           S == {k \in 0 .. w.depth : Good(k)}
<1>1. /\ \A n \in w.visited : d[n] \in 0 .. w.depth /\ n \in Node
      /\ \A n \in w.visited : n # from =>
           w.parent[n] \in w.visited /\ d[n] = d[w.parent[n]] + 1
      /\ from \in w.visited /\ d[from] = 0 /\ w.parent[from] = 0
  BY DEF Ranked
<1>2. 0 \notin Node
  BY GraphReadsAssumption
<1>3. Good(0)
  <2> DEFINE f == [n \in V(0) |-> <<n>>]
  <2>1. \A n \in V(0) : w.parent[n] = 0
    <3> SUFFICES ASSUME NEW n \in V(0), n # from PROVE FALSE
      BY <1>1
    <3>1. d[n] = d[w.parent[n]] + 1 /\ d[w.parent[n]] \in Nat /\ d[n] \in Nat /\ d[n] <= 0
      BY <1>1
    <3> QED BY <3>1
  <2>2. \A n \in V(0) : Further(w, f, n) = <<n>>
    BY <2>1 DEF Further
  <2>3. f = [n \in V(0) |-> Further(w, f, n)]
    BY <2>2
  <2> HIDE DEF f
  <2> QED BY <2>3
<1>4. ASSUME NEW k \in 0 .. w.depth, Good(k), k < w.depth PROVE Good(k + 1)
  <2>1. PICK f : f = [n \in V(k) |-> Further(w, f, n)]
    BY <1>4
  <2> DEFINE g == [n \in V(k + 1) |-> IF n \in V(k) THEN f[n] ELSE Append(f[w.parent[n]], n)]
  <2>2. V(k) \subseteq V(k + 1)
    BY <1>1
  <2>3. \A n \in V(k + 1) : n # from => w.parent[n] \in V(k) /\ w.parent[n] # 0
    BY <1>1, <1>2
  <2>4. from \in V(k)
    BY <1>1
  <2>5. \A n \in V(k) : g[n] = f[n] /\ f[n] = Further(w, f, n)
    <3> HIDE DEF V
    <3> QED BY <2>1, <2>2
  <2>6. \A n \in V(k + 1) : n # from => g[w.parent[n]] = f[w.parent[n]]
    BY <2>3, <2>5
  <2>7. \A n \in V(k + 1) : g[n] = IF n \in V(k) THEN f[n] ELSE Append(f[w.parent[n]], n)
    OBVIOUS
  <2> HIDE DEF g, V
  <2>8. \A n \in V(k + 1) : g[n] = Further(w, g, n)
    BY <1>1, <2>2, <2>3, <2>4, <2>5, <2>6, <2>7 DEF Further
  <2>9. g = [n \in V(k + 1) |-> Further(w, g, n)]
    <3>1. g = [n \in V(k + 1) |-> g[n]]
      BY DEF g
    <3> QED BY <2>8, <3>1
  <2> QED BY <2>9
<1>5. 0 .. w.depth \subseteq S
  <2> HIDE DEF Good
  <2>1. 0 \in S
    BY <1>3
  <2>2. \A k \in 0 .. w.depth : k \in S /\ k < w.depth => k + 1 \in S
    BY <1>4
  <2> HIDE DEF S
  <2> QED BY <2>1, <2>2, UpTo
<1>6. Good(w.depth) /\ V(w.depth) = w.visited
  <2>1. V(w.depth) = w.visited
    BY <1>1
  <2> HIDE DEF Good
  <2> QED BY <1>5, <2>1
<1> DEFINE back == CHOOSE f : f = [n \in w.visited |-> Further(w, f, n)]
<1>7. \E f : f = [n \in w.visited |-> Further(w, f, n)]
  BY <1>6
<1>8. back = [n \in w.visited |-> Further(w, back, n)]
  <2> DEFINE Eq(f) == f = [n \in w.visited |-> Further(w, f, n)]
  <2>1. \E f : Eq(f)
    BY <1>7
  <2>2. back = CHOOSE f : Eq(f)
    OBVIOUS
  <2> HIDE DEF Eq, back
  <2>3. Eq(back)
    BY <2>1, <2>2
  <2> QED BY <2>3 DEF Eq
<1>9. \A n : WayBack(w, n) = back[n]
  BY DEF WayBack, Further
<1> HIDE DEF back
<1> QED BY <1>8, <1>9

\* It leads from the source, one rank and one claim at a time.
Chain(w, from, d, path, n) ==
    /\ path \in Seq(w.visited) /\ Len(path) = d[n] + 1
    /\ path[1] = from /\ path[Len(path)] = n
    /\ \A i \in DOMAIN path : d[path[i]] = i - 1
    /\ \A i \in 1 .. Len(path) - 1 : w.parent[path[i + 1]] = path[i]

LEMMA OneIsSequence ==
    ASSUME NEW S, NEW x \in S
    PROVE  <<x>> \in Seq(S) /\ Len(<<x>>) = 1 /\ <<x>>[1] = x
OBVIOUS

LEMMA WayBackChain ==
    ASSUME NEW w, NEW from, NEW d, Ranked(w, from, d), w.depth \in Nat,
           w.visited \subseteq Node, NEW n \in w.visited
    PROVE  Chain(w, from, d, WayBack(w, n), n)
<1>1. PICK back : /\ back = [m \in w.visited |-> Further(w, back, m)]
                  /\ \A m : WayBack(w, m) = back[m]
  BY WayBackIs
<1>2. \A m \in w.visited : back[m] = Further(w, back, m)
  BY <1>1
<1>3. /\ \A m \in w.visited : d[m] \in 0 .. w.depth /\ m \in Node
      /\ \A m \in w.visited : m # from =>
           w.parent[m] \in w.visited /\ d[m] = d[w.parent[m]] + 1 /\ w.parent[m] # 0
      /\ from \in w.visited /\ d[from] = 0 /\ w.parent[from] = 0
  BY GraphReadsAssumption DEF Ranked
<1> DEFINE Good(k) == \A m \in w.visited : d[m] = k => Chain(w, from, d, back[m], m)
           S == {k \in 0 .. w.depth : Good(k)}
<1>4. Good(0)
  <2> SUFFICES ASSUME NEW m \in w.visited, d[m] = 0 PROVE Chain(w, from, d, back[m], m)
    OBVIOUS
  <2>1. m = from
    <3> SUFFICES ASSUME m # from PROVE FALSE
      OBVIOUS
    <3>1. d[m] = d[w.parent[m]] + 1 /\ d[w.parent[m]] \in Nat
      BY <1>3
    <3> QED BY <3>1
  <2>2. back[m] = <<from>>
    BY <1>2, <1>3, <2>1 DEF Further
  <2> DEFINE path == <<from>>
  <2>3. /\ path \in Seq(w.visited) /\ Len(path) = 1 /\ DOMAIN path = {1} /\ path[1] = from
        /\ 1 .. Len(path) - 1 = {}
    <3>1. path \in Seq(w.visited) /\ Len(path) = 1 /\ path[1] = from
      BY <1>3, OneIsSequence
    <3> HIDE DEF path
    <3> QED BY <3>1
  <2> HIDE DEF path
  <2>4. \A i \in DOMAIN path : d[path[i]] = i - 1
    BY <1>3, <2>3
  <2>5. Chain(w, from, d, path, m)
    BY <1>3, <2>1, <2>3, <2>4 DEF Chain
  <2> QED BY <2>2, <2>5 DEF path
<1>5. ASSUME NEW k \in 0 .. w.depth, Good(k), k < w.depth PROVE Good(k + 1)
  <2> SUFFICES ASSUME NEW m \in w.visited, d[m] = k + 1 PROVE Chain(w, from, d, back[m], m)
    OBVIOUS
  <2> DEFINE p == w.parent[m]
             short == back[p]
             path == back[m]
  <2>1. p \in w.visited /\ d[p] = k /\ p # 0
    BY <1>3
  <2>2. Chain(w, from, d, short, p)
    BY <1>5, <2>1
  <2>3. path = Append(short, m)
    BY <1>2, <2>1 DEF Further
  <2>4. /\ short \in Seq(w.visited) /\ Len(short) = k + 1 /\ short[1] = from
        /\ short[Len(short)] = p
        /\ \A i \in DOMAIN short : d[short[i]] = i - 1
        /\ \A i \in 1 .. Len(short) - 1 : w.parent[short[i + 1]] = short[i]
    BY <2>1, <2>2 DEF Chain
  <2> HIDE DEF short, path
  <2>5. /\ path \in Seq(w.visited) /\ Len(path) = k + 2 /\ DOMAIN path = 1 .. k + 2
        /\ \A i \in 1 .. k + 1 : path[i] = short[i]
        /\ path[k + 2] = m
    BY <2>3, <2>4
  <2>6. path[1] = from /\ path[Len(path)] = m /\ Len(path) = d[m] + 1
    BY <2>4, <2>5
  <2>7. \A i \in DOMAIN path : d[path[i]] = i - 1
    BY <2>4, <2>5
  <2>8. \A i \in 1 .. Len(path) - 1 : w.parent[path[i + 1]] = path[i]
    <3> SUFFICES ASSUME NEW i \in 1 .. k + 1 PROVE w.parent[path[i + 1]] = path[i]
      BY <2>5
    <3>1. CASE i = k + 1
      BY <2>4, <2>5, <3>1
    <3>2. CASE i < k + 1
      BY <2>4, <2>5, <3>2
    <3> QED BY <3>1, <3>2
  <2>9. Chain(w, from, d, path, m)
    BY <2>5, <2>6, <2>7, <2>8 DEF Chain
  <2> QED BY <2>9 DEF path
<1>6. 0 .. w.depth \subseteq S
  <2> HIDE DEF Good
  <2>1. 0 \in S
    BY <1>4
  <2>2. \A k \in 0 .. w.depth : k \in S /\ k < w.depth => k + 1 \in S
    BY <1>5
  <2> HIDE DEF S
  <2> QED BY <2>1, <2>2, UpTo
<1>7. d[n] \in S
  BY <1>3, <1>6
<1> QED BY <1>1, <1>7

-----------------------------------------------------------------------------
(* Every path in a reply is a chain of claims within the boundary.         *)

IsPath(q, path, via) ==
    /\ path \in Seq(Node) /\ Len(path) \in 1 .. Hops(q) + 1
    /\ path[1] = q.from /\ path[Len(path)] = q.to
    /\ via \in Seq(Claim) /\ IsChain(path, via)
    /\ Within(Range(path), q.boundary) /\ ClaimsWithin(Range(via), q.boundary)

Chained ==
    IF reply.outcome = "path" /\ reply.path # <<>>
    THEN reply.q \in Request /\ IsPath(reply.q, reply.path, reply.via)
    ELSE reply.path = <<>> /\ reply.via = <<>>

LEMMA IsSequence ==
    ASSUME NEW m \in Nat, NEW S, NEW f \in [1 .. m -> S]
    PROVE  f \in Seq(S) /\ Len(f) = m
OBVIOUS

LEMMA ChainIsPath ==
    ASSUME Present, NEW q \in Request, NEW w, NEW d, Ranked(w, q.from, d),
           w.depth \in 0 .. Hops(q), Within(w.visited, q.boundary),
           ClaimsWithin(w.claims, q.boundary), q.to \in w.visited,
           NEW path, path = WayBack(w, q.to),
           NEW via, via = [i \in 1 .. Len(path) - 1 |-> w.via[path[i + 1]]]
    PROVE  IsPath(q, path, via) /\ path # <<>>
<1>1. Hops(q) \in Nat /\ w.depth \in Nat /\ w.visited \subseteq Node
  BY HopsIs DEF Within
<1>2. Chain(w, q.from, d, path, q.to)
  BY <1>1, WayBackChain
<1>3. /\ path \in Seq(w.visited) /\ Len(path) = d[q.to] + 1
      /\ path[1] = q.from /\ path[Len(path)] = q.to
      /\ \A i \in DOMAIN path : d[path[i]] = i - 1
      /\ \A i \in 1 .. Len(path) - 1 : w.parent[path[i + 1]] = path[i]
  BY <1>2 DEF Chain
<1>4. d[q.to] \in 0 .. w.depth
  BY DEF Ranked
<1>5. /\ Len(path) \in 1 .. Hops(q) + 1 /\ DOMAIN path = 1 .. Len(path)
      /\ \A i \in DOMAIN path : path[i] \in w.visited
  <2>1. d[q.to] + 1 \in 1 .. Hops(q) + 1
    BY <1>1, <1>4
  <2> QED BY <1>3, <2>1
<1>6. path # <<>> /\ path \in Seq(Node)
  BY <1>1, <1>3, <1>5
<1>7. ASSUME NEW i \in 1 .. Len(path) - 1
      PROVE  /\ via[i] \in w.claims
             /\ Ends(via[i]) = {path[i], path[i + 1]}
  <2> DEFINE n == path[i + 1]
  <2>1. i + 1 \in DOMAIN path /\ i \in Nat
    BY <1>5
  <2>2. n \in w.visited /\ d[n] = i
    <3>1. n \in w.visited /\ d[n] = (i + 1) - 1
      BY <1>3, <1>5, <2>1
    <3> QED BY <2>1, <3>1
  <2>3. n # q.from
    BY <2>1, <2>2 DEF Ranked
  <2>4. w.via[n] \in w.claims /\ Ends(w.via[n]) = {n, w.parent[n]}
    BY <2>2, <2>3 DEF Ranked
  <2>5. w.parent[n] = path[i] /\ via[i] = w.via[n]
    BY <1>3
  <2> QED BY <2>4, <2>5
<1>8. /\ DOMAIN via = 1 .. Len(path) - 1 /\ Len(path) - 1 \in Nat
      /\ via = [i \in 1 .. Len(path) - 1 |-> via[i]]
  BY <1>5
<1>9. \A c \in w.claims : c \in Claim
  BY DEF ClaimsWithin
<1>10. via \in Seq(Claim) /\ Len(via) = Len(path) - 1
  <2>1. \A i \in 1 .. Len(path) - 1 : via[i] \in Claim
    BY <1>7, <1>9
  <2>2. via \in [1 .. Len(path) - 1 -> Claim]
    BY <1>8, <2>1
  <2> QED BY <1>8, <2>2, IsSequence
<1>11. IsInjective(path)
  <2> SUFFICES ASSUME NEW a \in DOMAIN path, NEW b \in DOMAIN path, path[a] = path[b]
               PROVE  a = b
    BY DEF IsInjective
  <2>1. a - 1 = b - 1 /\ a \in Nat /\ b \in Nat
    BY <1>3, <1>5
  <2> QED BY <2>1
<1>12. IsChain(path, via)
  BY <1>7, <1>8, <1>10, <1>11 DEF IsChain
<1>13. Range(path) \subseteq w.visited /\ Range(via) \subseteq w.claims
  <2>1. Range(path) \subseteq w.visited
    BY <1>5 DEF Range
  <2>2. \A i \in DOMAIN via : via[i] \in w.claims
    BY <1>7, <1>8
  <2> QED BY <2>1, <2>2 DEF Range
<1>14. Within(Range(path), q.boundary) /\ ClaimsWithin(Range(via), q.boundary)
  BY <1>13 DEF Within, OrdersWithin, ClaimsWithin
<1> QED BY <1>3, <1>5, <1>6, <1>10, <1>12, <1>14 DEF IsPath

LEMMA StaysIsPath ==
    ASSUME NEW q, NEW path, NEW via, IsPath(q, path, via), nodes' = nodes, claims' = claims
    PROVE  IsPath(q, path, via)'
BY DEF IsPath, IsChain, Within, OrdersWithin, ClaimsWithin, Ends

LEMMA WrittenIsPath ==
    ASSUME Inv, Write, NEW q \in Request, NEW path, NEW via, IsPath(q, path, via)
    PROVE  IsPath(q, path, via)'
<1> DEFINE b == q.boundary
<1>1. b \in Order
  BY GraphReadsAssumption
<1>2. /\ \A n \in Node : nodes[n].order # 0 => nodes'[n].order = nodes[n].order
      /\ \A c \in Claim : claims[c].order # 0 =>
           /\ claims'[c].order = claims[c].order
           /\ claims'[c].subject = claims[c].subject
           /\ claims'[c].object = claims[c].object
  BY WriteSteps DEF Inv
<1>3. \A n \in Range(path) : n \in Node /\ nodes[n].order \in 1 .. b
  BY DEF IsPath, Within, OrdersWithin
<1>4. \A c \in Range(via) : /\ c \in Claim /\ claims[c].order \in 1 .. b
                            /\ \A n \in Ends(c) : n \in Node /\ nodes[n].order \in 1 .. b
  BY DEF IsPath, ClaimsWithin, Within, OrdersWithin
<1>5. 0 \notin 1 .. b
  BY <1>1 DEF Order
<1>6. \A c \in Range(via) : Ends(c)' = Ends(c) /\ claims'[c].order = claims[c].order
  BY <1>2, <1>4, <1>5 DEF Ends
<1>7. Within(Range(path), b)'
  BY <1>2, <1>3, <1>5 DEF Within, OrdersWithin
<1>8. ClaimsWithin(Range(via), b)'
  BY <1>2, <1>4, <1>5, <1>6 DEF ClaimsWithin, Within, OrdersWithin
<1>9. IsChain(path, via)'
  <2>1. \A i \in DOMAIN via : via[i] \in Range(via)
    BY DEF Range
  <2> QED BY <1>6, <2>1 DEF IsPath, IsChain
<1> QED BY <1>7, <1>8, <1>9 DEF IsPath

LEMMA InitChained == Init => Chained
<1>1. NoReply.outcome = "none" /\ NoReply.path = <<>> /\ NoReply.via = <<>>
  BY DEF NoReply
<1> QED BY <1>1 DEF Init, Chained

LEMMA RepliesChained ==
    ASSUME NEW path, NEW via, NEW g, NEW S, Replies(path, via, g, S), read.q \in Request,
           \/ path = <<>> /\ via = <<>>
           \/ read.q.op = "path" /\ path # <<>> /\ IsPath(read.q, path, via)
    PROVE  Chained'
<1>1. /\ nodes' = nodes /\ claims' = claims /\ reply'.outcome = read.q.op
      /\ reply'.q = read.q /\ reply'.path = path /\ reply'.via = via
  BY DEF Replies
<1>2. CASE path = <<>> /\ via = <<>>
  BY <1>1, <1>2 DEF Chained
<1>3. CASE read.q.op = "path" /\ path # <<>> /\ IsPath(read.q, path, via)
  <2>1. PICK q : q = read.q
    OBVIOUS
  <2>2. IsPath(q, path, via)
    BY <1>3, <2>1
  <2>3. IsPath(q, path, via)'
    BY <1>1, <2>2, StaysIsPath
  <2>4. IsPath(reply.q, reply.path, reply.via)'
    BY <1>1, <2>1, <2>3 DEF IsPath, IsChain, Within, OrdersWithin, ClaimsWithin, Hops
  <2>5. reply'.q \in Request
    BY <1>1
  <2> QED BY <1>1, <1>3, <2>4, <2>5 DEF Chained
<1> QED BY <1>2, <1>3

LEMMA AnswerPathChained ==
    ASSUME Inv, Way, AnswerPath
    PROVE  Chained'
<1> DEFINE q == read.q
           w == read.walk
           path == WayBack(w, q.to)
           via == [i \in 1 .. Len(path) - 1 |-> w.via[path[i + 1]]]
<1>1. read.pc = "walked" /\ q.op = "path" /\ Present /\ q \in Request
  BY DEF AnswerPath, Inv, Shaped
<1>2. Within(w.visited, q.boundary) /\ ClaimsWithin(w.claims, q.boundary)
  BY <1>1 DEF Inv, ReadWithin
<1>3. w.depth \in 0 .. Hops(q) /\ \E d : Ranked(w, q.from, d)
  BY <1>1 DEF Way, OnItsWay
<1>4. \/ q.to \notin w.visited /\ Replies(<<>>, <<>>, EmptyGraph, {})
      \/ q.to \in w.visited /\ Replies(path, via, EmptyGraph, {})
  BY AnswerPathIs
<1>5. q.to \in w.visited => IsPath(q, path, via) /\ path # <<>>
  BY <1>1, <1>2, <1>3, ChainIsPath
<1> HIDE DEF path, via
<1> QED BY <1>1, <1>4, <1>5, RepliesChained

LEMMA FindChained ==
    ASSUME Inv, Way, Chained, FindSource \/ FindTarget
    PROVE  Chained'
<1>1. Shaped /\ Present /\ read.pc \in {"source", "target"} /\ read.q \in Request
  BY DEF Inv, Shaped, FindSource, FindTarget
<1>2. ASSUME NEW pc, NEW w, Goes(pc, w) PROVE Chained'
  BY <1>2, StaysIsPath DEF Goes, Chained
<1>3. ASSUME Replies(<<>>, <<>>, EmptyGraph, {}) PROVE Chained'
  BY <1>1, <1>3, RepliesChained
<1>4. CASE FindTarget
  BY <1>1, <1>2, <1>3, <1>4, FindTargetIs
<1>5. CASE FindSource
  <2> DEFINE q == read.q
             path == <<q.from>>
  <2>1. ASSUME q.from \in VisibleNodes(Story, q.boundary), q.from = q.to, q.op # "hood",
               Replies(path, <<>>, EmptyGraph, {})
        PROVE  Chained'
    <3>1. q.boundary \in Order /\ Hops(q) \in Nat \ {0}
      BY <1>1, HopsIs, BoundaryIsOrder
    <3>2. q.from \in Node /\ Within({q.from}, q.boundary)
      BY <1>1, <2>1, <3>1, NodesWithin DEF Within, OrdersWithin
    <3>3. path \in Seq(Node) /\ Len(path) = 1 /\ path[1] = q.from
      BY <3>2, OneIsSequence
    <3>4. path # <<>> /\ DOMAIN path = {1}
      <4> HIDE DEF path
      <4>1. DOMAIN path = {1}
        BY <3>3
      <4>2. path # <<>>
        BY <4>1
      <4> QED BY <4>1, <4>2
    <3> HIDE DEF path
    <3>5. Range(path) = {q.from}
      BY <3>3, <3>4 DEF Range
    <3>6. IsChain(path, <<>>) /\ <<>> \in Seq(Claim) /\ Range(<<>>) = {}
      BY <3>3, <3>4 DEF IsChain, IsInjective, Range
    <3>7. IsPath(q, path, <<>>)
      BY <2>1, <3>1, <3>2, <3>3, <3>5, <3>6 DEF IsPath, ClaimsWithin
    <3>8. q.op = "path"
      BY <1>5, <2>1 DEF FindSource, Way
    <3> QED BY <1>1, <2>1, <3>4, <3>7, <3>8, RepliesChained
  <2> HIDE DEF path
  <2> QED BY <1>1, <1>2, <1>3, <1>5, <2>1, FindSourceIs DEF path
<1> QED BY <1>4, <1>5

LEMMA StepChained == Inv /\ Way /\ Chained /\ [Next]_vars => Chained'
<1> SUFFICES ASSUME Inv, Way, Chained, [Next]_vars PROVE Chained'
  OBVIOUS
<1>1. ASSUME NEW q \in Request, StartFetch(q) \/ StartWalk(q)
      PROVE  Chained'
  <2>1. /\ reply' = NoReply /\ NoReply.outcome = "none"
        /\ NoReply.path = <<>> /\ NoReply.via = <<>>
    BY <1>1 DEF StartFetch, StartWalk, NoReply
  <2> QED BY <2>1 DEF Chained
<1>2. ASSUME reply' = reply, nodes' = nodes, claims' = claims
      PROVE  Chained'
  BY <1>2, StaysIsPath DEF Chained
<1>3. CASE FetchNodes \/ FetchStructure \/ FetchClaims \/ FetchRelationships
  BY <1>2, <1>3 DEF FetchNodes, FetchStructure, FetchClaims, FetchRelationships, Take
<1>4. CASE Assemble
  <2>1. PICK r : Answer(r) /\ r.path = <<>> /\ r.via = <<>> /\ r.outcome # "path"
    <3> DEFINE failed == [NoReply EXCEPT !.outcome = "failed"]
               outcome == IF read.q.op = "view" THEN "dto" ELSE "graph"
               dto == IF read.q.op = "view" THEN Project(read.g, read.q) ELSE Refused
               r == [NoReply EXCEPT !.outcome = outcome, !.g = read.g, !.dto = dto]
    <3>1. /\ failed.path = <<>> /\ failed.via = <<>> /\ failed.outcome = "failed"
          /\ NoReply.path = <<>> /\ NoReply.via = <<>>
      BY DEF NoReply
    <3>2. Answer(failed) \/ Answer(r)
      BY <1>4 DEF Assemble
    <3>3. outcome \in {"dto", "graph"}
      OBVIOUS
    <3> HIDE DEF outcome, dto, failed
    <3>4. r.path = <<>> /\ r.via = <<>> /\ r.outcome = outcome
      BY DEF NoReply
    <3> HIDE DEF r
    <3> QED BY <3>1, <3>2, <3>3, <3>4
  <2>2. reply'.path = <<>> /\ reply'.via = <<>> /\ reply'.outcome # "path"
    BY <2>1 DEF Answer, NoReply
  <2> QED BY <2>2 DEF Chained
<1>5. CASE WalkRound
  <2>1. UNCHANGED <<nodes, claims, reply>>
    BY <1>5, WalkRoundIs DEF Inv, Goes
  <2> QED BY <1>2, <2>1
<1>6. CASE AnswerHood
  <2>1. PICK g : Replies(<<>>, <<>>, g, read.walk.claims)
    BY <1>6, AnswerHoodIs
  <2>2. read.q \in Request
    BY <1>6 DEF AnswerHood, Inv, Shaped
  <2> QED BY <2>1, <2>2, RepliesChained
<1>7. CASE Write
  <2>1. reply' = reply
    BY <1>7 DEF Write, AddNode, RemoveNode, AddClaim, RemoveRelationship, EditWindow, Writes
  <2>2. \A q \in Request : \A path, via : IsPath(q, path, via) => IsPath(q, path, via)'
    BY <1>7, WrittenIsPath
  <2> QED BY <2>1, <2>2 DEF Chained
<1>8. CASE UNCHANGED vars
  BY <1>2, <1>8 DEF vars
<1> QED BY <1>1, <1>3, <1>4, <1>5, <1>6, <1>7, <1>8, AnswerPathChained, FindChained
        DEF Next, Write

\* A path in a reply leads from source to target, within the hops, by claims that
\* join each node to the next, all within the boundary (find_path).
THEOREM AlwaysChained == Spec => []Chained
BY InitChained, StepChained, Invariance, AlwaysWay, PTL DEF Spec

\* Nothing above the boundary is in a reply: no node or claim, no end of an edge
\* or of a claim, and nothing in the middle of a path.
THEOREM AlwaysNothingHidden == Spec => []NothingHidden
<1>1. ASSUME Inv, Served, Chained, reply.outcome # "none" PROVE NothingHidden
  <2> DEFINE b == reply.q.boundary
  <2>1. GraphWithin(reply.g, b) /\ ClaimsWithin(reply.claims, b)
    BY <1>1 DEF Inv, ReplyWithin
  <2>2. OrdersWithin(DOMAIN reply.g.nodes, b)
    BY <2>1 DEF GraphWithin, Within
  <2>3. reply.dto.nodes \subseteq DOMAIN reply.g.nodes
    <3>1. CASE reply.outcome = "dto"
      <4>1. Numbered(reply.g) /\ reply.q.limit \in Nat /\ reply.dto = Project(reply.g, reply.q)
        BY <1>1, <3>1, GraphReadsAssumption DEF Served
      <4> QED BY <4>1, ProjectWithin
    <3>2. CASE reply.outcome # "dto"
      BY <1>1, <3>2, RefusedIs DEF Served
    <3> QED BY <3>1, <3>2
  <2>4. OrdersWithin(Range(reply.path), b) /\ ClaimsWithin(Range(reply.via), b)
    <3>1. CASE reply.path = <<>> /\ reply.via = <<>>
      BY <3>1 DEF Range, OrdersWithin, ClaimsWithin
    <3>2. CASE IsPath(reply.q, reply.path, reply.via)
      BY <3>2 DEF IsPath, Within
    <3> QED BY <1>1, <3>1, <3>2 DEF Chained
  <2>5. \A e \in reply.g.edges : e.order <= b /\ OrdersWithin({e.source, e.target}, b)
    BY <2>1 DEF GraphWithin, EdgesWithin, Within
  <2>6. \A c \in Range(reply.via) \cup reply.claims :
          claims[c].order \in 1 .. b /\ OrdersWithin(Ends(c), b)
    BY <2>1, <2>4 DEF ClaimsWithin, Within
  <2>7. OrdersWithin(DOMAIN reply.g.nodes \cup reply.dto.nodes \cup Range(reply.path), b)
    BY <2>2, <2>3, <2>4 DEF OrdersWithin
  <2> QED BY <2>5, <2>6, <2>7 DEF NothingHidden
<1>2. reply.outcome = "none" => NothingHidden
  BY DEF NothingHidden
<1>3. Inv /\ Served /\ Chained => NothingHidden
  BY <1>1, <1>2
<1> QED BY <1>3, Invariance, AlwaysServed, AlwaysChained, PTL

-----------------------------------------------------------------------------
(* What a number of hops reaches.                                          *)

LEMMA TouchingIs ==
    ASSUME NEW S, NEW b, NEW c
    PROVE  c \in Touching(S, b) <=> /\ c \in Claim /\ VisibleClaim(c, b) /\ EndsVisible(c, b)
                                    /\ Ends(c) \cap S # {}
BY DEF Touching, Ends

LEMMA RowsTouch ==
    ASSUME NEW S, NEW b
    PROVE  Rows(S, b) = Touching(S, b)
BY TouchingIs DEF Rows

\* What one more hop reaches from S.
Beyond(S, b) == S \cup UNION {Ends(c) : c \in Touching(S, b)}

\* A function over the hops up to k, as Reached defines one.
Hopping(f, n, k, b) ==
    f = [i \in 0 .. k |-> IF i = 0 THEN {n} ELSE Beyond(f[i - 1], b)]

LEMMA HoppingIs ==
    ASSUME NEW n, NEW k \in Nat, NEW b, NEW f, Hopping(f, n, k, b)
    PROVE  /\ f[0] = {n}
           /\ \A i \in 0 .. k : i < k => f[i + 1] = Beyond(f[i], b)
<1>1. \A i \in 0 .. k : f[i] = IF i = 0 THEN {n} ELSE Beyond(f[i - 1], b)
  BY DEF Hopping
<1>2. f[0] = {n}
  BY <1>1
<1>3. ASSUME NEW i \in 0 .. k, i < k PROVE f[i + 1] = Beyond(f[i], b)
  <2>1. i + 1 \in 0 .. k /\ i + 1 # 0 /\ (i + 1) - 1 = i
    BY <1>3
  <2> QED BY <1>1, <2>1
<1> QED BY <1>2, <1>3

LEMMA HoppingExists ==
    ASSUME NEW n, NEW k \in Nat, NEW b
    PROVE  \E f : Hopping(f, n, k, b)
<1> DEFINE S == {i \in 0 .. k : \E f : Hopping(f, n, i, b)}
<1>1. 0 \in S
  <2> DEFINE f == [i \in 0 .. 0 |-> {n}]
  <2>1. \A i \in 0 .. 0 : i = 0
    OBVIOUS
  <2>2. f = [i \in 0 .. 0 |-> IF i = 0 THEN {n} ELSE Beyond(f[i - 1], b)]
    BY <2>1
  <2> HIDE DEF f
  <2>3. Hopping(f, n, 0, b)
    BY <2>2 DEF Hopping
  <2> QED BY <2>3
<1>2. ASSUME NEW i \in 0 .. k, i \in S, i < k PROVE i + 1 \in S
  <2>1. PICK f : Hopping(f, n, i, b)
    BY <1>2
  <2> DEFINE g == [j \in 0 .. i + 1 |-> IF j = i + 1 THEN Beyond(f[i], b) ELSE f[j]]
  <2>2. \A j \in 0 .. i + 1 : g[j] = IF j = i + 1 THEN Beyond(f[i], b) ELSE f[j]
    OBVIOUS
  <2>3. g = [j \in 0 .. i + 1 |-> g[j]]
    OBVIOUS
  <2> HIDE DEF g
  <2>4. \A j \in 0 .. i : f[j] = IF j = 0 THEN {n} ELSE Beyond(f[j - 1], b)
    BY <2>1 DEF Hopping
  <2>5. ASSUME NEW j \in 0 .. i + 1
        PROVE  g[j] = IF j = 0 THEN {n} ELSE Beyond(g[j - 1], b)
    <3>1. CASE j = 0
      BY <2>2, <2>4, <3>1
    <3>2. CASE j \in 1 .. i
      <4>1. j - 1 \in 0 .. i + 1 /\ j - 1 # i + 1 /\ j # i + 1 /\ j # 0 /\ j \in 0 .. i
        BY <3>2
      <4> QED BY <2>2, <2>4, <4>1
    <3>3. CASE j = i + 1
      <4>1. j - 1 = i /\ i \in 0 .. i + 1 /\ i # i + 1 /\ j # 0
        BY <3>3
      <4> QED BY <2>2, <3>3, <4>1
    <3> QED BY <3>1, <3>2, <3>3
  <2>6. Hopping(g, n, i + 1, b)
    BY <2>3, <2>5 DEF Hopping
  <2> QED BY <1>2, <2>6
<1>3. 0 .. k \subseteq S
  <2> HIDE DEF S
  <2> QED BY <1>1, <1>2, UpTo
<1> QED BY <1>3

LEMMA HoppingAgrees ==
    ASSUME NEW n, NEW k \in Nat, NEW m \in Nat, k <= m, NEW b,
           NEW f, Hopping(f, n, k, b), NEW g, Hopping(g, n, m, b)
    PROVE  f[k] = g[k]
<1> DEFINE S == {i \in 0 .. k : f[i] = g[i]}
<1>1. f[0] = {n} /\ \A i \in 0 .. k : i < k => f[i + 1] = Beyond(f[i], b)
  BY HoppingIs
<1>2. g[0] = {n} /\ \A i \in 0 .. m : i < m => g[i + 1] = Beyond(g[i], b)
  BY HoppingIs
<1>3. 0 \in S
  BY <1>1, <1>2
<1>4. \A i \in 0 .. k : i \in S /\ i < k => i + 1 \in S
  BY <1>1, <1>2
<1>5. 0 .. k \subseteq S
  <2> HIDE DEF S
  <2> QED BY <1>3, <1>4, UpTo
<1> QED BY <1>5

LEMMA ReachedHops ==
    ASSUME NEW n, NEW k \in Nat, NEW b
    PROVE  \E f : Hopping(f, n, k, b) /\ Reached(n, k, b) = f[k]
<1> DEFINE f == CHOOSE f : Hopping(f, n, k, b)
<1>1. Hopping(f, n, k, b)
  BY HoppingExists
<1>2. Reached(n, k, b) = f[k]
  BY DEF Reached, Hopping, Beyond
<1> QED BY <1>1, <1>2

\* No hop reaches where it starts; one more what is beyond.
ReachedRule ==
    \A n, b : /\ Reached(n, 0, b) = {n}
              /\ \A k \in Nat : Reached(n, k + 1, b) = Beyond(Reached(n, k, b), b)

LEMMA ReachedIs == ReachedRule
<1> SUFFICES ASSUME NEW n, NEW b
             PROVE  /\ Reached(n, 0, b) = {n}
                    /\ \A k \in Nat : Reached(n, k + 1, b) = Beyond(Reached(n, k, b), b)
  BY DEF ReachedRule
<1>1. Reached(n, 0, b) = {n}
  <2>1. PICK f : Hopping(f, n, 0, b) /\ Reached(n, 0, b) = f[0]
    BY ReachedHops
  <2> QED BY <2>1, HoppingIs
<1>2. ASSUME NEW k \in Nat
      PROVE  Reached(n, k + 1, b) = Beyond(Reached(n, k, b), b)
  <2>1. PICK f : Hopping(f, n, k, b) /\ Reached(n, k, b) = f[k]
    BY ReachedHops
  <2>2. PICK g : Hopping(g, n, k + 1, b) /\ Reached(n, k + 1, b) = g[k + 1]
    BY ReachedHops
  <2>3. f[k] = g[k]
    BY <2>1, <2>2, HoppingAgrees
  <2>5. \A i \in 0 .. k + 1 : g[i] = IF i = 0 THEN {n} ELSE Beyond(g[i - 1], b)
    BY <2>2 DEF Hopping
  <2>6. k + 1 \in 0 .. k + 1 /\ k + 1 # 0 /\ (k + 1) - 1 = k
    OBVIOUS
  <2>7. g[k + 1] = Beyond(g[k], b)
    BY <2>5, <2>6
  <2> QED BY <2>1, <2>2, <2>3, <2>7
<1> QED BY <1>1, <1>2

LEMMA ReachedGrows ==
    ASSUME NEW n, NEW b, NEW j \in Nat, NEW k \in Nat, j <= k
    PROVE  Reached(n, j, b) \subseteq Reached(n, k, b)
<1> DEFINE S == {i \in 0 .. k - j : Reached(n, j, b) \subseteq Reached(n, j + i, b)}
<1>1. 0 \in S
  OBVIOUS
<1>2. ASSUME NEW i \in 0 .. k - j, i \in S, i < k - j PROVE i + 1 \in S
  <2>1. j + i \in Nat /\ (j + i) + 1 = j + (i + 1) /\ i + 1 \in 0 .. k - j
    BY <1>2
  <2>2. Reached(n, j + (i + 1), b) = Beyond(Reached(n, j + i, b), b)
    BY <2>1, ReachedIs DEF ReachedRule
  <2> QED BY <1>2, <2>1, <2>2 DEF Beyond
<1>3. 0 .. k - j \subseteq S
  <2>1. k - j \in Nat
    OBVIOUS
  <2> HIDE DEF S
  <2> QED BY <1>1, <1>2, <2>1, UpTo
<1>4. k - j \in S /\ j + (k - j) = k
  BY <1>3
<1> QED BY <1>4

\* Once a hop reaches nothing new, no further one does.
LEMMA ReachedEnds ==
    ASSUME NEW n, NEW b, NEW j \in Nat, NEW k \in Nat, j <= k,
           Reached(n, j + 1, b) = Reached(n, j, b)
    PROVE  Reached(n, k, b) = Reached(n, j, b)
<1> DEFINE S == {i \in 0 .. k - j : Reached(n, j + i, b) = Reached(n, j, b)}
<1>1. 0 \in S
  OBVIOUS
<1>2. ASSUME NEW i \in 0 .. k - j, i \in S, i < k - j PROVE i + 1 \in S
  <2>1. j + i \in Nat /\ (j + i) + 1 = j + (i + 1) /\ i + 1 \in 0 .. k - j
    BY <1>2
  <2>2. Reached(n, j + (i + 1), b) = Beyond(Reached(n, j + i, b), b)
    BY <2>1, ReachedIs DEF ReachedRule
  <2>3. Reached(n, j + 1, b) = Beyond(Reached(n, j, b), b)
    BY ReachedIs DEF ReachedRule
  <2> QED BY <1>2, <2>1, <2>2, <2>3
<1>3. 0 .. k - j \subseteq S
  <2>1. k - j \in Nat
    OBVIOUS
  <2> HIDE DEF S
  <2> QED BY <1>1, <1>2, <2>1, UpTo
<1>4. k - j \in S /\ j + (k - j) = k
  BY <1>3
<1> QED BY <1>4

LEMMA ReachedIsNext == ReachedRule'
BY ReachedIs, PTL

LEMMA TouchingStays ==
    ASSUME nodes' = nodes, claims' = claims, NEW S, NEW b
    PROVE  Touching(S, b)' = Touching(S, b)
BY DEF Touching, VisibleClaim, EndsVisible, VisibleAt, Ends

LEMMA BeyondStays ==
    ASSUME nodes' = nodes, claims' = claims, NEW S, NEW b
    PROVE  Beyond(S, b)' = Beyond(S, b)
BY TouchingStays DEF Beyond, Ends

\* The reach depends on the claims and nodes alone.
LEMMA ReachedStays ==
    ASSUME nodes' = nodes, claims' = claims, NEW n, NEW b, NEW k \in Nat
    PROVE  Reached(n, k, b)' = Reached(n, k, b)
<1> DEFINE S == {i \in 0 .. k : Reached(n, i, b)' = Reached(n, i, b)}
<1>1. /\ Reached(n, 0, b)' = {n}
      /\ \A i \in Nat : Reached(n, i + 1, b)' = Beyond(Reached(n, i, b), b)'
  BY ReachedIsNext DEF ReachedRule
<1>2. /\ Reached(n, 0, b) = {n}
      /\ \A i \in Nat : Reached(n, i + 1, b) = Beyond(Reached(n, i, b), b)
  BY ReachedIs DEF ReachedRule
<1>3. 0 \in S
  BY <1>1, <1>2
<1>4. ASSUME NEW i \in 0 .. k, i \in S, i < k PROVE i + 1 \in S
  <2>1. i \in Nat /\ i + 1 \in 0 .. k /\ Reached(n, i, b)' = Reached(n, i, b)
    BY <1>4
  <2>2. Beyond(Reached(n, i, b), b)' = Beyond(Reached(n, i, b), b)
    BY <2>1 DEF Beyond, Touching, VisibleClaim, EndsVisible, VisibleAt, Ends
  <2> QED BY <1>1, <1>2, <2>1, <2>2
<1>5. 0 .. k \subseteq S
  <2> HIDE DEF S
  <2> QED BY <1>3, <1>4, UpTo
<1> QED BY <1>5

-----------------------------------------------------------------------------
(* A walk no write overtook is exact.                                      *)

\* After some rounds the walk has what as many hops reach and has not met its
\* target before; only claims that touch the frontier are still to be read.
WalkedExactly(q, w) ==
    LET b == q.boundary IN
    /\ w.visited = Reached(q.from, w.depth, b)
    /\ w.claims \subseteq Touching(w.visited, b)
    /\ \A c \in w.claims : Ends(c) \subseteq w.visited
    /\ Touching(w.visited, b) \subseteq w.claims \cup Touching(w.frontier, b)
    /\ q.op = "path" /\ w.depth > 0 => q.to \notin Reached(q.from, w.depth - 1, b)

\* It ended early only because there was no more to reach.
Finished(q, w) ==
    ~(q.op = "path" /\ q.to \in w.visited) =>
        /\ w.visited = Reached(q.from, Hops(q), q.boundary)
        /\ w.claims = Touching(Reached(q.from, Hops(q) - 1, q.boundary), q.boundary)

ExactWalk ==
    \A q, w : /\ q = read.q /\ w = read.walk
              /\ read.pc \in {"target", "walking", "walked"} /\ read.quiet
              => /\ WalkedExactly(q, w)
                 /\ read.pc = "walked" => Finished(q, w)

LEMMA ExactStays ==
    ASSUME nodes' = nodes, claims' = claims, NEW q \in Request, NEW w, w.depth \in Nat
    PROVE  /\ WalkedExactly(q, w) => WalkedExactly(q, w)'
           /\ Finished(q, w) => Finished(q, w)'
<1> DEFINE b == q.boundary
<1>1. Hops(q) \in Nat \ {0}
  BY HopsIs
<1>2. ASSUME NEW k \in Nat PROVE Reached(q.from, k, b)' = Reached(q.from, k, b)
  BY ReachedStays
<1>3. \A S : Touching(S, b)' = Touching(S, b)
  BY TouchingStays
<1>4. \A c : Ends(c)' = Ends(c)
  BY DEF Ends
<1>5. WalkedExactly(q, w) => WalkedExactly(q, w)'
  <2>1. w.depth > 0 => w.depth - 1 \in Nat
    OBVIOUS
  <2> QED BY <1>2, <1>3, <1>4, <2>1 DEF WalkedExactly
<1>6. Finished(q, w) => Finished(q, w)'
  <2>1. Hops(q) - 1 \in Nat /\ Hops(q) \in Nat
    BY <1>1
  <2>2. PICK R : R = Reached(q.from, Hops(q) - 1, b)
    OBVIOUS
  <2>3. R = Reached(q.from, Hops(q) - 1, b)'
    BY <1>2, <2>1, <2>2
  <2>4. Touching(R, b)' = Touching(R, b)
    BY <1>3
  <2> QED BY <1>2, <2>1, <2>2, <2>3, <2>4 DEF Finished, Touching, VisibleClaim, EndsVisible, VisibleAt, Ends
<1> QED BY <1>5, <1>6

LEMMA FromExactly ==
    ASSUME NEW q
    PROVE  WalkedExactly(q, From(q.from))
<1> DEFINE w == From(q.from)
<1>1. w.frontier = {q.from} /\ w.visited = {q.from} /\ w.claims = {} /\ w.depth = 0
  BY DEF From, NoWalk
<1>2. Reached(q.from, 0, q.boundary) = {q.from}
  BY ReachedIs DEF ReachedRule
<1> HIDE DEF w
<1>3. WalkedExactly(q, w)
  BY <1>1, <1>2 DEF WalkedExactly
<1> QED BY <1>3 DEF w

LEMMA TouchingSplits ==
    ASSUME NEW S, NEW T, S \subseteq T, NEW b
    PROVE  Touching(T, b) = Touching(S, b) \cup Touching(T \ S, b)
BY DEF Touching

LEMMA RoundExactly ==
    ASSUME NEW q \in Request, NEW w, w.depth \in Nat, w.depth < Hops(q),
           w.frontier \subseteq w.visited, WalkedExactly(q, w),
           q.op = "path" => q.to \notin w.visited,
           NEW rows, rows = Rows(w.frontier, q.boundary) \ w.claims,
           NEW v, v = Step(w, rows)
    PROVE  /\ rows = {} => Finished(q, w)
           /\ WalkedExactly(q, v)
           /\ v.frontier = {} \/ v.depth = Hops(q) => Finished(q, v)
<1> DEFINE b == q.boundary
           R(k) == Reached(q.from, k, b)
           splits(S, T) == Touching(T, b) = Touching(S, b) \cup Touching(T \ S, b)
<1> HIDE DEF splits
<1>0. \A S, T : S \subseteq T => splits(S, T)
  BY TouchingSplits DEF splits
<1>1. Hops(q) \in Nat /\ w.depth + 1 \in Nat /\ w.depth <= Hops(q) - 1 /\ Hops(q) - 1 \in Nat
  BY HopsIs
<1>2. /\ w.visited = R(w.depth)
      /\ w.claims \subseteq Touching(w.visited, b)
      /\ \A c \in w.claims : Ends(c) \subseteq w.visited
      /\ Touching(w.visited, b) \subseteq w.claims \cup Touching(w.frontier, b)
  BY DEF WalkedExactly
<1>3. Touching(w.frontier, b) \subseteq Touching(w.visited, b)
  BY TouchingIs
<1>4. rows = Touching(w.frontier, b) \ w.claims
  BY RowsTouch
<1>5. w.claims \cup rows = Touching(w.visited, b)
  BY <1>2, <1>3, <1>4
<1>6. R(w.depth + 1) = w.visited \cup UNION {Ends(c) : c \in Touching(w.visited, b)}
  BY <1>2, ReachedIs DEF ReachedRule, Beyond
<1>7. /\ \A n : n \in v.visited <=> n \in w.visited \/ \E c \in rows : n \in Ends(c)
      /\ v.frontier = v.visited \ w.visited /\ v.claims = w.claims \cup rows
  BY DEF Step
<1>8. v.depth = w.depth + 1
  BY DEF Step
<1>9. \A n : n \in R(w.depth + 1) <=>
              n \in w.visited \/ \E c \in Touching(w.visited, b) : n \in Ends(c)
  BY <1>6
<1>10. v.visited = R(w.depth + 1)
  <2>1. \A n : n \in v.visited <=> n \in R(w.depth + 1)
    <3> HIDE DEF R
    <3> QED BY <1>2, <1>5, <1>7, <1>9
  <2>2. v.visited = w.visited \cup UNION {Ends(c) : c \in rows}
    BY DEF Step
  <2>3. R(w.depth + 1) = w.visited \cup UNION {Ends(c) : c \in Touching(w.visited, b)}
    BY <1>6
  <2> HIDE DEF R
  <2> QED BY <2>1, <2>2, <2>3
<1>11. R(w.depth + 1) = R(w.depth) => R(Hops(q)) = R(w.depth) /\ R(Hops(q) - 1) = R(w.depth)
  BY <1>1, ReachedEnds
<1>12. rows = {} => Finished(q, w)
  <2>1. rows = {} => v.visited = w.visited /\ w.claims = Touching(w.visited, b)
    BY <1>5, <1>7
  <2> QED BY <1>2, <1>10, <1>11, <2>1 DEF Finished
<1>13. WalkedExactly(q, v)
  <2>1. v.claims \subseteq Touching(v.visited, b)
    <3>1. w.visited \subseteq v.visited
      BY <1>7
    <3>2. Touching(w.visited, b) \subseteq Touching(v.visited, b)
      <4>1. splits(w.visited, v.visited)
        BY <1>0, <3>1, Zenon
      <4> QED BY <4>1 DEF splits
    <3> QED BY <1>5, <1>7, <3>2
  <2>2. \A c \in v.claims : Ends(c) \subseteq v.visited
    BY <1>2, <1>7
  <2>3. Touching(v.visited, b) \subseteq v.claims \cup Touching(v.frontier, b)
    <3>1. w.visited \subseteq v.visited
      BY <1>7
    <3>2. Touching(v.visited, b) = Touching(w.visited, b) \cup Touching(v.frontier, b)
      <4>1. splits(w.visited, v.visited)
        BY <1>0, <3>1, Zenon
      <4>2. v.frontier = v.visited \ w.visited
        BY <1>7
      <4> QED BY <4>1, <4>2 DEF splits
    <3> QED BY <1>5, <1>7, <3>2
  <2>4. v.depth - 1 = w.depth
    BY <1>8
  <2>5. q.op = "path" => q.to \notin R(v.depth - 1)
    BY <1>2, <2>4
  <2> QED BY <1>10, <1>8, <2>1, <2>2, <2>3, <2>5 DEF WalkedExactly
<1>14. v.frontier = {} \/ v.depth = Hops(q) => Finished(q, v)
  <2>1. v.claims = Touching(R(w.depth), b)
    BY <1>2, <1>5, <1>7
  <2>2. CASE v.frontier = {}
    <3>1. v.visited = R(w.depth) /\ R(w.depth + 1) = R(w.depth)
      BY <1>2, <1>7, <1>10, <2>2
    <3> QED BY <1>11, <2>1, <3>1 DEF Finished
  <2>3. CASE v.depth = Hops(q)
    <3>1. Hops(q) = w.depth + 1 /\ Hops(q) - 1 = w.depth
      BY <1>8, <2>3
    <3> QED BY <1>10, <2>1, <3>1 DEF Finished
  <2> QED BY <2>2, <2>3
<1> QED BY <1>12, <1>13, <1>14

LEMMA GoesExact ==
    ASSUME Inv, NEW pc, NEW w, Goes(pc, w), read.pc # "idle", w.depth \in Nat,
           pc \in {"target", "walking", "walked"} /\ read.quiet
           => /\ WalkedExactly(read.q, w)
              /\ pc = "walked" => Finished(read.q, w)
    PROVE  ExactWalk'
<1>1. /\ nodes' = nodes /\ claims' = claims /\ read'.pc = pc /\ read'.walk = w
      /\ read'.q = read.q /\ read'.quiet = read.quiet
  BY DEF Goes
<1>2. PICK q \in Request : q = read.q
  BY DEF Inv, Shaped
<1>3. /\ WalkedExactly(q, w) => WalkedExactly(q, w)'
      /\ Finished(q, w) => Finished(q, w)'
  BY <1>1, ExactStays
<1>4. pc \in {"target", "walking", "walked"} /\ read.quiet
      => WalkedExactly(q, w) /\ (pc = "walked" => Finished(q, w))
  BY <1>2
<1>5. pc \in {"target", "walking", "walked"} /\ read.quiet
      => WalkedExactly(q, w)' /\ (pc = "walked" => Finished(q, w)')
  BY <1>3, <1>4
<1> QED BY <1>1, <1>2, <1>5 DEF ExactWalk

LEMMA FindExact ==
    ASSUME Inv, Way, ExactWalk, FindSource \/ FindTarget
    PROVE  ExactWalk'
<1>1. Shaped /\ read.pc \in {"source", "target"}
  BY DEF Inv, FindSource, FindTarget
<1>2. ASSUME NEW path, NEW via, NEW g, NEW S, Replies(path, via, g, S) PROVE ExactWalk'
  <2>1. Idle.pc = "idle"
    BY DEF Idle
  <2> QED BY <1>2, <2>1 DEF Replies, ExactWalk
<1>3. CASE FindSource
  <2> DEFINE w == From(read.q.from)
  <2>1. w.depth \in Nat
    BY DEF From, NoWalk
  <2>2. WalkedExactly(read.q, w)
    BY FromExactly
  <2>3. ASSUME NEW pc \in {"target", "walking"}, Goes(pc, w) PROVE ExactWalk'
    <3> HIDE DEF w
    <3> QED BY <1>1, <2>1, <2>2, <2>3, GoesExact
  <2> HIDE DEF w
  <2>4. \/ Goes("walking", w) \/ Goes("target", w)
        \/ \E path : Replies(path, <<>>, EmptyGraph, {})
    BY <1>1, <1>3, FindSourceIs DEF w
  <2> QED BY <1>2, <2>3, <2>4
<1>4. CASE FindTarget
  <2>1. read.pc = "target" /\ (Goes("walking", read.walk) \/ Replies(<<>>, <<>>, EmptyGraph, {}))
    BY <1>1, <1>4, FindTargetIs
  <2>2. read.quiet => WalkedExactly(read.q, read.walk)
    BY <2>1 DEF ExactWalk
  <2>3. read.walk.depth \in Nat
    BY <2>1 DEF Way, OnItsWay
  <2> QED BY <1>1, <1>2, <2>1, <2>2, <2>3, GoesExact
<1> QED BY <1>3, <1>4

LEMMA RoundExact ==
    ASSUME Inv, Way, ExactWalk, WalkRound
    PROVE  ExactWalk'
<1>1. PICK q \in Request : q = read.q
  BY DEF Inv, Shaped, WalkRound
<1>2. PICK w : w = read.walk
  OBVIOUS
<1>3. PICK rows : rows = Rows(w.frontier, q.boundary) \ w.claims
  OBVIOUS
<1>4. PICK v : v = Step(w, rows)
  OBVIOUS
<1>5. /\ read.pc = "walking"
      /\ \/ rows = {} /\ Goes("walked", w)
         \/ rows # {} /\ Goes("walked", v)
               /\ \/ q.op = "path" /\ q.to \in v.visited
                  \/ v.frontier = {}
                  \/ v.depth = Hops(q)
         \/ rows # {} /\ Goes("walking", v)
               /\ ~(q.op = "path" /\ q.to \in v.visited) /\ v.frontier # {}
               /\ v.depth # Hops(q)
  BY <1>1, <1>2, <1>3, <1>4, WalkRoundIs DEF Inv
<1>6. /\ w.depth \in Nat /\ w.depth < Hops(q) /\ w.frontier \subseteq w.visited
      /\ q.op = "path" => q.to \notin w.visited
  BY <1>1, <1>2, <1>5 DEF Way, OnItsWay, Inv, ReadWithin
<1>7. read.quiet => WalkedExactly(q, w)
  BY <1>1, <1>2, <1>5 DEF ExactWalk
<1>8. read.quiet =>
        /\ rows = {} => Finished(q, w)
        /\ WalkedExactly(q, v)
        /\ v.frontier = {} \/ v.depth = Hops(q) => Finished(q, v)
  BY <1>3, <1>4, <1>6, <1>7, RoundExactly
<1>9. v.depth \in Nat
  BY <1>4, <1>6 DEF Step
<1>10. q.op = "path" /\ q.to \in v.visited => Finished(q, v)
  BY DEF Finished
<1>11. CASE rows = {} /\ Goes("walked", w)
  BY <1>1, <1>5, <1>6, <1>7, <1>8, <1>11, GoesExact
<1>12. CASE /\ Goes("walked", v)
            /\ \/ q.op = "path" /\ q.to \in v.visited
               \/ v.frontier = {}
               \/ v.depth = Hops(q)
  BY <1>1, <1>5, <1>8, <1>9, <1>10, <1>12, GoesExact
<1>13. CASE Goes("walking", v)
  BY <1>1, <1>5, <1>8, <1>9, <1>13, GoesExact
<1> QED BY <1>5, <1>11, <1>12, <1>13

LEMMA StepExact == Inv /\ Way /\ ExactWalk /\ [Next]_vars => ExactWalk'
<1> SUFFICES ASSUME Inv, Way, ExactWalk, [Next]_vars PROVE ExactWalk'
  OBVIOUS
<1>1. ASSUME read'.pc \notin {"target", "walking", "walked"} \/ ~read'.quiet
      PROVE  ExactWalk'
  BY <1>1 DEF ExactWalk
<1>2. ASSUME NEW q \in Request, StartFetch(q) \/ StartWalk(q)
      PROVE  ExactWalk'
  <2>1. read'.pc \in {"fetching", "source"}
    BY <1>2 DEF StartFetch, StartWalk, Idle
  <2> QED BY <1>1, <2>1
<1>3. CASE FetchNodes \/ FetchStructure \/ FetchClaims \/ FetchRelationships
  <2>1. PICK query, g : Take(query, g)
    BY <1>3 DEF FetchNodes, FetchStructure, FetchClaims, FetchRelationships
  <2>2. read'.pc = "fetching"
    BY <2>1 DEF Take, Inv, Shaped
  <2> QED BY <1>1, <2>2
<1>4. CASE Assemble \/ AnswerPath \/ AnswerHood
  <2>1. read' = Idle /\ Idle.pc = "idle"
    BY <1>4 DEF Assemble, AnswerPath, AnswerHood, Answer, Idle
  <2> QED BY <1>1, <2>1
<1>5. CASE Write
  <2>1. read' = [read EXCEPT !.quiet = FALSE]
    BY <1>5 DEF Write, AddNode, RemoveNode, AddClaim, RemoveRelationship, EditWindow, Writes
  <2>2. ~read'.quiet
    BY <2>1 DEF Inv, Shaped
  <2> QED BY <1>1, <2>2
<1>6. CASE UNCHANGED vars
  <2>1. CASE read.pc \in {"target", "walking", "walked"}
    <3>1. Goes(read.pc, read.walk)
      BY <1>6 DEF vars, Goes
    <3>2. read.walk.depth \in Nat
      BY <2>1 DEF Way, OnItsWay
    <3>3. read.quiet => /\ WalkedExactly(read.q, read.walk)
                        /\ read.pc = "walked" => Finished(read.q, read.walk)
      BY <2>1 DEF ExactWalk
    <3> QED BY <2>1, <3>1, <3>2, <3>3, GoesExact
  <2>2. CASE read.pc \notin {"target", "walking", "walked"}
    BY <1>1, <1>6, <2>2 DEF vars
  <2> QED BY <2>1, <2>2
<1> QED BY <1>2, <1>3, <1>4, <1>5, <1>6, FindExact, RoundExact DEF Next, Write

LEMMA InitExact == Init => ExactWalk
<1>1. Idle.pc = "idle"
  BY DEF Idle
<1> QED BY <1>1 DEF Init, ExactWalk

\* While nobody writes, a walk has exactly what its rounds of hops reach.
THEOREM AlwaysExactWalk == Spec => []ExactWalk
BY InitExact, StepExact, Invariance, AlwaysWay, PTL DEF Spec

\* What WalkIsExact says of a path and of a neighborhood that nobody overtook.
PathExact(q, path) ==
    {q.from, q.to} \subseteq VisibleNodes(Story, q.boundary) =>
        /\ path # <<>> <=> q.to \in Reached(q.from, Hops(q), q.boundary)
        /\ path # <<>> /\ Len(path) - 1 > 0
             => q.to \notin Reached(q.from, Len(path) - 2, q.boundary)

HoodExact(q, of, shown) ==
    LET story == VisibleNodes(Story, q.boundary) IN
    q.from \in story =>
        /\ of = Reached(q.from, Hops(q), q.boundary) \cap story
        /\ shown = Touching(Reached(q.from, Hops(q) - 1, q.boundary), q.boundary)

ExactReply ==
    \A q, path, of, shown :
        /\ q = reply.q /\ path = reply.path /\ of = DOMAIN reply.g.nodes
        /\ shown = reply.claims /\ reply.outcome \in {"path", "hood"}
        => /\ q \in Request /\ (path = <<>> \/ Len(path) \in Nat)
           /\ reply.quiet /\ read.pc = "idle" /\ read.quiet
              => /\ reply.outcome = "path" => PathExact(q, path)
                 /\ reply.outcome = "hood" => HoodExact(q, of, shown)

\* Only a path has a target to look up.
Targeted == read.pc = "target" => read.q.op = "path"

LEMMA StepTargeted == Inv /\ Way /\ Targeted /\ [Next]_vars => Targeted'
<1> SUFFICES ASSUME Inv, Way, [Next]_vars, read'.pc = "target", Targeted
             PROVE  read'.q.op = "path"
  BY DEF Targeted
<1>1. CASE FindSource
  <2>1. Idle.pc = "idle"
    BY DEF Idle
  <2>2. Goes("target", From(read.q.from)) /\ read.q.op # "hood"
    BY <1>1, <2>1, FindSourceIs DEF Inv, Goes, Replies
  <2>3. read.q.op \in {"path", "hood"}
    BY <1>1 DEF Way, FindSource
  <2> QED BY <2>2, <2>3 DEF Goes
<1>2. CASE FindTarget \/ WalkRound
  <2>1. Idle.pc = "idle"
    BY DEF Idle
  <2>2. Shaped
    BY DEF Inv
  <2> QED BY <1>2, <2>1, <2>2, FindTargetIs, WalkRoundIs DEF Goes, Replies
<1>3. CASE Write
  <2>1. read' = [read EXCEPT !.quiet = FALSE]
    BY <1>3 DEF Write, AddNode, RemoveNode, AddClaim, RemoveRelationship, EditWindow, Writes
  <2> QED BY <2>1 DEF Inv, Shaped, Targeted
<1>4. CASE FetchNodes \/ FetchStructure \/ FetchClaims \/ FetchRelationships
  <2>1. PICK query, g : Take(query, g)
    BY <1>4 DEF FetchNodes, FetchStructure, FetchClaims, FetchRelationships
  <2> QED BY <2>1 DEF Take, Inv, Shaped
<1>5. ASSUME NEW q \in Request, StartFetch(q) \/ StartWalk(q)
      PROVE  FALSE
  BY <1>5 DEF StartFetch, StartWalk, Idle
<1>6. CASE Assemble \/ AnswerPath \/ AnswerHood
  BY <1>6 DEF Assemble, AnswerPath, AnswerHood, Answer, Idle
<1>7. CASE UNCHANGED vars
  BY <1>7 DEF vars, Targeted
<1> QED BY <1>1, <1>2, <1>3, <1>4, <1>5, <1>6, <1>7 DEF Next, Write

LEMMA AlwaysTargeted == Spec => []Targeted
<1>1. Init => Targeted
  BY DEF Init, Targeted, Idle
<1> QED BY <1>1, StepTargeted, Invariance, AlwaysWay, PTL DEF Spec

LEMMA ExactReplyStays ==
    ASSUME nodes' = nodes, claims' = claims, NEW q \in Request
    PROVE  /\ \A path : (path = <<>> \/ Len(path) \in Nat) /\ PathExact(q, path)
                        => PathExact(q, path)'
           /\ \A of, shown : HoodExact(q, of, shown) => HoodExact(q, of, shown)'
<1> DEFINE b == q.boundary
<1>1. Hops(q) \in Nat /\ Hops(q) - 1 \in Nat
  BY HopsIs
<1>2. ASSUME NEW k \in Nat PROVE Reached(q.from, k, b)' = Reached(q.from, k, b)
  BY ReachedStays
<1>3. VisibleNodes(Story, b)' = VisibleNodes(Story, b)
  BY DEF VisibleNodes, VisibleAt
<1>4. ASSUME NEW path, path = <<>> \/ Len(path) \in Nat, PathExact(q, path)
      PROVE  PathExact(q, path)'
  <2>1. Reached(q.from, Hops(q), b)' = Reached(q.from, Hops(q), b)
    BY <1>1, <1>2
  <2>2. path # <<>> /\ Len(path) - 1 > 0
        => Reached(q.from, Len(path) - 2, b)' = Reached(q.from, Len(path) - 2, b)
    <3>1. ASSUME path # <<>>, Len(path) - 1 > 0 PROVE Len(path) - 2 \in Nat
      BY <1>4, <3>1
    <3> QED BY <1>2, <3>1
  <2> QED BY <1>3, <1>4, <2>1, <2>2 DEF PathExact
<1>5. ASSUME NEW of, NEW shown, HoodExact(q, of, shown)
      PROVE  HoodExact(q, of, shown)'
  <2>1. PICK R : R = Reached(q.from, Hops(q) - 1, b)
    OBVIOUS
  <2>2. R = Reached(q.from, Hops(q) - 1, b)'
    BY <1>1, <1>2, <2>1
  <2>3. Touching(R, b)' = Touching(R, b)
    BY TouchingStays
  <2>4. Reached(q.from, Hops(q), b)' = Reached(q.from, Hops(q), b)
    BY <1>1, <1>2
  <2> QED BY <1>3, <1>5, <2>1, <2>2, <2>3, <2>4
          DEF HoodExact, Touching, VisibleClaim, EndsVisible, VisibleAt, Ends
<1> QED BY <1>4, <1>5

LEMMA RepliesExact ==
    ASSUME NEW path, NEW via, NEW g, NEW S, Replies(path, via, g, S), read.q \in Request,
           path = <<>> \/ Len(path) \in Nat,
           read.quiet => /\ read.q.op = "path" => PathExact(read.q, path)
                         /\ read.q.op = "hood" => HoodExact(read.q, DOMAIN g.nodes, S)
    PROVE  ExactReply'
<1>1. /\ nodes' = nodes /\ claims' = claims /\ reply'.outcome = read.q.op
      /\ reply'.q = read.q /\ reply'.quiet = read.quiet /\ reply'.path = path
      /\ reply'.g = g /\ reply'.claims = S
  BY DEF Replies
<1>2. PICK q \in Request : q = read.q
  OBVIOUS
<1>3. PICK of : of = DOMAIN g.nodes
  OBVIOUS
<1>4. read.quiet => /\ q.op = "path" => PathExact(q, path)
                    /\ q.op = "hood" => HoodExact(q, of, S)
  BY <1>2, <1>3
<1>5. /\ PathExact(q, path) => PathExact(q, path)'
      /\ HoodExact(q, of, S) => HoodExact(q, of, S)'
  BY <1>1, ExactReplyStays
<1>6. read.quiet => /\ q.op = "path" => PathExact(q, path)'
                    /\ q.op = "hood" => HoodExact(q, of, S)'
  BY <1>4, <1>5
<1> QED BY <1>1, <1>2, <1>3, <1>6 DEF ExactReply

\* An end that is hidden says nothing.
LEMMA HiddenExact ==
    ASSUME NEW q, NEW path, NEW of, NEW shown,
           \/ q.from \notin VisibleNodes(Story, q.boundary)
           \/ q.op = "path" /\ q.to \notin VisibleNodes(Story, q.boundary)
    PROVE  /\ q.op = "path" => PathExact(q, path)
           /\ q.op = "hood" => HoodExact(q, of, shown)
BY DEF PathExact, HoodExact

LEMMA FindReplyExact ==
    ASSUME Inv, Way, Targeted, FindSource \/ FindTarget
    PROVE  ExactReply' \/ \E pc, w : Goes(pc, w) /\ pc # "idle"
<1> DEFINE q == read.q
<1>1. Shaped /\ read.pc \in {"source", "target"} /\ q \in Request
  BY DEF Inv, Shaped, FindSource, FindTarget
<1>2. ASSUME Replies(<<>>, <<>>, EmptyGraph, {}),
             \/ q.from \notin VisibleNodes(Story, q.boundary)
             \/ q.op = "path" /\ q.to \notin VisibleNodes(Story, q.boundary)
      PROVE  ExactReply'
  <2>1. /\ q.op = "path" => PathExact(q, <<>>)
        /\ \A of, shown : q.op = "hood" => HoodExact(q, of, shown)
    BY <1>2, HiddenExact
  <2> QED BY <1>1, <1>2, <2>1, RepliesExact
<1>3. CASE FindSource
  <2> DEFINE path == <<q.from>>
  <2>1. ASSUME q.from \in VisibleNodes(Story, q.boundary), q.from = q.to, q.op # "hood",
               Replies(path, <<>>, EmptyGraph, {})
        PROVE  ExactReply'
    <3>1. Len(path) = 1 /\ path # <<>>
      OBVIOUS
    <3>2. Hops(q) \in Nat /\ 0 <= Hops(q) /\ 0 \in Nat
      BY <1>1, HopsIs
    <3>3. q.from \in Reached(q.from, 0, q.boundary)
      BY ReachedIs DEF ReachedRule
    <3>4. q.from \in Reached(q.from, Hops(q), q.boundary)
      BY <3>2, <3>3, ReachedGrows
    <3> HIDE DEF path
    <3>5. PathExact(q, path)
      BY <2>1, <3>1, <3>4 DEF PathExact
    <3> QED BY <1>1, <2>1, <3>1, <3>5, RepliesExact
  <2> HIDE DEF path
  <2>2. \/ q.from \notin VisibleNodes(Story, q.boundary) /\ Replies(<<>>, <<>>, EmptyGraph, {})
        \/ q.from \in VisibleNodes(Story, q.boundary) /\ q.op # "hood" /\ q.from = q.to
              /\ Replies(path, <<>>, EmptyGraph, {})
        \/ Goes("walking", From(q.from)) \/ Goes("target", From(q.from))
    BY <1>1, <1>3, FindSourceIs DEF path
  <2> QED BY <1>2, <2>1, <2>2
<1>4. CASE FindTarget
  <2>1. q.op = "path"
    BY <1>4 DEF FindTarget, Targeted
  <2> QED BY <1>1, <1>2, <1>4, <2>1, FindTargetIs
<1> QED BY <1>3, <1>4

LEMMA AnswerReplyExact ==
    ASSUME Inv, Way, ExactWalk, AnswerPath \/ AnswerHood
    PROVE  ExactReply'
<1>1. PICK q \in Request : q = read.q
  BY DEF Inv, Shaped, AnswerPath, AnswerHood
<1>2. PICK w : w = read.walk
  OBVIOUS
<1>3. read.pc = "walked" /\ (read.quiet => WalkedExactly(q, w) /\ Finished(q, w))
  BY <1>1, <1>2 DEF ExactWalk, AnswerPath, AnswerHood
<1>4. PICK d : Ranked(w, q.from, d)
  BY <1>1, <1>2, <1>3 DEF Way, OnItsWay
<1>5. /\ w.depth \in 0 .. Hops(q) /\ Hops(q) \in Nat
      /\ q.op = "path" /\ q.to \in w.visited => q.to \in w.frontier
      /\ w.visited \subseteq Node
  BY <1>1, <1>2, <1>3, HopsIs DEF Way, OnItsWay, Inv, ReadWithin, Within
<1>6. CASE AnswerHood
  <2>1. PICK g : /\ DOMAIN g.nodes = w.visited \cap VisibleNodes(Story, q.boundary)
                 /\ Replies(<<>>, <<>>, g, w.claims)
    BY <1>1, <1>2, <1>6, AnswerHoodIs
  <2>2. q.op = "hood"
    BY <1>1, <1>6, AnswerHoodIs
  <2>3. read.quiet => HoodExact(q, DOMAIN g.nodes, w.claims)
    BY <1>3, <2>1, <2>2 DEF Finished, HoodExact
  <2> QED BY <1>1, <2>1, <2>2, <2>3, RepliesExact
<1>7. CASE AnswerPath
  <2>1. PICK path : path = WayBack(w, q.to)
    OBVIOUS
  <2>2. PICK via : via = [i \in 1 .. Len(path) - 1 |-> w.via[path[i + 1]]]
    OBVIOUS
  <2>3. /\ q.op = "path"
        /\ \/ q.to \notin w.visited /\ Replies(<<>>, <<>>, EmptyGraph, {})
           \/ q.to \in w.visited /\ Replies(path, via, EmptyGraph, {})
    BY <1>1, <1>2, <1>7, <2>1, <2>2, AnswerPathIs
  <2>4. CASE q.to \notin w.visited /\ Replies(<<>>, <<>>, EmptyGraph, {})
    <3>1. read.quiet => PathExact(q, <<>>)
      BY <1>3, <2>4 DEF Finished, PathExact
    <3> QED BY <1>1, <2>3, <2>4, <3>1, RepliesExact
  <2>5. CASE q.to \in w.visited /\ Replies(path, via, EmptyGraph, {})
    <3>1. Chain(w, q.from, d, path, q.to)
      BY <1>4, <1>5, <2>1, <2>5, WayBackChain
    <3>2. path \in Seq(w.visited) /\ Len(path) = d[q.to] + 1
      BY <3>1 DEF Chain
    <3>3. d[q.to] = w.depth
      BY <1>4, <1>5, <2>3, <2>5 DEF Ranked
    <3>4. Len(path) \in Nat /\ Len(path) = w.depth + 1 /\ path # <<>>
      <4>1. Len(path) = w.depth + 1 /\ w.depth \in Nat
        BY <1>5, <3>2, <3>3
      <4>2. path # <<>>
        BY <4>1
      <4> QED BY <4>1, <4>2
    <3>5. ASSUME read.quiet PROVE PathExact(q, path)
      <4>1. w.visited = Reached(q.from, w.depth, q.boundary)
        BY <1>3, <3>5 DEF WalkedExactly
      <4>2. w.depth \in Nat /\ Hops(q) \in Nat /\ w.depth <= Hops(q)
        BY <1>5
      <4>3. q.to \in Reached(q.from, Hops(q), q.boundary)
        BY <2>5, <4>1, <4>2, ReachedGrows
      <4>4. w.depth > 0 => q.to \notin Reached(q.from, w.depth - 1, q.boundary)
        BY <1>3, <2>3, <3>5 DEF WalkedExactly
      <4>5. Len(path) - 1 = w.depth /\ Len(path) - 2 = w.depth - 1
        BY <3>4, <4>2
      <4> QED BY <3>4, <4>3, <4>4, <4>5 DEF PathExact
    <3> QED BY <1>1, <2>3, <2>5, <3>4, <3>5, RepliesExact
  <2> QED BY <2>3, <2>4, <2>5
<1> QED BY <1>6, <1>7

LEMMA StepReplyExact ==
    Inv /\ Way /\ Targeted /\ ExactWalk /\ ExactReply /\ [Next]_vars => ExactReply'
<1> SUFFICES ASSUME Inv, Way, Targeted, ExactWalk, ExactReply, [Next]_vars PROVE ExactReply'
  OBVIOUS
<1>1. ASSUME reply' = reply, read'.pc # "idle" \/ ~read'.quiet
      PROVE  ExactReply'
  BY <1>1 DEF ExactReply
<1>2. ASSUME reply'.outcome \notin {"path", "hood"}
      PROVE  ExactReply'
  BY <1>2 DEF ExactReply
<1>3. ASSUME NEW q \in Request, StartFetch(q) \/ StartWalk(q)
      PROVE  ExactReply'
  <2>1. reply' = NoReply /\ NoReply.outcome = "none"
    BY <1>3 DEF StartFetch, StartWalk, NoReply
  <2> QED BY <1>2, <2>1
<1>4. CASE FetchNodes \/ FetchStructure \/ FetchClaims \/ FetchRelationships
  <2>1. PICK query, g : Take(query, g)
    BY <1>4 DEF FetchNodes, FetchStructure, FetchClaims, FetchRelationships
  <2>2. reply' = reply /\ read'.pc = "fetching"
    BY <2>1 DEF Take, Inv, Shaped
  <2> QED BY <1>1, <2>2
<1>5. CASE Assemble
  <2>1. PICK r : Answer(r) /\ r.outcome \notin {"path", "hood"}
    <3> DEFINE failed == [NoReply EXCEPT !.outcome = "failed"]
               outcome == IF read.q.op = "view" THEN "dto" ELSE "graph"
               dto == IF read.q.op = "view" THEN Project(read.g, read.q) ELSE Refused
               r == [NoReply EXCEPT !.outcome = outcome, !.g = read.g, !.dto = dto]
    <3>1. failed.outcome = "failed"
      BY DEF NoReply
    <3>2. Answer(failed) \/ Answer(r)
      BY <1>5 DEF Assemble
    <3>3. outcome \in {"dto", "graph"}
      OBVIOUS
    <3> HIDE DEF outcome, dto, failed
    <3>4. r.outcome = outcome
      BY DEF NoReply
    <3> HIDE DEF r
    <3> QED BY <3>1, <3>2, <3>3, <3>4
  <2>2. reply'.outcome = r.outcome
    BY <2>1 DEF Answer, NoReply
  <2> QED BY <1>2, <2>1, <2>2
<1>6. CASE FindSource \/ FindTarget
  <2>1. ASSUME NEW pc, NEW w, Goes(pc, w), pc # "idle" PROVE ExactReply'
    BY <1>1, <2>1 DEF Goes
  <2> QED BY <1>6, <2>1, FindReplyExact
<1>7. CASE WalkRound
  <2>1. reply' = reply /\ read'.pc \in {"walking", "walked"}
    BY <1>7, WalkRoundIs DEF Inv, Goes
  <2> QED BY <1>1, <2>1
<1>8. CASE Write
  <2>1. read' = [read EXCEPT !.quiet = FALSE] /\ reply' = reply
    BY <1>8 DEF Write, AddNode, RemoveNode, AddClaim, RemoveRelationship, EditWindow, Writes
  <2>2. ~read'.quiet
    BY <2>1 DEF Inv, Shaped
  <2> QED BY <1>1, <2>1, <2>2
<1>9. CASE UNCHANGED vars
  <2>1. /\ nodes' = nodes /\ claims' = claims /\ reply' = reply /\ read' = read
    BY <1>9 DEF vars
  <2>2. \A q \in Request :
          /\ \A path : (path = <<>> \/ Len(path) \in Nat) /\ PathExact(q, path)
                       => PathExact(q, path)'
          /\ \A of, shown : HoodExact(q, of, shown) => HoodExact(q, of, shown)'
    BY <2>1, ExactReplyStays
  <2> QED BY <2>1, <2>2 DEF ExactReply
<1> QED BY <1>3, <1>4, <1>5, <1>6, <1>7, <1>8, <1>9, AnswerReplyExact DEF Next, Write

\* A walk that no write overtook is exact: a path is found whenever there is one
\* within the hops and no shorter one exists, a neighborhood has all that the
\* depth reaches; an overtaken one still returns a chain of claims.
THEOREM AlwaysExact == Spec => []WalkIsExact
<1>1. Init => ExactReply
  <2>1. NoReply.outcome = "none"
    BY DEF NoReply
  <2> QED BY <2>1 DEF Init, ExactReply
<1>2. Spec => []ExactReply
  BY <1>1, StepReplyExact, Invariance, AlwaysWay, AlwaysTargeted, AlwaysExactWalk, PTL DEF Spec
<1>3. ASSUME Chained, ExactReply PROVE WalkIsExact
  <2>1. PICK q : q = reply.q
    OBVIOUS
  <2>2. PICK path : path = reply.path
    OBVIOUS
  <2>3. PICK of : of = DOMAIN reply.g.nodes
    OBVIOUS
  <2>4. PICK shown : shown = reply.claims
    OBVIOUS
  <2>5. reply.outcome \in {"path", "hood"}
        => /\ path = <<>> \/ Len(path) \in Nat
           /\ reply.quiet /\ read.pc = "idle" /\ read.quiet
              => /\ reply.outcome = "path" => PathExact(q, path)
                 /\ reply.outcome = "hood" => HoodExact(q, of, shown)
    BY <1>3, <2>1, <2>2, <2>3, <2>4 DEF ExactReply
  <2>6. reply.outcome = "path" /\ path # <<>>
        => /\ path[1] = q.from /\ path[(Len(path) - 1) + 1] = q.to
           /\ Len(path) - 1 <= Hops(q) /\ IsChain(path, reply.via)
    <3>1. ASSUME reply.outcome = "path", path # <<>>
          PROVE  q \in Request /\ IsPath(q, path, reply.via)
      BY <1>3, <2>1, <2>2, <3>1 DEF Chained
    <3>2. ASSUME q \in Request, IsPath(q, path, reply.via)
          PROVE  /\ path[1] = q.from /\ path[(Len(path) - 1) + 1] = q.to
                 /\ Len(path) - 1 <= Hops(q) /\ IsChain(path, reply.via)
      <4>1. Len(path) \in 1 .. Hops(q) + 1 /\ Hops(q) \in Nat
        BY <3>2, HopsIs DEF IsPath
      <4>2. (Len(path) - 1) + 1 = Len(path) /\ Len(path) - 1 <= Hops(q)
        BY <4>1
      <4> QED BY <3>2, <4>2 DEF IsPath
    <3> QED BY <3>1, <3>2
  <2>7. reply.outcome = "path" /\ reply.quiet /\ read.pc = "idle" /\ read.quiet
          /\ {q.from, q.to} \subseteq VisibleNodes(Story, q.boundary)
        => /\ path # <<>> <=> q.to \in Reached(q.from, Hops(q), q.boundary)
           /\ path # <<>> /\ Len(path) - 1 > 0
                => q.to \notin Reached(q.from, (Len(path) - 1) - 1, q.boundary)
    <3>1. Len(path) \in Nat => (Len(path) - 1) - 1 = Len(path) - 2
      OBVIOUS
    <3> QED BY <2>5, <3>1 DEF PathExact
  <2>8. reply.outcome = "hood" /\ reply.quiet /\ read.pc = "idle" /\ read.quiet
          /\ q.from \in VisibleNodes(Story, q.boundary)
        => /\ of = Reached(q.from, Hops(q), q.boundary) \cap VisibleNodes(Story, q.boundary)
           /\ shown = Touching(Reached(q.from, Hops(q) - 1, q.boundary), q.boundary)
    BY <2>5 DEF HoodExact
  <2> QED BY <2>1, <2>2, <2>3, <2>4, <2>6, <2>7, <2>8 DEF WalkIsExact
<1>4. Chained /\ ExactReply => WalkIsExact
  BY <1>3
<1> QED BY <1>2, <1>4, AlwaysChained, PTL
=============================================================================
