----------------------------- MODULE Projections -----------------------------
(***************************************************************************)
(* The visualization projections: pure functions from one safe graph to    *)
(* the DTO of a view, an answer graph or an expansion.  A graph is         *)
(*   [nodes |-> [id -> [type, order, episode]], edges |-> set of Edge]     *)
(* with ids that are numbers, ordered as the code orders strings.          *)
(*                                                                         *)
(* The routes pass neither editorial events nor plot threads, so no Event  *)
(* is in an overview and no focus is replaced by another.                  *)
(***************************************************************************)
EXTENDS Integers, FiniteSets

CONSTANTS
    OverviewMaxNodes,   \* EPISODE_OVERVIEW_MAX_NODES
    OverviewMaxEdges,   \* EPISODE_OVERVIEW_MAX_EDGES
    FocusMaxIds,        \* GRAPHRAG_FOCUS_MAX_IDS
    FocusMaxNodes       \* GRAPHRAG_FOCUS_MAX_NODES

ASSUME ProjectionsAssumption ==
    /\ {OverviewMaxNodes, OverviewMaxEdges, FocusMaxIds, FocusMaxNodes} \subseteq Nat
    /\ FocusMaxIds \in 1 .. FocusMaxNodes

\* OMITTED_EDGE_TYPES, EXPANSION_EDGE_TYPES.
OmittedTypes == {"PARTICIPATED_IN", "OCCURRED_IN", "LOCATED_IN", "WITNESSED", "CAUSED",
                 "AFFECTED", "TARGETED", "MENTIONED"}
NeighbourTypes ==
    [family    |-> {"FAMILY_OF"},
     work      |-> {"WORKS_WITH"},
     conflict  |-> {"OPPOSES", "THREATENS", "ATTACKS", "KILLS", "DISTRUSTS"},
     locations |-> {"LOCATED_IN", "OCCURRED_IN"}]

\* A refused projection is a 422.
Refused == [nodes |-> {}, edges |-> {}, focus |-> 0]

EndsIn(S, e) == e.source \in S /\ e.target \in S

\* project_narrative_edges.
NarrativeEdges(g, kept) == {e \in g.edges : e.type \notin OmittedTypes /\ EndsIn(kept, e)}

\* enforce_dto_references.
Checked(dto) ==
    IF (\A e \in dto.edges : EndsIn(dto.nodes, e)) /\ (dto.focus # 0 => dto.focus \in dto.nodes)
    THEN dto
    ELSE Refused

OfType(g, types) == {n \in DOMAIN g.nodes : g.nodes[n].type \in types}

Narrative(g, types) ==
    LET kept == OfType(g, types) IN
    Checked([nodes |-> kept, edges |-> NarrativeEdges(g, kept), focus |-> 0])

\* project_plot_threads: there are no threads to group.
PlotThreads(g) == Narrative(g, {"Series", "Episode", "Character"})

CharacterNetwork(g) == Narrative(g, {"Character"})

\* project_episode_overview: over the cap it is refused, never cut.
Overview(g) ==
    LET dto == Narrative(g, {"Series", "Episode", "Character"}) IN
    IF Cardinality(dto.nodes) > OverviewMaxNodes \/ Cardinality(dto.edges) > OverviewMaxEdges
    THEN Refused
    ELSE dto

Full(g) == Checked([nodes |-> DOMAIN g.nodes, edges |-> g.edges, focus |-> 0])

\* A cut of a sorted list, without the list: what has fewer than n in front.
FirstOf(S, n, ahead) == {x \in S : Cardinality(ahead[x]) < n}

ById(S) == [x \in S |-> {y \in S : y < x}]

\* The focus by id, then its neighbours by id.
FocusFirst(focus, around) ==
    [x \in focus \cup around |->
        {y \in focus \cup around : IF x \in focus THEN y \in focus /\ y < x
                                   ELSE y \in focus \/ y < x}]

\* By visible_from_order, then id.
ByOrder(g, S) ==
    [x \in S |-> {y \in S : \/ g.nodes[y].order < g.nodes[x].order
                            \/ g.nodes[y].order = g.nodes[x].order /\ y < x}]

LeastOf(S) == CHOOSE n \in S : \A m \in S : n <= m

\* What shares an edge of such a type with a member of the focus.
Neighbours(g, focus, types) ==
    {n \in DOMAIN g.nodes :
        \E e \in g.edges : /\ e.type \in types
                           /\ \/ e.source \in focus /\ e.target = n
                              \/ e.target \in focus /\ e.source = n}

AroundFocus(g, focus) ==
    Neighbours(g, focus, {e.type : e \in g.edges} \ OmittedTypes) \ focus

FocusRefused(g, focus) ==
    \/ focus = {} \/ Cardinality(focus) > FocusMaxIds
    \/ ~(focus \subseteq DOMAIN g.nodes)

\* Mutant: the cut does not keep the focus in front of its neighbours.
AnswerGraphOfAll(g, focus) ==
    IF FocusRefused(g, focus) THEN Refused
    ELSE LET all == focus \cup AroundFocus(g, focus)
             kept == FirstOf(all, FocusMaxNodes, ById(all)) IN
         Checked([nodes |-> kept, edges |-> NarrativeEdges(g, kept), focus |-> LeastOf(focus)])

\* project_graphrag_focus: the focus, then its neighbours, cut to a bound.
AnswerGraph(g, focus) ==
    IF FocusRefused(g, focus) THEN Refused
    ELSE LET around == AroundFocus(g, focus)
             kept == FirstOf(focus \cup around, FocusMaxNodes, FocusFirst(focus, around)) IN
         Checked([nodes |-> kept, edges |-> NarrativeEdges(g, kept),
                  focus |-> LeastOf(focus \cap kept)])

ExpandedType(key) == IF key = "locations" THEN "Location" ELSE "Character"

Additions(g, anchor, key) ==
    IF key = "episode_events"
    THEN {n \in OfType(g, {"Event"}) : g.nodes[n].episode = anchor}
    ELSE Neighbours(g, {anchor}, NeighbourTypes[key]) \cap OfType(g, {ExpandedType(key)})

\* project_expansion: the anchor and the first of what it is next to.
Expansion(g, anchor, key, limit) ==
    IF \/ anchor \notin DOMAIN g.nodes
       \/ key = "episode_events" /\ g.nodes[anchor].type # "Episode"
    THEN Refused
    ELSE LET additions == Additions(g, anchor, key)
             kept == {anchor} \cup FirstOf(additions, limit, ByOrder(g, additions)) IN
         Checked([nodes |-> kept,
                  edges |-> {e \in g.edges : /\ EndsIn(kept, e)
                                             /\ key # "episode_events" => e.type \in NeighbourTypes[key]},
                  focus |-> 0])

\* project_view, project_expansion: q.view names the view or the expansion key.
Project(g, q) ==
    CASE q.view = "episode_overview"  -> Overview(g)
      [] q.view = "character_network" -> CharacterNetwork(g)
      [] q.view = "plot_threads"      -> PlotThreads(g)
      [] q.view = "full"              -> Full(g)
      [] q.view = "graphrag_focus"    -> AnswerGraph(g, q.focus)
      [] OTHER                        -> Expansion(g, q.from, q.view, q.limit)

=============================================================================
