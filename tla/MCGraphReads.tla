---------------------------- MODULE MCGraphReads ----------------------------
EXTENDS GraphReads, TLC

N(type, order) == [type |-> type, order |-> order, episode |-> 5, user |-> FALSE]
None == [type |-> "absent", order |-> 0, episode |-> 0, user |-> FALSE]
Custom == [type |-> "Character", order |-> 1, episode |-> 5, user |-> TRUE]
C(origin, s, o, type, order, until) ==
    [origin |-> origin, subject |-> s, object |-> o, type |-> type,
     order |-> order, from |-> 1, until |-> until]

\* 7 is the custom node to come.
MCNodes ==
    <<N("Character", 1), N("Event", 1), N("Character", 2), N("Location", 1), N("Episode", 1),
      N("Source", 1), None>>

\* Of the second episode, or over by then; 2 - 3 shows an end of the second.
MCCanonical ==
    <<C("canonical", 1, 3, "OPPOSES", 2, 2), C("canonical", 2, 3, "KNOWS", 1, 2),
      C("canonical", 1, 2, "KNOWS", 1, 1), C("canonical", 2, 4, "LOCATED_IN", 1, 2)>>
Unmade == [origin |-> "absent", subject |-> 1, object |-> 1, type |-> "KNOWS", order |-> 0,
           from |-> 1, until |-> 2]
MCClaims(S) ==
    [c \in 11 .. 17 |-> IF c - 10 \in S THEN MCCanonical[c - 10] ELSE Unmade]

MCStarts == {[nodes |-> MCNodes, claims |-> MCClaims(S)] : S \in SUBSET (1 .. 4)}

MCStructure ==
    {[id |-> 21, source |-> 2, target |-> 5, type |-> "OCCURRED_IN", order |-> 1]}

MCNewNode == {[of |-> 7, item |-> Custom]}
MCNewClaim ==
    {[of |-> 15, item |-> C("candidate", 1, 4, "KNOWS", 1, 2)],
     [of |-> 15, item |-> C("candidate", 4, 3, "KNOWS", 2, 2)],
     [of |-> 16, item |-> C("user", 1, 7, "KNOWS", 1, 2)],
     [of |-> 17, item |-> C("user", 2, 6, "OPPOSES", 1, 2)]}
MCWindow == {<<1, 1>>, <<2, 2>>, <<1, 2>>}

Q(op, view, b, from, to, limit, focus) ==
    [op |-> op, view |-> view, boundary |-> b, from |-> from, to |-> to, limit |-> limit,
     focus |-> focus]
MCRequest ==
    {Q("graph", "full", 1, 1, 1, 1, {}),
     Q("view", "full", 2, 1, 1, 1, {}),
     Q("view", "plot_threads", 1, 1, 1, 1, {}),
     Q("view", "character_network", 2, 1, 1, 1, {}),
     Q("view", "episode_overview", 2, 1, 1, 1, {}),
     Q("view", "graphrag_focus", 2, 1, 1, 1, {2}),
     Q("view", "graphrag_focus", 2, 1, 1, 1, {2, 3}),
     Q("view", "conflict", 2, 3, 1, 1, {}),
     Q("view", "locations", 1, 2, 1, 1, {}),
     Q("view", "episode_events", 1, 5, 1, 1, {}),
     Q("path", "none", 1, 1, 4, 4, {}),
     Q("path", "none", 2, 1, 4, 4, {}),
     Q("path", "none", 2, 1, 4, 2, {}),
     Q("path", "none", 2, 3, 3, 4, {}),
     Q("path", "none", 1, 1, 3, 4, {}),
     Q("hood", "none", 1, 1, 1, 2, {}),
     Q("hood", "none", 2, 4, 1, 1, {}),
     Q("hood", "none", 2, 4, 1, 4, {})}
=============================================================================
