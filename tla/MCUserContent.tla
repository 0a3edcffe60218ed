---------------------------- MODULE MCUserContent ----------------------------
EXTENDS UserContent, TLC

CONSTANTS c1, c2, ann, bob, root, entity, node, rel, note, claim, v1, v2, nobody, none

Story == [kind |-> "Node", origin |-> "canonical", owner |-> nobody, value |-> v1,
          refs |-> {}, order |-> 1, authored |-> FALSE, attached |-> FALSE, status |-> "none"]
MCSeed == entity :> Story

\* The node is of the second episode, what refers to it says the first.
R(op, r, k, u, v, refs) ==
    [op |-> op, of |-> r, kind |-> k, actor |-> u, value |-> v, refs |-> refs,
     episode |-> IF r = node THEN 2 ELSE 1]

Perms == Permutations({c1, c2})

\* Bob owns the note only, root is the administrator.
MCRequest ==
    {R("create", node, "Node", ann, v1, {}),
     R("update", node, "Node", ann, v2, {}),
     R("delete", node, "Node", root, none, {}),
     R("create", rel, "Claim", ann, v1, {entity, node}),
     R("update", rel, "Claim", bob, v2, {}),
     R("update", rel, "Claim", ann, v2, {}),
     R("delete", rel, "Claim", ann, none, {}),
     R("create", note, "UserNote", bob, v1, {node}),
     R("update", note, "UserNote", bob, v2, {}),
     R("delete", note, "UserNote", bob, none, {}),
     R("ingest", claim, "Claim", ann, v1, {entity, node}),
     R("approve", claim, "Claim", root, none, {}),
     R("reject", claim, "Claim", root, none, {}),
     R("edit", claim, "Claim", root, v2, {}),
     R("reject", rel, "Claim", root, none, {})}
=============================================================================
