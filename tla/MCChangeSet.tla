----------------------------- MODULE MCChangeSet -----------------------------
(* A small series for TLC: a canonical character, a candidate claim about it
   that only episode 2 reveals, a user's own node, and ids for new resources. *)
EXTENDS ChangeSet, TLC

CONSTANTS dexter, theory, mine, new1, new2, c1, c2

MCResource == {dexter, theory, mine, new1, new2}

MCSeed ==
    dexter :> [kind |-> "Character", origin |-> "canonical", order |-> 1]
    @@ theory :> [kind |-> "Claim", origin |-> "candidate", order |-> 2]
    @@ mine :> [kind |-> "Node", origin |-> "user", order |-> 1]

Op(type, targets) == [type |-> type, targets |-> targets]

\* A note on the claim of episode 2; an edit of the user's node after a claim
\* about it; a forbidden edit of the candidate claim.
MCOpLists ==
    { << Op("create_note", {theory}) >>,
      << Op("create_claim", {dexter, mine}), Op("update_node", {mine}) >>,
      << Op("update_claim", {theory}) >> }

\* A delete after a create, two creates a revert must undo together, one that
\* leaves an id for another, and a note edit that cannot work.
MCOpListsMore ==
    { << Op("create_node", {dexter}), Op("delete_node", {mine}) >>,
      << Op("create_note", {mine}), Op("create_note", {dexter}) >>,
      << Op("attach_evidence", {theory}) >>,
      << Op("update_note", {mine}) >> }

NewSymmetry == Permutations({new1, new2})
Symmetry == NewSymmetry \cup Permutations({c1, c2})
=============================================================================
