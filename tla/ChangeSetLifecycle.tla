-------------------------- MODULE ChangeSetLifecycle --------------------------
(***************************************************************************)
(* What ChangeSetRepository promises of a ChangeSet: it is decided once,   *)
(* each decision is one step, and the graph and the audit log change with  *)
(* the decision or not at all.  ChangeSet implements this when its requests*)
(* are handled one at a time, and not when they overlap.                   *)
(***************************************************************************)
EXTENDS Sequences

CONSTANTS ChangeSetId, Resource

VARIABLES
    status,   \* [ChangeSetId -> status]
    log,      \* audit entries, oldest first
    content   \* what is in the graph

vars == <<status, log, content>>

Entry == [of : ChangeSetId, action : {"Created", "Reverted"}]

Init ==
    /\ status = [k \in ChangeSetId |-> "absent"]
    /\ log = <<>>
    /\ content \subseteq Resource

Move(k, from, to) == status[k] = from /\ status' = [status EXCEPT ![k] = to]
Record(k, action) == log' = Append(log, [of |-> k, action |-> action])

Propose(k) == Move(k, "absent", "awaiting_confirmation") /\ UNCHANGED <<log, content>>

Apply(k) ==
    /\ Move(k, "awaiting_confirmation", "applied")
    /\ Record(k, "Created")
    /\ content' \subseteq Resource

Fail(k) == Move(k, "awaiting_confirmation", "failed") /\ UNCHANGED <<log, content>>

Reject(k) == Move(k, "awaiting_confirmation", "rejected") /\ UNCHANGED <<log, content>>

Revert(k) ==
    /\ Move(k, "applied", "reverted")
    /\ Record(k, "Reverted")
    /\ content' \subseteq content

\* The user deletes something of theirs, outside of any ChangeSet.
UserDeletes == content' \subseteq content /\ UNCHANGED <<status, log>>

Next ==
    \/ \E k \in ChangeSetId : Propose(k) \/ Apply(k) \/ Fail(k) \/ Reject(k) \/ Revert(k)
    \/ UserDeletes

Spec == Init /\ [][Next]_vars

=============================================================================
