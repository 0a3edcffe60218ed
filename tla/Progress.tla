------------------------------ MODULE Progress ------------------------------
(***************************************************************************)
(* One user's watch progress on one series: the UserSeriesProgress record  *)
(* every read takes its spoiler boundary from.                             *)
(*                                                                         *)
(* ProgressService issues each Cypher statement as a transaction of its    *)
(* own.  A statement is an action here, and requests interleave between    *)
(* statements.  The record is keyed by user and series and every statement *)
(* but the migration matches that key, so one record is enough.            *)
(***************************************************************************)
EXTENDS Integers

CONSTANTS
    Client,     \* requests the server may be handling at the same time
    MaxOrder,   \* bound: largest order a request may name
    Episodes    \* persisted episode orders of the series

Order == 1 .. MaxOrder
Null == 0       \* a property that is not set, a field that is not sent

ASSUME ProgressAssumption ==
    /\ MaxOrder \in Nat \ {0}
    /\ Episodes \subseteq Order

\* ProgressUpdateRequest: never both boundary fields, at least one field.
ProgressUpdateRequest ==
    {r \in [watched : Order \cup {Null}, view : Order \cup {Null},
            until : Order \cup {Null}] :
        /\ Null \in {r.watched, r.until}
        /\ {r.watched, r.view, r.until} # {Null}}

\* What the chat route upserts for a user without a record.
FirstRequest == [watched |-> 1, view |-> 1, until |-> Null]
NoRequest == [watched |-> Null, view |-> Null, until |-> Null]

VARIABLES
    record,     \* the persisted row
    tx,         \* what each client's request is doing (overtaken: history, another
                \* saved since it read)
    told,       \* the boundary each client's last resolve returned
    confirmed   \* history: every watched order somebody asked for

vars == <<record, tx, told, confirmed>>

\* Either both split fields are set or neither is.
Row == {r \in [watched : Order \cup {Null}, view : Order \cup {Null},
               until : Order \cup {Null}] : r.watched = Null <=> r.view = Null}
NoRecord == [watched |-> Null, view |-> Null, until |-> Null]
PreSplit(o) == [watched |-> Null, view |-> Null, until |-> o]
Idle == [pc |-> "idle", req |-> NoRequest, create |-> FALSE,
         watched |-> Null, view |-> Null, overtaken |-> FALSE]

\* A record may date from before the watched and view orders were split.
Init ==
    /\ record \in {NoRecord} \cup {PreSplit(o) : o \in Episodes}
    /\ tx = [c \in Client |-> Idle]
    /\ told = [c \in Client |-> Null]
    /\ confirmed = {record.until} \ {Null}

-----------------------------------------------------------------------------
\* effective_view_order
EffectiveViewOrder(view, watched) == IF view <= watched THEN view ELSE watched

\* The legacy alias stands in for the watched order.
Confirms(req) == IF req.watched = Null THEN req.until ELSE req.watched
ViewOnly(req) == Confirms(req) = Null

\* Mutant: a view-only change moves the watched order along.
WatchedFollowsView(req) == IF ViewOnly(req) THEN req.view ELSE Confirms(req)
\* The two orders an upsert is going to write.
NewWatched(req) == IF ViewOnly(req) THEN record.watched ELSE Confirms(req)
NewView(req) == IF req.view = Null THEN Confirms(req) ELSE req.view

\* Mutant: the persisted order alone is checked.
AcceptedAnyView(req) ==
    /\ IF ViewOnly(req) THEN record # NoRecord ELSE Confirms(req) \in Episodes
    /\ NewView(req) \in Episodes
Accepted(req) ==
    /\ IF ViewOnly(req) THEN record # NoRecord ELSE Confirms(req) \in Episodes
    /\ NewView(req) \in Episodes
    /\ NewView(req) <= NewWatched(req)

\* Mutant: the guard on the split fields is missing.
MigratedAgain == IF record = NoRecord THEN record
                 ELSE [record EXCEPT !.watched = record.until, !.view = record.until]
\* Mutant: the view order is not backfilled.
MigratedHalf == IF record.watched = Null THEN [record EXCEPT !.watched = record.until]
                ELSE record
\* PROGRESS_MIGRATE_QUERY
Migrated == IF record.watched = Null /\ record.until # Null
            THEN [record EXCEPT !.watched = record.until, !.view = record.until]
            ELSE record

-----------------------------------------------------------------------------
(* upsert: migrate, read the record and validate, then MERGE.              *)

StartUpsert(c, req) ==
    /\ tx[c].pc = "idle"
    /\ record' = Migrated
    /\ tx' = [tx EXCEPT ![c] = [Idle EXCEPT !.pc = "existing", !.req = req]]
    /\ UNCHANGED <<told, confirmed>>

FindExisting(c) ==
    /\ tx[c].pc = "existing"
    /\ Accepted(tx[c].req)
    /\ tx' = [tx EXCEPT ![c].pc = "save",
                        ![c].watched = NewWatched(tx[c].req),
                        ![c].view = NewView(tx[c].req)]
    /\ confirmed' = confirmed \cup ({Confirms(tx[c].req)} \ {Null})
    /\ UNCHANGED <<record, told>>

Refuse(c) ==
    /\ tx[c].pc = "existing"
    /\ ~ Accepted(tx[c].req)
    /\ tx' = [tx EXCEPT ![c] = Idle]
    /\ told' = [told EXCEPT ![c] = Null]
    /\ UNCHANGED <<record, confirmed>>

\* PROGRESS_UPSERT_QUERY
Saved(t) == [watched |-> t.watched, view |-> t.view, until |-> t.watched]

\* Whose save rests on a read it made of the record in an earlier transaction.
HasRead(t) == t.pc = "save" \/ (t.create /\ t.pc \in {"create", "existing"})

Save(c) ==
    /\ tx[c].pc = "save"
    /\ record' = Saved(tx[c])
    /\ tx' = [d \in Client |->
                 IF d = c THEN Idle
                 ELSE [tx[d] EXCEPT !.overtaken = @ \/ HasRead(tx[d])]]
    /\ told' = [told EXCEPT ![c] = IF tx[c].create THEN 1 ELSE @]
    /\ UNCHANGED confirmed

-----------------------------------------------------------------------------
(* resolve: migrate, then read.  The chat route creates a missing record.  *)

StartResolve(c, create) ==
    /\ tx[c].pc = "idle"
    /\ record' = Migrated
    /\ tx' = [tx EXCEPT ![c] = [Idle EXCEPT !.pc = "get", !.create = create]]
    /\ UNCHANGED <<told, confirmed>>

Resolve(c) ==
    /\ tx[c].pc = "get"
    /\ record # NoRecord
    /\ told' = [told EXCEPT ![c] = EffectiveViewOrder(record.view, record.watched)]
    /\ tx' = [tx EXCEPT ![c] = Idle]
    /\ UNCHANGED <<record, confirmed>>

\* Mutant: the first progress is written without asking whether there is any.
NotFoundUnasked(c) ==
    /\ tx[c].pc = "get"
    /\ tx[c].create
    /\ told' = [told EXCEPT ![c] = Null]
    /\ tx' = [tx EXCEPT ![c].pc = "create"]
    /\ UNCHANGED <<record, confirmed>>
NotFound(c) ==
    /\ tx[c].pc = "get"
    /\ record = NoRecord
    /\ told' = [told EXCEPT ![c] = Null]
    /\ tx' = [tx EXCEPT ![c] = IF tx[c].create THEN [@ EXCEPT !.pc = "create"] ELSE Idle]
    /\ UNCHANGED <<record, confirmed>>

StartCreate(c) ==
    /\ tx[c].pc = "create"
    /\ record' = Migrated
    /\ tx' = [tx EXCEPT ![c].pc = "existing", ![c].req = FirstRequest]
    /\ UNCHANGED <<told, confirmed>>

\* A statement fails, or the request is cancelled.
Abandon(c) ==
    /\ tx[c].pc # "idle"
    /\ tx' = [tx EXCEPT ![c] = Idle]
    /\ told' = [told EXCEPT ![c] = Null]
    /\ UNCHANGED <<record, confirmed>>

\* The statements of a request after its first.
Continue(c) ==
    FindExisting(c) \/ Refuse(c) \/ Save(c) \/ Resolve(c) \/ NotFound(c) \/ StartCreate(c)

Next ==
    \E c \in Client :
        \/ \E req \in ProgressUpdateRequest : StartUpsert(c, req)
        \/ \E create \in BOOLEAN : StartResolve(c, create)
        \/ Continue(c)
        \/ Abandon(c)

Spec == Init /\ [][Next]_vars

-----------------------------------------------------------------------------
(* Properties.                                                             *)

\* Every variable has its type.
TypeOK ==
    /\ record \in Row
    /\ tx \in [Client -> [pc : {"idle", "existing", "save", "get", "create"},
                          req : ProgressUpdateRequest \cup {NoRequest},
                          create : BOOLEAN,
                          watched : Order \cup {Null}, view : Order \cup {Null},
                          overtaken : BOOLEAN]]
    /\ told \in [Client -> Order \cup {Null}]
    /\ confirmed \subseteq Order

\* D-05, D-09: whatever overlaps, a persisted record names real episodes and
\* its view is not past its watched order (a validation against a stale read
\* must not let one through).
RecordValid ==
    \/ record = NoRecord
    \/ \E o \in Episodes : record = PreSplit(o)
    \/ /\ {record.watched, record.view} \subseteq Episodes
       /\ record.view <= record.watched
       /\ record.until = record.watched

\* No interleaving of upserts, migrations and resolves tells a reader a
\* boundary past every order somebody confirmed.
BoundaryWasConfirmed ==
    \A c \in Client : told[c] # Null => \E o \in confirmed : told[c] <= o

\* The boundary a read would return, were the record migrated first.
Boundary(r) == IF r.watched = Null THEN r.until
               ELSE EffectiveViewOrder(r.view, r.watched)

\* The statements that only read or migrate never move the boundary (D-07: the
\* backfill is lossless and idempotent).
ReadsKeepBoundary ==
    [][(\A c \in Client : ~ Save(c)) => Boundary(record') = Boundary(record)]_vars

\* Only an overlapping save can make a request lower the watched order that did
\* not ask for a lower one (a view-only change writes back the order it read, a
\* question creates the record at order 1): no migration, refused or abandoned
\* request, and no save before its read or after its write, is enough.
LoweredOnlyIfOvertaken ==
    [][\A c \in Client :
          /\ Save(c) /\ record'.watched < record.watched
          /\ ViewOnly(tx[c].req) \/ tx[c].create
          => tx[c].overtaken]_vars

\* PROG-01: a view-only change never lowers the persisted watched order.
ViewOnlyKeepsWatched ==
    [][\A c \in Client : Save(c) /\ ViewOnly(tx[c].req)
          => record'.watched >= record.watched]_vars
=============================================================================
