--------------------------- MODULE ProgressProofs ---------------------------
(***************************************************************************)
(* What module Progress keeps for every set of clients, every set of       *)
(* episodes and every order a request may name.                            *)
(*                                                                         *)
(* RecordValid is not inductive: a save writes the orders its request      *)
(* validated earlier, against a record others may have replaced since.     *)
(* The invariant therefore also says what a request holds at each point.   *)
(***************************************************************************)
EXTENDS Progress, TLAPS

TxType == [pc : {"idle", "existing", "save", "get", "create"},
           req : ProgressUpdateRequest \cup {NoRequest},
           create : BOOLEAN,
           watched : Order \cup {Null}, view : Order \cup {Null},
           overtaken : BOOLEAN]

\* The record has both split fields, or there is none.
IsSplit(r) ==
    /\ {r.watched, r.view} \subseteq Episodes
    /\ r.view <= r.watched
    /\ r.until = r.watched

\* A request migrates before anything else, and nobody undoes a migration.
Migrates ==
    \A c \in Client : tx[c].pc # "idle" => record = NoRecord \/ IsSplit(record)

\* What a save is about to write was valid when it was validated, and an order
\* does not become invalid.
SavesValid ==
    \A c \in Client : tx[c].pc = "save" =>
        /\ {tx[c].watched, tx[c].view} \subseteq Episodes
        /\ tx[c].view <= tx[c].watched
        /\ tx[c].watched \in confirmed

\* Every order the record may be read at was confirmed.
RecordConfirmed == record # NoRecord => record.until \in confirmed

Inv ==
    /\ TypeOK
    /\ RecordValid
    /\ Migrates
    /\ SavesValid
    /\ RecordConfirmed
    /\ BoundaryWasConfirmed

-----------------------------------------------------------------------------

LEMMA OrderFacts ==
    /\ Null \notin Order
    /\ Episodes \subseteq Order
    /\ Order \subseteq Nat
    /\ Order \cup {Null} \subseteq Nat
    /\ \A o \in Order : 1 <= o
    /\ 1 \in Order
BY ProgressAssumption DEF Order, Null

\* Every request of the API is one of the type, and so is the chat route's.
LEMMA ConfirmsType ==
    ASSUME NEW req \in ProgressUpdateRequest \cup {NoRequest}
    PROVE  /\ Confirms(req) \in Order \cup {Null}
           /\ req.view \in Order \cup {Null}
BY DEF ProgressUpdateRequest, NoRequest, Confirms

\* A valid record becomes, or stays, a split one.
LEMMA MigratedRecord ==
    ASSUME RecordValid, TypeOK
    PROVE  /\ Migrated = NoRecord \/ IsSplit(Migrated)
           /\ Migrated \in Row
           /\ Migrated.until = record.until
           /\ Migrated = NoRecord <=> record = NoRecord
<1>1. CASE record = NoRecord
  BY <1>1 DEF Migrated, NoRecord, Null, TypeOK
<1>2. CASE \E o \in Episodes : record = PreSplit(o)
  <2>1. PICK o \in Episodes : record = PreSplit(o)
    BY <1>2
  <2>2. o \in Order /\ o # Null /\ o <= o
    BY OrderFacts
  <2>3. Migrated = [watched |-> o, view |-> o, until |-> o]
    BY <2>1, <2>2 DEF Migrated, PreSplit, Null
  <2> QED BY <2>1, <2>2, <2>3 DEF PreSplit, NoRecord, Null, IsSplit, Row
<1>3. CASE IsSplit(record)
  BY <1>3, OrderFacts DEF Migrated, NoRecord, Null, IsSplit, TypeOK, Row
<1> QED BY <1>1, <1>2, <1>3 DEF RecordValid, IsSplit

\* What an accepted request would have the record be.
LEMMA AcceptedOrders ==
    ASSUME NEW req \in ProgressUpdateRequest \cup {NoRequest}, Accepted(req),
           record = NoRecord \/ IsSplit(record)
    PROVE  /\ {NewWatched(req), NewView(req)} \subseteq Episodes
           /\ NewView(req) <= NewWatched(req)
           /\ ~ ViewOnly(req) => NewWatched(req) = Confirms(req)
           /\ ViewOnly(req) => record # NoRecord /\ NewWatched(req) = record.watched
BY DEF Accepted, NewWatched, ViewOnly, IsSplit

THEOREM InitInv == Init => Inv
<1> SUFFICES ASSUME Init PROVE Inv
  OBVIOUS
<1> USE OrderFacts
<1>1. RecordValid
  BY DEF Init, RecordValid
<1>2. record \in Row
  BY DEF Init, Row, NoRecord, PreSplit, Null
<1>3. TypeOK
  BY <1>2 DEF Init, TypeOK, Idle, Row, NoRequest, NoRecord, PreSplit, Null
<1>4. RecordConfirmed
  BY DEF Init, RecordConfirmed, PreSplit, Null
<1>5. Migrates /\ SavesValid /\ BoundaryWasConfirmed
  BY DEF Init, Migrates, SavesValid, BoundaryWasConfirmed, Idle
<1> QED BY <1>1, <1>3, <1>4, <1>5 DEF Inv

-----------------------------------------------------------------------------
(* The steps.  Starting a request or failing keeps Inv because all that    *)
(* changes is a request that holds nothing yet, and a migration.           *)

LEMMA MigrationKeepsInv ==
    ASSUME Inv, NEW c \in Client, NEW t \in TxType,
           t.pc \in {"existing", "get"},
           record' = Migrated, tx' = [tx EXCEPT ![c] = t],
           UNCHANGED <<told, confirmed>>
    PROVE  Inv'
<1> USE DEF Inv
<1>1. /\ record' = NoRecord \/ IsSplit(record')
      /\ record' \in Row
      /\ record'.until = record.until
      /\ record' = NoRecord <=> record = NoRecord
  BY MigratedRecord
<1>2. TypeOK'
  BY <1>1 DEF TypeOK, TxType
<1>3. RecordValid'
  BY <1>1 DEF RecordValid, IsSplit
<1>4. Migrates'
  BY <1>1 DEF Migrates
<1>5. SavesValid'
  BY DEF SavesValid, TypeOK
<1>6. RecordConfirmed'
  BY <1>1 DEF RecordConfirmed
<1>7. BoundaryWasConfirmed'
  BY DEF BoundaryWasConfirmed
<1> QED BY <1>2, <1>3, <1>4, <1>5, <1>6, <1>7

LEMMA EndKeepsInv ==
    ASSUME Inv, NEW c \in Client, NEW t \in TxType,
           t.pc \in {"idle", "create"}, tx[c].pc # "idle",
           NEW o \in Order \cup {Null},
           o # Null => \E w \in confirmed : o <= w,
           tx' = [tx EXCEPT ![c] = t],
           told' = [told EXCEPT ![c] = o],
           UNCHANGED <<record, confirmed>>
    PROVE  Inv'
<1> USE DEF Inv
<1>1. TypeOK'
  BY DEF TypeOK, TxType
<1>2. RecordValid' /\ RecordConfirmed'
  BY DEF RecordValid, RecordConfirmed
<1>3. Migrates'
  BY DEF Migrates
<1>4. SavesValid'
  BY DEF SavesValid, TypeOK
<1>5. BoundaryWasConfirmed'
  BY DEF BoundaryWasConfirmed, TypeOK
<1> QED BY <1>1, <1>2, <1>3, <1>4, <1>5

LEMMA IdleType == Idle \in TxType
BY DEF Idle, TxType

\* A save ends its request, and of the others changes the history alone.
LEMMA SaveMarks ==
    ASSUME tx \in [Client -> TxType], NEW c \in Client, Save(c)
    PROVE  /\ tx' \in [Client -> TxType]
           /\ tx'[c] = Idle
           /\ \A d \in Client \ {c} :
                 /\ tx'[d].pc = tx[d].pc /\ tx'[d].req = tx[d].req
                 /\ tx'[d].create = tx[d].create
                 /\ tx'[d].watched = tx[d].watched /\ tx'[d].view = tx[d].view
                 /\ tx'[d].overtaken = (tx[d].overtaken \/ HasRead(tx[d]))
<1> DEFINE t(d) == [tx[d] EXCEPT !.overtaken = @ \/ HasRead(tx[d])]
<1>1. ASSUME NEW d \in Client
      PROVE  /\ t(d) \in TxType
             /\ t(d).pc = tx[d].pc /\ t(d).req = tx[d].req /\ t(d).create = tx[d].create
             /\ t(d).watched = tx[d].watched /\ t(d).view = tx[d].view
             /\ t(d).overtaken = (tx[d].overtaken \/ HasRead(tx[d]))
  <2>1. (tx[d].overtaken \/ HasRead(tx[d])) \in BOOLEAN
    OBVIOUS
  <2> QED BY <2>1 DEF TxType
<1>2. tx' = [d \in Client |-> IF d = c THEN Idle ELSE t(d)]
  BY DEF Save
<1> HIDE DEF t
<1>3. tx' \in [Client -> TxType]
  BY <1>1, <1>2, IdleType
<1>4. tx'[c] = Idle /\ \A d \in Client \ {c} : tx'[d] = t(d)
  BY <1>2
<1> QED BY <1>1, <1>3, <1>4

LEMMA StepInv == Inv /\ [Next]_vars => Inv'
<1> SUFFICES ASSUME Inv, [Next]_vars PROVE Inv'
  OBVIOUS
<1> USE OrderFacts, IdleType
<1>0. tx \in [Client -> TxType]
  BY DEF Inv, TypeOK, TxType
<1>1. ASSUME NEW c \in Client, NEW req \in ProgressUpdateRequest, StartUpsert(c, req)
      PROVE  Inv'
  <2>1. [Idle EXCEPT !.pc = "existing", !.req = req] \in TxType
    BY DEF Idle, TxType
  <2> QED BY <1>1, <2>1, MigrationKeepsInv DEF StartUpsert, Idle
<1>2. ASSUME NEW c \in Client, NEW create \in BOOLEAN, StartResolve(c, create)
      PROVE  Inv'
  <2>1. [Idle EXCEPT !.pc = "get", !.create = create] \in TxType
    BY DEF Idle, TxType
  <2> QED BY <1>2, <2>1, MigrationKeepsInv DEF StartResolve, Idle
<1>3. ASSUME NEW c \in Client, StartCreate(c)
      PROVE  Inv'
  <2>1. FirstRequest \in ProgressUpdateRequest
    BY DEF FirstRequest, ProgressUpdateRequest, Null
  <2>2. [tx[c] EXCEPT !.pc = "existing", !.req = FirstRequest] \in TxType
    BY <1>0, <2>1 DEF TxType
  <2>3. tx' = [tx EXCEPT ![c] = [tx[c] EXCEPT !.pc = "existing", !.req = FirstRequest]]
    BY <1>3 DEF StartCreate
  <2>4. [tx[c] EXCEPT !.pc = "existing", !.req = FirstRequest].pc = "existing"
    BY <1>0 DEF TxType
  <2> QED BY <1>3, <2>2, <2>3, <2>4, MigrationKeepsInv DEF StartCreate
<1>4. ASSUME NEW c \in Client, FindExisting(c)
      PROVE  Inv'
  <2> DEFINE req == tx[c].req
             t == [tx[c] EXCEPT !.pc = "save", !.watched = NewWatched(req),
                                !.view = NewView(req)]
  <2>1. req \in ProgressUpdateRequest \cup {NoRequest} /\ Accepted(req)
    BY <1>0, <1>4 DEF TxType, FindExisting
  <2>2. record = NoRecord \/ IsSplit(record)
    BY <1>4 DEF FindExisting, Inv, Migrates
  <2>3. /\ {NewWatched(req), NewView(req)} \subseteq Episodes
        /\ NewView(req) <= NewWatched(req)
        /\ ~ ViewOnly(req) => NewWatched(req) = Confirms(req)
        /\ ViewOnly(req) => record # NoRecord /\ NewWatched(req) = record.watched
    BY <2>1, <2>2, AcceptedOrders
  <2>4. Confirms(req) \in Order \cup {Null}
    BY <2>1, ConfirmsType
  <2> HIDE DEF req
  <2>5. tx' = [tx EXCEPT ![c] = t] /\ confirmed' = confirmed \cup ({Confirms(req)} \ {Null})
        /\ UNCHANGED <<record, told>>
    BY <1>4, <1>0 DEF FindExisting, req, TxType
  <2>6. t \in TxType /\ t.pc = "save" /\ t.watched = NewWatched(req) /\ t.view = NewView(req)
    BY <1>0, <2>3 DEF TxType
  <2> HIDE DEF t
  <2>7. NewWatched(req) \in confirmed'
    <3>1. CASE ViewOnly(req)
      BY <3>1, <2>2, <2>3, <2>5 DEF Inv, RecordConfirmed, IsSplit
    <3>2. CASE ~ ViewOnly(req)
      BY <3>2, <2>3, <2>5 DEF ViewOnly
    <3> QED BY <3>1, <3>2
  <2>8. TypeOK'
    BY <2>4, <2>5, <2>6 DEF Inv, TypeOK, TxType
  <2>9. SavesValid'
    BY <1>0, <2>3, <2>5, <2>6, <2>7 DEF Inv, SavesValid
  <2>10. Migrates'
    BY <2>2, <2>5 DEF Migrates
  <2>11. RecordValid' /\ RecordConfirmed' /\ BoundaryWasConfirmed'
    BY <2>5 DEF Inv, RecordValid, RecordConfirmed, BoundaryWasConfirmed
  <2> QED BY <2>8, <2>9, <2>10, <2>11 DEF Inv
<1>5. ASSUME NEW c \in Client, Save(c)
      PROVE  Inv'
  <2>1. /\ {tx[c].watched, tx[c].view} \subseteq Episodes
        /\ tx[c].view <= tx[c].watched
        /\ tx[c].watched \in confirmed
    BY <1>5 DEF Save, Inv, SavesValid
  <2>2. /\ record' \in Row
        /\ IsSplit(record')
        /\ record'.until \in confirmed
    BY <1>5, <2>1 DEF Save, Saved, Row, IsSplit, Null
  <2>3. /\ tx' \in [Client -> TxType] /\ tx'[c] = Idle /\ confirmed' = confirmed
        /\ \A d \in Client \ {c} : /\ tx'[d].pc = tx[d].pc /\ tx'[d].watched = tx[d].watched
                                   /\ tx'[d].view = tx[d].view
    BY <1>0, <1>5, SaveMarks DEF Save
  <2>4. told' \in [Client -> Order \cup {Null}]
    BY <1>5 DEF Save, Inv, TypeOK
  <2>5. TypeOK'
    BY <1>0, <2>2, <2>3, <2>4 DEF Inv, TypeOK, TxType
  <2>6. RecordValid' /\ RecordConfirmed' /\ Migrates'
    BY <2>2, <2>3 DEF RecordValid, RecordConfirmed, Migrates, IsSplit
  <2>7. SavesValid'
    BY <1>0, <2>3 DEF Inv, SavesValid, Idle
  <2>8. 1 <= tx[c].watched
    BY <2>1
  <2>9. BoundaryWasConfirmed'
    BY <1>5, <2>1, <2>3, <2>8 DEF Save, Inv, TypeOK, BoundaryWasConfirmed
  <2> QED BY <2>5, <2>6, <2>7, <2>9 DEF Inv
<1>6. ASSUME NEW c \in Client, Refuse(c) \/ Abandon(c)
      PROVE  Inv'
  BY <1>6, EndKeepsInv DEF Refuse, Abandon, Idle
<1>7. ASSUME NEW c \in Client, Resolve(c)
      PROVE  Inv'
  <2>1. IsSplit(record) /\ record.until \in confirmed
    BY <1>7 DEF Resolve, Inv, Migrates, RecordConfirmed
  <2>2. /\ EffectiveViewOrder(record.view, record.watched) \in Order
        /\ EffectiveViewOrder(record.view, record.watched) <= record.until
    BY <2>1 DEF IsSplit, EffectiveViewOrder
  <2> QED BY <1>7, <2>1, <2>2, EndKeepsInv DEF Resolve, Idle
<1>8. ASSUME NEW c \in Client, NotFound(c)
      PROVE  Inv'
  <2> DEFINE t == IF tx[c].create THEN [tx[c] EXCEPT !.pc = "create"] ELSE Idle
  <2>1. t \in TxType /\ t.pc \in {"idle", "create"}
    BY <1>0 DEF TxType, Idle
  <2>2. tx' = [tx EXCEPT ![c] = t] /\ tx[c].pc # "idle"
    BY <1>8 DEF NotFound
  <2> HIDE DEF t
  <2> QED BY <1>8, <2>1, <2>2, EndKeepsInv DEF NotFound
<1>9. CASE UNCHANGED vars
  BY <1>9 DEF vars, Inv, TypeOK, RecordValid, Migrates, SavesValid, RecordConfirmed,
              BoundaryWasConfirmed
<1> QED BY <1>1, <1>2, <1>3, <1>4, <1>5, <1>6, <1>7, <1>8, <1>9 DEF Next, Continue

THEOREM Invariance == Spec => []Inv
BY InitInv, StepInv, PTL DEF Spec

-----------------------------------------------------------------------------
(* The theorems.                                                           *)

\* Every variable keeps its type, the record never half migrated.
THEOREM TypeCorrect == Spec => []TypeOK
<1>1. Inv => TypeOK
  BY DEF Inv
<1> QED BY <1>1, Invariance, PTL

\* D-05, D-09: the persisted record names real episodes, its view not past its
\* watched order, however many requests overlap.
THEOREM RecordAlwaysValid == Spec => []RecordValid
<1>1. Inv => RecordValid
  BY DEF Inv
<1> QED BY <1>1, Invariance, PTL

\* No reader is ever told a boundary past everything the user confirmed.
THEOREM BoundaryAlwaysConfirmed == Spec => []BoundaryWasConfirmed
<1>1. Inv => BoundaryWasConfirmed
  BY DEF Inv
<1> QED BY <1>1, Invariance, PTL

\* D-07: whatever a read migrates, the boundary stays where it was.
THEOREM ReadsAlwaysKeepBoundary == Spec => ReadsKeepBoundary
<1>1. ASSUME Inv PROVE Boundary(Migrated) = Boundary(record)
  <2> USE OrderFacts
  <2>1. CASE record = NoRecord
    BY <2>1 DEF Migrated, NoRecord, Null
  <2>2. CASE \E o \in Episodes : record = PreSplit(o)
    <3>1. PICK o \in Episodes : record = PreSplit(o)
      BY <2>2
    <3>2. Migrated = [watched |-> o, view |-> o, until |-> o]
      BY <3>1 DEF Migrated, PreSplit, Null
    <3> QED BY <3>1, <3>2 DEF PreSplit, Boundary, EffectiveViewOrder, Null
  <2>3. CASE IsSplit(record)
    BY <2>3 DEF Migrated, IsSplit, Null
  <2> QED BY <1>1, <2>1, <2>2, <2>3 DEF Inv, RecordValid, IsSplit
<1>2. Inv /\ [Next]_vars
        => [(\A c \in Client : ~ Save(c)) => Boundary(record') = Boundary(record)]_vars
  <2> SUFFICES ASSUME Inv, Next, \A c \in Client : ~ Save(c)
               PROVE  record' = record \/ record' = Migrated
    BY <1>1 DEF Boundary
  <2> QED BY DEF Next, StartUpsert, StartResolve, Continue, FindExisting, Refuse, Save,
                 Resolve, NotFound, StartCreate, Abandon
<1> QED BY <1>2, Invariance, PTL DEF Spec, ReadsKeepBoundary

-----------------------------------------------------------------------------
(* What a request read is still there when it saves, unless another saved  *)
(* in between.                                                             *)

ReadStillThere ==
    \A c \in Client : ~ tx[c].overtaken =>
        /\ tx[c].pc = "save" /\ ViewOnly(tx[c].req) => tx[c].watched = record.watched
        /\ tx[c].create /\ tx[c].pc \in {"create", "existing", "save"} => record = NoRecord

\* A request that is under way leaves nothing to migrate.
LEMMA NothingToMigrate ==
    ASSUME Inv, NEW c \in Client, tx[c].pc # "idle"
    PROVE  Migrated = record
<1>1. record = NoRecord \/ IsSplit(record)
  BY DEF Inv, Migrates
<1> QED BY <1>1, OrderFacts DEF Migrated, IsSplit, NoRecord, Null

LEMMA ReadStep ==
    ASSUME Inv, ReadStillThere, [Next]_vars
    PROVE  ReadStillThere'
<1>0. tx \in [Client -> TxType]
  BY DEF Inv, TypeOK, TxType
<1> SUFFICES ASSUME NEW d \in Client, ~ tx'[d].overtaken,
                    \/ tx'[d].pc = "save" /\ ViewOnly(tx'[d].req)
                    \/ tx'[d].create /\ tx'[d].pc \in {"create", "existing", "save"}
             PROVE  /\ tx'[d].pc = "save" /\ ViewOnly(tx'[d].req)
                         => tx'[d].watched = record'.watched
                    /\ tx'[d].create /\ tx'[d].pc \in {"create", "existing", "save"}
                         => record' = NoRecord
  BY DEF ReadStillThere, ViewOnly, Confirms
<1>1. CASE tx'[d] = tx[d] /\ record' \in {record, Migrated}
  <2>1. record' = record
    BY <1>1, NothingToMigrate
  <2> QED BY <1>1, <2>1 DEF ReadStillThere
<1>2. ASSUME NEW c \in Client, Save(c) PROVE ReadStillThere'
  <2>1. ASSUME NEW e \in Client, ~ tx'[e].overtaken
        PROVE  /\ ~ (tx'[e].pc = "save")
               /\ ~ (tx'[e].create /\ tx'[e].pc \in {"create", "existing", "save"})
    <3>1. CASE e = c
      BY <1>0, <1>2, <3>1, SaveMarks DEF Idle
    <3>2. CASE e # c
      <4>1. /\ tx'[e].pc = tx[e].pc /\ tx'[e].create = tx[e].create
            /\ tx'[e].overtaken = (tx[e].overtaken \/ HasRead(tx[e]))
        BY <1>0, <1>2, <3>2, SaveMarks
      <4>2. ~ HasRead(tx[e])
        BY <2>1, <4>1, Zenon
      <4> QED BY <4>1, <4>2 DEF HasRead
    <3> QED BY <3>1, <3>2
  <2> QED BY <2>1 DEF ReadStillThere
<1>3. CASE FindExisting(d)
  BY <1>0, <1>3 DEF FindExisting, ReadStillThere, TxType, NewWatched
<1>4. CASE NotFound(d)
  BY <1>0, <1>4 DEF NotFound, TxType, Idle
<1>5. CASE StartCreate(d)
  <2>1. record' = record /\ tx[d].pc = "create"
    BY <1>5, NothingToMigrate DEF StartCreate
  <2>2. tx'[d] = [tx[d] EXCEPT !.pc = "existing", !.req = FirstRequest]
    BY <1>0, <1>5 DEF StartCreate
  <2>3. /\ tx'[d].pc = "existing" /\ tx'[d].create = tx[d].create
        /\ tx'[d].overtaken = tx[d].overtaken
    BY <1>0, <2>2 DEF TxType
  <2> QED BY <2>1, <2>3 DEF ReadStillThere
<1>6. ASSUME NEW req \in ProgressUpdateRequest, StartUpsert(d, req)
      PROVE  tx'[d].pc = "existing" /\ ~ tx'[d].create
  BY <1>0, <1>6 DEF StartUpsert, Idle
<1>7. ASSUME NEW create \in BOOLEAN, StartResolve(d, create)
      PROVE  tx'[d].pc = "get"
  BY <1>0, <1>7 DEF StartResolve, Idle
<1>8. ASSUME Refuse(d) \/ Resolve(d) \/ Abandon(d)
      PROVE  tx'[d].pc = "idle"
  BY <1>0, <1>8 DEF Refuse, Resolve, Abandon, Idle
<1>9. ASSUME NEW c \in Client \ {d},
             \/ \E req \in ProgressUpdateRequest : StartUpsert(c, req)
             \/ \E create \in BOOLEAN : StartResolve(c, create)
             \/ FindExisting(c) \/ Refuse(c) \/ Resolve(c) \/ NotFound(c)
             \/ StartCreate(c) \/ Abandon(c)
      PROVE  tx'[d] = tx[d] /\ record' \in {record, Migrated}
  BY <1>0, <1>9 DEF StartUpsert, StartResolve, FindExisting, Refuse, Resolve, NotFound,
                    StartCreate, Abandon
<1>10. CASE UNCHANGED vars
  BY <1>1, <1>10 DEF vars
<1>11. CASE \E c \in Client : Save(c)
  BY <1>2, <1>11 DEF ReadStillThere, ViewOnly, Confirms
<1> QED BY <1>1, <1>3, <1>4, <1>5, <1>6, <1>7, <1>8, <1>9, <1>10, <1>11 DEF Next, Continue

LEMMA ReadInvariance == Spec => [](Inv /\ ReadStillThere)
<1>1. Init => ReadStillThere
  <2>1. ~ Idle.create /\ Idle.pc = "idle"
    BY DEF Idle
  <2> QED BY <2>1 DEF Init, ReadStillThere
<1>2. Inv /\ ReadStillThere /\ [Next]_vars => Inv' /\ ReadStillThere'
  BY ReadStep, StepInv
<1> QED BY <1>1, <1>2, InitInv, PTL DEF Spec

\* For any number of overlapping requests, migrations and abandoned requests among
\* them, a view-only change or a question lowers the watched order only if another
\* request saved between its read and its write.
THEOREM LowersOnlyIfOvertaken == Spec => LoweredOnlyIfOvertaken
<1>1. Inv /\ ReadStillThere /\ [Next]_vars
        => [\A c \in Client : /\ Save(c) /\ record'.watched < record.watched
                              /\ ViewOnly(tx[c].req) \/ tx[c].create
                              => tx[c].overtaken]_vars
  <2> SUFFICES ASSUME Inv, ReadStillThere, NEW c \in Client, Save(c),
                      record'.watched < record.watched, ~ tx[c].overtaken,
                      ViewOnly(tx[c].req) \/ tx[c].create
               PROVE  FALSE
    OBVIOUS
  <2>1. tx[c].pc = "save" /\ record'.watched = tx[c].watched
    BY DEF Save, Saved
  <2>2. record.watched \in Nat /\ tx[c].watched \in Nat
    BY OrderFacts DEF Inv, TypeOK, Row
  <2>3. CASE ViewOnly(tx[c].req)
    BY <2>1, <2>2, <2>3 DEF ReadStillThere
  <2>4. CASE tx[c].create
    BY <2>1, <2>2, <2>4 DEF ReadStillThere, NoRecord, Null
  <2> QED BY <2>3, <2>4
<1> QED BY <1>1, ReadInvariance, PTL DEF Spec, LoweredOnlyIfOvertaken
=============================================================================
