--------------------------- MODULE ChangeSetProofs ---------------------------
(* Theorems about ChangeSet, for any number of clients, ChangeSets, resources,
   episodes and timestamps. *)
EXTENDS ChangeSet, TLAPS

-----------------------------------------------------------------------------
(* The inductive invariant.                                                *)

\* A request in progress is about one ChangeSet and is through a prefix of its
\* operations, an empty one before it writes.
Shape(t) ==
    /\ Len(t.made) <= Len(t.ops)
    /\ t.pc # "idle" => t.cs \in ChangeSetId
    /\ t.pc \in {"confirm", "checking", "stale", "revert"} => t.made = <<>>

TxShape == \A c \in Client : Shape(tx[c])

\* The revision a decided ChangeSet points at is in the log.
LinksResolve ==
    \A k \in ChangeSetId :
        changeSet[k].status \in {"applied", "reverted"} => changeSet[k].revision \in DOMAIN revisions

TypeInv == TypeOK /\ TxShape /\ LinksResolve

-----------------------------------------------------------------------------
LEMMA IdleType == Idle \in Tx /\ Shape(Idle)
BY ChangeSetAssumption DEF Idle, Tx, Order, Shape

\* A user with progress has a current progress, and it is an episode.
LEMMA CurrentProgressType ==
    ASSUME TypeOK, HasProgress
    PROVE  CurrentProgress \in Order
BY ChangeSetAssumption DEF TypeOK, HasProgress, CurrentProgress, Order

LEMMA ProtectType ==
    ASSUME NEW op \in Operation
    PROVE  Protect(op) \in Operation
<1>1. "create_note" \in OpType
  BY DEF OpType, CREATE_OPERATION_TYPES, Makes
<1>2. QED BY <1>1 DEF Protect, Operation

\* Moving one client keeps the types and the shape if its new state has them.
LEMMA BecomeType ==
    ASSUME TypeOK, TxShape, NEW c \in Client, NEW t \in Tx, Become(c, t),
           Shape(t)
    PROVE  tx' \in [Client -> Tx] /\ TxShape'
BY DEF TypeOK, TxShape, Become

\* What the operation lists of a request in progress look like.
LEMMA TxTyped ==
    ASSUME TypeOK, NEW c \in Client
    PROVE  /\ tx[c] \in Tx
           /\ tx[c].ops \in Seq(Operation)
           /\ tx[c].made \in Seq(Resource)
           /\ Len(tx[c].made) \in Nat
           /\ Len(tx[c].ops) \in Nat
           /\ tx[c].order \in Order
           /\ tx[c].at \in Nat
BY DEF TypeOK, Tx

LEMMA NextOpType ==
    ASSUME TypeOK, TxShape, NEW c \in Client, ~AllOpsDone(c)
    PROVE  /\ Len(tx[c].made) + 1 \in 1 .. Len(tx[c].ops)
           /\ NextOp(c) \in Operation
<1>1. /\ tx[c].ops \in Seq(Operation) /\ Len(tx[c].made) \in Nat /\ Len(tx[c].ops) \in Nat
  BY TxTyped
<1>2. Len(tx[c].made) + 1 \in 1 .. Len(tx[c].ops)
  BY <1>1 DEF TxShape, Shape, AllOpsDone
<1>3. QED BY <1>1, <1>2 DEF NextOp

\* Recording the resource of the next operation.
LEMMA AppendMade ==
    ASSUME TypeOK, TxShape, NEW c \in Client, NEW r \in Resource, ~AllOpsDone(c),
           Become(c, [tx[c] EXCEPT !.made = Append(@, r)]),
           tx[c].pc \in {"applying", "undoing"}
    PROVE  tx' \in [Client -> Tx] /\ TxShape'
<1> DEFINE t == [tx[c] EXCEPT !.made = Append(@, r)]
<1>1. tx[c] \in Tx /\ tx[c].made \in Seq(Resource)
  BY TxTyped
<1>2. t \in Tx
  <2> DEFINE m == Append(tx[c].made, r)
  <2>1. m \in Seq(Resource)
    BY <1>1
  <2> HIDE DEF m
  <2>2. [tx[c] EXCEPT !.made = m] \in Tx
    BY <1>1, <2>1 DEF Tx
  <2>3. QED BY <2>2 DEF m
<1>3. Len(t.made) = Len(tx[c].made) + 1 /\ t.ops = tx[c].ops /\ t.pc = tx[c].pc /\ t.cs = tx[c].cs
  BY <1>1 DEF Tx
<1>4. Len(t.made) <= Len(t.ops)
  BY <1>3, NextOpType, TxTyped
<1>5. Shape(t)
  BY <1>3, <1>4 DEF TxShape, Shape
<1> HIDE DEF t
<1>6. Become(c, t)
  BY DEF t
<1>7. QED BY <1>2, <1>5, <1>6, BecomeType

-----------------------------------------------------------------------------
(* Type correctness.                                                       *)

\* The statements that change nothing but the transaction of their request.
Shared == <<live, attr, changeSet, revisions, progress>>

LEMMA PrivateStep ==
    ASSUME TypeInv, UNCHANGED Shared, clock' \in Nat, tx' \in [Client -> Tx], TxShape'
    PROVE  TypeInv'
BY DEF TypeInv, TypeOK, LinksResolve, Shared

\* Going back to idle is one of them.
LEMMA GoIdle ==
    ASSUME TypeInv, NEW c \in Client, Become(c, Idle)
    PROVE  tx' \in [Client -> Tx] /\ TxShape'
BY IdleType, BecomeType DEF TypeInv

\* So is going on, with the same operations and resources, in another phase.
LEMMA Proceed ==
    ASSUME TypeInv, NEW c \in Client, tx[c].pc # "idle",
           NEW pc \in {"checking", "stale", "applying", "undone"},
           pc \in {"checking", "stale"} => tx[c].made = <<>>,
           NEW order \in Order,
           Become(c, [tx[c] EXCEPT !.pc = pc, !.order = order])
    PROVE  tx' \in [Client -> Tx] /\ TxShape'
<1> DEFINE t == [tx[c] EXCEPT !.pc = pc, !.order = order]
<1>1. tx[c] \in Tx
  BY TxTyped DEF TypeInv
<1>2. t \in Tx /\ t.pc = pc /\ t.ops = tx[c].ops /\ t.made = tx[c].made /\ t.cs = tx[c].cs
  BY <1>1 DEF Tx
<1> HIDE DEF t
<1>3. Shape(t)
  BY <1>2 DEF TypeInv, TxShape, Shape
<1>4. Become(c, t)
  BY DEF t
<1>5. QED BY <1>2, <1>3, <1>4, BecomeType DEF TypeInv

LEMMA TypeInit == Init => TypeInv
<1> SUFFICES ASSUME Init PROVE TypeInv
  OBVIOUS
<1>1. attr \in [Resource -> Attr]
  <2>1. Unborn \in Attr
    BY ChangeSetAssumption DEF Unborn, Attr, Order
  <2>2. ASSUME NEW r \in DOMAIN Seed
        PROVE  [kind |-> Seed[r].kind, origin |-> Seed[r].origin,
                order |-> Seed[r].order, stamp |-> 0, refs |-> {}] \in Attr
    BY <2>2, ChangeSetAssumption DEF Attr
  <2>3. QED BY <2>1, <2>2 DEF Init
<1>2. changeSet \in [ChangeSetId -> ChangeSetType]
  BY ChangeSetAssumption DEF Init, NoChangeSet, ChangeSetStatus, Order, ChangeSetType
<1>3. tx \in [Client -> Tx] /\ TxShape
  BY IdleType DEF Init, TxShape
<1>4. LinksResolve
  BY DEF Init, LinksResolve, NoChangeSet
<1>5. live \subseteq Resource /\ revisions \in Seq(Revision) /\ clock \in Nat
  BY ChangeSetAssumption DEF Init
<1>6. /\ progress \in [view : 0 .. MaxOrder, watched : 0 .. MaxOrder]
      /\ (progress.view = 0) = (progress.watched = 0)
  BY ChangeSetAssumption DEF Init
<1>7. QED BY <1>1, <1>2, <1>3, <1>4, <1>5, <1>6 DEF TypeInv, TypeOK

\* Proposing.
LEMMA TypePropose ==
    ASSUME TypeInv, NEW c \in Client, NEW k \in ChangeSetId, NEW ops \in OpLists,
           ProposeStart(c, k, ops)
    PROVE  TypeInv'
<1> DEFINE order == CurrentProgress
           t == [Idle EXCEPT !.pc = "proposing", !.cs = k, !.ops = ops, !.order = order]
<1>1. order \in Order
  BY CurrentProgressType DEF ProposeStart, TypeInv
<1>2. ops \in Seq(Operation) /\ Len(ops) \in Nat
  BY ChangeSetAssumption
<1>3. Become(c, t)
  BY DEF ProposeStart
<1> HIDE DEF order
<1>4. t \in Tx
  BY <1>1, <1>2, IdleType DEF Tx
<1>5. Shape(t)
  BY <1>2 DEF Idle, Shape
<1> HIDE DEF t
<1>6. tx' \in [Client -> Tx] /\ TxShape'
  BY <1>3, <1>4, <1>5, BecomeType DEF TypeInv
<1>7. QED BY <1>6, PrivateStep DEF ProposeStart, Shared, TypeInv, TypeOK

LEMMA TypeValidate ==
    ASSUME TypeInv, NEW c \in Client, ProposeValidate(c)
    PROVE  TypeInv'
<1> DEFINE i == Len(tx[c].made) + 1
           op == Protect(NextOp(c))
<1>1. TypeOK /\ TxShape /\ ~AllOpsDone(c) /\ tx[c].pc = "proposing"
  BY DEF TypeInv, ProposeValidate
<1>2. i \in 1 .. Len(tx[c].ops) /\ NextOp(c) \in Operation
  BY <1>1, NextOpType
<1>3. op \in Operation
  BY <1>2, ProtectType
<1>4. PICK r \in NextOp(c).targets :
          Become(c, [tx[c] EXCEPT !.ops[i] = op, !.made = Append(@, r)])
  BY DEF ProposeValidate
<1>5. r \in Resource
  BY <1>2, <1>4 DEF Operation
<1> DEFINE o == [tx[c].ops EXCEPT ![i] = op]
           m == Append(tx[c].made, r)
           t == [tx[c] EXCEPT !.ops = o, !.made = m]
<1> HIDE DEF op
<1>6. o \in Seq(Operation) /\ Len(o) = Len(tx[c].ops)
  BY <1>1, <1>2, <1>3, TxTyped
<1>7. m \in Seq(Resource) /\ Len(m) = i
  BY <1>1, <1>5, TxTyped
<1>8. Become(c, t)
  BY <1>4
<1> HIDE DEF i, o, m
<1>9. t \in Tx /\ t.ops = o /\ t.made = m /\ t.cs = tx[c].cs /\ t.pc = "proposing"
  BY <1>1, <1>6, <1>7, TxTyped DEF Tx
<1>10. Shape(t)
  BY <1>1, <1>2, <1>6, <1>7, <1>9 DEF TxShape, Shape
<1> HIDE DEF t
<1>11. tx' \in [Client -> Tx] /\ TxShape'
  BY <1>1, <1>8, <1>9, <1>10, BecomeType
<1>12. QED BY <1>11, PrivateStep DEF ProposeValidate, Shared, TypeInv, TypeOK

LEMMA TypePersist ==
    ASSUME TypeInv, NEW c \in Client, ProposePersist(c)
    PROVE  TypeInv'
<1>1. tx' \in [Client -> Tx] /\ TxShape'
  BY GoIdle DEF ProposePersist
<1>2. tx[c].ops \in Seq(Operation) /\ tx[c].order \in Order /\ tx[c].cs \in ChangeSetId
  BY TxTyped DEF TypeInv, TxShape, Shape, ProposePersist
<1> DEFINE new == [NoChangeSet EXCEPT !.status = "awaiting_confirmation",
                                      !.snapshot = tx[c].order, !.ops = tx[c].ops]
<1>3. new \in ChangeSetType /\ new.status = "awaiting_confirmation"
  BY <1>2 DEF NoChangeSet, ChangeSetStatus, ChangeSetType
<1>4. changeSet' = [changeSet EXCEPT ![tx[c].cs] = new]
  BY DEF ProposePersist
<1> HIDE DEF new
<1>5. changeSet' \in [ChangeSetId -> ChangeSetType]
  BY <1>3, <1>4 DEF TypeInv, TypeOK
<1>6. LinksResolve'
  BY <1>2, <1>3, <1>4 DEF TypeInv, TypeOK, LinksResolve, ProposePersist
<1>7. QED BY <1>1, <1>5, <1>6 DEF TypeInv, TypeOK, ProposePersist

LEMMA TypeBegin ==
    ASSUME TypeInv, NEW c \in Client, NEW k \in ChangeSetId,
           NEW pc \in {"confirm", "revert"}, Begin(c, k, pc)
    PROVE  TypeInv'
<1> DEFINE t == [Idle EXCEPT !.pc = pc, !.cs = k, !.at = clock]
<1>1. clock \in Nat /\ clock' = clock + 1
  BY DEF TypeInv, TypeOK, Begin
<1>2. t \in Tx /\ Shape(t)
  BY <1>1, IdleType DEF Idle, Tx, Shape
<1>3. Become(c, t)
  BY DEF Begin
<1> HIDE DEF t
<1>4. tx' \in [Client -> Tx] /\ TxShape'
  BY <1>2, <1>3, BecomeType DEF TypeInv
<1>5. QED BY <1>1, <1>4, PrivateStep DEF Begin, Shared

\* Confirming.
LEMMA TypeConfirmRead ==
    ASSUME TypeInv, NEW c \in Client, ConfirmRead(c)
    PROVE  TypeInv'
<1> DEFINE ops == changeSet[tx[c].cs].ops
           t == [tx[c] EXCEPT !.pc = "checking", !.ops = ops]
<1>1. tx[c] \in Tx /\ tx[c].cs \in ChangeSetId /\ tx[c].made = <<>>
  BY TxTyped DEF TypeInv, TxShape, Shape, ConfirmRead
<1>2. ops \in Seq(Operation) /\ Len(ops) \in Nat
  BY <1>1 DEF TypeInv, TypeOK, ChangeSetType
<1>3. CASE Become(c, Idle)
  BY <1>3, GoIdle, PrivateStep DEF ConfirmRead, Shared, TypeInv, TypeOK
<1>4. CASE Become(c, t)
  <2> HIDE DEF ops
  <2>1. t \in Tx /\ t.ops = ops /\ t.made = <<>> /\ t.cs = tx[c].cs
    BY <1>1, <1>2 DEF Tx
  <2> HIDE DEF t
  <2>2. Shape(t)
    BY <1>1, <1>2, <2>1 DEF Shape
  <2>3. tx' \in [Client -> Tx] /\ TxShape'
    BY <1>4, <2>1, <2>2, BecomeType DEF TypeInv
  <2>4. QED BY <2>3, PrivateStep DEF ConfirmRead, Shared, TypeInv, TypeOK
<1>5. QED BY <1>3, <1>4 DEF ConfirmRead

LEMMA TypeCheckProgress ==
    ASSUME TypeInv, NEW c \in Client, ConfirmCheckProgress(c)
    PROVE  TypeInv'
<1>1. /\ tx[c] \in Tx /\ tx[c].order \in Order /\ tx[c].made = <<>>
      /\ tx[c].pc = "checking"
  BY TxTyped DEF TypeInv, TxShape, Shape, ConfirmCheckProgress
<1>2. CASE Stale(c)
  <2>1. Become(c, [tx[c] EXCEPT !.pc = "stale", !.order = tx[c].order])
    BY <1>1, <1>2 DEF ConfirmCheckProgress, Tx
  <2>2. QED BY <1>1, <2>1, Proceed, PrivateStep
            DEF ConfirmCheckProgress, Shared, TypeInv, TypeOK
<1>3. CASE ~Stale(c)
  <2>1. CurrentProgress \in Order
    BY <1>3, CurrentProgressType DEF Stale, TypeInv
  <2>2. QED BY <1>1, <1>3, <2>1, Proceed, PrivateStep
            DEF ConfirmCheckProgress, Shared, TypeInv, TypeOK
<1>4. QED BY <1>2, <1>3

\* A status write that links no revision.
LEMMA StatusType ==
    ASSUME TypeInv, NEW k \in ChangeSetId, NEW status \in {"failed", "rejected"},
           changeSet' = [changeSet EXCEPT ![k].status = status],
           tx' \in [Client -> Tx], TxShape',
           UNCHANGED <<live, attr, revisions, progress, clock>>
    PROVE  TypeInv'
<1>1. changeSet' \in [ChangeSetId -> ChangeSetType]
  BY DEF TypeInv, TypeOK, ChangeSetType, ChangeSetStatus
<1>2. LinksResolve'
  BY DEF TypeInv, TypeOK, LinksResolve
<1>3. QED BY <1>1, <1>2 DEF TypeInv, TypeOK

LEMMA TypeMarkFailed ==
    ASSUME TypeInv, NEW c \in Client, ConfirmMarkFailed(c)
    PROVE  TypeInv'
<1>1. tx[c].cs \in ChangeSetId
  BY DEF ConfirmMarkFailed, TypeInv, TxShape, Shape
<1>2. tx' \in [Client -> Tx] /\ TxShape'
  BY GoIdle DEF ConfirmMarkFailed
<1>3. QED BY <1>1, <1>2, StatusType DEF ConfirmMarkFailed

LEMMA TypeReject ==
    ASSUME TypeInv, NEW c \in Client, NEW k \in ChangeSetId, Reject(c, k)
    PROVE  TypeInv'
<1>1. tx' \in [Client -> Tx] /\ TxShape'
  BY DEF Reject, TypeInv, TypeOK, TxShape
<1>2. QED BY <1>1, StatusType DEF Reject

LEMMA TypeApply ==
    ASSUME TypeInv, NEW c \in Client, ConfirmApply(c)
    PROVE  TypeInv'
<1>1. ~AllOpsDone(c) /\ TypeOK /\ TxShape /\ tx[c].pc = "applying"
  BY DEF ConfirmApply, TypeInv
<1>2. NextOp(c) \in Operation
  BY <1>1, NextOpType
<1>3. PICK r \in Resource : Become(c, [tx[c] EXCEPT !.made = Append(@, r)])
  BY <1>2 DEF ConfirmApply, Operation
<1>4. tx' \in [Client -> Tx] /\ TxShape'
  BY <1>1, <1>3, AppendMade
<1>5. QED BY <1>4, PrivateStep DEF ConfirmApply, Shared, TypeInv, TypeOK

\* What the transaction created, updated and deleted are resources.
LEMMA WritesType ==
    ASSUME TypeOK, NEW c \in Client, Shape(tx[c])
    PROVE  /\ \A i \in Steps(tx[c]) : tx[c].made[i] \in Resource /\ tx[c].ops[i] \in Operation
           /\ Made(tx[c]) \subseteq Resource
           /\ Deleted(tx[c]) \subseteq Resource
<1>1. \A i \in Steps(tx[c]) : tx[c].made[i] \in Resource /\ tx[c].ops[i] \in Operation
  BY TxTyped DEF Steps, Shape
<1>2. QED BY <1>1 DEF Made, Deleted, Steps

LEMMA WrittenType ==
    ASSUME TypeOK, NEW c \in Client, Shape(tx[c])
    PROVE  Written(tx[c]) \in [Resource -> Attr]
<1> DEFINE t == tx[c]
<1>1. ASSUME NEW r \in Made(t)
      PROVE  \E i \in Steps(t) :
               /\ t.ops[i].type \in CREATE_OPERATION_TYPES
               /\ Written(t)[r] = [kind |-> Makes[t.ops[i].type], origin |-> "user",
                    order |-> NewOrder(t), stamp |-> t.at, refs |-> t.ops[i].targets]
  <2> DEFINE i == CHOOSE j \in Steps(t) :
                    t.made[j] = r /\ t.ops[j].type \in CREATE_OPERATION_TYPES
  <2>1. i \in Steps(t) /\ t.made[i] = r /\ t.ops[i].type \in CREATE_OPERATION_TYPES
    BY DEF Made
  <2>2. r \in Resource
    BY WritesType
  <2>3. QED BY <2>1, <2>2 DEF Written
<1>2. ASSUME NEW i \in Steps(t), t.ops[i].type \in CREATE_OPERATION_TYPES
      PROVE  [kind |-> Makes[t.ops[i].type], origin |-> "user",
              order |-> NewOrder(t), stamp |-> t.at, refs |-> t.ops[i].targets] \in Attr
  <2>1. t.ops[i].targets \subseteq Resource
    BY WritesType DEF Operation
  <2>2. Makes[t.ops[i].type] \in Kind
    BY <1>2 DEF CREATE_OPERATION_TYPES, Makes, Kind
  <2>3. t.at \in Nat /\ NewOrder(t) \in Order
    BY TxTyped DEF NewOrder
  <2>4. QED BY <2>1, <2>2, <2>3 DEF Attr
<1>3. ASSUME NEW r \in Resource, r \notin Made(t)
      PROVE  Written(t)[r] \in Attr
  <2>1. t.at \in Nat /\ attr[r] \in Attr
    BY TxTyped DEF TypeOK
  <2>2. [attr[r] EXCEPT !.stamp = t.at] \in Attr
    BY <2>1 DEF Attr
  <2>3. QED BY <1>3, <2>1, <2>2 DEF Written
<1>4. \A r \in Resource : Written(t)[r] \in Attr
  BY <1>1, <1>2, <1>3
<1>5. QED BY <1>4 DEF Written

\* One revision more; those already logged stay where they are.
LEMMA LogType ==
    ASSUME TypeOK, NEW c \in Client, Shape(tx[c]), tx[c].cs \in ChangeSetId,
           NEW action \in {"Created", "Reverted"}, NEW types \in SUBSET OpType,
           LogRevision(tx[c], action, types)
    PROVE  /\ revisions' \in Seq(Revision)
           /\ Len(revisions) \in Nat
           /\ DOMAIN revisions = 1 .. Len(revisions)
           /\ DOMAIN revisions' = 1 .. Len(revisions) + 1
           /\ \A i \in DOMAIN revisions : revisions'[i] = revisions[i]
           /\ revisions'[Len(revisions) + 1] =
                [of |-> tx[c].cs, action |-> action, types |-> types,
                 affected |-> tx[c].made, order |-> tx[c].order, at |-> tx[c].at]
<1> DEFINE rev == [of |-> tx[c].cs, action |-> action, types |-> types,
                   affected |-> tx[c].made, order |-> tx[c].order, at |-> tx[c].at]
<1>1. rev \in Revision
  BY TxTyped DEF Revision
<1>2. revisions' = Append(revisions, rev) /\ revisions \in Seq(Revision)
  BY DEF LogRevision, TypeOK
<1> HIDE DEF rev
<1>3. /\ revisions' \in Seq(Revision)
      /\ Len(revisions) \in Nat
      /\ DOMAIN revisions = 1 .. Len(revisions)
      /\ DOMAIN revisions' = 1 .. Len(revisions) + 1
      /\ \A i \in DOMAIN revisions : revisions'[i] = revisions[i]
      /\ revisions'[Len(revisions) + 1] = rev
  BY <1>1, <1>2
<1>4. QED BY <1>3 DEF rev

LEMMA TypeCommit ==
    ASSUME TypeInv, NEW c \in Client, ConfirmCommit(c)
    PROVE  TypeInv'
<1> DEFINE t == tx[c]
           types == {t.ops[i].type : i \in 1 .. Len(t.ops)}
           n == Len(revisions) + 1
<1>1. TypeOK /\ Shape(t) /\ t.cs \in ChangeSetId /\ t.at \in Nat
  BY TxTyped DEF TypeInv, TxShape, Shape, ConfirmCommit
<1>2. types \in SUBSET OpType
  <2>1. t.ops \in Seq(Operation)
    BY <1>1, TxTyped
  <2>2. \A i \in 1 .. Len(t.ops) : t.ops[i] \in Operation
    BY <2>1
  <2>3. QED BY <2>2 DEF Operation
<1>3. LogRevision(t, "Created", types)
  BY DEF ConfirmCommit
<1> HIDE DEF types
<1>4. /\ revisions' \in Seq(Revision) /\ n \in Nat /\ n \in DOMAIN revisions'
      /\ DOMAIN revisions \subseteq DOMAIN revisions'
  <2>1. /\ revisions' \in Seq(Revision) /\ Len(revisions) \in Nat
        /\ DOMAIN revisions = 1 .. Len(revisions)
        /\ DOMAIN revisions' = 1 .. Len(revisions) + 1
    BY <1>1, <1>2, <1>3, LogType
  <2>2. QED BY <2>1
<1>5. live' \subseteq Resource /\ attr' \in [Resource -> Attr]
  BY <1>1, WritesType, WrittenType DEF ConfirmCommit, TypeOK
<1>6. tx' \in [Client -> Tx] /\ TxShape'
  BY GoIdle DEF ConfirmCommit
<1> HIDE DEF n
<1> DEFINE new == [changeSet[t.cs] EXCEPT !.status = "applied", !.applied_at = t.at,
                                          !.revision = n]
<1>7. changeSet' = [changeSet EXCEPT ![t.cs] = new]
  BY <1>1 DEF ConfirmCommit, n, TypeOK
<1>8. new \in ChangeSetType /\ new.status = "applied" /\ new.revision = n
  BY <1>1, <1>4 DEF TypeOK, ChangeSetType, ChangeSetStatus
<1> HIDE DEF new
<1>9. changeSet' \in [ChangeSetId -> ChangeSetType] /\ LinksResolve'
  BY <1>1, <1>4, <1>7, <1>8 DEF TypeInv, TypeOK, LinksResolve, ChangeSetType
<1>10. QED BY <1>4, <1>5, <1>6, <1>9 DEF TypeInv, TypeOK, ChangeSetType, ConfirmCommit

\* Reverting.
LEMMA TypeRevertRead ==
    ASSUME TypeInv, NEW c \in Client, RevertRead(c)
    PROVE  TypeInv'
<1> DEFINE affected == revisions[changeSet[tx[c].cs].revision].affected
           ops == [i \in 1 .. Len(affected) |-> [type |-> "delete_node", targets |-> {affected[i]}]]
           t == [tx[c] EXCEPT !.pc = "undoing", !.ops = ops]
<1>1. tx[c] \in Tx /\ tx[c].cs \in ChangeSetId /\ tx[c].made = <<>>
  BY TxTyped DEF TypeInv, TxShape, Shape, RevertRead
<1>2. CASE Become(c, Idle)
  BY <1>2, GoIdle, PrivateStep DEF RevertRead, Shared, TypeInv, TypeOK
<1>3. CASE changeSet[tx[c].cs].status = "applied" /\ Become(c, t)
  <2>1. affected \in Seq(Resource)
    <3>1. changeSet[tx[c].cs].revision \in DOMAIN revisions
      BY <1>1, <1>3 DEF TypeInv, LinksResolve
    <3>2. revisions[changeSet[tx[c].cs].revision] \in Revision
      BY <3>1 DEF TypeInv, TypeOK
    <3>3. QED BY <3>2 DEF Revision
  <2> HIDE DEF affected
  <2>2. Len(affected) \in Nat /\ \A i \in 1 .. Len(affected) : affected[i] \in Resource
    BY <2>1
  <2>3. \A i \in 1 .. Len(affected) :
           [type |-> "delete_node", targets |-> {affected[i]}] \in Operation
    BY <2>2 DEF Operation, OpType, DIRECT_MUTATION_OPERATION_TYPES
  <2>4. ops \in Seq(Operation) /\ Len(ops) \in Nat
    BY <2>2, <2>3
  <2> HIDE DEF ops
  <2>5. t \in Tx /\ t.ops = ops /\ t.made = <<>> /\ t.cs = tx[c].cs
    BY <1>1, <2>4 DEF Tx
  <2> HIDE DEF t
  <2>6. Shape(t)
    BY <1>1, <2>4, <2>5 DEF Shape
  <2>7. tx' \in [Client -> Tx] /\ TxShape'
    BY <1>3, <2>5, <2>6, BecomeType DEF TypeInv
  <2>8. QED BY <2>7, PrivateStep DEF RevertRead, Shared, TypeInv, TypeOK
<1>4. QED BY <1>2, <1>3 DEF RevertRead

LEMMA TypeRevertDelete ==
    ASSUME TypeInv, NEW c \in Client, RevertDelete(c)
    PROVE  TypeInv'
<1>1. ~AllOpsDone(c) /\ TypeOK /\ TxShape /\ tx[c].pc = "undoing"
  BY DEF RevertDelete, TypeInv
<1>2. NextOp(c) \in Operation
  BY <1>1, NextOpType
<1>3. PICK r \in Resource : Become(c, [tx[c] EXCEPT !.made = Append(@, r)])
  BY <1>2 DEF RevertDelete, Operation
<1>4. tx' \in [Client -> Tx] /\ TxShape'
  BY <1>1, <1>3, AppendMade
<1>5. QED BY <1>4, PrivateStep DEF RevertDelete, Shared, TypeInv, TypeOK

LEMMA TypeRevertReadProgress ==
    ASSUME TypeInv, NEW c \in Client, RevertReadProgress(c)
    PROVE  TypeInv'
<1> DEFINE order == IF HasProgress THEN CurrentProgress ELSE changeSet[tx[c].cs].snapshot
<1>1. tx[c].cs \in ChangeSetId
  BY DEF RevertReadProgress, TypeInv, TxShape, Shape
<1>2. order \in Order
  BY <1>1, CurrentProgressType DEF TypeInv, TypeOK, ChangeSetType
<1>3. tx[c].pc = "undoing" /\ Become(c, [tx[c] EXCEPT !.pc = "undone", !.order = order])
  BY DEF RevertReadProgress
<1> HIDE DEF order
<1>4. tx' \in [Client -> Tx] /\ TxShape'
  BY <1>2, <1>3, Proceed
<1>5. QED BY <1>4, PrivateStep DEF RevertReadProgress, Shared, TypeInv, TypeOK

LEMMA TypeRevertCommit ==
    ASSUME TypeInv, NEW c \in Client, RevertCommit(c)
    PROVE  TypeInv'
<1> DEFINE t == tx[c]
           n == Len(revisions) + 1
<1>1. TypeOK /\ Shape(t) /\ t.cs \in ChangeSetId
  BY DEF TypeInv, TxShape, Shape, RevertCommit
<1>2. tx' \in [Client -> Tx] /\ TxShape'
  BY GoIdle DEF RevertCommit
<1>3. CASE changeSet[t.cs].status # "applied"
  BY <1>2, <1>3, PrivateStep DEF RevertCommit, Shared, TypeInv, TypeOK
<1>4. CASE changeSet[t.cs].status = "applied"
  <2>1. live' \subseteq Resource
    BY <1>1, <1>4 DEF RevertCommit, TypeOK
  <2>2. LogRevision(t, "Reverted", {}) /\ {} \in SUBSET OpType
    BY <1>4 DEF RevertCommit
  <2>3. /\ revisions' \in Seq(Revision) /\ Len(revisions) \in Nat
        /\ DOMAIN revisions = 1 .. Len(revisions)
        /\ DOMAIN revisions' = 1 .. Len(revisions) + 1
    BY <1>1, <2>2, LogType
  <2>4. n \in Nat /\ DOMAIN revisions \subseteq DOMAIN revisions'
    BY <2>3
  <2> DEFINE new == [changeSet[t.cs] EXCEPT !.status = "reverted", !.revert_revision = n]
  <2>5. changeSet' = [changeSet EXCEPT ![t.cs] = new]
    BY <1>1, <1>4 DEF RevertCommit, TypeOK
  <2> HIDE DEF n
  <2>6. new \in ChangeSetType /\ new.revision = changeSet[t.cs].revision
    BY <1>1, <2>4 DEF TypeOK, ChangeSetType, ChangeSetStatus
  <2> HIDE DEF new
  <2>7. changeSet' \in [ChangeSetId -> ChangeSetType] /\ LinksResolve'
    BY <1>1, <1>4, <2>4, <2>5, <2>6 DEF TypeInv, TypeOK, LinksResolve, ChangeSetType
  <2>8. QED BY <1>2, <2>1, <2>3, <2>7 DEF TypeInv, TypeOK, ChangeSetType, RevertCommit
<1>5. QED BY <1>3, <1>4

\* A transaction that rolls back, or that the driver runs again.
LEMMA TypeRollback ==
    ASSUME TypeInv, NEW c \in Client,
           ConfirmFails(c) \/ RevertConflict(c) \/ Abandon(c)
    PROVE  TypeInv'
<1>1. Become(c, Idle) /\ UNCHANGED Shared /\ UNCHANGED clock
  BY DEF ConfirmFails, RevertConflict, Abandon, Shared
<1>2. QED BY <1>1, GoIdle, PrivateStep DEF TypeInv, TypeOK

LEMMA TypeRetry ==
    ASSUME TypeInv, NEW c \in Client, Retry(c)
    PROVE  TypeInv'
<1> DEFINE pc == IF tx[c].pc \in {"undoing", "undone"} THEN "revert" ELSE "confirm"
           t == [Idle EXCEPT !.cs = tx[c].cs, !.at = tx[c].at, !.pc = pc]
<1>1. tx[c].cs \in ChangeSetId /\ tx[c].at \in Nat
  BY TxTyped DEF TypeInv, TxShape, Shape, Retry
<1>2. t \in Tx /\ Shape(t)
  BY <1>1, IdleType DEF Idle, Tx, Shape
<1>3. Become(c, t)
  BY DEF Retry
<1> HIDE DEF t
<1>4. QED BY <1>2, <1>3, BecomeType, PrivateStep DEF Retry, Shared, TypeInv, TypeOK

\* The environment.
LEMMA TypeEnvironment ==
    ASSUME TypeInv, Environment
    PROVE  TypeInv'
<1>1. ASSUME NEW view \in Order, NEW watched \in Order, SetProgress(view, watched)
      PROVE  TypeInv'
  BY <1>1, ChangeSetAssumption
     DEF SetProgress, TypeInv, TypeOK, TxShape, LinksResolve, Order
<1>2. ASSUME NEW r \in Resource, DirectUpdate(r)
      PROVE  TypeInv'
  <2>1. clock \in Nat /\ attr[r] \in Attr
    BY DEF TypeInv, TypeOK
  <2>2. [attr[r] EXCEPT !.stamp = clock] \in Attr
    BY <2>1 DEF Attr
  <2>3. attr' \in [Resource -> Attr]
    BY <1>2, <2>2 DEF DirectUpdate, TypeInv, TypeOK
  <2>4. QED BY <1>2, <2>1, <2>3 DEF DirectUpdate, TypeInv, TypeOK, TxShape, LinksResolve
<1>3. ASSUME NEW r \in Resource, DirectDelete(r)
      PROVE  TypeInv'
  BY <1>3 DEF DirectDelete, TypeInv, TypeOK, TxShape, LinksResolve
<1>4. QED BY <1>1, <1>2, <1>3 DEF Environment

LEMMA TypeStep ==
    ASSUME TypeInv, [Next]_vars
    PROVE  TypeInv'
<1>1. CASE UNCHANGED vars
  BY <1>1 DEF vars, TypeInv, TypeOK, TxShape, LinksResolve
<1>2. ASSUME NEW c \in Client, NEW k \in ChangeSetId, Request(c, k)
      PROVE  TypeInv'
  BY <1>2, TypePropose, TypeBegin, TypeReject DEF Request, ConfirmBegin, RevertBegin
<1>3. ASSUME NEW c \in Client, Statement(c)
      PROVE  TypeInv'
  BY <1>3, TypeValidate, TypePersist, TypeConfirmRead, TypeCheckProgress, TypeMarkFailed,
     TypeApply, TypeCommit, TypeRevertRead, TypeRevertDelete, TypeRevertReadProgress,
     TypeRevertCommit, TypeRollback, TypeRetry DEF Statement
<1>4. QED BY <1>1, <1>2, <1>3, TypeEnvironment DEF Next

LEMMA TypeInvariant == Spec => []TypeInv
BY TypeInit, TypeStep, PTL DEF Spec

\* Whatever requests do and however they interleave, every variable has its type;
\* a link of a decided ChangeSet never leaves the log.
THEOREM TypeCorrect == Spec => []TypeOK
BY TypeInvariant, PTL DEF TypeInv

-----------------------------------------------------------------------------
(* The audit trail.                                                        *)

\* A proposal in progress has its ChangeSet for itself.
ProposalAlone ==
    \A c \in Client : tx[c].pc = "proposing" =>
        /\ changeSet[tx[c].cs].status = "absent"
        /\ \A d \in Client \ {c} : tx[d].pc # "idle" => tx[d].cs # tx[c].cs

\* Any other request is about a ChangeSet that was proposed, and one that applies
\* does so at a boundary its snapshot is not above.
Known(t) ==
    /\ t.pc \notin {"idle", "proposing"} => changeSet[t.cs].status # "absent"
    /\ t.pc = "applying" => changeSet[t.cs].snapshot <= t.order

AllKnown == \A c \in Client : Known(tx[c])

AuditInv == TypeInv /\ ProposalAlone /\ AllKnown /\ AuditLinks /\ UndecidedHasNoEffect

\* A request that goes on in the same role, or ends.
Continues(s, t) ==
    \/ t.pc = "idle"
    \/ /\ s.pc # "idle" /\ t.cs = s.cs
       /\ s.pc = "proposing" <=> t.pc = "proposing"

LEMMA KnownPrivate ==
    ASSUME TypeInv, ProposalAlone, AllKnown, NEW c \in Client, NEW t, Become(c, t),
           UNCHANGED changeSet, Continues(tx[c], t), Known(t)
    PROVE  ProposalAlone' /\ AllKnown'
<1>1. tx' = [tx EXCEPT ![c] = t] /\ tx \in [Client -> Tx]
  BY DEF Become, TypeInv, TypeOK
<1>2. tx'[c] = t /\ \A d \in Client \ {c} : tx'[d] = tx[d]
  BY <1>1
<1>3. AllKnown'
  BY <1>2 DEF AllKnown, Known
<1>4. ProposalAlone'
  BY <1>2 DEF ProposalAlone, Continues
<1>5. QED BY <1>3, <1>4

\* An append keeps the Created revisions there are, and may add one of its own.
LEMMA CreatedAfterLog ==
    ASSUME TypeOK, NEW c \in Client, Shape(tx[c]), tx[c].cs \in ChangeSetId,
           NEW action \in {"Created", "Reverted"}, NEW types \in SUBSET OpType,
           LogRevision(tx[c], action, types)
    PROVE  \A k \in ChangeSetId :
             CreatedRevisions(k)' = CreatedRevisions(k) \cup
                 (IF k = tx[c].cs /\ action = "Created" THEN {Len(revisions) + 1} ELSE {})
<1>1. /\ Len(revisions) \in Nat
      /\ DOMAIN revisions = 1 .. Len(revisions)
      /\ DOMAIN revisions' = 1 .. Len(revisions) + 1
      /\ \A i \in DOMAIN revisions : revisions'[i] = revisions[i]
      /\ revisions'[Len(revisions) + 1].of = tx[c].cs
      /\ revisions'[Len(revisions) + 1].action = action
  <2>1. /\ Len(revisions) \in Nat
        /\ DOMAIN revisions = 1 .. Len(revisions)
        /\ DOMAIN revisions' = 1 .. Len(revisions) + 1
        /\ \A i \in DOMAIN revisions : revisions'[i] = revisions[i]
        /\ revisions'[Len(revisions) + 1] =
             [of |-> tx[c].cs, action |-> action, types |-> types,
              affected |-> tx[c].made, order |-> tx[c].order, at |-> tx[c].at]
    BY LogType, Zenon
  <2>2. QED BY <2>1
<1>2. QED BY <1>1 DEF CreatedRevisions

LEMMA AuditInit == Init => AuditInv
<1> SUFFICES ASSUME Init PROVE AuditInv
  OBVIOUS
<1>1. ProposalAlone /\ AllKnown
  BY DEF Init, Idle, ProposalAlone, AllKnown, Known
<1>2. AuditLinks /\ UndecidedHasNoEffect
  BY DEF Init, NoChangeSet, AuditLinks, UndecidedHasNoEffect, CreatedRevisions
<1>3. QED BY <1>1, <1>2, TypeInit DEF AuditInv

\* The audit trail only depends on the ChangeSets and the log.
LEMMA AuditPrivate ==
    ASSUME AuditInv, [Next]_vars, UNCHANGED <<changeSet, revisions>>, ProposalAlone', AllKnown'
    PROVE  AuditInv'
<1>1. AuditLinks' /\ UndecidedHasNoEffect'
  BY DEF AuditInv, AuditLinks, UndecidedHasNoEffect, CreatedRevisions
<1>2. QED BY <1>1, TypeStep DEF AuditInv

LEMMA AuditBegin ==
    ASSUME AuditInv, [Next]_vars, NEW c \in Client, NEW k \in ChangeSetId,
           \/ ConfirmBegin(c, k) \/ RevertBegin(c, k)
           \/ \E ops \in OpLists : ProposeStart(c, k, ops)
    PROVE  AuditInv'
<1>1. tx \in [Client -> Tx] /\ UNCHANGED <<changeSet, revisions>>
  BY DEF AuditInv, TypeInv, TypeOK, ConfirmBegin, RevertBegin, Begin, ProposeStart
<1>2. ASSUME NEW pc \in {"confirm", "revert"}, Begin(c, k, pc)
      PROVE  ProposalAlone' /\ AllKnown'
  <2>1. /\ tx'[c].pc = pc /\ tx'[c].cs = k /\ changeSet[k].status # "absent"
        /\ \A d \in Client \ {c} : tx'[d] = tx[d]
    BY <1>1, <1>2 DEF Begin, Become, Idle
  <2>2. QED BY <1>1, <2>1 DEF AuditInv, ProposalAlone, AllKnown, Known
<1>3. ASSUME NEW ops \in OpLists, ProposeStart(c, k, ops)
      PROVE  ProposalAlone' /\ AllKnown'
  <2>1. /\ tx'[c].pc = "proposing" /\ tx'[c].cs = k /\ changeSet[k].status = "absent"
        /\ \A d \in Client \ {c} : tx'[d] = tx[d] /\ (tx[d].pc = "idle" \/ tx[d].cs # k)
    BY <1>1, <1>3 DEF ProposeStart, Become, Idle
  <2>2. QED BY <1>1, <2>1 DEF AuditInv, ProposalAlone, AllKnown, Known
<1>4. QED BY <1>1, <1>2, <1>3, AuditPrivate DEF ConfirmBegin, RevertBegin

\* The statements of a request that write neither the ChangeSet nor the log.
LEMMA AuditStatement ==
    ASSUME AuditInv, [Next]_vars, NEW c \in Client,
           \/ ProposeValidate(c) \/ ConfirmRead(c) \/ ConfirmCheckProgress(c)
           \/ ConfirmApply(c) \/ ConfirmFails(c) \/ RevertRead(c) \/ RevertDelete(c)
           \/ RevertConflict(c) \/ RevertReadProgress(c) \/ Abandon(c) \/ Retry(c)
    PROVE  AuditInv'
<1>1. UNCHANGED <<changeSet, revisions>> /\ TypeInv /\ ProposalAlone /\ AllKnown /\ tx[c] \in Tx
  BY TxTyped DEF AuditInv, TypeInv, ProposeValidate, ConfirmRead, ConfirmCheckProgress,
         ConfirmApply, ConfirmFails, RevertRead, RevertDelete, RevertConflict,
         RevertReadProgress, Abandon, Retry
<1>2. Known(tx[c])
  BY DEF AuditInv, AllKnown
<1>3. SUFFICES \E t : Become(c, t) /\ Continues(tx[c], t) /\ Known(t)
  BY <1>1, KnownPrivate, AuditPrivate
<1>4. CASE Become(c, Idle)
  <2>1. Continues(tx[c], Idle) /\ Known(Idle)
    BY DEF Continues, Known, Idle
  <2>2. QED BY <1>4, <2>1
<1>5. CASE ProposeValidate(c)
  <2>1. PICK r \in NextOp(c).targets :
          Become(c, [tx[c] EXCEPT !.ops[Len(tx[c].made) + 1] = Protect(NextOp(c)),
                                  !.made = Append(@, r)])
    BY <1>5 DEF ProposeValidate
  <2> DEFINE t == [tx[c] EXCEPT !.ops[Len(tx[c].made) + 1] = Protect(NextOp(c)),
                                !.made = Append(@, r)]
  <2>2. tx[c].pc = "proposing" /\ t.pc = tx[c].pc /\ t.cs = tx[c].cs
    BY <1>1, <1>5 DEF ProposeValidate, Tx
  <2>3. Continues(tx[c], t) /\ Known(t)
    BY <2>2 DEF Continues, Known
  <2>4. QED BY <2>1, <2>3
<1>6. CASE ConfirmRead(c) /\ ~Become(c, Idle)
  <2> DEFINE t == [tx[c] EXCEPT !.pc = "checking", !.ops = changeSet[tx[c].cs].ops]
  <2>1. Become(c, t)
    BY <1>6 DEF ConfirmRead
  <2>2. tx[c].pc = "confirm" /\ t.pc = "checking" /\ t.cs = tx[c].cs
    BY <1>1, <1>6 DEF ConfirmRead, Tx
  <2>3. Continues(tx[c], t) /\ Known(t)
    BY <1>2, <2>2 DEF Continues, Known
  <2>4. QED BY <2>1, <2>3
<1>7. CASE ConfirmCheckProgress(c)
  <2>1. PICK pc \in {"stale", "applying"}, order \in {tx[c].order, CurrentProgress} :
          /\ Become(c, [tx[c] EXCEPT !.pc = pc, !.order = order])
          /\ pc = "applying" => changeSet[tx[c].cs].snapshot <= order
    <3>1. CASE Stale(c)
      <4>1. Become(c, [tx[c] EXCEPT !.pc = "stale", !.order = tx[c].order])
        BY <1>1, <1>7, <3>1 DEF ConfirmCheckProgress, Tx
      <4>2. QED BY <4>1
    <3>2. CASE ~Stale(c)
      <4>1. tx[c].cs \in ChangeSetId
        BY <1>1, <1>7 DEF TypeInv, TxShape, Shape, ConfirmCheckProgress
      <4>2. changeSet[tx[c].cs].snapshot \in Order /\ CurrentProgress \in Order
        BY <1>1, <3>2, <4>1, CurrentProgressType
           DEF Stale, TypeInv, TypeOK, ChangeSetType
      <4>3. changeSet[tx[c].cs].snapshot <= CurrentProgress
        BY <3>2, <4>2, ChangeSetAssumption DEF Stale, Order
      <4>4. QED BY <1>7, <3>2, <4>3 DEF ConfirmCheckProgress
    <3>3. QED BY <3>1, <3>2
  <2> DEFINE t == [tx[c] EXCEPT !.pc = pc, !.order = order]
  <2>2. tx[c].pc = "checking" /\ t.pc = pc /\ t.cs = tx[c].cs /\ t.order = order
    BY <1>1, <1>7 DEF ConfirmCheckProgress, Tx
  <2>3. Continues(tx[c], t) /\ Known(t)
    BY <1>2, <2>1, <2>2 DEF Continues, Known
  <2>4. QED BY <2>1, <2>3
<1>8. CASE ConfirmApply(c) \/ RevertDelete(c)
  <2>1. PICK r : Become(c, [tx[c] EXCEPT !.made = Append(@, r)])
    BY <1>8 DEF ConfirmApply, RevertDelete
  <2> DEFINE t == [tx[c] EXCEPT !.made = Append(@, r)]
  <2>2. /\ tx[c].pc \in {"applying", "undoing"}
        /\ t.pc = tx[c].pc /\ t.cs = tx[c].cs /\ t.order = tx[c].order
    BY <1>1, <1>8 DEF ConfirmApply, RevertDelete, Tx
  <2>3. Continues(tx[c], t) /\ Known(t)
    BY <1>2, <2>2 DEF Continues, Known
  <2>4. QED BY <2>1, <2>3
<1>9. CASE (RevertRead(c) /\ ~Become(c, Idle)) \/ RevertReadProgress(c)
  <2>1. \E pc \in {"undoing", "undone"} : \E ops, order :
          Become(c, [tx[c] EXCEPT !.pc = pc, !.ops = ops, !.order = order])
    <3>1. ASSUME NEW ops, Become(c, [tx[c] EXCEPT !.pc = "undoing", !.ops = ops])
          PROVE  Become(c, [tx[c] EXCEPT !.pc = "undoing", !.ops = ops, !.order = tx[c].order])
      BY <1>1, <3>1 DEF Tx
    <3>2. ASSUME NEW order, Become(c, [tx[c] EXCEPT !.pc = "undone", !.order = order])
          PROVE  Become(c, [tx[c] EXCEPT !.pc = "undone", !.ops = tx[c].ops, !.order = order])
      BY <1>1, <3>2 DEF Tx
    <3>3. QED BY <1>9, <3>1, <3>2 DEF RevertRead, RevertReadProgress
  <2>pc. PICK pc \in {"undoing", "undone"} : \E ops, order :
          Become(c, [tx[c] EXCEPT !.pc = pc, !.ops = ops, !.order = order])
    BY <2>1
  <2>rest. PICK ops, order : Become(c, [tx[c] EXCEPT !.pc = pc, !.ops = ops, !.order = order])
    BY <2>pc
  <2> DEFINE t == [tx[c] EXCEPT !.pc = pc, !.ops = ops, !.order = order]
  <2>2. tx[c].pc \in {"revert", "undoing"} /\ t.pc = pc /\ t.cs = tx[c].cs
    BY <1>1, <1>9 DEF RevertRead, RevertReadProgress, Tx
  <2>3. Continues(tx[c], t) /\ Known(t)
    BY <1>2, <2>2 DEF Continues, Known
  <2>4. QED BY <2>rest, <2>3
<1>10. CASE Retry(c)
  <2> DEFINE pc == IF tx[c].pc \in {"undoing", "undone"} THEN "revert" ELSE "confirm"
             t == [Idle EXCEPT !.cs = tx[c].cs, !.at = tx[c].at, !.pc = pc]
  <2>1. /\ Become(c, t)
        /\ tx[c].pc \in {"checking", "stale", "applying", "undoing", "undone"}
    BY <1>10 DEF Retry
  <2>2. t.pc \in {"revert", "confirm"} /\ t.cs = tx[c].cs
    BY DEF Idle
  <2>3. Continues(tx[c], t) /\ Known(t)
    BY <1>2, <2>1, <2>2 DEF Continues, Known
  <2>4. QED BY <2>1, <2>3
<1>11. QED
  BY <1>4, <1>5, <1>6, <1>7, <1>8, <1>9, <1>10
     DEF ConfirmFails, RevertConflict, Abandon

\* A request that ends leaves the others as they were.
LEMMA OthersStay ==
    ASSUME TypeInv, NEW c \in Client, Become(c, Idle)
    PROVE  tx'[c].pc = "idle" /\ \A d \in Client \ {c} : tx'[d] = tx[d]
BY DEF Become, Idle, TypeInv, TypeOK

LEMMA AuditPersist ==
    ASSUME AuditInv, [Next]_vars, NEW c \in Client, ProposePersist(c)
    PROVE  AuditInv'
<1> DEFINE k == tx[c].cs
<1>1. /\ k \in ChangeSetId /\ tx[c].pc = "proposing" /\ changeSet[k].status = "absent"
      /\ \A d \in Client \ {c} : tx[d].pc # "idle" => tx[d].cs # k
  BY DEF AuditInv, TypeInv, TxShape, Shape, ProposalAlone, ProposePersist
<1>2. /\ changeSet'[k].status = "awaiting_confirmation"
      /\ \A j \in ChangeSetId \ {k} : changeSet'[j] = changeSet[j]
      /\ revisions' = revisions
  BY <1>1 DEF ProposePersist, AuditInv, TypeInv, TypeOK, NoChangeSet
<1>3. tx'[c].pc = "idle" /\ \A d \in Client \ {c} : tx'[d] = tx[d]
  BY OthersStay DEF ProposePersist, AuditInv
<1>4. \A d \in Client : tx[d].pc # "idle" => tx[d].cs \in ChangeSetId
  BY DEF AuditInv, TypeInv, TxShape, Shape
<1> HIDE DEF k
<1>5. ProposalAlone' /\ AllKnown'
  BY <1>1, <1>2, <1>3, <1>4 DEF AuditInv, ProposalAlone, AllKnown, Known
<1>6. \A j \in ChangeSetId : CreatedRevisions(j)' = CreatedRevisions(j)
  BY <1>2 DEF CreatedRevisions
<1>7. UndecidedHasNoEffect'
  BY <1>1, <1>2, <1>6 DEF AuditInv, UndecidedHasNoEffect
<1>8. AuditLinks'
  BY <1>2, <1>6 DEF AuditInv, AuditLinks
<1>9. QED BY <1>5, <1>7, <1>8, TypeStep DEF AuditInv

\* Marking a ChangeSet that was proposed failed, or one that waits rejected.
LEMMA AuditMark ==
    ASSUME AuditInv, [Next]_vars, NEW k \in ChangeSetId, NEW status \in {"failed", "rejected"},
           changeSet' = [changeSet EXCEPT ![k].status = status], UNCHANGED revisions,
           changeSet[k].status # "absent",
           status = "rejected" => changeSet[k].status = "awaiting_confirmation",
           \A d \in Client : tx'[d] = tx[d] \/ tx'[d].pc = "idle"
    PROVE  AuditInv'
<1>1. /\ changeSet'[k].status = status /\ changeSet'[k].snapshot = changeSet[k].snapshot
      /\ \A j \in ChangeSetId \ {k} : changeSet'[j] = changeSet[j]
  BY DEF AuditInv, TypeInv, TypeOK, ChangeSetType
<1>2. \A d \in Client : tx[d].pc # "idle" => tx[d].cs \in ChangeSetId
  BY DEF AuditInv, TypeInv, TxShape, Shape
<1>3. ProposalAlone' /\ AllKnown'
  BY <1>1, <1>2 DEF AuditInv, ProposalAlone, AllKnown, Known
<1>4. \A j \in ChangeSetId : CreatedRevisions(j)' = CreatedRevisions(j)
  BY DEF CreatedRevisions
<1>5. UndecidedHasNoEffect'
  BY <1>1, <1>4 DEF AuditInv, UndecidedHasNoEffect
<1>6. AuditLinks'
  BY <1>1, <1>4 DEF AuditInv, AuditLinks
<1>7. QED BY <1>3, <1>5, <1>6, TypeStep DEF AuditInv

LEMMA AuditMarks ==
    ASSUME AuditInv, [Next]_vars, NEW c \in Client,
           ConfirmMarkFailed(c) \/ \E k \in ChangeSetId : Reject(c, k)
    PROVE  AuditInv'
<1>1. CASE ConfirmMarkFailed(c)
  <2>1. tx[c].cs \in ChangeSetId /\ changeSet[tx[c].cs].status # "absent"
    BY <1>1 DEF ConfirmMarkFailed, AuditInv, TypeInv, TxShape, Shape, AllKnown, Known
  <2>2. \A d \in Client : tx'[d] = tx[d] \/ tx'[d].pc = "idle"
    BY <1>1, OthersStay DEF ConfirmMarkFailed, AuditInv
  <2>3. QED BY <1>1, <2>1, <2>2, AuditMark DEF ConfirmMarkFailed
<1>2. ASSUME NEW k \in ChangeSetId, Reject(c, k)
      PROVE  AuditInv'
  BY <1>2, AuditMark DEF Reject
<1>3. QED BY <1>1, <1>2

LEMMA AuditCommit ==
    ASSUME AuditInv, [Next]_vars, NEW c \in Client, ConfirmCommit(c)
    PROVE  AuditInv'
<1> DEFINE k == tx[c].cs
           n == Len(revisions) + 1
           types == {tx[c].ops[i].type : i \in 1 .. Len(tx[c].ops)}
<1>1. /\ TypeOK /\ Shape(tx[c]) /\ k \in ChangeSetId /\ tx[c].pc = "applying"
      /\ changeSet[k].snapshot <= tx[c].order /\ changeSet[k].status # "absent"
  BY DEF AuditInv, TypeInv, TxShape, Shape, AllKnown, Known, ConfirmCommit
<1>2. tx[c].order \in Int /\ changeSet[k].snapshot \in Int
  BY <1>1, TxTyped, ChangeSetAssumption DEF TypeOK, ChangeSetType, Order
<1>3. /\ changeSet'[k].status = "applied" /\ changeSet'[k].revision = n
      /\ changeSet'[k].applied_at = tx[c].at
      /\ changeSet'[k].snapshot = changeSet[k].snapshot
      /\ \A j \in ChangeSetId \ {k} : changeSet'[j] = changeSet[j]
  BY <1>1 DEF ConfirmCommit, TypeOK, ChangeSetType
<1>4. LogRevision(tx[c], "Created", types) /\ types \in SUBSET OpType
  <2>1. tx[c].ops \in Seq(Operation)
    BY <1>1, TxTyped
  <2>2. \A i \in 1 .. Len(tx[c].ops) : tx[c].ops[i] \in Operation
    BY <2>1
  <2>3. QED BY <2>2 DEF Operation, ConfirmCommit
<1> HIDE DEF types
<1>5. \A j \in ChangeSetId : CreatedRevisions(j)' =
          CreatedRevisions(j) \cup (IF j = k THEN {n} ELSE {})
  BY <1>1, <1>4, CreatedAfterLog
<1>6. /\ n \in Nat /\ DOMAIN revisions = 1 .. n - 1 /\ DOMAIN revisions' = 1 .. n
      /\ \A i \in DOMAIN revisions : revisions'[i] = revisions[i]
      /\ revisions'[n].order = tx[c].order /\ revisions'[n].at = tx[c].at
  <2>1. /\ Len(revisions) \in Nat
        /\ DOMAIN revisions = 1 .. Len(revisions)
        /\ DOMAIN revisions' = 1 .. Len(revisions) + 1
        /\ \A i \in DOMAIN revisions : revisions'[i] = revisions[i]
        /\ revisions'[Len(revisions) + 1] =
             [of |-> tx[c].cs, action |-> "Created", types |-> types,
              affected |-> tx[c].made, order |-> tx[c].order, at |-> tx[c].at]
    BY <1>1, <1>4, LogType, Zenon
  <2>2. QED BY <2>1
<1>7. tx'[c].pc = "idle" /\ \A d \in Client \ {c} : tx'[d] = tx[d]
  BY OthersStay DEF ConfirmCommit, AuditInv
<1>8. \A d \in Client : tx[d].pc # "idle" => tx[d].cs \in ChangeSetId
  BY DEF AuditInv, TypeInv, TxShape, Shape
<1> HIDE DEF k, n
<1>9. ProposalAlone' /\ AllKnown'
  BY <1>1, <1>3, <1>7, <1>8 DEF AuditInv, ProposalAlone, AllKnown, Known
<1>10. UndecidedHasNoEffect'
  BY <1>3, <1>5 DEF AuditInv, UndecidedHasNoEffect
<1>11. \A j \in ChangeSetId : CreatedRevisions(j) \subseteq DOMAIN revisions
  BY DEF CreatedRevisions
<1>12. AuditLinks'
  <2> SUFFICES ASSUME NEW j \in ChangeSetId
               PROVE  /\ changeSet'[j].status \in {"applied", "reverted"} =>
                           /\ changeSet'[j].revision \in CreatedRevisions(j)'
                           /\ revisions'[changeSet'[j].revision].order >= changeSet'[j].snapshot
                           /\ revisions'[changeSet'[j].revision].at = changeSet'[j].applied_at
                      /\ changeSet'[j].status = "reverted" =>
                           /\ changeSet'[j].revert_revision \in DOMAIN revisions'
                           /\ revisions'[changeSet'[j].revert_revision].of = j
                           /\ revisions'[changeSet'[j].revert_revision].action = "Reverted"
                           /\ \E i \in CreatedRevisions(j)' : i < changeSet'[j].revert_revision
    BY DEF AuditLinks, CreatedRevisions
  <2>1. CASE j = k
    BY <1>1, <1>3, <1>5, <1>6, <1>2, <2>1
  <2>2. CASE j # k
    BY <1>3, <1>5, <1>6, <1>11, <2>2 DEF AuditInv, AuditLinks
  <2>3. QED BY <2>1, <2>2
<1>13. QED BY <1>9, <1>10, <1>12, TypeStep DEF AuditInv

LEMMA AuditRevertCommit ==
    ASSUME AuditInv, [Next]_vars, NEW c \in Client, RevertCommit(c)
    PROVE  AuditInv'
<1> DEFINE k == tx[c].cs
           n == Len(revisions) + 1
<1>1. TypeOK /\ Shape(tx[c]) /\ k \in ChangeSetId
  BY DEF AuditInv, TypeInv, TxShape, Shape, RevertCommit
<1>2. tx'[c].pc = "idle" /\ \A d \in Client \ {c} : tx'[d] = tx[d]
  BY OthersStay DEF RevertCommit, AuditInv
<1>3. CASE changeSet[k].status # "applied"
  <2>1. ProposalAlone' /\ AllKnown'
    BY <1>2, <1>3 DEF RevertCommit, AuditInv, ProposalAlone, AllKnown, Known
  <2>2. QED BY <1>3, <2>1, AuditPrivate DEF RevertCommit
<1>4. CASE changeSet[k].status = "applied"
  <2>1. /\ changeSet'[k].status = "reverted" /\ changeSet'[k].revert_revision = n
        /\ changeSet'[k].revision = changeSet[k].revision
        /\ changeSet'[k].applied_at = changeSet[k].applied_at
        /\ changeSet'[k].snapshot = changeSet[k].snapshot
        /\ \A j \in ChangeSetId \ {k} : changeSet'[j] = changeSet[j]
    <3>1. changeSet' = [changeSet EXCEPT ![k].status = "reverted", ![k].revert_revision = n]
      BY <1>4 DEF RevertCommit
    <3>2. changeSet \in [ChangeSetId -> ChangeSetType]
      BY <1>1 DEF TypeOK
    <3> HIDE DEF k, n
    <3>3. QED BY <1>1, <3>1, <3>2 DEF ChangeSetType
  <2>2. LogRevision(tx[c], "Reverted", {}) /\ {} \in SUBSET OpType
    BY <1>4 DEF RevertCommit
  <2>3. \A j \in ChangeSetId : CreatedRevisions(j)' = CreatedRevisions(j)
    BY <1>1, <2>2, CreatedAfterLog
  <2>4. /\ n \in Nat /\ DOMAIN revisions = 1 .. n - 1 /\ DOMAIN revisions' = 1 .. n
        /\ \A i \in DOMAIN revisions : revisions'[i] = revisions[i]
        /\ revisions'[n].of = k /\ revisions'[n].action = "Reverted"
    <3>1. /\ Len(revisions) \in Nat
          /\ DOMAIN revisions = 1 .. Len(revisions)
          /\ DOMAIN revisions' = 1 .. Len(revisions) + 1
          /\ \A i \in DOMAIN revisions : revisions'[i] = revisions[i]
          /\ revisions'[Len(revisions) + 1] =
               [of |-> tx[c].cs, action |-> "Reverted", types |-> {},
                affected |-> tx[c].made, order |-> tx[c].order, at |-> tx[c].at]
      BY <1>1, <2>2, LogType, Zenon
    <3>2. QED BY <3>1
  <2>5. \A j \in ChangeSetId : CreatedRevisions(j) \subseteq DOMAIN revisions
    BY DEF CreatedRevisions
  <2> HIDE DEF k, n
  <2>6. ProposalAlone' /\ AllKnown'
    BY <1>1, <1>2, <1>4, <2>1 DEF AuditInv, TypeInv, TxShape, Shape, ProposalAlone, AllKnown, Known
  <2>7. UndecidedHasNoEffect'
    BY <2>1, <2>3 DEF AuditInv, UndecidedHasNoEffect
  <2>8. AuditLinks'
    <3> SUFFICES ASSUME NEW j \in ChangeSetId
                 PROVE  /\ changeSet'[j].status \in {"applied", "reverted"} =>
                             /\ changeSet'[j].revision \in CreatedRevisions(j)'
                             /\ revisions'[changeSet'[j].revision].order >= changeSet'[j].snapshot
                             /\ revisions'[changeSet'[j].revision].at = changeSet'[j].applied_at
                        /\ changeSet'[j].status = "reverted" =>
                             /\ changeSet'[j].revert_revision \in DOMAIN revisions'
                             /\ revisions'[changeSet'[j].revert_revision].of = j
                             /\ revisions'[changeSet'[j].revert_revision].action = "Reverted"
                             /\ \E i \in CreatedRevisions(j)' : i < changeSet'[j].revert_revision
      BY DEF AuditLinks, CreatedRevisions
    <3>1. CASE j = k
      <4>1. changeSet[k].revision \in CreatedRevisions(k) /\ changeSet[k].revision \in 1 .. n - 1
        BY <1>1, <1>4, <2>4, <2>5 DEF AuditInv, AuditLinks
      <4>2. /\ revisions[changeSet[k].revision].order >= changeSet[k].snapshot
            /\ revisions[changeSet[k].revision].at = changeSet[k].applied_at
        BY <1>1, <1>4 DEF AuditInv, AuditLinks
      <4>3. QED BY <1>1, <2>1, <2>3, <2>4, <3>1, <4>1, <4>2
    <3>2. CASE j # k
      BY <2>1, <2>3, <2>4, <2>5, <3>2 DEF AuditInv, AuditLinks
    <3>3. QED BY <3>1, <3>2
  <2>9. QED BY <2>6, <2>7, <2>8, TypeStep DEF AuditInv
<1>5. QED BY <1>3, <1>4

LEMMA AuditStep ==
    ASSUME AuditInv, [Next]_vars
    PROVE  AuditInv'
<1>1. CASE UNCHANGED vars \/ Environment
  <2>1. UNCHANGED <<changeSet, revisions, tx>>
    BY <1>1 DEF vars, Environment, SetProgress, DirectUpdate, DirectDelete
  <2>2. ProposalAlone' /\ AllKnown'
    BY <2>1 DEF AuditInv, ProposalAlone, AllKnown, Known
  <2>3. QED BY <2>1, <2>2, AuditPrivate
<1>2. ASSUME NEW c \in Client, NEW k \in ChangeSetId, Request(c, k)
      PROVE  AuditInv'
  BY <1>2, AuditBegin, AuditMarks DEF Request
<1>3. ASSUME NEW c \in Client, Statement(c)
      PROVE  AuditInv'
  BY <1>3, AuditStatement, AuditPersist, AuditMarks, AuditCommit, AuditRevertCommit DEF Statement
<1>4. QED BY <1>1, <1>2, <1>3 DEF Next

LEMMA AuditInvariant == Spec => []AuditInv
BY AuditInit, AuditStep, PTL DEF Spec

\* For any number of overlapping requests: a ChangeSet that is or was applied keeps
\* the link to its own Created revision, made at a boundary not below its snapshot,
\* and a reverted one also to its later Reverted revision (PROB-27).
THEOREM AuditLinksAlways == Spec => []AuditLinks
BY AuditInvariant, PTL DEF AuditInv

\* For any number of overlapping requests: a ChangeSet that waits, or was rejected
\* and stayed so, has no Created revision.
THEOREM UndecidedNeverApplied == Spec => []UndecidedHasNoEffect
BY AuditInvariant, PTL DEF AuditInv

-----------------------------------------------------------------------------
(* What requests write.                                                    *)

Born == {r \in Resource : attr[r].kind # "unborn"}

\* A confirm creates what nothing carries yet, refers only to what is there and not
\* above its boundary, and otherwise writes, like a revert, only what users own.
Settled(t) ==
    /\ t.pc = "applying" => \A i \in Steps(t) :
          /\ \A r \in t.ops[i].targets : r \in Born /\ attr[r].order <= t.order
          /\ t.ops[i].type \in CREATE_OPERATION_TYPES => t.made[i] \notin Born
          /\ t.ops[i].type \notin CREATE_OPERATION_TYPES =>
                t.made[i] \in Born /\ attr[t.made[i]].origin = "user"
    /\ t.pc \in {"undoing", "undone"} => \A i \in Steps(t) :
          t.made[i] \in Born /\ attr[t.made[i]].origin = "user"

AllSettled == \A c \in Client : Settled(tx[c])

\* No two confirms take the same new id.
Apart ==
    \A c, d \in Client :
        c # d /\ tx[c].pc = "applying" /\ tx[d].pc = "applying"
            => Made(tx[c]) \cap Made(tx[d]) = {}

RefsSettled == \A r \in Resource : attr[r].refs \subseteq Born /\ (r \notin Born => attr[r].refs = {})

EffectInv ==
    /\ TypeInv /\ live \subseteq Born /\ RefsSettled /\ NotVisibleBeforeReferences
    /\ AllSettled /\ Apart

LEMMA EffectInit == Init => EffectInv
<1> SUFFICES ASSUME Init PROVE EffectInv
  OBVIOUS
<1>1. live \subseteq Born
  BY ChangeSetAssumption DEF Init, Born, Kind
<1>2. RefsSettled /\ NotVisibleBeforeReferences
  BY DEF Init, RefsSettled, NotVisibleBeforeReferences, Unborn
<1>3. AllSettled /\ Apart
  BY DEF Init, AllSettled, Settled, Apart, Idle
<1>4. QED BY <1>1, <1>2, <1>3, TypeInit DEF EffectInv

LEMMA CreatesAreNotEdits ==
    ASSUME NEW type \in DIRECT_MUTATION_OPERATION_TYPES \cup NoteEdits
    PROVE  type \notin CREATE_OPERATION_TYPES
BY DEF CREATE_OPERATION_TYPES, DIRECT_MUTATION_OPERATION_TYPES, NoteEdits, Makes

\* A step of one request that writes nothing to the graph, and takes no new id.
LEMMA EffectPrivate ==
    ASSUME EffectInv, [Next]_vars, NEW c \in Client, UNCHANGED <<live, attr>>,
           NEW t, Become(c, t), Settled(t),
           t.pc = "applying" => t.made = <<>> \/ (tx[c].pc = "applying" /\ Made(t) = Made(tx[c]))
    PROVE  EffectInv'
<1>1. tx'[c] = t /\ \A d \in Client \ {c} : tx'[d] = tx[d]
  BY DEF Become, EffectInv, TypeInv, TypeOK
<1>2. Born' = Born
  BY DEF Born
<1>3. AllSettled'
  BY <1>1, <1>2 DEF EffectInv, AllSettled, Settled, Steps
<1>4. t.made = <<>> => Made(t) = {}
  BY DEF Made, Steps
<1>5. Apart'
  <2> SUFFICES ASSUME NEW a \in Client, NEW d \in Client, a # d,
                      tx'[a].pc = "applying", tx'[d].pc = "applying"
               PROVE  Made(tx'[a]) \cap Made(tx'[d]) = {}
    BY DEF Apart, Made, Steps
  <2>1. CASE a # c /\ d # c
    BY <1>1, <2>1 DEF EffectInv, Apart
  <2>2. CASE a = c
    BY <1>1, <1>4, <2>2 DEF EffectInv, Apart
  <2>3. CASE d = c
    BY <1>1, <1>4, <2>3 DEF EffectInv, Apart
  <2>4. QED BY <2>1, <2>2, <2>3
<1>6. RefsSettled' /\ NotVisibleBeforeReferences' /\ live' \subseteq Born'
  BY <1>2 DEF EffectInv, RefsSettled, NotVisibleBeforeReferences
<1>7. QED BY <1>3, <1>5, <1>6, TypeStep DEF EffectInv

\* Those that only end the request, or begin it, or read.
LEMMA EffectQuiet ==
    ASSUME EffectInv, [Next]_vars, NEW c \in Client, UNCHANGED <<live, attr>>,
           NEW t, Become(c, t),
           \/ t.pc \in {"idle", "proposing", "confirm", "checking", "stale", "revert"}
           \/ t.pc \in {"applying", "undoing"} /\ t.made = <<>>
           \/ t.pc = "undone" /\ tx[c].pc = "undoing" /\ t.made = tx[c].made
    PROVE  EffectInv'
<1>1. Settled(tx[c])
  BY DEF EffectInv, AllSettled
<1>2. Settled(t)
  BY <1>1 DEF Settled, Steps
<1>3. QED BY <1>2, EffectPrivate

LEMMA EffectQuietActions ==
    ASSUME EffectInv, [Next]_vars, NEW c \in Client,
           \/ \E k \in ChangeSetId :
                ConfirmBegin(c, k) \/ RevertBegin(c, k) \/ \E ops \in OpLists : ProposeStart(c, k, ops)
           \/ ProposeValidate(c) \/ ProposePersist(c) \/ ConfirmRead(c)
           \/ ConfirmCheckProgress(c) \/ ConfirmMarkFailed(c) \/ ConfirmFails(c)
           \/ RevertRead(c) \/ RevertConflict(c) \/ RevertReadProgress(c)
           \/ Abandon(c) \/ Retry(c)
    PROVE  EffectInv'
<1>1. /\ UNCHANGED <<live, attr>> /\ tx[c] \in Tx
      /\ tx[c].pc \in {"confirm", "checking", "stale", "revert"} => tx[c].made = <<>>
  BY TxTyped DEF EffectInv, TypeInv, TxShape, Shape, ConfirmBegin, RevertBegin, Begin,
     ProposeStart, ProposeValidate, ProposePersist, ConfirmRead, ConfirmCheckProgress,
     ConfirmMarkFailed, ConfirmFails, RevertRead, RevertConflict, RevertReadProgress,
     Abandon, Retry
<1>2. SUFFICES \E t : /\ Become(c, t)
                      /\ \/ t.pc \in {"idle", "proposing", "confirm", "checking", "stale", "revert"}
                         \/ t.pc \in {"applying", "undoing"} /\ t.made = <<>>
                         \/ t.pc = "undone" /\ tx[c].pc = "undoing" /\ t.made = tx[c].made
  BY <1>1, EffectQuiet
<1>3. CASE Become(c, Idle)
  BY <1>3 DEF Idle
<1>4. ASSUME NEW k \in ChangeSetId,
             \/ ConfirmBegin(c, k) \/ RevertBegin(c, k) \/ \E ops \in OpLists : ProposeStart(c, k, ops)
      PROVE  \E t : Become(c, t) /\ t.pc \in {"proposing", "confirm", "revert"}
  <2>1. ASSUME NEW pc \in {"confirm", "revert"}, Begin(c, k, pc)
        PROVE  \E t : Become(c, t) /\ t.pc \in {"proposing", "confirm", "revert"}
    <3>1. [Idle EXCEPT !.pc = pc, !.cs = k, !.at = clock].pc = pc
      BY DEF Idle
    <3>2. QED BY <2>1, <3>1 DEF Begin
  <2>2. ASSUME NEW ops \in OpLists, ProposeStart(c, k, ops)
        PROVE  \E t : Become(c, t) /\ t.pc \in {"proposing", "confirm", "revert"}
    <3>1. [Idle EXCEPT !.pc = "proposing", !.cs = k, !.ops = ops,
                       !.order = CurrentProgress].pc = "proposing"
      BY DEF Idle
    <3>2. QED BY <2>2, <3>1 DEF ProposeStart
  <2>3. QED BY <1>4, <2>1, <2>2 DEF ConfirmBegin, RevertBegin
<1>5. CASE ProposeValidate(c)
  <2>1. PICK r : Become(c, [tx[c] EXCEPT !.ops[Len(tx[c].made) + 1] = Protect(NextOp(c)),
                                         !.made = Append(@, r)])
    BY <1>5 DEF ProposeValidate
  <2>2. [tx[c] EXCEPT !.ops[Len(tx[c].made) + 1] = Protect(NextOp(c)),
                      !.made = Append(@, r)].pc = "proposing"
    BY <1>1, <1>5 DEF ProposeValidate, Tx
  <2>3. QED BY <2>1, <2>2
<1>6. CASE ConfirmRead(c) /\ ~Become(c, Idle)
  <2>1. [tx[c] EXCEPT !.pc = "checking", !.ops = changeSet[tx[c].cs].ops].pc = "checking"
    BY <1>1 DEF Tx
  <2>2. QED BY <1>6, <2>1 DEF ConfirmRead
<1>7. CASE ConfirmCheckProgress(c)
  <2>1. CASE Stale(c)
    <3>1. [tx[c] EXCEPT !.pc = "stale"].pc = "stale"
      BY <1>1 DEF Tx
    <3>2. QED BY <1>7, <2>1, <3>1 DEF ConfirmCheckProgress
  <2>2. CASE ~Stale(c)
    <3>1. /\ [tx[c] EXCEPT !.pc = "applying", !.order = CurrentProgress].pc = "applying"
          /\ [tx[c] EXCEPT !.pc = "applying", !.order = CurrentProgress].made = <<>>
      BY <1>1, <1>7 DEF Tx, ConfirmCheckProgress
    <3>2. QED BY <1>7, <2>2, <3>1 DEF ConfirmCheckProgress
  <2>3. QED BY <2>1, <2>2
<1>8. CASE RevertRead(c) /\ ~Become(c, Idle)
  <2>1. PICK ops : Become(c, [tx[c] EXCEPT !.pc = "undoing", !.ops = ops])
    BY <1>8 DEF RevertRead
  <2>2. /\ [tx[c] EXCEPT !.pc = "undoing", !.ops = ops].pc = "undoing"
        /\ [tx[c] EXCEPT !.pc = "undoing", !.ops = ops].made = <<>>
    BY <1>1, <1>8 DEF Tx, RevertRead
  <2>3. QED BY <2>1, <2>2
<1>9. CASE RevertReadProgress(c)
  <2>1. PICK order : Become(c, [tx[c] EXCEPT !.pc = "undone", !.order = order])
    BY <1>9 DEF RevertReadProgress
  <2>2. /\ [tx[c] EXCEPT !.pc = "undone", !.order = order].pc = "undone"
        /\ [tx[c] EXCEPT !.pc = "undone", !.order = order].made = tx[c].made
    BY <1>1 DEF Tx
  <2>3. QED BY <1>9, <2>1, <2>2 DEF RevertReadProgress
<1>10. CASE Retry(c)
  <2>1. PICK pc \in {"revert", "confirm"} :
          Become(c, [Idle EXCEPT !.cs = tx[c].cs, !.at = tx[c].at, !.pc = pc])
    BY <1>10 DEF Retry
  <2>2. [Idle EXCEPT !.cs = tx[c].cs, !.at = tx[c].at, !.pc = pc].pc = pc
    BY DEF Idle
  <2>3. QED BY <2>1, <2>2
<1>11. QED
  BY <1>3, <1>4, <1>5, <1>6, <1>7, <1>8, <1>9, <1>10
     DEF ProposePersist, ConfirmMarkFailed, ConfirmFails, RevertConflict, Abandon

\* What one more resource adds to the steps of a transaction.
LEMMA OneMoreStep ==
    ASSUME TypeInv, NEW c \in Client, ~AllOpsDone(c), NEW r \in Resource,
           Become(c, [tx[c] EXCEPT !.made = Append(@, r)])
    PROVE  \E t :
           /\ Become(c, t)
           /\ t.pc = tx[c].pc /\ t.order = tx[c].order /\ t.ops = tx[c].ops
           /\ Len(tx[c].made) \in Nat
           /\ Steps(tx[c]) = 1 .. Len(tx[c].made)
           /\ Steps(t) = 1 .. Len(tx[c].made) + 1
           /\ \A i \in Steps(tx[c]) : t.made[i] = tx[c].made[i]
           /\ t.made[Len(tx[c].made) + 1] = r
           /\ t.ops[Len(tx[c].made) + 1] = NextOp(c)
<1> DEFINE t == [tx[c] EXCEPT !.made = Append(@, r)]
<1>1. tx[c] \in Tx /\ tx[c].made \in Seq(Resource)
  BY TxTyped DEF TypeInv
<1>2. t.pc = tx[c].pc /\ t.order = tx[c].order /\ t.ops = tx[c].ops /\ t.made = Append(tx[c].made, r)
  BY <1>1 DEF Tx
<1>3. Become(c, t)
  OBVIOUS
<1> HIDE DEF t
<1>4. QED BY <1>1, <1>2, <1>3 DEF Steps, NextOp

LEMMA EffectApply ==
    ASSUME EffectInv, [Next]_vars, NEW c \in Client, ConfirmApply(c)
    PROVE  EffectInv'
<1> DEFINE op == NextOp(c)
           n == Len(tx[c].made) + 1
<1>1. /\ TypeOK /\ TxShape /\ TypeInv /\ ~AllOpsDone(c) /\ tx[c].pc = "applying"
      /\ UNCHANGED <<live, attr>> /\ Applicable(c, op)
  BY DEF EffectInv, TypeInv, ConfirmApply
<1>2. op \in Operation
  BY <1>1, NextOpType
<1>3. PICK r \in Resource :
        /\ Become(c, [tx[c] EXCEPT !.made = Append(@, r)])
        /\ op.type \in CREATE_OPERATION_TYPES => Fresh(r)
        /\ op.type \notin CREATE_OPERATION_TYPES => r \in op.targets /\ op.type \notin NoteEdits
  BY <1>2 DEF ConfirmApply, Operation
<1>4. PICK t :
        /\ Become(c, t)
        /\ t.pc = tx[c].pc /\ t.order = tx[c].order /\ t.ops = tx[c].ops
        /\ Len(tx[c].made) \in Nat
        /\ Steps(tx[c]) = 1 .. Len(tx[c].made)
        /\ Steps(t) = 1 .. n
        /\ \A i \in Steps(tx[c]) : t.made[i] = tx[c].made[i]
        /\ t.made[n] = r /\ t.ops[n] = op
  BY <1>1, <1>3, OneMoreStep
<1>5. /\ t.pc = "applying" /\ t.order = tx[c].order /\ t.ops = tx[c].ops /\ n \in Nat
      /\ Steps(tx[c]) = 1 .. n - 1 /\ Steps(t) = 1 .. n
      /\ \A i \in Steps(tx[c]) : t.made[i] = tx[c].made[i]
      /\ t.made[n] = r /\ t.ops[n] = op
  BY <1>1, <1>4
<1>6. \A u \in op.targets : u \in Born /\ attr[u].order <= tx[c].order /\ MutableBy(op, u)
  BY <1>1, <1>2 DEF Applicable, Visible, EffectInv, TypeInv, TypeOK
<1>7. op.type \in DIRECT_MUTATION_OPERATION_TYPES \cup NoteEdits \/ op.type \in CREATE_OPERATION_TYPES
  BY <1>2 DEF Operation, OpType
<1> HIDE DEF op, n
<1>8. Settled(tx[c])
  BY DEF EffectInv, AllSettled
<1>9. Settled(t)
  <2> SUFFICES ASSUME NEW i \in Steps(t)
               PROVE  /\ \A u \in t.ops[i].targets : u \in Born /\ attr[u].order <= t.order
                      /\ t.ops[i].type \in CREATE_OPERATION_TYPES => t.made[i] \notin Born
                      /\ t.ops[i].type \notin CREATE_OPERATION_TYPES =>
                            t.made[i] \in Born /\ attr[t.made[i]].origin = "user"
    BY <1>5 DEF Settled
  <2>1. CASE i = n
    BY <1>3, <1>5, <1>6, <1>7, <2>1 DEF Born, Fresh, MutableBy
  <2>2. CASE i \in Steps(tx[c])
    BY <1>1, <1>5, <1>8, <2>2 DEF Settled
  <2>3. QED BY <1>5, <2>1, <2>2
<1>10. tx'[c] = t /\ \A d \in Client \ {c} : tx'[d] = tx[d]
  BY <1>1, <1>4 DEF Become, TypeOK
<1>11. Made(t) \subseteq Made(tx[c]) \cup (IF op.type \in CREATE_OPERATION_TYPES THEN {r} ELSE {})
  BY <1>5 DEF Made
<1>12. op.type \in CREATE_OPERATION_TYPES => \A d \in Client : r \notin Made(tx[d])
  BY <1>3 DEF Fresh, Wrote, Made
<1>13. Apart'
  <2> SUFFICES ASSUME NEW a \in Client, NEW d \in Client, a # d,
                      tx'[a].pc = "applying", tx'[d].pc = "applying"
               PROVE  Made(tx'[a]) \cap Made(tx'[d]) = {}
    BY DEF Apart, Made, Steps
  <2>1. CASE a # c /\ d # c
    BY <1>10, <2>1 DEF EffectInv, Apart
  <2>2. CASE a = c
    BY <1>1, <1>10, <1>11, <1>12, <2>2 DEF EffectInv, Apart
  <2>3. CASE d = c
    BY <1>1, <1>10, <1>11, <1>12, <2>3 DEF EffectInv, Apart
  <2>4. QED BY <2>1, <2>2, <2>3
<1>14. Born' = Born
  BY <1>1 DEF Born
<1>15. AllSettled'
  BY <1>1, <1>9, <1>10, <1>14 DEF EffectInv, AllSettled, Settled, Steps
<1>16. RefsSettled' /\ NotVisibleBeforeReferences' /\ live' \subseteq Born'
  BY <1>1, <1>14 DEF EffectInv, RefsSettled, NotVisibleBeforeReferences
<1>17. QED BY <1>13, <1>15, <1>16, TypeStep DEF EffectInv

LEMMA EffectRevertDelete ==
    ASSUME EffectInv, [Next]_vars, NEW c \in Client, RevertDelete(c)
    PROVE  EffectInv'
<1> DEFINE n == Len(tx[c].made) + 1
<1>1. /\ TypeOK /\ TypeInv /\ ~AllOpsDone(c) /\ tx[c].pc = "undoing" /\ UNCHANGED <<live, attr>>
  BY DEF EffectInv, TypeInv, RevertDelete
<1>2. PICK r : Become(c, [tx[c] EXCEPT !.made = Append(@, r)]) /\ Untouched(c, r)
  BY DEF RevertDelete
<1>3. r \in Born /\ attr[r].origin = "user"
  BY <1>2 DEF Untouched, EffectInv
<1>4. PICK t :
        /\ Become(c, t)
        /\ t.pc = tx[c].pc
        /\ Len(tx[c].made) \in Nat
        /\ Steps(tx[c]) = 1 .. Len(tx[c].made)
        /\ Steps(t) = 1 .. n
        /\ \A i \in Steps(tx[c]) : t.made[i] = tx[c].made[i]
        /\ t.made[n] = r
  BY <1>1, <1>2, <1>3, OneMoreStep DEF Born
<1>5. /\ t.pc = "undoing" /\ n \in Nat
      /\ Steps(tx[c]) = 1 .. n - 1 /\ Steps(t) = 1 .. n
      /\ \A i \in Steps(tx[c]) : t.made[i] = tx[c].made[i]
      /\ t.made[n] = r
  BY <1>1, <1>4
<1> HIDE DEF n
<1>6. Settled(tx[c])
  BY DEF EffectInv, AllSettled
<1>7. Settled(t)
  BY <1>1, <1>3, <1>5, <1>6 DEF Settled
<1>8. QED BY <1>1, <1>4, <1>5, <1>7, EffectPrivate

\* What a commit writes: new resources that refer to what was there at or below
\* their order, and stamps on what users own.
LEMMA WrittenIs ==
    ASSUME EffectInv, NEW c \in Client, tx[c].pc = "applying"
    PROVE  /\ \A r \in Made(tx[c]) :
                /\ r \in Resource /\ r \notin Born
                /\ Written(tx[c])[r].kind \in Kind
                /\ Written(tx[c])[r].order = tx[c].order
                /\ \A u \in Written(tx[c])[r].refs : u \in Born /\ attr[u].order <= tx[c].order
           /\ \A r \in Resource \ Made(tx[c]) :
                /\ Written(tx[c])[r].kind = attr[r].kind
                /\ Written(tx[c])[r].origin = attr[r].origin
                /\ Written(tx[c])[r].order = attr[r].order
                /\ Written(tx[c])[r].refs = attr[r].refs
                /\ attr[r].origin # "user" => Written(tx[c])[r] = attr[r]
           /\ \A r \in Deleted(tx[c]) : attr[r].origin = "user"
<1> DEFINE t == tx[c]
<1>1. TypeOK /\ Shape(t) /\ Settled(t)
  BY DEF EffectInv, TypeInv, TxShape, AllSettled
<1>2. ASSUME NEW i \in Steps(t), t.ops[i].type \notin CREATE_OPERATION_TYPES
      PROVE  attr[t.made[i]].origin = "user"
  BY <1>1, <1>2 DEF Settled
<1>3. ASSUME NEW r \in Made(t)
      PROVE  /\ r \in Resource /\ r \notin Born
             /\ Written(t)[r].kind \in Kind
             /\ Written(t)[r].order = t.order
             /\ \A u \in Written(t)[r].refs : u \in Born /\ attr[u].order <= t.order
  <2> DEFINE i == CHOOSE j \in Steps(t) :
                    t.made[j] = r /\ t.ops[j].type \in CREATE_OPERATION_TYPES
  <2>1. i \in Steps(t) /\ t.made[i] = r /\ t.ops[i].type \in CREATE_OPERATION_TYPES
    BY DEF Made
  <2>2. r \in Resource
    BY <1>1, WritesType
  <2>3. Written(t)[r] = [kind |-> Makes[t.ops[i].type], origin |-> "user",
              order |-> NewOrder(t), stamp |-> t.at, refs |-> t.ops[i].targets]
    BY <2>1, <2>2 DEF Written
  <2> HIDE DEF i
  <2>4. Makes[t.ops[i].type] \in Kind
    BY <2>1 DEF CREATE_OPERATION_TYPES, Makes, Kind
  <2>5. r \notin Born /\ \A u \in t.ops[i].targets : u \in Born /\ attr[u].order <= t.order
    BY <1>1, <2>1 DEF Settled
  <2>6. QED BY <2>2, <2>3, <2>4, <2>5 DEF NewOrder
<1>4. ASSUME NEW r \in Resource \ Made(t)
      PROVE  /\ Written(t)[r].kind = attr[r].kind
             /\ Written(t)[r].origin = attr[r].origin
             /\ Written(t)[r].order = attr[r].order
             /\ Written(t)[r].refs = attr[r].refs
             /\ attr[r].origin # "user" => Written(t)[r] = attr[r]
  <2>1. attr[r] \in Attr
    BY <1>1 DEF TypeOK
  <2>2. r \in Updated(t) => attr[r].origin = "user"
    BY <1>2, CreatesAreNotEdits DEF Updated
  <2>3. Written(t)[r] = IF r \in Updated(t) THEN [attr[r] EXCEPT !.stamp = t.at] ELSE attr[r]
    BY DEF Written
  <2>4. QED BY <2>1, <2>2, <2>3 DEF Attr
<1>5. ASSUME NEW r \in Deleted(t)
      PROVE  attr[r].origin = "user"
  <2>1. \A type \in Deletes : type \notin CREATE_OPERATION_TYPES
    BY CreatesAreNotEdits DEF Deletes, DIRECT_MUTATION_OPERATION_TYPES
  <2>2. QED BY <1>2, <2>1 DEF Deleted
<1>6. QED BY <1>3, <1>4, <1>5

LEMMA ApartStays ==
    ASSUME Apart, \A d \in Client : tx'[d] = tx[d] \/ tx'[d].pc = "idle"
    PROVE  Apart'
<1> SUFFICES ASSUME NEW a \in Client, NEW d \in Client, a # d,
                    tx'[a].pc = "applying", tx'[d].pc = "applying"
             PROVE  Made(tx'[a]) \cap Made(tx'[d]) = {}
  BY DEF Apart, Made, Steps
<1>1. QED BY DEF Apart

LEMMA EffectCommit ==
    ASSUME EffectInv, [Next]_vars, NEW c \in Client, ConfirmCommit(c)
    PROVE  EffectInv'
<1> DEFINE M == Made(tx[c])
<1>1. /\ tx[c].pc = "applying" /\ attr' = Written(tx[c]) /\ TypeOK
      /\ live' \subseteq live \cup M
  BY DEF ConfirmCommit, EffectInv, TypeInv
<1>2. tx'[c].pc = "idle" /\ \A d \in Client \ {c} : tx'[d] = tx[d]
  BY OthersStay DEF ConfirmCommit, EffectInv
<1>3. \A r \in M : /\ r \in Resource /\ r \notin Born
                   /\ attr'[r].kind \in Kind
                   /\ attr'[r].order = tx[c].order
                   /\ \A u \in attr'[r].refs : u \in Born /\ attr[u].order <= tx[c].order
  BY <1>1, WrittenIs
<1>4. \A r \in Resource \ M : /\ attr'[r].kind = attr[r].kind
                              /\ attr'[r].origin = attr[r].origin
                              /\ attr'[r].order = attr[r].order
                              /\ attr'[r].refs = attr[r].refs
  BY <1>1, WrittenIs
<1> HIDE DEF M
<1>5. Born' = Born \cup M
  BY <1>3, <1>4 DEF Born, Kind
<1>6. \A r \in Born : r \in Resource \ M
  BY <1>3 DEF Born
<1>7. live' \subseteq Born'
  BY <1>1, <1>5 DEF EffectInv
<1>8. RefsSettled'
  BY <1>3, <1>4, <1>5 DEF EffectInv, RefsSettled
<1>9. NotVisibleBeforeReferences'
  BY <1>3, <1>4, <1>6 DEF EffectInv, RefsSettled, NotVisibleBeforeReferences
<1>10. Apart'
  BY <1>2, ApartStays DEF EffectInv
<1>11. ASSUME NEW d \in Client \ {c}
       PROVE  Settled(tx[d])'
  <2>1. Settled(tx[d]) /\ tx'[d] = tx[d]
    BY <1>2 DEF EffectInv, AllSettled
  <2>2. CASE tx[d].pc = "applying"
    <3>1. Made(tx[d]) \cap M = {}
      BY <1>1, <2>2 DEF EffectInv, Apart, M
    <3>2. \A i \in Steps(tx[d]) :
             tx[d].ops[i].type \in CREATE_OPERATION_TYPES => tx[d].made[i] \notin M
      BY <3>1 DEF Made
    <3>3. QED BY <1>4, <1>5, <1>6, <2>1, <2>2, <3>2 DEF Settled, Steps
  <2>3. CASE tx[d].pc # "applying"
    BY <1>4, <1>5, <1>6, <2>1, <2>3 DEF Settled, Steps
  <2>4. QED BY <2>2, <2>3
<1>12. AllSettled'
  BY <1>2, <1>11 DEF AllSettled, Settled
<1>13. QED BY <1>7, <1>8, <1>9, <1>10, <1>12, TypeStep DEF EffectInv

LEMMA EffectRevertCommit ==
    ASSUME EffectInv, [Next]_vars, NEW c \in Client, RevertCommit(c)
    PROVE  EffectInv'
<1>1. live' \subseteq live /\ attr' = attr
  BY DEF RevertCommit
<1>2. tx'[c].pc = "idle" /\ \A d \in Client \ {c} : tx'[d] = tx[d]
  BY OthersStay DEF RevertCommit, EffectInv
<1>3. Born' = Born
  BY <1>1 DEF Born
<1>4. AllSettled'
  BY <1>1, <1>2, <1>3 DEF EffectInv, AllSettled, Settled, Steps
<1>5. Apart'
  BY <1>2, ApartStays DEF EffectInv
<1>6. RefsSettled' /\ NotVisibleBeforeReferences' /\ live' \subseteq Born'
  BY <1>1, <1>3 DEF EffectInv, RefsSettled, NotVisibleBeforeReferences
<1>7. QED BY <1>4, <1>5, <1>6, TypeStep DEF EffectInv

\* A stamp moves nothing the effects depend on.
LEMMA EffectOutside ==
    ASSUME EffectInv, [Next]_vars, UNCHANGED tx, live' \subseteq live,
           \A r \in Resource : /\ attr'[r].kind = attr[r].kind
                               /\ attr'[r].origin = attr[r].origin
                               /\ attr'[r].order = attr[r].order
                               /\ attr'[r].refs = attr[r].refs
    PROVE  EffectInv'
<1>1. Born' = Born
  BY DEF Born
<1>2. \A r \in Born : r \in Resource
  BY DEF Born
<1>3. AllSettled'
  BY <1>1, <1>2 DEF EffectInv, AllSettled, Settled, Steps
<1>4. Apart'
  BY ApartStays DEF EffectInv
<1>5. RefsSettled' /\ NotVisibleBeforeReferences' /\ live' \subseteq Born'
  BY <1>1, <1>2 DEF EffectInv, RefsSettled, NotVisibleBeforeReferences
<1>6. QED BY <1>3, <1>4, <1>5, TypeStep DEF EffectInv

LEMMA EffectStep ==
    ASSUME EffectInv, [Next]_vars
    PROVE  EffectInv'
<1>1. CASE UNCHANGED vars \/ Environment
  <2>1. attr \in [Resource -> Attr]
    BY DEF EffectInv, TypeInv, TypeOK
  <2>2. UNCHANGED tx /\ live' \subseteq live
    BY <1>1 DEF vars, Environment, SetProgress, DirectUpdate, DirectDelete
  <2>3. ASSUME NEW r \in Resource, DirectUpdate(r)
        PROVE  \A u \in Resource : /\ attr'[u].kind = attr[u].kind
                                   /\ attr'[u].origin = attr[u].origin
                                   /\ attr'[u].order = attr[u].order
                                   /\ attr'[u].refs = attr[u].refs
    BY <2>1, <2>3 DEF DirectUpdate, Attr
  <2>4. \A u \in Resource : /\ attr'[u].kind = attr[u].kind
                            /\ attr'[u].origin = attr[u].origin
                            /\ attr'[u].order = attr[u].order
                            /\ attr'[u].refs = attr[u].refs
    BY <1>1, <2>3 DEF vars, Environment, SetProgress, DirectDelete
  <2>5. QED BY <2>2, <2>4, EffectOutside
<1>2. ASSUME NEW c \in Client, NEW k \in ChangeSetId, Request(c, k)
      PROVE  EffectInv'
  <2>1. CASE Reject(c, k)
    BY <2>1, EffectOutside DEF Reject
  <2>2. QED BY <1>2, <2>1, EffectQuietActions DEF Request
<1>3. ASSUME NEW c \in Client, Statement(c)
      PROVE  EffectInv'
  BY <1>3, EffectQuietActions, EffectApply, EffectCommit, EffectRevertDelete,
     EffectRevertCommit DEF Statement
<1>4. QED BY <1>1, <1>2, <1>3 DEF Next

LEMMA EffectInvariant == Spec => []EffectInv
BY EffectInit, EffectStep, PTL DEF Spec

\* For any number of overlapping confirms, and progress moving under them: nothing
\* a confirm creates becomes visible before what it refers to.
THEOREM SpoilerSafeCreates == Spec => []NotVisibleBeforeReferences
BY EffectInvariant, PTL DEF EffectInv

\* One step never alters or removes what no user owns.
LEMMA StoryStep ==
    ASSUME EffectInv, [Next]_vars
    PROVE  \A r \in live : attr[r].origin # "user" => r \in live' /\ attr'[r] = attr[r]
<1> SUFFICES ASSUME NEW r \in live, attr[r].origin # "user"
             PROVE  r \in live' /\ attr'[r] = attr[r]
  OBVIOUS
<1>1. attr \in [Resource -> Attr] /\ r \in Resource /\ r \in Born
  BY DEF EffectInv, TypeInv, TypeOK, Born
<1>2. CASE UNCHANGED <<live, attr>>
  BY <1>2
<1>3. CASE Environment
  BY <1>1, <1>3 DEF Environment, SetProgress, DirectUpdate, DirectDelete
<1>4. ASSUME NEW c \in Client, ConfirmCommit(c)
      PROVE  r \in live' /\ attr'[r] = attr[r]
  <2>1. tx[c].pc = "applying" /\ attr' = Written(tx[c]) /\ live' = (live \cup Made(tx[c])) \ Deleted(tx[c])
    BY <1>4 DEF ConfirmCommit
  <2>2. r \notin Made(tx[c]) /\ r \notin Deleted(tx[c])
    BY <1>1, <2>1, WrittenIs
  <2>3. QED BY <1>1, <2>1, <2>2, WrittenIs
<1>5. ASSUME NEW c \in Client, RevertCommit(c)
      PROVE  r \in live' /\ attr'[r] = attr[r]
  <2>1. tx[c].pc = "undone" /\ Settled(tx[c]) /\ attr' = attr
    BY <1>5 DEF RevertCommit, EffectInv, AllSettled
  <2>2. \A i \in Steps(tx[c]) : attr[tx[c].made[i]].origin = "user"
    BY <2>1 DEF Settled
  <2>3. r \notin Deleted(tx[c])
    BY <2>2 DEF Deleted
  <2>4. QED BY <1>5, <2>1, <2>3 DEF RevertCommit
<1>6. QED
  BY <1>2, <1>3, <1>4, <1>5
     DEF vars, Next, Request, Statement, ProposeStart, ConfirmBegin, RevertBegin, Begin,
         Reject, ProposeValidate, ProposePersist, ConfirmRead, ConfirmCheckProgress,
         ConfirmMarkFailed, ConfirmApply, ConfirmFails, RevertRead, RevertDelete,
         RevertConflict, RevertReadProgress, Abandon, Retry

\* Neither a confirm nor a revert, nor a user's own edit, ever alters or removes
\* canonical or candidate content.
THEOREM StoryNeverTouched == Spec => StoryUntouched
<1>1. EffectInv /\ [Next]_vars =>
        [\A r \in live : attr[r].origin # "user" => r \in live' /\ attr'[r] = attr[r]]_vars
  BY StoryStep
<1>2. QED BY <1>1, EffectInvariant, PTL DEF Spec, StoryUntouched

-----------------------------------------------------------------------------
(* What the log names is what came to be.                                  *)

Names(rev) == {rev.affected[n] : n \in DOMAIN rev.affected}

TypesOf(ops) == {ops[i].type : i \in 1 .. Len(ops)}

\* Every step but the two commits leaves the log and the resources there are alone.
LEMMA Unlogged ==
    ASSUME TypeInv, [Next]_vars, \A c \in Client : ~ConfirmCommit(c) /\ ~RevertCommit(c)
    PROVE  /\ UNCHANGED revisions
           /\ \A r \in Resource : attr'[r].kind = attr[r].kind
<1>1. attr \in [Resource -> Attr]
  BY DEF TypeInv, TypeOK
<1>2. CASE UNCHANGED <<attr, revisions>>
  BY <1>2
<1>3. ASSUME NEW u \in Resource, DirectUpdate(u)
      PROVE  UNCHANGED revisions /\ \A r \in Resource : attr'[r].kind = attr[r].kind
  BY <1>1, <1>3 DEF DirectUpdate, Attr
<1> QED
  BY <1>2, <1>3
     DEF vars, Next, Environment, SetProgress, DirectDelete, Request, Statement, ProposeStart,
         ConfirmBegin, RevertBegin, Begin, Reject, ProposeValidate, ProposePersist, ConfirmRead,
         ConfirmCheckProgress, ConfirmMarkFailed, ConfirmApply, ConfirmFails, RevertRead,
         RevertDelete, RevertConflict, RevertReadProgress, Abandon, Retry

\* The revision a commit adds, which names what its transaction wrote.
LEMMA LogAdds ==
    ASSUME TypeInv, NEW c \in Client, tx[c].pc # "idle",
           NEW action \in {"Created", "Reverted"}, NEW types \in SUBSET OpType,
           LogRevision(tx[c], action, types)
    PROVE  /\ Len(revisions) + 1 \in DOMAIN revisions'
           /\ Len(revisions) + 1 \notin DOMAIN revisions
           /\ DOMAIN revisions' = DOMAIN revisions \cup {Len(revisions) + 1}
           /\ \A i \in DOMAIN revisions : revisions'[i] = revisions[i]
           /\ Names(revisions'[Len(revisions) + 1]) = Wrote(tx[c])
           /\ revisions'[Len(revisions) + 1].action = action
           /\ revisions'[Len(revisions) + 1].types = types
           /\ revisions'[Len(revisions) + 1].of = tx[c].cs
           /\ revisions'[Len(revisions) + 1].at = tx[c].at
           /\ \A k \in ChangeSetId :
                CreatedRevisions(k)' = CreatedRevisions(k) \cup
                   (IF k = tx[c].cs /\ action = "Created" THEN {Len(revisions) + 1} ELSE {})
<1>1. TypeOK /\ Shape(tx[c]) /\ tx[c].cs \in ChangeSetId /\ tx[c].made \in Seq(Resource)
  BY TxTyped DEF TypeInv, TxShape, Shape
<1>2. /\ Len(revisions) \in Nat
      /\ DOMAIN revisions = 1 .. Len(revisions)
      /\ DOMAIN revisions' = 1 .. Len(revisions) + 1
      /\ \A i \in DOMAIN revisions : revisions'[i] = revisions[i]
      /\ revisions'[Len(revisions) + 1] =
           [of |-> tx[c].cs, action |-> action, types |-> types,
            affected |-> tx[c].made, order |-> tx[c].order, at |-> tx[c].at]
  BY <1>1, LogType, Zenon
<1>3. \A k \in ChangeSetId :
        CreatedRevisions(k)' = CreatedRevisions(k) \cup
           (IF k = tx[c].cs /\ action = "Created" THEN {Len(revisions) + 1} ELSE {})
  BY <1>1, CreatedAfterLog
<1>4. Names(revisions'[Len(revisions) + 1]) = Wrote(tx[c])
  <2>1. revisions'[Len(revisions) + 1].affected = tx[c].made
    BY <1>2
  <2>2. DOMAIN tx[c].made = Steps(tx[c])
    BY <1>1 DEF Steps
  <2> QED BY <2>1, <2>2 DEF Names, Wrote
<1> QED BY <1>2, <1>3, <1>4

\* The types of a list of operations are operation types.
LEMMA TypesOfOps ==
    ASSUME NEW ops \in Seq(Operation)
    PROVE  TypesOf(ops) \in SUBSET OpType
<1>1. \A i \in 1 .. Len(ops) : ops[i] \in Operation
  OBVIOUS
<1> QED BY <1>1 DEF TypesOf, Operation

\* What a confirm that commits logs.
LEMMA CommitLogs ==
    ASSUME TypeInv, NEW c \in Client, ConfirmCommit(c)
    PROVE  /\ LogRevision(tx[c], "Created", TypesOf(tx[c].ops))
           /\ TypesOf(tx[c].ops) \in SUBSET OpType
           /\ tx[c].pc # "idle"
BY TxTyped, TypesOfOps DEF TypeInv, ConfirmCommit, TypesOf

\* Everything there is, is named, and everything named is there.
Audited ==
    /\ \A r \in Born \ DOMAIN Seed : \E k \in ChangeSetId : \E i \in CreatedRevisions(k) : r \in Names(revisions[i])
    /\ \A i \in DOMAIN revisions : Names(revisions[i]) \subseteq Born

LEMMA AuditedInit == Init => Audited
BY DEF Init, Audited, Born, Unborn

\* What a confirm or a revert is about to log has come to be, or does with the commit.
LEMMA WroteIsBorn ==
    ASSUME EffectInv, NEW c \in Client, tx[c].pc \in {"applying", "undoing", "undone"}
    PROVE  Wrote(tx[c]) \subseteq Born \cup (IF tx[c].pc = "applying" THEN Made(tx[c]) ELSE {})
<1>1. Settled(tx[c])
  BY DEF EffectInv, AllSettled
<1> QED BY <1>1 DEF Settled, Wrote, Made

LEMMA AuditedStep ==
    ASSUME EffectInv, Audited, [Next]_vars
    PROVE  Audited'
<1> USE DEF EffectInv
<1>1. CASE \A c \in Client : ~ConfirmCommit(c) /\ ~RevertCommit(c)
  <2>1. UNCHANGED revisions /\ Born' = Born
    BY <1>1, Unlogged DEF Born
  <2> QED BY <2>1 DEF Audited, CreatedRevisions
<1>2. ASSUME NEW c \in Client, ConfirmCommit(c)
      PROVE  Audited'
  <2> DEFINE n == Len(revisions) + 1
             M == Made(tx[c])
  <2>1. tx[c].pc = "applying" /\ attr' = Written(tx[c])
    BY <1>2 DEF ConfirmCommit
  <2>2. Born' = Born \cup M /\ M \subseteq Wrote(tx[c])
    BY <2>1, WrittenIs DEF Born, Kind, Made, Wrote
  <2>3. Wrote(tx[c]) \subseteq Born'
    BY <2>1, <2>2, WroteIsBorn
  <2>4. tx[c].cs \in ChangeSetId
    BY <2>1 DEF TypeInv, TxShape, Shape
  <2>5. /\ DOMAIN revisions' = DOMAIN revisions \cup {n}
        /\ \A i \in DOMAIN revisions : revisions'[i] = revisions[i]
        /\ Names(revisions'[n]) = Wrote(tx[c])
        /\ \A k \in ChangeSetId :
             CreatedRevisions(k)' = CreatedRevisions(k) \cup (IF k = tx[c].cs THEN {n} ELSE {})
    BY <1>2, CommitLogs, LogAdds
  <2>6. \A k \in ChangeSetId : CreatedRevisions(k) \subseteq DOMAIN revisions
    BY DEF CreatedRevisions
  <2> HIDE DEF n, M
  <2>7. \A i \in DOMAIN revisions' : Names(revisions'[i]) \subseteq Born'
    BY <2>2, <2>3, <2>5 DEF Audited
  <2>8. ASSUME NEW r \in Born' \ DOMAIN Seed
        PROVE  \E k \in ChangeSetId : \E i \in CreatedRevisions(k)' : r \in Names(revisions'[i])
    <3>1. CASE r \in M
      BY <2>2, <2>4, <2>5, <3>1
    <3>2. CASE r \in Born
      BY <2>5, <2>6, <3>2 DEF Audited
    <3> QED BY <2>2, <3>1, <3>2
  <2> QED BY <2>7, <2>8 DEF Audited
<1>3. ASSUME NEW c \in Client, RevertCommit(c)
      PROVE  Audited'
  <2> DEFINE n == Len(revisions) + 1
  <2>1. tx[c].pc = "undone" /\ Born' = Born
    BY <1>3 DEF RevertCommit, Born
  <2>2. CASE changeSet[tx[c].cs].status = "applied"
    <3>1. LogRevision(tx[c], "Reverted", {}) /\ {} \in SUBSET OpType
      BY <1>3, <2>2 DEF RevertCommit
    <3>2. /\ DOMAIN revisions' = DOMAIN revisions \cup {n}
          /\ \A i \in DOMAIN revisions : revisions'[i] = revisions[i]
          /\ Names(revisions'[n]) = Wrote(tx[c])
          /\ \A k \in ChangeSetId : CreatedRevisions(k)' = CreatedRevisions(k)
      BY <2>1, <3>1, LogAdds
    <3>3. Wrote(tx[c]) \subseteq Born
      BY <2>1, WroteIsBorn
    <3>4. \A k \in ChangeSetId : CreatedRevisions(k) \subseteq DOMAIN revisions
      BY DEF CreatedRevisions
    <3> HIDE DEF n
    <3> QED BY <2>1, <3>2, <3>3, <3>4 DEF Audited
  <2>3. CASE changeSet[tx[c].cs].status # "applied"
    <3>1. UNCHANGED revisions
      BY <1>3, <2>3 DEF RevertCommit
    <3> QED BY <2>1, <3>1 DEF Audited, CreatedRevisions
  <2> QED BY <2>2, <2>3
<1> QED BY <1>1, <1>2, <1>3

LEMMA AuditedInvariant == Spec => []Audited
<1>1. EffectInv /\ Audited /\ [Next]_vars => Audited'
  BY AuditedStep
<1> QED BY <1>1, AuditedInit, EffectInvariant, PTL DEF Spec

-----------------------------------------------------------------------------
(* What a revert removes.                                                  *)

Writing == {"applying", "undoing", "undone"}

\* A request that has taken its timestamp.
Active(t) == t.pc \notin {"idle", "proposing"}

\* One resource more, of those no other transaction has locked or taken; a create
\* takes one that is new to its own transaction, too.
Grows(c, t) ==
    \E r \in Resource :
        /\ t.made = Append(tx[c].made, r)
        /\ t.ops = tx[c].ops
        /\ \A d \in Client \ {c} : tx[d].pc \in Writing => r \notin Wrote(tx[d])
        /\ t.pc = "undoing" => Untouched(c, r)
        /\ t.pc = "applying" /\ NextOp(c).type \in CREATE_OPERATION_TYPES => r \notin Wrote(tx[c])

\* How a request goes on.
GoesOn(c, t) ==
    /\ t.cs = tx[c].cs
    /\ t.at = tx[c].at
    /\ \/ t.pc \in {"confirm", "revert"}
       \/ tx[c].pc = "confirm" /\ t.pc = "checking" /\ t.ops = changeSet[t.cs].ops
       \/ tx[c].pc = "checking" /\ t.pc \in {"stale", "applying"} /\ t.ops = tx[c].ops
                                                                 /\ t.made = <<>>
       \/ tx[c].pc = "applying" /\ t.pc = "applying" /\ Grows(c, t)
       \/ /\ tx[c].pc = "revert" /\ t.pc = "undoing" /\ t.made = <<>>
          /\ changeSet[t.cs].status = "applied"
          /\ revisions[changeSet[t.cs].revision].types \subseteq CREATE_OPERATION_TYPES
          /\ t.ops = [i \in 1 .. Len(revisions[changeSet[t.cs].revision].affected) |->
                        [type |-> "delete_node",
                         targets |-> {revisions[changeSet[t.cs].revision].affected[i]}]]
       \/ tx[c].pc = "undoing" /\ t.pc = "undoing" /\ Grows(c, t)
                               /\ t.made[Len(tx[c].made) + 1] \in NextOp(c).targets
       \/ tx[c].pc = "undoing" /\ t.pc = "undone" /\ t.ops = tx[c].ops /\ t.made = tx[c].made
                               /\ AllOpsDone(c)

\* What becomes of it in a step of its own: it ends, begins, or goes on; only a
\* request that ends has written anything but its own state.
Moves(c, t) ==
    \/ t.pc = "idle"
    \/ /\ UNCHANGED <<live, attr, changeSet, revisions>>
       /\ \/ t.pc = "proposing" /\ UNCHANGED clock
          \/ /\ tx[c].pc = "idle" /\ t.pc \in {"confirm", "revert"}
             /\ t.at = clock /\ clock' = clock + 1
          \/ Active(tx[c]) /\ GoesOn(c, t) /\ UNCHANGED clock

LEMMA StatementMoves ==
    ASSUME TypeInv, [Next]_vars, NEW c \in Client, Statement(c)
    PROVE  \E t : Become(c, t) /\ Moves(c, t)
<1>1. tx[c] \in Tx /\ TypeOK /\ TxShape /\ Shape(tx[c])
  BY TxTyped DEF TypeInv, TxShape
<1>2. CASE Become(c, Idle)
  BY <1>2 DEF Idle, Moves
<1>3. CASE ProposeValidate(c)
  <2>1. PICK r : Become(c, [tx[c] EXCEPT !.ops[Len(tx[c].made) + 1] = Protect(NextOp(c)),
                                         !.made = Append(@, r)])
    BY <1>3 DEF ProposeValidate
  <2>2. [tx[c] EXCEPT !.ops[Len(tx[c].made) + 1] = Protect(NextOp(c)),
                      !.made = Append(@, r)].pc = "proposing"
    BY <1>1, <1>3 DEF ProposeValidate, Tx
  <2> QED BY <1>3, <2>1, <2>2 DEF ProposeValidate, Moves
<1>4. CASE ConfirmRead(c) /\ ~Become(c, Idle)
  <2> DEFINE t == [tx[c] EXCEPT !.pc = "checking", !.ops = changeSet[tx[c].cs].ops]
  <2>1. /\ t.pc = "checking" /\ t.cs = tx[c].cs /\ t.at = tx[c].at
        /\ t.ops = changeSet[tx[c].cs].ops
    BY <1>1 DEF Tx
  <2>2. Become(c, t)
    BY <1>4 DEF ConfirmRead
  <2> HIDE DEF t
  <2> QED BY <1>4, <2>1, <2>2 DEF ConfirmRead, Moves, GoesOn, Active
<1>5. CASE ConfirmCheckProgress(c)
  <2>0. tx[c].made = <<>>
    BY <1>1, <1>5 DEF ConfirmCheckProgress, Shape
  <2>1. CASE Stale(c)
    <3> DEFINE t == [tx[c] EXCEPT !.pc = "stale"]
    <3>1. /\ t.pc = "stale" /\ t.cs = tx[c].cs /\ t.at = tx[c].at /\ t.ops = tx[c].ops
          /\ t.made = <<>>
      BY <1>1, <2>0 DEF Tx
    <3>2. Become(c, t)
      BY <1>5, <2>1 DEF ConfirmCheckProgress
    <3> HIDE DEF t
    <3> QED BY <1>5, <3>1, <3>2 DEF ConfirmCheckProgress, Moves, GoesOn, Active
  <2>2. CASE ~Stale(c)
    <3> DEFINE t == [tx[c] EXCEPT !.pc = "applying", !.order = CurrentProgress]
    <3>1. /\ t.pc = "applying" /\ t.cs = tx[c].cs /\ t.at = tx[c].at /\ t.ops = tx[c].ops
          /\ t.made = <<>>
      BY <1>1, <2>0 DEF Tx
    <3>2. Become(c, t)
      BY <1>5, <2>2 DEF ConfirmCheckProgress
    <3> HIDE DEF t
    <3> QED BY <1>5, <3>1, <3>2 DEF ConfirmCheckProgress, Moves, GoesOn, Active
  <2> QED BY <2>1, <2>2
<1>6. ASSUME NEW r \in Resource, tx[c].pc \in {"applying", "undoing"}, ~AllOpsDone(c),
             Become(c, [tx[c] EXCEPT !.made = Append(@, r)]),
             \A d \in Client \ {c} : tx[d].pc \in Writing => r \notin Wrote(tx[d]),
             tx[c].pc = "undoing" => Untouched(c, r) /\ r \in NextOp(c).targets,
             tx[c].pc = "applying" /\ NextOp(c).type \in CREATE_OPERATION_TYPES => r \notin Wrote(tx[c]),
             UNCHANGED <<live, attr, changeSet, revisions, clock>>
      PROVE  \E t : Become(c, t) /\ Moves(c, t)
  <2> DEFINE t == [tx[c] EXCEPT !.made = Append(@, r)]
  <2>1. /\ t.pc = tx[c].pc /\ t.cs = tx[c].cs /\ t.at = tx[c].at /\ t.ops = tx[c].ops
        /\ t.made = Append(tx[c].made, r)
    BY <1>1 DEF Tx
  <2>2. Become(c, t)
    BY <1>6
  <2> HIDE DEF t
  <2>3. t.made[Len(tx[c].made) + 1] = r
    BY <1>1, <2>1 DEF Tx
  <2>4. Grows(c, t)
    BY <1>6, <2>1 DEF Grows
  <2> QED BY <1>6, <2>1, <2>2, <2>3, <2>4 DEF Moves, GoesOn, Active
<1>7. CASE ConfirmApply(c)
  <2>1. NextOp(c) \in Operation
    BY <1>1, <1>7, NextOpType DEF ConfirmApply
  <2>2. PICK r \in Resource :
          /\ Become(c, [tx[c] EXCEPT !.made = Append(@, r)])
          /\ Fresh(r) \/ ~Locked(r, c)
          /\ NextOp(c).type \in CREATE_OPERATION_TYPES => Fresh(r)
    BY <1>7, <2>1 DEF ConfirmApply, Operation
  <2>3. \A d \in Client \ {c} : tx[d].pc \in Writing => r \notin Wrote(tx[d])
    BY <2>2 DEF Fresh, Locked, Holds, Writing
  <2>4. NextOp(c).type \in CREATE_OPERATION_TYPES => r \notin Wrote(tx[c])
    BY <2>2 DEF Fresh
  <2> QED BY <1>6, <1>7, <2>2, <2>3, <2>4 DEF ConfirmApply
<1>8. CASE RevertRead(c) /\ ~Become(c, Idle)
  <2> DEFINE affected == revisions[changeSet[tx[c].cs].revision].affected
             ops == [i \in 1 .. Len(affected) |->
                       [type |-> "delete_node", targets |-> {affected[i]}]]
             t == [tx[c] EXCEPT !.pc = "undoing", !.ops = ops]
  <2>1. /\ t.pc = "undoing" /\ t.cs = tx[c].cs /\ t.at = tx[c].at /\ t.ops = ops
        /\ t.made = <<>>
    BY <1>1, <1>8 DEF Tx, Shape, RevertRead
  <2>2. /\ Become(c, t) /\ tx[c].pc = "revert" /\ changeSet[tx[c].cs].status = "applied"
        /\ revisions[changeSet[tx[c].cs].revision].types \subseteq CREATE_OPERATION_TYPES
        /\ UNCHANGED <<live, attr, changeSet, revisions, clock>>
    BY <1>8 DEF RevertRead
  <2> HIDE DEF t
  <2> QED BY <2>1, <2>2 DEF Moves, GoesOn, Active
<1>9. CASE RevertDelete(c)
  <2>1. NextOp(c) \in Operation
    BY <1>1, <1>9, NextOpType DEF RevertDelete
  <2>2. PICK r \in NextOp(c).targets :
          ~Locked(r, c) /\ Untouched(c, r) /\ Become(c, [tx[c] EXCEPT !.made = Append(@, r)])
    BY <1>9 DEF RevertDelete
  <2>3. r \in Resource
    BY <2>1, <2>2 DEF Operation
  <2>4. \A d \in Client \ {c} : tx[d].pc \in Writing => r \notin Wrote(tx[d])
    BY <2>2 DEF Locked, Holds, Writing
  <2> QED BY <1>6, <1>9, <2>2, <2>3, <2>4 DEF RevertDelete
<1>10. CASE RevertReadProgress(c)
  <2>1. PICK order : Become(c, [tx[c] EXCEPT !.pc = "undone", !.order = order])
    BY <1>10 DEF RevertReadProgress
  <2> DEFINE t == [tx[c] EXCEPT !.pc = "undone", !.order = order]
  <2>2. /\ t.pc = "undone" /\ t.cs = tx[c].cs /\ t.at = tx[c].at /\ t.ops = tx[c].ops
        /\ t.made = tx[c].made
    BY <1>1 DEF Tx
  <2>3. Become(c, t)
    BY <2>1
  <2> HIDE DEF t
  <2> QED BY <1>10, <2>2, <2>3 DEF RevertReadProgress, Moves, GoesOn, Active
<1>11. CASE Retry(c)
  <2>1. PICK pc \in {"revert", "confirm"} :
          Become(c, [Idle EXCEPT !.cs = tx[c].cs, !.at = tx[c].at, !.pc = pc])
    BY <1>11 DEF Retry
  <2> DEFINE t == [Idle EXCEPT !.cs = tx[c].cs, !.at = tx[c].at, !.pc = pc]
  <2>2. t.pc = pc /\ t.cs = tx[c].cs /\ t.at = tx[c].at
    BY DEF Idle
  <2>3. Become(c, t)
    BY <2>1
  <2> HIDE DEF t
  <2> QED BY <1>11, <2>1, <2>2, <2>3 DEF Retry, Moves, GoesOn, Active
<1> QED
  BY <1>2, <1>3, <1>4, <1>5, <1>7, <1>8, <1>9, <1>10, <1>11
     DEF Statement, ProposePersist, ConfirmMarkFailed, ConfirmFails, ConfirmCommit,
         RevertConflict, RevertCommit, Abandon

LEMMA RequestMoves ==
    ASSUME TypeInv, [Next]_vars, NEW c \in Client, NEW k \in ChangeSetId, Request(c, k)
    PROVE  UNCHANGED tx \/ \E t : Become(c, t) /\ Moves(c, t)
<1>1. CASE Reject(c, k)
  BY <1>1 DEF Reject
<1>2. ASSUME NEW pc \in {"confirm", "revert"}, Begin(c, k, pc)
      PROVE  \E t : Become(c, t) /\ Moves(c, t)
  <2> DEFINE t == [Idle EXCEPT !.pc = pc, !.cs = k, !.at = clock]
  <2>1. t.pc = pc /\ t.at = clock
    BY DEF Idle
  <2>2. Become(c, t)
    BY <1>2 DEF Begin
  <2> HIDE DEF t
  <2> QED BY <1>2, <2>1, <2>2 DEF Begin, Moves
<1>3. ASSUME NEW ops \in OpLists, ProposeStart(c, k, ops)
      PROVE  \E t : Become(c, t) /\ Moves(c, t)
  <2> DEFINE t == [Idle EXCEPT !.pc = "proposing", !.cs = k, !.ops = ops,
                               !.order = CurrentProgress]
  <2>1. t.pc = "proposing"
    BY DEF Idle
  <2>2. Become(c, t)
    BY <1>3 DEF ProposeStart
  <2> HIDE DEF t
  <2> QED BY <1>3, <2>1, <2>2 DEF ProposeStart, Moves
<1> QED BY <1>1, <1>2, <1>3 DEF Request, ConfirmBegin, RevertBegin

\* A step moves at most one client.
LEMMA OneMoves ==
    ASSUME TypeInv, [Next]_vars
    PROVE  \/ UNCHANGED tx
           \/ \E c \in Client : Moves(c, tx'[c]) /\ \A d \in Client \ {c} : tx'[d] = tx[d]
<1>1. tx \in [Client -> Tx]
  BY DEF TypeInv, TypeOK
<1>2. ASSUME NEW c \in Client, NEW t, Become(c, t), Moves(c, t)
      PROVE  Moves(c, tx'[c]) /\ \A d \in Client \ {c} : tx'[d] = tx[d]
  <2>1. tx'[c] = t
    BY <1>1, <1>2 DEF Become
  <2> QED BY <1>1, <1>2, <2>1 DEF Become
<1>3. CASE UNCHANGED vars \/ Environment
  BY <1>3 DEF vars, Environment, SetProgress, DirectUpdate, DirectDelete
<1>4. ASSUME NEW c \in Client, Statement(c) \/ \E k \in ChangeSetId : Request(c, k)
      PROVE  UNCHANGED tx \/ \E t : Become(c, t) /\ Moves(c, t)
  BY <1>4, StatementMoves, RequestMoves
<1> QED BY <1>2, <1>3, <1>4 DEF Next

\* What a transaction wrote stays its own until it ends (two-phase locking).
Exclusive ==
    \A c, d \in Client :
        c # d /\ tx[c].pc \in Writing /\ tx[d].pc \in Writing
            => Wrote(tx[c]) \cap Wrote(tx[d]) = {}

\* Every request has a timestamp of its own, which nothing bears before it commits.
Timely ==
    /\ \A r \in Resource : attr[r].stamp < clock
    /\ \A i \in DOMAIN revisions : revisions[i].at < clock
    /\ \A c \in Client : Active(tx[c]) =>
          /\ tx[c].at < clock
          /\ \A d \in Client \ {c} : Active(tx[d]) => tx[c].at # tx[d].at
          /\ \A r \in Resource : attr[r].stamp # tx[c].at
          /\ \A i \in DOMAIN revisions : revisions[i].at # tx[c].at

\* So a stamp tells which revision left it.
StampsNamed ==
    \A i \in DOMAIN revisions : revisions[i].action = "Created" =>
        \A r \in Resource : attr[r].stamp = revisions[i].at => r \in Names(revisions[i])

\* Every confirm of a ChangeSet applies its operations and no others.
OpsKept ==
    /\ \A c \in Client : tx[c].pc \in {"checking", "stale", "applying"} =>
          tx[c].ops = changeSet[tx[c].cs].ops
    /\ \A k \in ChangeSetId : \A i \in CreatedRevisions(k) :
          revisions[i].types = TypesOf(changeSet[k].ops)

\* A revert in progress is of a ChangeSet of creates alone, that some confirm
\* applied; what it deletes bears the stamp of one.
Undoing(t) ==
    t.pc \in {"undoing", "undone"} =>
        /\ changeSet[t.cs].revision \in CreatedRevisions(t.cs)
        /\ revisions[changeSet[t.cs].revision].at = changeSet[t.cs].applied_at
        /\ TypesOf(changeSet[t.cs].ops) \subseteq CREATE_OPERATION_TYPES
        /\ \A r \in Wrote(t) : \E i \in CreatedRevisions(t.cs) : attr[r].stamp = revisions[i].at
AllUndoing == \A c \in Client : Undoing(tx[c])

RevertInv ==
    AuditInv /\ EffectInv /\ Exclusive /\ Timely /\ StampsNamed /\ OpsKept /\ AllUndoing

LEMMA RevertInit == Init => RevertInv
<1> SUFFICES ASSUME Init PROVE RevertInv
  OBVIOUS
<1>1. \A c \in Client : tx[c].pc = "idle"
  BY DEF Init, Idle
<1>2. revisions = <<>> /\ DOMAIN revisions = {} /\ clock = 1
  BY DEF Init
<1>3. \A r \in Resource : attr[r].stamp = 0
  BY DEF Init, Unborn
<1>4. Exclusive /\ Timely
  BY <1>1, <1>2, <1>3 DEF Exclusive, Timely, Writing, Active
<1>5. StampsNamed /\ OpsKept /\ AllUndoing
  BY <1>1, <1>2 DEF StampsNamed, OpsKept, AllUndoing, Undoing, CreatedRevisions
<1> QED BY <1>4, <1>5, AuditInit, EffectInit DEF RevertInv

LEMMA GrowsBy ==
    ASSUME TypeInv, NEW c \in Client, NEW t, Grows(c, t)
    PROVE  \E r \in Resource :
             /\ Wrote(t) = Wrote(tx[c]) \cup {r}
             /\ \A d \in Client \ {c} : tx[d].pc \in Writing => r \notin Wrote(tx[d])
             /\ t.pc = "undoing" => Untouched(c, r)
<1>1. PICK r \in Resource :
        /\ t.made = Append(tx[c].made, r)
        /\ \A d \in Client \ {c} : tx[d].pc \in Writing => r \notin Wrote(tx[d])
        /\ t.pc = "undoing" => Untouched(c, r)
  BY DEF Grows
<1>2. tx[c].made \in Seq(Resource)
  BY TxTyped DEF TypeInv
<1>3. Wrote(t) = Wrote(tx[c]) \cup {r}
  BY <1>1, <1>2 DEF Wrote, Steps
<1> QED BY <1>1, <1>3

\* Nothing is written before the first statement that writes.
LEMMA WroteNothing == ASSUME NEW t, t.made = <<>> PROVE Wrote(t) = {}
BY DEF Wrote, Steps

LEMMA ExclusiveStep ==
    ASSUME TypeInv, Exclusive, [Next]_vars
    PROVE  Exclusive'
<1>1. CASE UNCHANGED tx
  BY <1>1 DEF Exclusive
<1>2. ASSUME NEW c \in Client, Moves(c, tx'[c]), \A d \in Client \ {c} : tx'[d] = tx[d]
      PROVE  Exclusive'
  <2>1. ASSUME NEW d \in Client \ {c}, tx'[c].pc \in Writing, tx[d].pc \in Writing
        PROVE  Wrote(tx'[c]) \cap Wrote(tx[d]) = {}
    <3>1. GoesOn(c, tx'[c])
      BY <1>2, <2>1 DEF Moves, Writing
    <3>2. CASE tx'[c].made = <<>>
      BY <3>2, WroteNothing
    <3>3. CASE tx[c].pc \in Writing /\ Grows(c, tx'[c])
      BY <2>1, <3>3, GrowsBy DEF Exclusive
    <3>4. CASE tx[c].pc \in Writing /\ tx'[c].made = tx[c].made
      <4>1. Wrote(tx'[c]) = Wrote(tx[c])
        BY <3>4 DEF Wrote, Steps
      <4> QED BY <2>1, <3>4, <4>1 DEF Exclusive
    <3> QED BY <2>1, <3>1, <3>2, <3>3, <3>4 DEF GoesOn, Writing
  <2> QED BY <1>2, <2>1 DEF Exclusive
<1> QED BY <1>1, <1>2, OneMoves

\* A commit stamps some of what it wrote, and nothing else.
LEMMA WrittenStamps ==
    ASSUME TypeInv, NEW c \in Client, NEW r \in Resource
    PROVE  \/ r \in Made(tx[c]) \cup Updated(tx[c]) /\ r \in Wrote(tx[c])
                                                    /\ Written(tx[c])[r].stamp = tx[c].at
           \/ Written(tx[c])[r].stamp = attr[r].stamp
<1>1. attr[r] \in Attr /\ Made(tx[c]) \cup Updated(tx[c]) \subseteq Wrote(tx[c])
  BY DEF TypeInv, TypeOK, Made, Updated, Wrote
<1>2. CASE r \in Made(tx[c])
  BY <1>1, <1>2 DEF Written
<1>3. CASE r \notin Made(tx[c]) /\ r \in Updated(tx[c])
  <2>1. Written(tx[c])[r] = [attr[r] EXCEPT !.stamp = tx[c].at]
    BY <1>3 DEF Written
  <2> QED BY <1>1, <1>3, <2>1 DEF Attr
<1>4. CASE r \notin Made(tx[c]) \cup Updated(tx[c])
  BY <1>4 DEF Written
<1> QED BY <1>2, <1>3, <1>4

\* What the steps that write do to stamps and to the log.
Stamps ==
    \/ UNCHANGED <<attr, revisions>>
    \/ \E c \in Client : \E action \in {"Created", "Reverted"}, types \in SUBSET OpType :
          /\ Active(tx[c]) /\ tx'[c].pc = "idle" /\ UNCHANGED clock
          /\ \A d \in Client \ {c} : tx'[d] = tx[d]
          /\ LogRevision(tx[c], action, types)
          /\ \A r \in Resource : \/ r \in Wrote(tx[c]) /\ attr'[r].stamp = tx[c].at
                                 \/ attr'[r].stamp = attr[r].stamp
    \/ /\ UNCHANGED <<revisions, tx>> /\ clock' = clock + 1
       /\ \A r \in Resource : attr'[r].stamp = clock \/ attr'[r].stamp = attr[r].stamp

LEMMA StampsStep ==
    ASSUME TypeInv, [Next]_vars
    PROVE  Stamps
<1>1. CASE UNCHANGED <<attr, revisions>>
  BY <1>1 DEF Stamps
<1>2. ASSUME NEW c \in Client, ConfirmCommit(c)
      PROVE  Stamps
  <2>1. /\ Active(tx[c]) /\ UNCHANGED clock /\ tx'[c].pc = "idle"
        /\ \A d \in Client \ {c} : tx'[d] = tx[d]
    BY <1>2, OthersStay DEF ConfirmCommit, Active
  <2>2. LogRevision(tx[c], "Created", TypesOf(tx[c].ops)) /\ TypesOf(tx[c].ops) \in SUBSET OpType
    BY <1>2, CommitLogs
  <2>3. \A r \in Resource : \/ r \in Wrote(tx[c]) /\ attr'[r].stamp = tx[c].at
                            \/ attr'[r].stamp = attr[r].stamp
    BY <1>2, WrittenStamps DEF ConfirmCommit
  <2> QED BY <2>1, <2>2, <2>3 DEF Stamps
<1>3. ASSUME NEW c \in Client, RevertCommit(c), ~UNCHANGED <<attr, revisions>>
      PROVE  Stamps
  <2>1. /\ Active(tx[c]) /\ UNCHANGED <<attr, clock>> /\ tx'[c].pc = "idle"
        /\ \A d \in Client \ {c} : tx'[d] = tx[d]
    BY <1>3, OthersStay DEF RevertCommit, Active
  <2>2. LogRevision(tx[c], "Reverted", {}) /\ {} \in SUBSET OpType
    BY <1>3 DEF RevertCommit
  <2> QED BY <2>1, <2>2 DEF Stamps
<1>4. ASSUME NEW u \in Resource, DirectUpdate(u)
      PROVE  Stamps
  <2>1. attr \in [Resource -> Attr] /\ UNCHANGED <<revisions, tx>> /\ clock' = clock + 1
    BY <1>4 DEF TypeInv, TypeOK, DirectUpdate
  <2>2. \A r \in Resource : attr'[r].stamp = clock \/ attr'[r].stamp = attr[r].stamp
    BY <1>4, <2>1 DEF DirectUpdate, Attr
  <2> QED BY <2>1, <2>2 DEF Stamps
<1> QED
  BY <1>1, <1>2, <1>3, <1>4
     DEF vars, Next, Environment, SetProgress, DirectDelete, Request, Statement, ProposeStart,
         ConfirmBegin, RevertBegin, Begin, Reject, ProposeValidate, ProposePersist, ConfirmRead,
         ConfirmCheckProgress, ConfirmMarkFailed, ConfirmApply, ConfirmFails, RevertRead,
         RevertDelete, RevertConflict, RevertReadProgress, Abandon, Retry

LEMMA ClockStep ==
    ASSUME TypeInv, [Next]_vars
    PROVE  clock \in Nat /\ clock' \in {clock, clock + 1}
BY DEF TypeInv, TypeOK, vars, Next, Environment, SetProgress, DirectUpdate, DirectDelete,
       Request, Statement, ProposeStart, ConfirmBegin, RevertBegin, Begin, Reject,
       ProposeValidate, ProposePersist, ConfirmRead, ConfirmCheckProgress, ConfirmMarkFailed,
       ConfirmApply, ConfirmFails, ConfirmCommit, RevertRead, RevertDelete, RevertConflict,
       RevertReadProgress, RevertCommit, Abandon, Retry

\* Times are numbers.
LEMMA TimesType ==
    ASSUME TypeInv
    PROVE  /\ \A r \in Resource : attr[r].stamp \in Nat
           /\ \A i \in DOMAIN revisions : revisions[i].at \in Nat
           /\ \A c \in Client : tx[c].at \in Nat
<1>1. \A i \in DOMAIN revisions : revisions[i] \in Revision
  BY DEF TypeInv, TypeOK
<1> QED BY <1>1 DEF TypeInv, TypeOK, Attr, Revision, Tx

LEMMA TimelyStep ==
    ASSUME TypeInv, Timely, [Next]_vars
    PROVE  Timely'
<1> DEFINE Own(c) ==
        /\ tx'[c].at < clock'
        /\ \A r \in Resource : attr'[r].stamp # tx'[c].at
        /\ \A i \in DOMAIN revisions' : revisions'[i].at # tx'[c].at
<1>0. /\ clock \in Nat /\ clock' \in {clock, clock + 1}
      /\ \A r \in Resource : attr[r].stamp \in Nat
      /\ \A i \in DOMAIN revisions : revisions[i].at \in Nat
      /\ \A c \in Client : tx[c].at \in Nat
  BY ClockStep, TimesType
<1>1. CASE UNCHANGED <<attr, revisions>>
  <2>1. /\ \A r \in Resource : attr'[r].stamp < clock'
        /\ \A i \in DOMAIN revisions' : revisions'[i].at < clock'
    BY <1>0, <1>1 DEF Timely
  <2>2. CASE UNCHANGED tx
    BY <1>0, <1>1, <2>1, <2>2 DEF Timely
  <2>3. ASSUME NEW c \in Client, Moves(c, tx'[c]), \A d \in Client \ {c} : tx'[d] = tx[d]
        PROVE  Timely'
    <3>1. ASSUME Active(tx'[c])
          PROVE  Own(c) /\ \A d \in Client \ {c} : Active(tx[d]) => tx'[c].at # tx[d].at
      <4>1. CASE tx'[c].at = clock /\ clock' = clock + 1
        BY <1>0, <1>1, <4>1 DEF Timely
      <4>2. CASE Active(tx[c]) /\ tx'[c].at = tx[c].at
        BY <1>0, <1>1, <4>2 DEF Timely
      <4> QED BY <2>3, <3>1, <4>1, <4>2 DEF Moves, GoesOn, Active
    <3>2. ASSUME NEW d \in Client \ {c}, Active(tx[d])
          PROVE  /\ tx'[d] = tx[d] /\ Own(d)
                 /\ \A e \in Client \ {c, d} : Active(tx[e]) => tx[d].at # tx[e].at
      BY <1>0, <1>1, <2>3, <3>2 DEF Timely
    <3> QED BY <2>1, <2>3, <3>1, <3>2 DEF Timely
  <2> QED BY <2>2, <2>3, OneMoves
<1>2. ASSUME NEW c \in Client, NEW action \in {"Created", "Reverted"}, NEW types \in SUBSET OpType,
             Active(tx[c]), tx'[c].pc = "idle", UNCHANGED clock,
             \A d \in Client \ {c} : tx'[d] = tx[d],
             LogRevision(tx[c], action, types),
             \A r \in Resource : \/ r \in Wrote(tx[c]) /\ attr'[r].stamp = tx[c].at
                                 \/ attr'[r].stamp = attr[r].stamp
      PROVE  Timely'
  <2>1. \A i \in DOMAIN revisions' : \/ revisions'[i].at = tx[c].at
                                     \/ i \in DOMAIN revisions /\ revisions'[i] = revisions[i]
    <3> DEFINE n == Len(revisions) + 1
    <3>1. /\ DOMAIN revisions' = DOMAIN revisions \cup {n}
          /\ \A i \in DOMAIN revisions : revisions'[i] = revisions[i]
          /\ revisions'[n].at = tx[c].at
      BY <1>2, LogAdds DEF Active
    <3> QED BY <3>1
  <2>2. /\ \A r \in Resource : attr'[r].stamp < clock'
        /\ \A i \in DOMAIN revisions' : revisions'[i].at < clock'
    BY <1>2, <2>1 DEF Timely
  <2>3. ASSUME NEW d \in Client \ {c}, Active(tx[d])
        PROVE  Own(d)
    BY <1>2, <2>1, <2>3 DEF Timely
  <2>4. ~Active(tx'[c])
    BY <1>2 DEF Active
  <2> QED BY <1>2, <2>2, <2>3, <2>4 DEF Timely
<1>3. ASSUME UNCHANGED <<revisions, tx>>, clock' = clock + 1,
             \A r \in Resource : attr'[r].stamp = clock \/ attr'[r].stamp = attr[r].stamp
      PROVE  Timely'
  BY <1>0, <1>3 DEF Timely
<1> QED BY <1>1, <1>2, <1>3, StampsStep DEF Stamps

LEMMA StampsNamedStep ==
    ASSUME TypeInv, Timely, StampsNamed, [Next]_vars
    PROVE  StampsNamed'
<1>0. /\ clock \in Nat
      /\ \A r \in Resource : attr[r].stamp \in Nat
      /\ \A i \in DOMAIN revisions : revisions[i].at \in Nat
  BY ClockStep, TimesType
<1>1. CASE UNCHANGED <<attr, revisions>>
  BY <1>1 DEF StampsNamed
<1>2. ASSUME NEW c \in Client, NEW action \in {"Created", "Reverted"}, NEW types \in SUBSET OpType,
             Active(tx[c]), LogRevision(tx[c], action, types),
             \A r \in Resource : \/ r \in Wrote(tx[c]) /\ attr'[r].stamp = tx[c].at
                                 \/ attr'[r].stamp = attr[r].stamp
      PROVE  StampsNamed'
  <2>1. \A i \in DOMAIN revisions' :
          \/ revisions'[i].at = tx[c].at /\ Names(revisions'[i]) = Wrote(tx[c])
          \/ i \in DOMAIN revisions /\ revisions'[i] = revisions[i]
    BY <1>2, LogAdds DEF Active
  <2> QED BY <1>2, <2>1 DEF Timely, StampsNamed
<1>3. ASSUME UNCHANGED <<revisions, tx>>,
             \A r \in Resource : attr'[r].stamp = clock \/ attr'[r].stamp = attr[r].stamp
      PROVE  StampsNamed'
  BY <1>0, <1>3 DEF Timely, StampsNamed
<1> QED BY <1>1, <1>2, <1>3, StampsStep DEF Stamps

\* A revision once logged stays as it is.
LEMMA LogStays ==
    ASSUME TypeInv, [Next]_vars
    PROVE  /\ \A i \in DOMAIN revisions : i \in DOMAIN revisions' /\ revisions'[i] = revisions[i]
           /\ \A k \in ChangeSetId : CreatedRevisions(k) \subseteq CreatedRevisions(k)'
<1>1. CASE UNCHANGED revisions
  BY <1>1 DEF CreatedRevisions
<1>2. ASSUME NEW c \in Client, NEW action \in {"Created", "Reverted"}, NEW types \in SUBSET OpType,
             Active(tx[c]), LogRevision(tx[c], action, types)
      PROVE  /\ \A i \in DOMAIN revisions : i \in DOMAIN revisions' /\ revisions'[i] = revisions[i]
             /\ \A k \in ChangeSetId : CreatedRevisions(k) \subseteq CreatedRevisions(k)'
  <2> DEFINE n == Len(revisions) + 1
  <2>1. /\ DOMAIN revisions' = DOMAIN revisions \cup {n}
        /\ \A i \in DOMAIN revisions : revisions'[i] = revisions[i]
        /\ \A k \in ChangeSetId : CreatedRevisions(k)' = CreatedRevisions(k) \cup
             (IF k = tx[c].cs /\ action = "Created" THEN {n} ELSE {})
    BY <1>2, LogAdds DEF Active
  <2> QED BY <2>1
<1> QED BY <1>1, <1>2, StampsStep DEF Stamps

\* The operations and the link of a ChangeSet that was proposed; only a confirm
\* that commits moves the link, to the revision it logs.
LEMMA LinksStay ==
    ASSUME AuditInv, [Next]_vars, NEW k \in ChangeSetId, changeSet[k].status # "absent"
    PROVE  /\ changeSet'[k].ops = changeSet[k].ops
           /\ \/ /\ changeSet'[k].revision = changeSet[k].revision
                 /\ changeSet'[k].applied_at = changeSet[k].applied_at
              \/ \E c \in Client :
                   /\ ConfirmCommit(c) /\ tx[c].cs = k
                   /\ changeSet'[k].revision = Len(revisions) + 1
                   /\ changeSet'[k].applied_at = tx[c].at
<1>0. changeSet \in [ChangeSetId -> ChangeSetType] /\ changeSet[k] \in ChangeSetType
  BY DEF AuditInv, TypeInv, TypeOK
<1>1. CASE UNCHANGED changeSet
  BY <1>1
<1>2. ASSUME NEW c \in Client, ProposePersist(c)
      PROVE  changeSet'[k] = changeSet[k]
  <2>1. tx[c].cs # k
    BY <1>2 DEF ProposePersist, AuditInv, ProposalAlone
  <2> QED BY <1>0, <1>2, <2>1 DEF ProposePersist
<1>3. ASSUME NEW j, NEW status, changeSet' = [changeSet EXCEPT ![j].status = status]
      PROVE  /\ changeSet'[k].ops = changeSet[k].ops
             /\ changeSet'[k].revision = changeSet[k].revision
             /\ changeSet'[k].applied_at = changeSet[k].applied_at
  BY <1>0, <1>3 DEF ChangeSetType
<1>4. ASSUME NEW c \in Client, ConfirmCommit(c)
      PROVE  /\ changeSet'[k].ops = changeSet[k].ops
             /\ \/ /\ changeSet'[k].revision = changeSet[k].revision
                   /\ changeSet'[k].applied_at = changeSet[k].applied_at
                \/ /\ tx[c].cs = k
                   /\ changeSet'[k].revision = Len(revisions) + 1
                   /\ changeSet'[k].applied_at = tx[c].at
  <2> DEFINE n == Len(revisions) + 1
  <2>1. changeSet' = [changeSet EXCEPT ![tx[c].cs].status = "applied",
                                       ![tx[c].cs].applied_at = tx[c].at,
                                       ![tx[c].cs].revision = n]
    BY <1>4 DEF ConfirmCommit
  <2> HIDE DEF n
  <2>2. /\ changeSet'[k].ops = changeSet[k].ops
        /\ \/ changeSet'[k] = changeSet[k]
           \/ /\ tx[c].cs = k /\ changeSet'[k].revision = n
              /\ changeSet'[k].applied_at = tx[c].at
    BY <1>0, <2>1 DEF ChangeSetType
  <2> QED BY <2>2 DEF n
<1>5. ASSUME NEW c \in Client, RevertCommit(c), ~UNCHANGED changeSet
      PROVE  /\ changeSet'[k].ops = changeSet[k].ops
             /\ changeSet'[k].revision = changeSet[k].revision
             /\ changeSet'[k].applied_at = changeSet[k].applied_at
  <2> DEFINE n == Len(revisions) + 1
  <2>1. changeSet' = [changeSet EXCEPT ![tx[c].cs].status = "reverted",
                                       ![tx[c].cs].revert_revision = n]
    BY <1>5 DEF RevertCommit
  <2> HIDE DEF n
  <2> QED BY <1>0, <2>1 DEF ChangeSetType
<1>6. \/ UNCHANGED changeSet
      \/ \E c \in Client : ProposePersist(c) \/ ConfirmCommit(c) \/ RevertCommit(c)
      \/ \E j, status : changeSet' = [changeSet EXCEPT ![j].status = status]
  BY DEF vars, Next, Environment, SetProgress, DirectUpdate, DirectDelete, Request, Statement,
         ProposeStart, ConfirmBegin, RevertBegin, Begin, Reject, ProposeValidate, ConfirmRead,
         ConfirmCheckProgress, ConfirmMarkFailed, ConfirmApply, ConfirmFails, RevertRead,
         RevertDelete, RevertConflict, RevertReadProgress, Abandon, Retry
<1> QED BY <1>1, <1>2, <1>3, <1>4, <1>5, <1>6

LEMMA OpsKeptStep ==
    ASSUME AuditInv, OpsKept, [Next]_vars
    PROVE  OpsKept'
<1> USE DEF AuditInv
<1>1. ASSUME NEW c \in Client, Active(tx[c])
      PROVE  /\ tx[c].cs \in ChangeSetId /\ changeSet[tx[c].cs].status # "absent"
             /\ changeSet'[tx[c].cs].ops = changeSet[tx[c].cs].ops
  <2>1. tx[c].cs \in ChangeSetId /\ changeSet[tx[c].cs].status # "absent"
    BY <1>1 DEF TypeInv, TxShape, Shape, AllKnown, Known, Active
  <2> QED BY <2>1, LinksStay
<1>2. ASSUME NEW c \in Client, tx'[c].pc \in {"checking", "stale", "applying"}
      PROVE  tx'[c].ops = changeSet'[tx'[c].cs].ops
  <2>1. CASE tx'[c] = tx[c]
    BY <1>1, <1>2, <2>1 DEF OpsKept, Active
  <2>2. CASE Moves(c, tx'[c])
    <3>1. Active(tx[c]) /\ GoesOn(c, tx'[c]) /\ UNCHANGED changeSet
      BY <1>2, <2>2 DEF Moves
    <3> QED BY <1>1, <1>2, <3>1 DEF GoesOn, Grows, OpsKept
  <2> QED BY <2>1, <2>2, OneMoves
<1>3. ASSUME NEW k \in ChangeSetId, NEW i \in CreatedRevisions(k)'
      PROVE  revisions'[i].types = TypesOf(changeSet'[k].ops)
  <2>1. CASE i \in CreatedRevisions(k)
    <3>1. changeSet[k].status # "absent"
      BY <2>1 DEF UndecidedHasNoEffect
    <3>2. changeSet'[k].ops = changeSet[k].ops
      BY <3>1, LinksStay
    <3>3. revisions'[i] = revisions[i]
      BY <2>1, LogStays DEF CreatedRevisions
    <3> QED BY <2>1, <3>2, <3>3 DEF OpsKept
  <2>2. CASE i \notin CreatedRevisions(k)
    <3>1. PICK c \in Client : ConfirmCommit(c) \/ RevertCommit(c)
      BY <2>2, Unlogged DEF CreatedRevisions
    <3>2. CASE ConfirmCommit(c)
      <4> DEFINE n == Len(revisions) + 1
      <4>1. tx[c].pc = "applying" /\ Active(tx[c])
        BY <3>2 DEF ConfirmCommit, Active
      <4>2. /\ CreatedRevisions(k)' = CreatedRevisions(k) \cup (IF k = tx[c].cs THEN {n} ELSE {})
            /\ revisions'[n].types = TypesOf(tx[c].ops)
        BY <3>2, CommitLogs, LogAdds
      <4> HIDE DEF n
      <4>3. k = tx[c].cs /\ i = n
        BY <2>2, <4>2
      <4> QED BY <1>1, <4>1, <4>2, <4>3 DEF OpsKept
    <3>3. CASE RevertCommit(c)
      <4>1. CASE changeSet[tx[c].cs].status = "applied"
        <5>1. LogRevision(tx[c], "Reverted", {}) /\ {} \in SUBSET OpType /\ tx[c].pc # "idle"
          BY <3>3, <4>1 DEF RevertCommit
        <5>2. CreatedRevisions(k)' = CreatedRevisions(k)
          BY <5>1, LogAdds
        <5> QED BY <2>2, <5>2
      <4>2. CASE changeSet[tx[c].cs].status # "applied"
        BY <2>2, <3>3, <4>2 DEF RevertCommit, CreatedRevisions
      <4> QED BY <4>1, <4>2
    <3> QED BY <3>1, <3>2, <3>3
  <2> QED BY <2>1, <2>2
<1> QED BY <1>2, <1>3 DEF OpsKept, CreatedRevisions

\* Nothing stamps what a revert in progress has deleted.
LEMMA DeletedUnstamped ==
    ASSUME RevertInv, [Next]_vars, NEW c \in Client, tx[c].pc \in {"undoing", "undone"},
           ~RevertCommit(c), NEW r \in Wrote(tx[c])
    PROVE  attr'[r].stamp = attr[r].stamp
<1>0. r \in Resource /\ TypeInv
  <2>1. tx[c].made \in Seq(Resource) /\ TypeInv
    BY TxTyped DEF RevertInv, AuditInv, TypeInv
  <2> QED BY <2>1 DEF Wrote, Steps
<1>1. CASE UNCHANGED attr
  BY <1>1
<1>2. ASSUME NEW d \in Client, ConfirmCommit(d)
      PROVE  attr'[r].stamp = attr[r].stamp
  <2>1. tx[d].pc = "applying" /\ attr' = Written(tx[d])
    BY <1>2 DEF ConfirmCommit
  <2>2. r \notin Wrote(tx[d])
    BY <2>1 DEF RevertInv, Exclusive, Writing
  <2> QED BY <1>0, <2>1, <2>2, WrittenStamps
<1>3. ASSUME NEW u \in Resource, DirectUpdate(u)
      PROVE  attr'[r].stamp = attr[r].stamp
  <2>1. r # u
    BY <1>3 DEF DirectUpdate, Holds
  <2> QED BY <1>0, <1>3, <2>1 DEF DirectUpdate, TypeInv, TypeOK
<1> QED
  BY <1>1, <1>2, <1>3
     DEF vars, Next, Environment, SetProgress, DirectDelete, Request, Statement, ProposeStart,
         ConfirmBegin, RevertBegin, Begin, Reject, ProposeValidate, ProposePersist, ConfirmRead,
         ConfirmCheckProgress, ConfirmMarkFailed, ConfirmApply, ConfirmFails, RevertRead,
         RevertDelete, RevertConflict, RevertReadProgress, RevertCommit, Abandon, Retry

\* What others do under a revert in progress.
LEMMA StillUndoing ==
    ASSUME RevertInv, [Next]_vars, NEW c \in Client, tx'[c] = tx[c],
           tx[c].pc \in {"undoing", "undone"}
    PROVE  Undoing(tx[c])'
<1> DEFINE k == tx[c].cs
<1>1. /\ k \in ChangeSetId /\ changeSet[k].status # "absent" /\ Undoing(tx[c])
      /\ TypeInv /\ AuditInv
  BY DEF RevertInv, AuditInv, TypeInv, TxShape, Shape, AllKnown, Known, AllUndoing
<1>2. ~RevertCommit(c)
  BY OthersStay, <1>1 DEF RevertCommit
<1>3. /\ changeSet'[k].ops = changeSet[k].ops
      /\ \/ /\ changeSet'[k].revision = changeSet[k].revision
            /\ changeSet'[k].applied_at = changeSet[k].applied_at
         \/ \E d \in Client :
              /\ ConfirmCommit(d) /\ tx[d].cs = k
              /\ changeSet'[k].revision = Len(revisions) + 1
              /\ changeSet'[k].applied_at = tx[d].at
  BY <1>1, LinksStay
<1>4. /\ CreatedRevisions(k) \subseteq CreatedRevisions(k)'
      /\ \A i \in CreatedRevisions(k) : revisions'[i] = revisions[i]
  BY <1>1, LogStays DEF CreatedRevisions
<1>5. /\ changeSet'[k].revision \in CreatedRevisions(k)'
      /\ revisions'[changeSet'[k].revision].at = changeSet'[k].applied_at
  <2>1. CASE /\ changeSet'[k].revision = changeSet[k].revision
             /\ changeSet'[k].applied_at = changeSet[k].applied_at
    BY <1>1, <1>4, <2>1 DEF Undoing
  <2>2. ASSUME NEW d \in Client, ConfirmCommit(d), tx[d].cs = k,
               changeSet'[k].revision = Len(revisions) + 1,
               changeSet'[k].applied_at = tx[d].at
        PROVE  /\ changeSet'[k].revision \in CreatedRevisions(k)'
               /\ revisions'[changeSet'[k].revision].at = changeSet'[k].applied_at
    <3> DEFINE n == Len(revisions) + 1
    <3>1. /\ CreatedRevisions(k)' = CreatedRevisions(k) \cup {n}
          /\ revisions'[n].at = tx[d].at
      BY <1>1, <2>2, CommitLogs, LogAdds
    <3> HIDE DEF n
    <3>2. changeSet'[k].revision = n
      BY <2>2 DEF n
    <3> QED BY <2>2, <3>1, <3>2
  <2> QED BY <1>3, <2>1, <2>2
<1>6. TypesOf(changeSet'[k].ops) \subseteq CREATE_OPERATION_TYPES
  BY <1>1, <1>3 DEF Undoing
<1>7. \A r \in Wrote(tx[c]) : \E i \in CreatedRevisions(k)' : attr'[r].stamp = revisions'[i].at
  BY <1>1, <1>2, <1>4, DeletedUnstamped DEF Undoing
<1> QED BY <1>5, <1>6, <1>7 DEF Undoing, CreatedRevisions

LEMMA UndoingStep ==
    ASSUME RevertInv, [Next]_vars
    PROVE  AllUndoing'
<1>0. TypeInv /\ AuditInv /\ OpsKept /\ AllUndoing
  BY DEF RevertInv, AuditInv
<1> SUFFICES ASSUME NEW c \in Client, tx'[c].pc \in {"undoing", "undone"}
             PROVE  Undoing(tx[c])'
  BY DEF AllUndoing, Undoing
<1>1. CASE tx'[c] = tx[c]
  BY <1>1, StillUndoing
<1>2. CASE Moves(c, tx'[c])
  <2>0. PICK t : t = tx'[c]
    OBVIOUS
  <2>1. /\ GoesOn(c, t) /\ Active(tx[c]) /\ t.cs = tx[c].cs
        /\ UNCHANGED <<attr, changeSet, revisions>>
    BY <1>2, <2>0 DEF Moves, GoesOn
  <2>2. t.cs \in ChangeSetId
    BY <1>0, <2>1 DEF TypeInv, TxShape, Shape, Active
  <2>3. SUFFICES Undoing(t)
    BY <2>0, <2>1 DEF Undoing, CreatedRevisions, Wrote, Steps
  <2>4. Undoing(tx[c])
    BY <1>0 DEF AllUndoing
  <2>5. CASE tx[c].pc = "revert"
    <3>1. /\ changeSet[t.cs].status = "applied" /\ t.made = <<>>
          /\ revisions[changeSet[t.cs].revision].types \subseteq CREATE_OPERATION_TYPES
      <4>1. t.pc = "undoing"
        BY <2>0, <2>1, <2>5 DEF GoesOn
      <4> QED BY <2>1, <2>5, <4>1 DEF GoesOn
    <3>2. /\ changeSet[t.cs].revision \in CreatedRevisions(t.cs)
          /\ revisions[changeSet[t.cs].revision].at = changeSet[t.cs].applied_at
      BY <1>0, <2>2, <3>1 DEF AuditInv, AuditLinks
    <3>3. TypesOf(changeSet[t.cs].ops) \subseteq CREATE_OPERATION_TYPES
      BY <1>0, <2>2, <3>1, <3>2 DEF OpsKept
    <3>4. Wrote(t) = {}
      BY <3>1, WroteNothing
    <3> QED BY <3>2, <3>3, <3>4 DEF Undoing
  <2>6. CASE tx[c].pc = "undoing" /\ t.pc = "undone"
    <3>1. t.made = tx[c].made
      BY <2>1, <2>6 DEF GoesOn
    <3>2. Wrote(t) = Wrote(tx[c])
      BY <3>1 DEF Wrote, Steps
    <3> QED BY <2>1, <2>4, <2>6, <3>2 DEF Undoing
  <2>7. CASE tx[c].pc = "undoing" /\ t.pc = "undoing"
    <3>1. Grows(c, t)
      BY <2>1, <2>7 DEF GoesOn
    <3>2. PICK r \in Resource : Wrote(t) = Wrote(tx[c]) \cup {r} /\ Untouched(c, r)
      BY <1>0, <2>7, <3>1, GrowsBy
    <3>3. attr[r].stamp = changeSet[t.cs].applied_at
      BY <2>1, <3>2 DEF Untouched
    <3> QED BY <2>1, <2>4, <2>7, <3>2, <3>3 DEF Undoing
  <2> QED BY <2>0, <2>1, <2>5, <2>6, <2>7 DEF GoesOn
<1> QED BY <1>0, <1>1, <1>2, OneMoves

LEMMA RevertStep ==
    ASSUME RevertInv, [Next]_vars
    PROVE  RevertInv'
<1>1. TypeInv /\ AuditInv /\ EffectInv /\ Exclusive /\ Timely /\ StampsNamed /\ OpsKept
  BY DEF RevertInv, AuditInv
<1> QED
  BY <1>1, AuditStep, EffectStep, ExclusiveStep, TimelyStep, StampsNamedStep, OpsKeptStep,
     UndoingStep DEF RevertInv

LEMMA RevertInvariant == Spec => []RevertInv
BY RevertInit, RevertStep, PTL DEF Spec

-----------------------------------------------------------------------------
(* What was created was created once.                                      *)

\* The creates of a transaction took different ids.
OwnApart ==
    \A c \in Client : tx[c].pc = "applying" =>
        \A i, j \in Steps(tx[c]) :
            /\ tx[c].ops[i].type \in CREATE_OPERATION_TYPES
            /\ tx[c].ops[j].type \in CREATE_OPERATION_TYPES
            /\ tx[c].made[i] = tx[c].made[j]
            => i = j

SeedBorn == DOMAIN Seed \subseteq Born

OnceInv == RevertInv /\ Audited /\ OwnApart /\ SeedBorn /\ EffectsAreAudited

LEMMA OnceInit == Init => OnceInv
<1> SUFFICES ASSUME Init PROVE OnceInv
  OBVIOUS
<1>1. OwnApart /\ SeedBorn
  BY ChangeSetAssumption DEF Init, Idle, OwnApart, SeedBorn, Born, Kind
<1>2. EffectsAreAudited
  BY DEF Init, EffectsAreAudited, Unborn
<1> QED BY <1>1, <1>2, RevertInit, AuditedInit DEF OnceInv

LEMMA OwnApartStep ==
    ASSUME TypeInv, OwnApart, [Next]_vars
    PROVE  OwnApart'
<1> SUFFICES ASSUME NEW c \in Client, tx'[c].pc = "applying",
                    NEW i \in Steps(tx'[c]), NEW j \in Steps(tx'[c]),
                    tx'[c].ops[i].type \in CREATE_OPERATION_TYPES,
                    tx'[c].ops[j].type \in CREATE_OPERATION_TYPES,
                    tx'[c].made[i] = tx'[c].made[j]
             PROVE  i = j
  BY DEF OwnApart, Steps
<1>1. CASE tx'[c] = tx[c]
  BY <1>1 DEF OwnApart
<1>2. CASE Moves(c, tx'[c])
  <2>1. Active(tx[c]) /\ GoesOn(c, tx'[c])
    BY <1>2 DEF Moves
  <2>2. CASE tx'[c].made = <<>>
    BY <2>2 DEF Steps
  <2>3. CASE tx[c].pc = "applying" /\ Grows(c, tx'[c])
    <3> DEFINE n == Len(tx[c].made) + 1
    <3>1. PICK r \in Resource :
            /\ tx'[c].made = Append(tx[c].made, r) /\ tx'[c].ops = tx[c].ops
            /\ NextOp(c).type \in CREATE_OPERATION_TYPES => r \notin Wrote(tx[c])
      BY <2>3 DEF Grows
    <3>2. tx[c].made \in Seq(Resource) /\ Len(tx[c].made) \in Nat
      BY TxTyped DEF TypeInv
    <3>3. /\ Steps(tx'[c]) = Steps(tx[c]) \cup {n} /\ tx'[c].made[n] = r
          /\ \A k \in Steps(tx[c]) : tx'[c].made[k] = tx[c].made[k]
      BY <3>1, <3>2 DEF Steps
    <3>4. tx[c].ops[n].type \in CREATE_OPERATION_TYPES
             => \A k \in Steps(tx[c]) : tx[c].made[k] # r
      BY <3>1 DEF NextOp, Wrote
    <3> HIDE DEF n
    <3> QED BY <2>3, <3>1, <3>3, <3>4 DEF OwnApart
  <2> QED BY <2>1, <2>2, <2>3 DEF GoesOn
<1> QED BY <1>1, <1>2, OneMoves

\* What is logged of creations stays as it is.
LEMMA CreationsStay ==
    ASSUME AuditInv, [Next]_vars, NEW r, NEW i \in DOMAIN revisions
    PROVE  CreationsOf(r, i)' = CreationsOf(r, i)
<1>1. revisions'[i] = revisions[i]
  BY LogStays DEF AuditInv
<1>2. CASE revisions[i].action = "Created"
  <2>1. revisions[i].of \in ChangeSetId
    <3>1. revisions[i] \in Revision
      BY DEF AuditInv, TypeInv, TypeOK
    <3> QED BY <3>1 DEF Revision
  <2>2. changeSet[revisions[i].of].status # "absent"
    BY <1>2, <2>1 DEF AuditInv, UndecidedHasNoEffect, CreatedRevisions
  <2>3. changeSet'[revisions[i].of].ops = changeSet[revisions[i].of].ops
    BY <2>1, <2>2, LinksStay
  <2> QED BY <1>1, <2>3 DEF CreationsOf
<1>3. CASE revisions[i].action # "Created"
  BY <1>1, <1>3 DEF CreationsOf
<1> QED BY <1>2, <1>3

\* A confirm logs the creation of what its transaction created, each at its place.
LEMMA CommitCreates ==
    ASSUME RevertInv, [Next]_vars, NEW c \in Client, ConfirmCommit(c), NEW r,
           NEW new, new = Len(revisions) + 1
    PROVE  CreationsOf(r, new)' =
             {n \in Steps(tx[c]) : /\ tx[c].made[n] = r
                                   /\ tx[c].ops[n].type \in CREATE_OPERATION_TYPES}
<1>1. /\ TypeInv /\ AuditInv /\ OpsKept /\ TypeOK /\ Shape(tx[c]) /\ tx[c].pc = "applying"
  BY DEF RevertInv, AuditInv, TypeInv, TxShape, ConfirmCommit
<1>2. tx[c].cs \in ChangeSetId /\ changeSet[tx[c].cs].status # "absent"
  BY <1>1 DEF Shape, AuditInv, AllKnown, Known
<1>3. /\ LogRevision(tx[c], "Created", TypesOf(tx[c].ops))
      /\ TypesOf(tx[c].ops) \in SUBSET OpType
  BY <1>1, CommitLogs
<1>4. revisions'[new] = [of |-> tx[c].cs, action |-> "Created", types |-> TypesOf(tx[c].ops),
                         affected |-> tx[c].made, order |-> tx[c].order, at |-> tx[c].at]
  BY <1>1, <1>2, <1>3, LogType
<1>5. /\ revisions'[new].of = tx[c].cs /\ revisions'[new].action = "Created"
      /\ revisions'[new].affected = tx[c].made
  BY <1>4
<1>6. changeSet'[tx[c].cs].ops = tx[c].ops
  BY <1>1, <1>2, LinksStay DEF OpsKept
<1>7. DOMAIN tx[c].made = Steps(tx[c])
  BY <1>1, TxTyped DEF Steps
<1> QED BY <1>5, <1>6, <1>7 DEF CreationsOf

LEMMA OnceStep ==
    ASSUME OnceInv, [Next]_vars
    PROVE  EffectsAreAudited' /\ SeedBorn'
<1>0. AuditInv /\ EffectInv /\ TypeInv /\ RevertInv
  BY DEF OnceInv, RevertInv, AuditInv
<1>1. \A i \in DOMAIN revisions : i \in DOMAIN revisions' /\ \A r : CreationsOf(r, i)' = CreationsOf(r, i)
  BY <1>0, CreationsStay, LogStays
<1>2. Audited'
  BY <1>0, AuditedStep DEF OnceInv
<1>3. \A i \in DOMAIN revisions' : \A n \in DOMAIN revisions'[i].affected :
         attr'[revisions'[i].affected[n]].kind # "unborn"
  BY <1>2 DEF Audited, Names, Born
<1>4. ASSUME Born' = Born, \A i \in DOMAIN revisions' : \/ i \in DOMAIN revisions
                                                        \/ \A r : CreationsOf(r, i)' = {}
      PROVE  EffectsAreAudited' /\ SeedBorn'
  <2>1. \A r \in Resource : attr'[r].kind # "unborn" <=> attr[r].kind # "unborn"
    BY <1>4 DEF Born
  <2>2. \A r \in Resource : \A i, j \in DOMAIN revisions' :
          \A m \in CreationsOf(r, i)', n \in CreationsOf(r, j)' : i = j /\ m = n
    BY <1>1, <1>4 DEF OnceInv, EffectsAreAudited
  <2>3. \A r \in DOMAIN Seed : \A i \in DOMAIN revisions' : CreationsOf(r, i)' = {}
    BY <1>1, <1>4 DEF OnceInv, EffectsAreAudited
  <2>4. \A r \in Resource \ DOMAIN Seed :
          attr'[r].kind # "unborn" => \E i \in DOMAIN revisions' : CreationsOf(r, i)' # {}
    BY <1>1, <2>1 DEF OnceInv, EffectsAreAudited
  <2>5. SeedBorn'
    BY <1>4 DEF OnceInv, SeedBorn
  <2> QED BY <1>3, <2>2, <2>3, <2>4, <2>5 DEF EffectsAreAudited
<1>5. CASE \A c \in Client : ~ConfirmCommit(c) /\ ~RevertCommit(c)
  <2>1. UNCHANGED revisions /\ Born' = Born
    BY <1>0, <1>5, Unlogged DEF Born
  <2> QED BY <1>4, <2>1
<1>6. ASSUME NEW c \in Client, RevertCommit(c)
      PROVE  EffectsAreAudited' /\ SeedBorn'
  <2>0. PICK new : new = Len(revisions) + 1
    OBVIOUS
  <2>1. Born' = Born
    BY <1>6 DEF RevertCommit, Born
  <2>2. CASE changeSet[tx[c].cs].status = "applied"
    <3>1. LogRevision(tx[c], "Reverted", {}) /\ {} \in SUBSET OpType /\ tx[c].pc # "idle"
      BY <1>6, <2>2 DEF RevertCommit
    <3>2. DOMAIN revisions' = DOMAIN revisions \cup {new} /\ revisions'[new].action = "Reverted"
      BY <1>0, <2>0, <3>1, LogAdds
    <3>3. \A r : CreationsOf(r, new)' = {}
      BY <3>2 DEF CreationsOf
    <3> QED BY <1>4, <2>1, <3>2, <3>3
  <2>3. CASE changeSet[tx[c].cs].status # "applied"
    <3>1. UNCHANGED revisions
      BY <1>6, <2>3 DEF RevertCommit
    <3> QED BY <1>4, <2>1, <3>1
  <2> QED BY <2>2, <2>3
<1>7. ASSUME NEW c \in Client, ConfirmCommit(c)
      PROVE  EffectsAreAudited' /\ SeedBorn'
  <2> DEFINE M == Made(tx[c])
  <2>0. PICK new : new = Len(revisions) + 1
    OBVIOUS
  <2>1. tx[c].pc = "applying" /\ attr' = Written(tx[c])
    BY <1>7 DEF ConfirmCommit
  <2>2. Born' = Born \cup M /\ M \cap Born = {}
    BY <1>0, <2>1, WrittenIs DEF Born, Kind
  <2>3. DOMAIN revisions' = DOMAIN revisions \cup {new} /\ new \notin DOMAIN revisions
    BY <1>0, <1>7, <2>0, <2>1, CommitLogs, LogAdds
  <2>4. \A r : CreationsOf(r, new)' = {n \in Steps(tx[c]) :
                  tx[c].made[n] = r /\ tx[c].ops[n].type \in CREATE_OPERATION_TYPES}
    BY <1>0, <1>7, <2>0, CommitCreates
  <2>5. \A r : CreationsOf(r, new)' # {} <=> r \in M
    BY <2>4 DEF Made
  <2> HIDE DEF M
  <2>6. \A r : \A i \in DOMAIN revisions : CreationsOf(r, i) # {} => r \in Born
    BY DEF OnceInv, Audited, Names, CreationsOf
  <2>7. ASSUME NEW r \in Resource, NEW i \in DOMAIN revisions', NEW j \in DOMAIN revisions',
               NEW m \in CreationsOf(r, i)', NEW n \in CreationsOf(r, j)'
        PROVE  i = j /\ m = n
    <3>1. CASE i = new /\ j = new
      BY <2>1, <2>4, <3>1 DEF OnceInv, OwnApart
    <3>2. CASE i # new /\ j # new
      <4>1. i \in DOMAIN revisions /\ j \in DOMAIN revisions
        BY <2>3, <3>2
      <4>2. m \in CreationsOf(r, i) /\ n \in CreationsOf(r, j)
        BY <1>1, <4>1
      <4> QED BY <4>1, <4>2 DEF OnceInv, EffectsAreAudited
    <3>3. CASE i = new /\ j # new
      BY <1>1, <2>2, <2>3, <2>5, <2>6, <3>3
    <3>4. CASE i # new /\ j = new
      BY <1>1, <2>2, <2>3, <2>5, <2>6, <3>4
    <3> QED BY <3>1, <3>2, <3>3, <3>4
  <2>8. ASSUME NEW r \in DOMAIN Seed, NEW i \in DOMAIN revisions'
        PROVE  CreationsOf(r, i)' = {}
    <3>1. r \in Born
      BY DEF OnceInv, SeedBorn
    <3>2. CASE i = new
      BY <2>2, <2>5, <3>1, <3>2
    <3>3. CASE i # new
      BY <1>1, <2>3, <3>3 DEF OnceInv, EffectsAreAudited
    <3> QED BY <3>2, <3>3
  <2>9. ASSUME NEW r \in Resource \ DOMAIN Seed, attr'[r].kind # "unborn"
        PROVE  \E i \in DOMAIN revisions' : CreationsOf(r, i)' # {}
    <3>1. r \in Born \/ r \in M
      BY <2>2, <2>9 DEF Born
    <3>2. CASE r \in M
      BY <2>3, <2>5, <3>2
    <3>3. CASE r \in Born
      <4>1. PICK i \in DOMAIN revisions : CreationsOf(r, i) # {}
        BY <2>9, <3>3 DEF OnceInv, EffectsAreAudited, Born
      <4> QED BY <1>1, <4>1
    <3> QED BY <3>1, <3>2, <3>3
  <2>10. SeedBorn'
    BY <2>2 DEF OnceInv, SeedBorn
  <2> QED BY <1>3, <2>7, <2>8, <2>9, <2>10 DEF EffectsAreAudited
<1> QED BY <1>5, <1>6, <1>7

\* For any number of overlapping requests, all or nothing, and once: one entry of one
\* Created revision says that a resource was created, none says so of a seeded one,
\* and no revision names a resource that never came to be (one transaction commits
\* both; ids are never taken twice).
THEOREM EffectsAudited == Spec => []EffectsAreAudited
<1>1. OnceInv /\ [Next]_vars => OnceInv'
  <2> SUFFICES ASSUME OnceInv, [Next]_vars PROVE OnceInv'
    OBVIOUS
  <2>1. TypeInv /\ EffectInv /\ RevertInv /\ Audited /\ OwnApart
    BY DEF OnceInv, RevertInv, AuditInv
  <2> QED BY <2>1, RevertStep, AuditedStep, OwnApartStep, OnceStep DEF OnceInv
<1>2. OnceInv => EffectsAreAudited
  BY DEF OnceInv
<1> QED BY <1>1, <1>2, OnceInit, PTL DEF Spec

-----------------------------------------------------------------------------
(* Who reverts what.                                                       *)

\* Only the commit of a revert makes a ChangeSet a reverted one.
LEMMA OnlyRevertReverts ==
    ASSUME TypeInv, [Next]_vars, NEW k \in ChangeSetId,
           changeSet[k].status # "reverted", changeSet'[k].status = "reverted"
    PROVE  \E c \in Client : RevertCommit(c) /\ tx[c].cs = k /\ changeSet[k].status = "applied"
<1>0. changeSet \in [ChangeSetId -> ChangeSetType]
  BY DEF TypeInv, TypeOK
<1>1. ASSUME NEW c \in Client, RevertCommit(c)
      PROVE  tx[c].cs = k /\ changeSet[k].status = "applied"
  BY <1>0, <1>1 DEF RevertCommit
<1>2. ASSUME NEW c \in Client, ProposePersist(c)
      PROVE  FALSE
  BY <1>0, <1>2 DEF ProposePersist, NoChangeSet
<1>3. ASSUME NEW c \in Client, ConfirmMarkFailed(c)
      PROVE  FALSE
  BY <1>0, <1>3 DEF ConfirmMarkFailed, ChangeSetType
<1>4. ASSUME NEW c \in Client, ConfirmCommit(c)
      PROVE  FALSE
  BY <1>0, <1>4 DEF ConfirmCommit, ChangeSetType
<1>5. ASSUME NEW c \in Client, NEW j \in ChangeSetId, Reject(c, j)
      PROVE  FALSE
  BY <1>0, <1>5 DEF Reject, ChangeSetType
<1> QED
  BY <1>1, <1>2, <1>3, <1>4, <1>5
     DEF vars, Next, Environment, SetProgress, DirectUpdate, DirectDelete, Request, Statement,
         ProposeStart, ConfirmBegin, RevertBegin, Begin, ProposeValidate, ConfirmRead,
         ConfirmCheckProgress, ConfirmApply, ConfirmFails, RevertRead, RevertDelete,
         RevertConflict, RevertReadProgress, Abandon, Retry

\* One commit of a revert.
LEMMA RevertKeeps ==
    ASSUME RevertInv, [Next]_vars, NEW k \in ChangeSetId,
           changeSet[k].status = "applied", changeSet'[k].status = "reverted",
           NEW r \in live \ live'
    PROVE  \E i \in CreatedRevisions(k) :
              /\ attr[r].stamp = revisions[i].at
              /\ revisions[i].types \subseteq CREATE_OPERATION_TYPES
              /\ \E n \in DOMAIN revisions[i].affected : revisions[i].affected[n] = r
<1>0. TypeInv /\ live \subseteq Resource
  BY DEF RevertInv, AuditInv, TypeInv, TypeOK
<1>1. PICK c \in Client : RevertCommit(c) /\ tx[c].cs = k
  BY <1>0, OnlyRevertReverts
<1>2. r \in Wrote(tx[c]) /\ tx[c].pc = "undone"
  BY <1>1 DEF RevertCommit, Deleted, Wrote
<1>3. PICK i \in CreatedRevisions(k) : attr[r].stamp = revisions[i].at
  BY <1>1, <1>2 DEF RevertInv, AllUndoing, Undoing
<1>4. revisions[i].types \subseteq CREATE_OPERATION_TYPES
  BY <1>1, <1>2 DEF RevertInv, AllUndoing, Undoing, OpsKept
<1>5. r \in Names(revisions[i])
  BY <1>0, <1>3 DEF RevertInv, StampsNamed, CreatedRevisions
<1> QED BY <1>3, <1>4, <1>5 DEF Names

\* For any number of overlapping requests and direct edits: what a revert removes
\* was named by a Created revision of the ChangeSet, one of creates alone, and bears
\* its stamp still, so no later edit is lost (CHANGE_SET_REVERT_DELETE_QUERY).
THEOREM RevertsKeepEdits == Spec => RevertKeepsLaterEdits
<1> DEFINE A == \A k \in ChangeSetId :
         changeSet[k].status = "applied" /\ changeSet'[k].status = "reverted" =>
           \A r \in live \ live' : \E i \in CreatedRevisions(k) :
              /\ attr[r].stamp = revisions[i].at
              /\ revisions[i].types \subseteq CREATE_OPERATION_TYPES
              /\ \E n \in DOMAIN revisions[i].affected : revisions[i].affected[n] = r
<1>1. RevertInv /\ [Next]_vars => [A]_vars
  BY RevertKeeps
<1> QED BY <1>1, RevertInvariant, PTL DEF Spec, RevertKeepsLaterEdits

=============================================================================
