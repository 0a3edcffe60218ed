------------------------ MODULE ChangeSetSerialProofs ------------------------
(* With requests handled one at a time, ChangeSet keeps the promises that it
   breaks when they overlap, and implements ChangeSetLifecycle. *)
EXTENDS ChangeSetProofs, SequenceTheorems

OneAtATime == \A a, b \in Client : a = b

\* The status a request read is still there at every later statement of it.
StatusHeld ==
    \A c \in Client :
        /\ tx[c].pc \in {"checking", "stale", "applying"} =>
              changeSet[tx[c].cs].status = "awaiting_confirmation"
        /\ tx[c].pc \in {"undoing", "undone"} => changeSet[tx[c].cs].status = "applied"

SerialInv == AuditInv /\ EffectInv /\ StatusHeld /\ ConfirmIsIdempotent

LEMMA SerialInit == Init => SerialInv
<1> SUFFICES ASSUME Init PROVE SerialInv
  OBVIOUS
<1>1. StatusHeld
  BY DEF Init, Idle, StatusHeld
<1>2. ConfirmIsIdempotent
  BY DEF Init, ConfirmIsIdempotent, CreatedRevisions
<1>3. QED BY <1>1, <1>2, AuditInit, EffectInit DEF SerialInv

\* A step of a request keeps its role, or ends it, and then nothing is held.
LEMMA HeldPrivate ==
    ASSUME OneAtATime, SerialInv, [Next]_vars, UNCHANGED <<changeSet, revisions>>, NEW c \in Client,
           NEW t, Become(c, t),
           t.pc \in {"checking", "stale", "applying"} =>
              changeSet[t.cs].status = "awaiting_confirmation",
           t.pc \in {"undoing", "undone"} => changeSet[t.cs].status = "applied"
    PROVE  SerialInv'
<1>1. tx'[c] = t /\ \A d \in Client : d = c
  BY DEF Become, SerialInv, AuditInv, TypeInv, TypeOK, OneAtATime
<1>2. StatusHeld'
  BY <1>1 DEF StatusHeld
<1>3. ConfirmIsIdempotent'
  BY DEF SerialInv, ConfirmIsIdempotent, CreatedRevisions
<1>4. QED BY <1>2, <1>3, AuditStep, EffectStep DEF SerialInv

LEMMA SerialPrivateActions ==
    ASSUME OneAtATime, SerialInv, [Next]_vars, NEW c \in Client,
           \/ \E k \in ChangeSetId :
                ConfirmBegin(c, k) \/ RevertBegin(c, k) \/ \E ops \in OpLists : ProposeStart(c, k, ops)
           \/ ProposeValidate(c) \/ ConfirmRead(c) \/ ConfirmCheckProgress(c)
           \/ ConfirmApply(c) \/ ConfirmFails(c) \/ RevertRead(c) \/ RevertDelete(c)
           \/ RevertConflict(c) \/ RevertReadProgress(c) \/ Abandon(c) \/ Retry(c)
    PROVE  SerialInv' /\ UNCHANGED <<live, changeSet, revisions>>
<1>1. UNCHANGED <<live, changeSet, revisions>> /\ tx[c] \in Tx
  BY TxTyped DEF SerialInv, AuditInv, TypeInv, ConfirmBegin, RevertBegin, Begin, ProposeStart,
     ProposeValidate, ConfirmRead, ConfirmCheckProgress, ConfirmApply, ConfirmFails, RevertRead,
     RevertDelete, RevertConflict, RevertReadProgress, Abandon, Retry
<1> DEFINE Keeps(t) ==
        /\ t.pc \in {"checking", "stale", "applying"} =>
              changeSet[t.cs].status = "awaiting_confirmation"
        /\ t.pc \in {"undoing", "undone"} => changeSet[t.cs].status = "applied"
<1>2. Keeps(tx[c])
  BY DEF SerialInv, StatusHeld
<1>3. SUFFICES \E t : Become(c, t) /\ Keeps(t)
  BY <1>1, HeldPrivate
<1>4. CASE Become(c, Idle)
  BY <1>4 DEF Idle
<1>5. ASSUME NEW k \in ChangeSetId,
             \/ ConfirmBegin(c, k) \/ RevertBegin(c, k) \/ \E ops \in OpLists : ProposeStart(c, k, ops)
      PROVE  \E t : Become(c, t) /\ Keeps(t)
  <2>1. ASSUME NEW pc \in {"confirm", "revert"}, Begin(c, k, pc)
        PROVE  \E t : Become(c, t) /\ Keeps(t)
    <3>1. Become(c, [Idle EXCEPT !.pc = pc, !.cs = k, !.at = clock])
      BY <2>1 DEF Begin
    <3>2. Keeps([Idle EXCEPT !.pc = pc, !.cs = k, !.at = clock])
      BY DEF Idle
    <3>3. QED BY <3>1, <3>2
  <2>2. ASSUME NEW ops \in OpLists, ProposeStart(c, k, ops)
        PROVE  \E t : Become(c, t) /\ Keeps(t)
    <3>1. Become(c, [Idle EXCEPT !.pc = "proposing", !.cs = k, !.ops = ops,
                                 !.order = CurrentProgress])
      BY <2>2 DEF ProposeStart
    <3>2. Keeps([Idle EXCEPT !.pc = "proposing", !.cs = k, !.ops = ops,
                             !.order = CurrentProgress])
      BY DEF Idle
    <3>3. QED BY <3>1, <3>2
  <2>3. QED BY <1>5, <2>1, <2>2 DEF ConfirmBegin, RevertBegin
<1>6. CASE ProposeValidate(c) \/ ConfirmApply(c) \/ RevertDelete(c)
  <2>1. PICK ops, made : Become(c, [tx[c] EXCEPT !.ops = ops, !.made = made])
    <3>1. ASSUME NEW r, NEW i, NEW op, Become(c, [tx[c] EXCEPT !.ops[i] = op, !.made = Append(@, r)])
          PROVE  \E ops, made : Become(c, [tx[c] EXCEPT !.ops = ops, !.made = made])
      BY <3>1
    <3>2. ASSUME NEW r, Become(c, [tx[c] EXCEPT !.made = Append(@, r)])
          PROVE  Become(c, [tx[c] EXCEPT !.ops = tx[c].ops, !.made = Append(tx[c].made, r)])
      BY <1>1, <3>2 DEF Tx
    <3>3. QED BY <1>6, <3>1, <3>2 DEF ProposeValidate, ConfirmApply, RevertDelete
  <2>2. /\ [tx[c] EXCEPT !.ops = ops, !.made = made].pc = tx[c].pc
        /\ [tx[c] EXCEPT !.ops = ops, !.made = made].cs = tx[c].cs
    BY <1>1 DEF Tx
  <2>3. QED BY <1>2, <2>1, <2>2
<1>7. CASE ConfirmRead(c) /\ ~Become(c, Idle)
  <2> DEFINE t == [tx[c] EXCEPT !.pc = "checking", !.ops = changeSet[tx[c].cs].ops]
  <2>1. changeSet[tx[c].cs].status = "awaiting_confirmation" /\ Become(c, t)
    BY <1>7 DEF ConfirmRead
  <2>2. t.pc = "checking" /\ t.cs = tx[c].cs
    BY <1>1 DEF Tx
  <2>3. QED BY <2>1, <2>2
<1>8. CASE ConfirmCheckProgress(c)
  <2>1. \E pc \in {"stale", "applying"} : \E order :
           Become(c, [tx[c] EXCEPT !.pc = pc, !.order = order])
    <3>1. CASE Stale(c)
      <4>1. Become(c, [tx[c] EXCEPT !.pc = "stale", !.order = tx[c].order])
        BY <1>1, <1>8, <3>1 DEF ConfirmCheckProgress, Tx
      <4>2. QED BY <4>1
    <3>2. CASE ~Stale(c)
      BY <1>8, <3>2 DEF ConfirmCheckProgress
    <3>3. QED BY <3>1, <3>2
  <2>pc. PICK pc \in {"stale", "applying"} : \E order :
           Become(c, [tx[c] EXCEPT !.pc = pc, !.order = order])
    BY <2>1
  <2>rest. PICK order : Become(c, [tx[c] EXCEPT !.pc = pc, !.order = order])
    BY <2>pc
  <2> DEFINE t == [tx[c] EXCEPT !.pc = pc, !.order = order]
  <2>2. t.pc = pc /\ t.cs = tx[c].cs /\ tx[c].pc = "checking"
    BY <1>1, <1>8 DEF Tx, ConfirmCheckProgress
  <2>3. QED BY <1>2, <2>rest, <2>2
<1>9. CASE RevertRead(c) /\ ~Become(c, Idle)
  <2>1. changeSet[tx[c].cs].status = "applied"
    BY <1>9 DEF RevertRead
  <2>2. PICK ops : Become(c, [tx[c] EXCEPT !.pc = "undoing", !.ops = ops])
    BY <1>9 DEF RevertRead
  <2>3. /\ [tx[c] EXCEPT !.pc = "undoing", !.ops = ops].pc = "undoing"
        /\ [tx[c] EXCEPT !.pc = "undoing", !.ops = ops].cs = tx[c].cs
    BY <1>1 DEF Tx
  <2>4. QED BY <2>1, <2>2, <2>3
<1>10. CASE RevertReadProgress(c)
  <2>1. PICK order : Become(c, [tx[c] EXCEPT !.pc = "undone", !.order = order])
    BY <1>10 DEF RevertReadProgress
  <2>2. /\ [tx[c] EXCEPT !.pc = "undone", !.order = order].pc = "undone"
        /\ [tx[c] EXCEPT !.pc = "undone", !.order = order].cs = tx[c].cs
        /\ tx[c].pc = "undoing"
    BY <1>1, <1>10 DEF Tx, RevertReadProgress
  <2>3. QED BY <1>2, <2>1, <2>2
<1>11. CASE Retry(c)
  <2>1. PICK pc \in {"revert", "confirm"} :
          Become(c, [Idle EXCEPT !.cs = tx[c].cs, !.at = tx[c].at, !.pc = pc])
    BY <1>11 DEF Retry
  <2>2. [Idle EXCEPT !.cs = tx[c].cs, !.at = tx[c].at, !.pc = pc].pc = pc
    BY DEF Idle
  <2>3. QED BY <2>1, <2>2
<1>12. QED
  BY <1>4, <1>5, <1>6, <1>7, <1>8, <1>9, <1>10, <1>11 DEF ConfirmFails, RevertConflict, Abandon

\* A step that leaves the one client idle holds nothing.
LEMMA HeldIdle ==
    ASSUME OneAtATime, NEW c \in Client, tx'[c].pc = "idle"
    PROVE  StatusHeld'
BY DEF OneAtATime, StatusHeld

\* The steps that write a status, and what the promised life sees of them.
LEMMA MoveMaps ==
    ASSUME NEW k \in ChangeSetId, NEW from, NEW to, changeSet[k].status = from,
           changeSet'[k].status = to, \A j \in ChangeSetId \ {k} : changeSet'[j] = changeSet[j]
    PROVE  LC!Move(k, from, to)
<1>1. [j \in ChangeSetId |-> changeSet'[j].status] =
        [j \in ChangeSetId |-> IF j = k THEN to ELSE changeSet[j].status]
  OBVIOUS
<1>2. [[j \in ChangeSetId |-> changeSet[j].status] EXCEPT ![k] = to] =
        [j \in ChangeSetId |-> IF j = k THEN to ELSE changeSet[j].status]
  OBVIOUS
<1>3. QED BY <1>1, <1>2 DEF LC!Move

LEMMA SerialPersist ==
    ASSUME OneAtATime, SerialInv, [Next]_vars, NEW c \in Client, ProposePersist(c)
    PROVE  SerialInv' /\ \E k \in ChangeSetId : LC!Propose(k)
<1>1. PICK k \in ChangeSetId : tx[c].cs = k
  BY DEF SerialInv, AuditInv, TypeInv, TxShape, Shape, ProposePersist
<1>2. changeSet[k].status = "absent" /\ changeSet \in [ChangeSetId -> ChangeSetType]
  BY <1>1 DEF SerialInv, AuditInv, TypeInv, TypeOK, ProposalAlone, ProposePersist
<1>3. tx'[c].pc = "idle"
  BY OthersStay DEF ProposePersist, SerialInv, AuditInv
<1>4. /\ changeSet'[k].status = "awaiting_confirmation"
      /\ \A j \in ChangeSetId \ {k} : changeSet'[j] = changeSet[j]
  BY <1>1, <1>2 DEF ProposePersist, NoChangeSet
<1>5. ConfirmIsIdempotent'
  BY DEF ProposePersist, SerialInv, ConfirmIsIdempotent, CreatedRevisions
<1>6. LC!Move(k, "absent", "awaiting_confirmation")
  BY <1>2, <1>4, MoveMaps
<1>7. LC!Propose(k)
  BY <1>6 DEF LC!Propose, ProposePersist
<1>8. QED BY <1>3, <1>5, <1>7, HeldIdle, AuditStep, EffectStep DEF SerialInv

LEMMA SerialMark ==
    ASSUME OneAtATime, SerialInv, [Next]_vars, NEW c \in Client,
           ConfirmMarkFailed(c) \/ \E k \in ChangeSetId : Reject(c, k)
    PROVE  SerialInv' /\ \E k \in ChangeSetId : LC!Fail(k) \/ LC!Reject(k)
<1>1. changeSet \in [ChangeSetId -> ChangeSetType]
  BY DEF SerialInv, AuditInv, TypeInv, TypeOK
<1>2. PICK k \in ChangeSetId, status \in {"failed", "rejected"} :
        /\ changeSet[k].status = "awaiting_confirmation"
        /\ changeSet' = [changeSet EXCEPT ![k].status = status]
        /\ UNCHANGED <<live, revisions>> /\ tx'[c].pc = "idle"
  <2>1. CASE ConfirmMarkFailed(c)
    <3>1. tx[c].cs \in ChangeSetId /\ changeSet[tx[c].cs].status = "awaiting_confirmation"
      BY <2>1 DEF ConfirmMarkFailed, SerialInv, StatusHeld, AuditInv, TypeInv, TxShape, Shape
    <3>2. QED BY <2>1, <3>1, OthersStay DEF ConfirmMarkFailed, SerialInv, AuditInv
  <2>2. CASE \E k \in ChangeSetId : Reject(c, k)
    BY <2>2 DEF Reject
  <2>3. QED BY <2>1, <2>2
<1>3. changeSet'[k].status = status /\ \A j \in ChangeSetId \ {k} : changeSet'[j] = changeSet[j]
  BY <1>1, <1>2 DEF ChangeSetType
<1>4. LC!Move(k, "awaiting_confirmation", status)
  BY <1>2, <1>3, MoveMaps
<1>5. LC!Fail(k) \/ LC!Reject(k)
  BY <1>2, <1>4 DEF LC!Fail, LC!Reject
<1>6. ConfirmIsIdempotent'
  BY <1>2 DEF SerialInv, ConfirmIsIdempotent, CreatedRevisions
<1>7. QED BY <1>2, <1>5, <1>6, HeldIdle, AuditStep, EffectStep DEF SerialInv

\* The audit entries of a log.
Entries(rs) == [i \in DOMAIN rs |-> [of |-> rs[i].of, action |-> rs[i].action]]

LEMMA EntriesType ==
    ASSUME NEW rs \in Seq(Revision)
    PROVE  /\ Entries(rs) \in Seq(LC!Entry)
           /\ Len(Entries(rs)) = Len(rs)
           /\ \A i \in 1 .. Len(rs) : Entries(rs)[i] = [of |-> rs[i].of, action |-> rs[i].action]
<1>1. Len(rs) \in Nat /\ DOMAIN rs = 1 .. Len(rs)
  OBVIOUS
<1>2. \A i \in 1 .. Len(rs) : [of |-> rs[i].of, action |-> rs[i].action] \in LC!Entry
  <2>1. \A i \in 1 .. Len(rs) : rs[i] \in Revision
    OBVIOUS
  <2>2. QED BY <2>1 DEF Revision, LC!Entry
<1>3. Entries(rs) = [i \in 1 .. Len(rs) |-> [of |-> rs[i].of, action |-> rs[i].action]]
  BY <1>1 DEF Entries
<1>4. Entries(rs) \in Seq(LC!Entry)
  BY <1>1, <1>2, <1>3
<1>5. QED BY <1>1, <1>3, <1>4

\* One revision more is one audit entry more.
LEMMA LogMaps ==
    ASSUME TypeOK, NEW c \in Client, Shape(tx[c]),
           NEW action \in {"Created", "Reverted"}, NEW types \in SUBSET OpType,
           LogRevision(tx[c], action, types), NEW k \in ChangeSetId, tx[c].cs = k
    PROVE  LC!Record(k, action)
<1> DEFINE n == Len(revisions)
           entry == [of |-> k, action |-> action]
           old == Entries(revisions)
           new == Entries(revisions')
<1>1. /\ n \in Nat /\ revisions \in Seq(Revision) /\ revisions' \in Seq(Revision)
      /\ Len(revisions') = n + 1
      /\ \A i \in 1 .. n : revisions'[i] = revisions[i]
      /\ revisions'[n + 1].of = k /\ revisions'[n + 1].action = action
  <2>1. /\ revisions' \in Seq(Revision)
        /\ Len(revisions) \in Nat
        /\ DOMAIN revisions = 1 .. Len(revisions)
        /\ DOMAIN revisions' = 1 .. Len(revisions) + 1
        /\ \A i \in DOMAIN revisions : revisions'[i] = revisions[i]
        /\ revisions'[Len(revisions) + 1] =
             [of |-> tx[c].cs, action |-> action, types |-> types,
              affected |-> tx[c].made, order |-> tx[c].order, at |-> tx[c].at]
    BY LogType, Zenon
  <2>2. revisions \in Seq(Revision)
    BY DEF TypeOK
  <2>3. QED BY <2>1, <2>2
<1> HIDE DEF n
<1>2. /\ old \in Seq(LC!Entry) /\ Len(old) = n
      /\ \A i \in 1 .. n : old[i] = [of |-> revisions[i].of, action |-> revisions[i].action]
  BY <1>1, EntriesType DEF n
<1>3. /\ new \in Seq(LC!Entry) /\ Len(new) = n + 1
      /\ \A i \in 1 .. n + 1 : new[i] = [of |-> revisions'[i].of, action |-> revisions'[i].action]
  BY <1>1, EntriesType
<1>4. entry \in LC!Entry
  BY DEF LC!Entry
<1> HIDE DEF old, new
<1>5. new[n + 1] = entry /\ \A i \in 1 .. n : new[i] = old[i]
  <2>1. n + 1 \in 1 .. n + 1 /\ \A i \in 1 .. n : i \in 1 .. n + 1
    BY <1>1
  <2>2. new[n + 1] = entry
    BY <1>1, <1>3, <2>1
  <2>3. \A i \in 1 .. n : new[i] = old[i]
    BY <1>1, <1>2, <1>3, <2>1, Zenon
  <2>4. QED BY <2>2, <2>3
<1> HIDE DEF entry
<1>6. /\ Append(old, entry) \in Seq(LC!Entry) /\ Len(Append(old, entry)) = n + 1
      /\ \A i \in 1 .. n : Append(old, entry)[i] = old[i]
      /\ Append(old, entry)[n + 1] = entry
  BY <1>2, <1>4, AppendProperties
<1>7. \A i \in 1 .. n + 1 : new[i] = Append(old, entry)[i]
  BY <1>1, <1>5, <1>6
<1>8. new = Append(old, entry)
  BY <1>3, <1>6, <1>7, SeqEqual
<1>9. QED BY <1>8 DEF LC!Record, Entries, old, new, entry

LEMMA SerialCommit ==
    ASSUME OneAtATime, SerialInv, [Next]_vars, NEW c \in Client, ConfirmCommit(c)
    PROVE  SerialInv' /\ \E k \in ChangeSetId : LC!Apply(k)
<1> DEFINE types == {tx[c].ops[i].type : i \in 1 .. Len(tx[c].ops)}
<1>1. PICK k \in ChangeSetId : tx[c].cs = k
  BY DEF SerialInv, AuditInv, TypeInv, TxShape, Shape, ConfirmCommit
<1>2. /\ TypeOK /\ Shape(tx[c])
      /\ changeSet[k].status = "awaiting_confirmation"
      /\ changeSet \in [ChangeSetId -> ChangeSetType]
  BY <1>1 DEF SerialInv, AuditInv, TypeInv, TypeOK, TxShape, Shape, StatusHeld, ConfirmCommit
<1>3. LogRevision(tx[c], "Created", types) /\ types \in SUBSET OpType
  <2>1. tx[c].ops \in Seq(Operation)
    BY <1>2, TxTyped
  <2>2. \A i \in 1 .. Len(tx[c].ops) : tx[c].ops[i] \in Operation
    BY <2>1
  <2>3. QED BY <2>2 DEF Operation, ConfirmCommit
<1> HIDE DEF types
<1>4. tx'[c].pc = "idle"
  BY OthersStay DEF ConfirmCommit, SerialInv, AuditInv
<1>5. CreatedRevisions(k) = {}
  BY <1>2 DEF SerialInv, AuditInv, UndecidedHasNoEffect
<1>6. \A j \in ChangeSetId : CreatedRevisions(j)' =
          CreatedRevisions(j) \cup (IF j = k THEN {Len(revisions) + 1} ELSE {})
  BY <1>1, <1>2, <1>3, CreatedAfterLog
<1>7. ConfirmIsIdempotent'
  <2>1. \A j \in ChangeSetId : \A a, b \in CreatedRevisions(j)' : a = b
    BY <1>5, <1>6 DEF SerialInv, ConfirmIsIdempotent
  <2>2. QED BY <2>1 DEF ConfirmIsIdempotent, CreatedRevisions
<1>8. LC!Record(k, "Created")
  BY <1>1, <1>2, <1>3, LogMaps
<1>9. changeSet'[k].status = "applied" /\ \A j \in ChangeSetId \ {k} : changeSet'[j] = changeSet[j]
  BY <1>1, <1>2 DEF ConfirmCommit, ChangeSetType
<1>10. LC!Move(k, "awaiting_confirmation", "applied")
  BY <1>2, <1>9, MoveMaps
<1>11. SerialInv'
  BY <1>4, <1>7, HeldIdle, AuditStep, EffectStep DEF SerialInv
<1>12. live' \subseteq Resource
  BY <1>11 DEF SerialInv, AuditInv, TypeInv, TypeOK
<1>13. QED BY <1>8, <1>10, <1>11, <1>12 DEF LC!Apply

LEMMA SerialRevertCommit ==
    ASSUME OneAtATime, SerialInv, [Next]_vars, NEW c \in Client, RevertCommit(c)
    PROVE  SerialInv' /\ \E k \in ChangeSetId : LC!Revert(k)
<1>1. PICK k \in ChangeSetId : tx[c].cs = k
  BY DEF SerialInv, AuditInv, TypeInv, TxShape, Shape, RevertCommit
<1>2. /\ TypeOK /\ Shape(tx[c])
      /\ changeSet[k].status = "applied"
      /\ changeSet \in [ChangeSetId -> ChangeSetType]
  BY <1>1 DEF SerialInv, AuditInv, TypeInv, TypeOK, TxShape, Shape, StatusHeld, RevertCommit
<1>3. LogRevision(tx[c], "Reverted", {}) /\ {} \in SUBSET OpType /\ live' \subseteq live
  BY <1>1, <1>2 DEF RevertCommit
<1>4. tx'[c].pc = "idle"
  BY OthersStay DEF RevertCommit, SerialInv, AuditInv
<1>5. \A j \in ChangeSetId : CreatedRevisions(j)' = CreatedRevisions(j)
  <2>1. \A j \in ChangeSetId : CreatedRevisions(j)' = CreatedRevisions(j) \cup
           (IF j = k /\ "Reverted" = "Created" THEN {Len(revisions) + 1} ELSE {})
    BY <1>1, <1>2, <1>3, CreatedAfterLog, Zenon
  <2>2. QED BY <2>1
<1>6. ConfirmIsIdempotent'
  <2>1. \A j \in ChangeSetId : \A a, b \in CreatedRevisions(j)' : a = b
    BY <1>5 DEF SerialInv, ConfirmIsIdempotent
  <2>2. QED BY <2>1 DEF ConfirmIsIdempotent, CreatedRevisions
<1>7. LC!Record(k, "Reverted")
  BY <1>1, <1>2, <1>3, LogMaps
<1>8. changeSet'[k].status = "reverted" /\ \A j \in ChangeSetId \ {k} : changeSet'[j] = changeSet[j]
  BY <1>1, <1>2 DEF RevertCommit, ChangeSetType
<1>9. LC!Move(k, "applied", "reverted")
  BY <1>2, <1>8, MoveMaps
<1>10. SerialInv'
  BY <1>4, <1>6, HeldIdle, AuditStep, EffectStep DEF SerialInv
<1>11. QED BY <1>3, <1>7, <1>9, <1>10 DEF LC!Revert

LEMMA SerialStep ==
    ASSUME OneAtATime, SerialInv, [Next]_vars
    PROVE  SerialInv' /\ [LC!Next]_(LC!vars)
<1>1. CASE UNCHANGED vars \/ Environment
  <2>1. UNCHANGED <<changeSet, revisions, tx>> /\ live' \subseteq live
    BY <1>1 DEF vars, Environment, SetProgress, DirectUpdate, DirectDelete
  <2>2. StatusHeld' /\ ConfirmIsIdempotent'
    BY <2>1 DEF SerialInv, StatusHeld, ConfirmIsIdempotent, CreatedRevisions
  <2>3. LC!UserDeletes
    BY <2>1 DEF LC!UserDeletes
  <2>4. QED BY <2>2, <2>3, AuditStep, EffectStep DEF SerialInv, LC!Next
<1>2. ASSUME NEW c \in Client, NEW k \in ChangeSetId, Request(c, k)
      PROVE  SerialInv' /\ [LC!Next]_(LC!vars)
  <2>1. CASE Reject(c, k)
    BY <2>1, SerialMark DEF LC!Next
  <2>2. CASE ~Reject(c, k)
    BY <1>2, <2>2, SerialPrivateActions DEF Request, LC!vars
  <2>3. QED BY <2>1, <2>2
<1>3. ASSUME NEW c \in Client, Statement(c)
      PROVE  SerialInv' /\ [LC!Next]_(LC!vars)
  <2>1. CASE ProposePersist(c) \/ ConfirmCommit(c) \/ RevertCommit(c)
    BY <2>1, SerialPersist, SerialCommit, SerialRevertCommit DEF LC!Next
  <2>2. CASE ConfirmMarkFailed(c)
    BY <2>2, SerialMark DEF LC!Next
  <2>3. CASE ~(ProposePersist(c) \/ ConfirmCommit(c) \/ RevertCommit(c) \/ ConfirmMarkFailed(c))
    BY <1>3, <2>3, SerialPrivateActions DEF Statement, LC!vars
  <2>4. QED BY <2>1, <2>2, <2>3
<1>4. QED BY <1>1, <1>2, <1>3 DEF Next

\* A ChangeSet whose requests never overlap is applied at most once, however often
\* it is confirmed, and whatever fails or is retried in between.
THEOREM SerialConfirmIsIdempotent ==
    ASSUME OneAtATime
    PROVE  Spec => []ConfirmIsIdempotent
<1>1. SerialInv /\ [Next]_vars => SerialInv'
  BY SerialStep
<1>2. SerialInv => ConfirmIsIdempotent
  BY DEF SerialInv
<1>3. QED BY <1>1, <1>2, SerialInit, PTL DEF Spec

\* Requests handled one at a time implement the promised life of a ChangeSet.
THEOREM SerialImplementsLifecycle ==
    ASSUME OneAtATime
    PROVE  Spec => ImplementsLifecycle
<1>1. SerialInv /\ [Next]_vars => SerialInv' /\ [LC!Next]_(LC!vars)
  BY SerialStep
<1>2. Init => LC!Init
  <2> SUFFICES ASSUME Init PROVE LC!Init
    OBVIOUS
  <2>1. [k \in ChangeSetId |-> changeSet[k].status] = [k \in ChangeSetId |-> "absent"]
    BY DEF Init, NoChangeSet
  <2>2. [i \in DOMAIN revisions |-> [of |-> revisions[i].of, action |-> revisions[i].action]] = <<>>
    BY DEF Init
  <2>3. live \subseteq Resource
    BY ChangeSetAssumption DEF Init
  <2>4. QED BY <2>1, <2>2, <2>3 DEF LC!Init
<1>3. QED BY <1>1, <1>2, SerialInit, PTL DEF Spec, ImplementsLifecycle, LC!Spec

-----------------------------------------------------------------------------
(* What a serial revert leaves.                                            *)

\* The revision a request reverts.
Reverts(t) == revisions[changeSet[t.cs].revision].affected

\* A revert in progress deletes what its revision names, in that order, to the end.
RevertsAll(t) ==
    t.pc \in {"undoing", "undone"} =>
        /\ DOMAIN Reverts(t) = 1 .. Len(t.ops)
        /\ \A i \in DOMAIN Reverts(t) :
              t.ops[i] = [type |-> "delete_node", targets |-> {Reverts(t)[i]}]
        /\ \A i \in Steps(t) : t.made[i] = Reverts(t)[i]
        /\ t.pc = "undone" => Len(t.made) = Len(t.ops)
AllRevertsAll == \A c \in Client : RevertsAll(tx[c])

\* RevertedLeavesNothing, said of sets.
NothingLeft ==
    \A k \in ChangeSetId : changeSet[k].status = "reverted" =>
        \A i \in CreatedRevisions(k) : Names(revisions[i]) \cap live = {}

UndoneInv == SerialInv /\ RevertInv /\ Audited /\ AllRevertsAll /\ NothingLeft

LEMMA UndoneInit == Init => UndoneInv
<1> SUFFICES ASSUME Init PROVE UndoneInv
  OBVIOUS
<1>1. AllRevertsAll /\ NothingLeft
  BY DEF Init, Idle, NoChangeSet, AllRevertsAll, RevertsAll, NothingLeft
<1> QED BY <1>1, SerialInit, RevertInit, AuditedInit DEF UndoneInv

LEMMA RevertsAllStep ==
    ASSUME OneAtATime, UndoneInv, [Next]_vars
    PROVE  AllRevertsAll'
<1>0. TypeInv /\ AuditInv /\ TypeOK /\ TxShape
  BY DEF UndoneInv, RevertInv, AuditInv, TypeInv
<1> SUFFICES ASSUME NEW c \in Client, tx'[c].pc \in {"undoing", "undone"}
             PROVE  RevertsAll(tx[c])'
  BY DEF AllRevertsAll, RevertsAll
<1>1. PICK t : t = tx'[c]
  OBVIOUS
<1>2. SUFFICES RevertsAll(t)'
  BY <1>1 DEF RevertsAll, Reverts, Steps
<1>3. CASE t = tx[c]
  <2> DEFINE k == t.cs
  <2>1. /\ k \in ChangeSetId /\ changeSet[k].status # "absent"
        /\ changeSet[k].revision \in DOMAIN revisions /\ RevertsAll(t)
    BY <1>0, <1>1, <1>3 DEF TxShape, Shape, UndoneInv, AuditInv, AllKnown, Known, RevertInv,
                            AllUndoing, Undoing, CreatedRevisions, AllRevertsAll
  <2>2. \A d \in Client : ~ConfirmCommit(d)
    BY <1>1, <1>3 DEF OneAtATime, ConfirmCommit
  <2>3. changeSet'[k].revision = changeSet[k].revision
    BY <1>0, <2>1, <2>2, LinksStay
  <2>4. revisions'[changeSet'[k].revision] = revisions[changeSet[k].revision]
    BY <1>0, <2>1, <2>3, LogStays
  <2>5. Reverts(t)' = Reverts(t)
    BY <2>4 DEF Reverts
  <2> QED BY <2>1, <2>5 DEF RevertsAll, Steps
<1>4. CASE Moves(c, t)
  <2>1. /\ GoesOn(c, t) /\ Active(tx[c]) /\ t.cs = tx[c].cs
        /\ UNCHANGED <<changeSet, revisions>>
    BY <1>1, <1>4 DEF Moves, GoesOn
  <2>2. SUFFICES RevertsAll(t)
    BY <2>1 DEF RevertsAll, Reverts, Steps
  <2>3. Reverts(t) = Reverts(tx[c]) /\ RevertsAll(tx[c])
    BY <2>1 DEF Reverts, UndoneInv, AllRevertsAll
  <2>4. CASE tx[c].pc = "revert"
    <3>1. t.pc = "undoing"
      BY <1>1, <2>1, <2>4 DEF GoesOn
    <3>2. /\ t.made = <<>> /\ changeSet[t.cs].status = "applied"
          /\ t.ops = [i \in 1 .. Len(Reverts(t)) |->
                        [type |-> "delete_node", targets |-> {Reverts(t)[i]}]]
      BY <2>1, <2>4, <3>1 DEF GoesOn, Reverts
    <3>3. Reverts(t) \in Seq(Resource)
      <4>1. changeSet[t.cs].revision \in DOMAIN revisions
        BY <1>0, <2>1, <3>2 DEF TypeInv, TxShape, Shape, Active, LinksResolve
      <4>2. revisions[changeSet[t.cs].revision] \in Revision
        BY <1>0, <4>1 DEF TypeOK
      <4> QED BY <4>2 DEF Reverts, Revision
    <3>4. DOMAIN Reverts(t) = 1 .. Len(t.ops)
      BY <3>2, <3>3
    <3> QED BY <3>1, <3>2, <3>3, <3>4 DEF RevertsAll, Steps
  <2>5. CASE tx[c].pc = "undoing" /\ t.pc = "undone"
    <3>1. t.ops = tx[c].ops /\ t.made = tx[c].made /\ AllOpsDone(c)
      BY <2>1, <2>5 DEF GoesOn
    <3> QED BY <2>3, <2>5, <3>1 DEF RevertsAll, Steps, AllOpsDone
  <2>6. CASE tx[c].pc = "undoing" /\ t.pc = "undoing"
    <3> DEFINE n == Len(tx[c].made) + 1
    <3>1. Grows(c, t) /\ t.made[n] \in NextOp(c).targets
      BY <2>1, <2>6 DEF GoesOn
    <3>2. PICK r \in Resource : t.made = Append(tx[c].made, r) /\ t.ops = tx[c].ops
      BY <3>1 DEF Grows
    <3>3. tx[c].made \in Seq(Resource) /\ Len(tx[c].made) \in Nat /\ Len(tx[c].ops) \in Nat
      BY <1>0, TxTyped
    <3>4. /\ Steps(tx[c]) = 1 .. n - 1 /\ Steps(t) = 1 .. n
          /\ \A i \in 1 .. n - 1 : t.made[i] = tx[c].made[i]
      BY <3>2, <3>3 DEF Steps
    <3>5. n \in 1 .. Len(tx[c].ops)
      <4>1. t \in Tx /\ Shape(t)
        <5>1. TypeOK' /\ TxShape'
          BY <1>0, TypeStep DEF TypeInv
        <5> QED BY <1>1, <5>1 DEF TypeOK, TxShape, Shape
      <4>2. Len(t.made) = n
        BY <3>2, <3>3
      <4> QED BY <3>2, <3>3, <4>1, <4>2 DEF Shape
    <3> HIDE DEF n
    <3>6. /\ DOMAIN Reverts(t) = 1 .. Len(t.ops)
          /\ \A i \in DOMAIN Reverts(t) :
                t.ops[i] = [type |-> "delete_node", targets |-> {Reverts(t)[i]}]
          /\ \A i \in 1 .. n - 1 : t.made[i] = Reverts(t)[i]
      BY <2>3, <2>6, <3>2, <3>4 DEF RevertsAll
    <3>7. t.ops[n].targets = {Reverts(t)[n]}
      <4>1. n \in DOMAIN Reverts(t)
        BY <3>2, <3>5, <3>6
      <4>2. t.ops[n] = [type |-> "delete_node", targets |-> {Reverts(t)[n]}]
        BY <3>6, <4>1
      <4> QED BY <4>2
    <3>8. t.made[n] = Reverts(t)[n]
      BY <3>1, <3>2, <3>7 DEF NextOp, n
    <3>9. ASSUME NEW i \in Steps(t) PROVE t.made[i] = Reverts(t)[i]
      <4>1. n - 1 \in Nat /\ n = (n - 1) + 1
        BY <3>3 DEF n
      <4>2. i \in 1 .. n
        BY <3>4
      <4>3. i \in 1 .. n - 1 \/ i = n
        BY <4>1, <4>2
      <4>4. CASE i = n
        BY <3>8, <4>4
      <4>5. CASE i \in 1 .. n - 1
        BY <3>6, <4>5
      <4> QED BY <4>3, <4>4, <4>5
    <3> QED BY <2>6, <3>6, <3>9 DEF RevertsAll
  <2> QED BY <1>1, <2>1, <2>4, <2>5, <2>6 DEF GoesOn
<1> QED BY <1>0, <1>1, <1>3, <1>4, OneMoves

\* A step adds nothing to the graph that was in it before.
LEMMA LiveStep ==
    ASSUME EffectInv, [Next]_vars
    PROVE  live' \cap Born \subseteq live
<1>1. CASE live' \subseteq live
  BY <1>1
<1>2. ASSUME NEW c \in Client, ConfirmCommit(c)
      PROVE  live' \cap Born \subseteq live
  <2>1. tx[c].pc = "applying" /\ live' \subseteq live \cup Made(tx[c])
    BY <1>2 DEF ConfirmCommit
  <2>2. Made(tx[c]) \cap Born = {}
    BY <2>1, WrittenIs
  <2> QED BY <2>1, <2>2
<1> QED
  BY <1>1, <1>2
     DEF vars, Next, Environment, SetProgress, DirectUpdate, DirectDelete, Request, Statement,
         ProposeStart, ConfirmBegin, RevertBegin, Begin, Reject, ProposeValidate, ProposePersist,
         ConfirmRead, ConfirmCheckProgress, ConfirmMarkFailed, ConfirmApply, ConfirmFails,
         RevertRead, RevertDelete, RevertConflict, RevertReadProgress, RevertCommit, Abandon, Retry

LEMMA NothingLeftStep ==
    ASSUME OneAtATime, UndoneInv, [Next]_vars
    PROVE  NothingLeft'
<1>0. TypeInv /\ AuditInv /\ EffectInv /\ Audited /\ ConfirmIsIdempotent
  BY DEF UndoneInv, SerialInv, RevertInv, AuditInv
<1> SUFFICES ASSUME NEW k \in ChangeSetId, changeSet'[k].status = "reverted",
                    NEW i \in CreatedRevisions(k)'
             PROVE  Names(revisions'[i]) \cap live' = {}
  BY DEF NothingLeft, CreatedRevisions
<1>1. i \in CreatedRevisions(k) /\ revisions'[i] = revisions[i]
  <2>1. i \in CreatedRevisions(k)
    <3>1. CASE \A c \in Client : ~ConfirmCommit(c) /\ ~RevertCommit(c)
      <4>1. UNCHANGED revisions
        BY <1>0, <3>1, Unlogged
      <4> QED BY <4>1 DEF CreatedRevisions
    <3>2. ASSUME NEW c \in Client, ConfirmCommit(c)
          PROVE  i \in CreatedRevisions(k)
      <4> DEFINE n == Len(revisions) + 1
      <4>1. CreatedRevisions(k)' = CreatedRevisions(k) \cup (IF k = tx[c].cs THEN {n} ELSE {})
        BY <1>0, <3>2, CommitLogs, LogAdds
      <4>2. tx[c].cs # k
        BY <1>0, <3>2 DEF ConfirmCommit, TypeInv, TypeOK, ChangeSetType
      <4> QED BY <4>1, <4>2
    <3>3. ASSUME NEW c \in Client, RevertCommit(c), changeSet[tx[c].cs].status = "applied"
          PROVE  i \in CreatedRevisions(k)
      <4>1. LogRevision(tx[c], "Reverted", {}) /\ {} \in SUBSET OpType /\ tx[c].pc # "idle"
        BY <3>3 DEF RevertCommit
      <4>2. CreatedRevisions(k)' = CreatedRevisions(k) \cup
               (IF k = tx[c].cs /\ "Reverted" = "Created" THEN {Len(revisions) + 1} ELSE {})
        BY <1>0, <4>1, LogAdds, Zenon
      <4> QED BY <4>2
    <3>4. ASSUME NEW c \in Client, RevertCommit(c), changeSet[tx[c].cs].status # "applied"
          PROVE  i \in CreatedRevisions(k)
      BY <3>4 DEF RevertCommit, CreatedRevisions
    <3> QED BY <3>1, <3>2, <3>3, <3>4
  <2> QED BY <1>0, <2>1, LogStays DEF CreatedRevisions
<1>2. Names(revisions[i]) \subseteq Born
  BY <1>0, <1>1 DEF Audited, CreatedRevisions
<1>3. CASE changeSet[k].status = "reverted"
  <2>1. Names(revisions[i]) \cap live = {}
    BY <1>1, <1>3 DEF UndoneInv, NothingLeft
  <2> QED BY <1>0, <1>1, <1>2, <2>1, LiveStep
<1>4. CASE changeSet[k].status # "reverted"
  <2>1. PICK c \in Client : RevertCommit(c) /\ tx[c].cs = k /\ changeSet[k].status = "applied"
    BY <1>0, <1>4, OnlyRevertReverts
  <2> DEFINE t == tx[c]
  <2>2. t.pc = "undone" /\ live' = live \ Deleted(t)
    BY <2>1 DEF RevertCommit
  <2>3. changeSet[k].revision = i
    BY <1>0, <1>1, <2>1 DEF AuditInv, AuditLinks, ConfirmIsIdempotent
  <2>4. /\ DOMAIN revisions[i].affected = 1 .. Len(t.ops)
        /\ \A j \in DOMAIN revisions[i].affected :
              t.ops[j] = [type |-> "delete_node", targets |-> {revisions[i].affected[j]}]
        /\ \A j \in Steps(t) : t.made[j] = revisions[i].affected[j]
        /\ Len(t.made) = Len(t.ops)
    BY <2>1, <2>2, <2>3 DEF UndoneInv, AllRevertsAll, RevertsAll, Reverts
  <2> HIDE DEF t
  <2>5. \A j \in DOMAIN revisions[i].affected :
           j \in Steps(t) /\ t.ops[j].type \in Deletes /\ t.made[j] = revisions[i].affected[j]
    <3>1. Steps(t) = DOMAIN revisions[i].affected
      BY <2>4 DEF Steps
    <3>2. ASSUME NEW j \in DOMAIN revisions[i].affected
          PROVE  t.ops[j].type = "delete_node"
      <4>1. t.ops[j] = [type |-> "delete_node", targets |-> {revisions[i].affected[j]}]
        BY <2>4
      <4> QED BY <4>1
    <3> QED BY <2>4, <3>1, <3>2 DEF Deletes
  <2>6. Names(revisions[i]) \subseteq Deleted(t)
    BY <2>5 DEF Names, Deleted
  <2> QED BY <1>1, <2>2, <2>6
<1> QED BY <1>3, <1>4

\* After a revert nothing that the ChangeSet created, as its Created revision names
\* it, is in the graph, and nothing ever comes back: when the requests of the server
\* do not overlap, whatever fails, is retried or is edited by hand in between.
THEOREM SerialRevertIsComplete ==
    ASSUME OneAtATime
    PROVE  Spec => []RevertedLeavesNothing
<1>1. UndoneInv /\ [Next]_vars => UndoneInv'
  <2> SUFFICES ASSUME UndoneInv, [Next]_vars PROVE UndoneInv'
    OBVIOUS
  <2>1. SerialInv /\ RevertInv /\ EffectInv /\ Audited
    BY DEF UndoneInv, SerialInv
  <2> QED BY <2>1, SerialStep, RevertStep, AuditedStep, RevertsAllStep, NothingLeftStep
          DEF UndoneInv
<1>2. UndoneInv => RevertedLeavesNothing
  BY DEF UndoneInv, NothingLeft, RevertedLeavesNothing, Names
<1> QED BY <1>1, <1>2, UndoneInit, PTL DEF Spec

=============================================================================
