--------------------------- MODULE ChatTurnProofs ---------------------------
(***************************************************************************)
(* What module ChatTurn keeps for any number of turns, browsers, episodes  *)
(* and permits.                                                            *)
(*                                                                         *)
(* The progress record is used through its own actions only, so its        *)
(* invariant is that of ProgressProofs, and every step here but a crash is *)
(* a step of Progress or leaves it alone.                                  *)
(***************************************************************************)
EXTENDS ChatTurn, FiniteSetTheorems, TLAPS

PP == INSTANCE ProgressProofs

Pcs == {"new", "checking", "checked", "over"} \cup Running
TurnType == [pc : Pcs, boundary : 0 .. MaxOrder, knows : 0 .. MaxOrder]

MessageType ==
    /\ session \in BOOLEAN
    /\ asked \in [Turn -> {"none", "pending", "completed", "failed"}]
    /\ answer \in [Turn -> [snapshot : 0 .. MaxOrder, knows : 0 .. MaxOrder]]

Typed ==
    /\ turn \in [Turn -> TurnType]
    /\ slots \in {0, 1}
    /\ {permits, others} \subseteq Nat
    /\ MessageType

\* Nobody but a turn takes the slot.
SlotHasTurn == slots # 0 => Turn # {}

\* A running turn has the slot; only OneGeneration makes giving it back safe.
SlotTaken == \A t \in Turn : turn[t].pc \in Running => slots = 1

\* Past its resolve a turn has a boundary, and a boundary and whatever the turn
\* knows were confirmed.
Resolved ==
    \A t \in Turn :
        /\ turn[t].pc \in InTry \ {"boundary"} => turn[t].boundary # 0
        /\ turn[t].boundary # 0 => \E o \in confirmed : turn[t].boundary <= o
        /\ turn[t].knows # 0 => \E o \in confirmed : turn[t].knows <= o

\* The answer of a turn about to be marked is stored, unless the session is
\* gone, and nothing else follows a failure.
Settles ==
    \A t \in Turn :
        /\ turn[t].pc = "mark" /\ asked[t] # "none" => answer[t] # NoAnswer
        /\ asked[t] = "failed" => turn[t].pc = "over"

Inv ==
    /\ PP!Inv
    /\ Typed
    /\ SlotHasTurn
    /\ SlotTaken
    /\ OneGeneration
    /\ PermitsAccounted
    /\ Resolved
    /\ AnswersWithinConfirmed
    /\ Settles
    /\ CompletedIsAnswered

-----------------------------------------------------------------------------
(* The progress record.                                                    *)

LEMMA EpisodesAreOrders == PP!ProgressAssumption
BY ChatAssumption DEF PP!ProgressAssumption, PP!Order, P!Order

\* The actions ChatTurn composes are those ProgressProofs is about.
LEMMA SameActions ==
    ASSUME NEW c
    PROVE  /\ \A req : P!StartUpsert(c, req) <=> PP!StartUpsert(c, req)
           /\ \A b : P!StartResolve(c, b) <=> PP!StartResolve(c, b)
           /\ P!Abandon(c) <=> PP!Abandon(c)
           /\ P!Continue(c) <=> PP!Continue(c)
<1> USE DEF P!Idle, PP!Idle, P!NoRequest, PP!NoRequest, P!Null, PP!Null
<1>1. P!Migrated = PP!Migrated
  BY DEF P!Migrated, PP!Migrated
<1>2. P!NoRecord = PP!NoRecord
  BY DEF P!NoRecord, PP!NoRecord
<1>3. /\ \A req : P!StartUpsert(c, req) <=> PP!StartUpsert(c, req)
      /\ \A b : P!StartResolve(c, b) <=> PP!StartResolve(c, b)
      /\ P!Abandon(c) <=> PP!Abandon(c)
  BY <1>1 DEF P!StartUpsert, PP!StartUpsert, P!StartResolve, PP!StartResolve,
              P!Abandon, PP!Abandon
<1>4. \A req : /\ P!Accepted(req) <=> PP!Accepted(req)
               /\ P!NewWatched(req) = PP!NewWatched(req)
               /\ P!NewView(req) = PP!NewView(req)
               /\ P!Confirms(req) = PP!Confirms(req)
  BY <1>2 DEF P!Accepted, PP!Accepted, P!NewWatched, PP!NewWatched, P!NewView,
              PP!NewView, P!ViewOnly, PP!ViewOnly, P!Confirms, PP!Confirms
<1>5. P!FindExisting(c) <=> PP!FindExisting(c)
  BY <1>4 DEF P!FindExisting, PP!FindExisting
<1>6. P!Refuse(c) <=> PP!Refuse(c)
  BY <1>4 DEF P!Refuse, PP!Refuse
<1>7. /\ P!Save(c) <=> PP!Save(c)
      /\ P!Resolve(c) <=> PP!Resolve(c)
      /\ P!NotFound(c) <=> PP!NotFound(c)
      /\ P!StartCreate(c) <=> PP!StartCreate(c)
  BY <1>1, <1>2 DEF P!Save, PP!Save, P!Saved, PP!Saved, P!HasRead,
        PP!HasRead, P!Resolve, PP!Resolve,
        P!EffectiveViewOrder, PP!EffectiveViewOrder, P!NotFound, PP!NotFound,
        P!StartCreate, PP!StartCreate, P!FirstRequest, PP!FirstRequest
<1> QED BY <1>3, <1>5, <1>6, <1>7 DEF P!Continue, PP!Continue

\* What the rest of this module uses of ProgressProofs.
LEMMA ProgressMoves ==
    ASSUME PP!Inv, PP!Next \/ UNCHANGED progressVars
    PROVE  PP!Inv' /\ confirmed \subseteq confirmed'
<1>1. [PP!Next]_(PP!vars)
  BY DEF progressVars, PP!vars
<1>2. PP!Inv'
  BY <1>1, EpisodesAreOrders, PP!StepInv
<1>3. confirmed \subseteq confirmed'
  BY DEF PP!Next, PP!StartUpsert, PP!StartResolve, PP!Continue, PP!FindExisting,
         PP!Refuse, PP!Save, PP!Resolve, PP!NotFound, PP!StartCreate, PP!Abandon,
         progressVars
<1> QED BY <1>2, <1>3

LEMMA ProgressCrash ==
    ASSUME PP!Inv, Crash
    PROVE  PP!Inv' /\ confirmed \subseteq confirmed'
<1>1. tx' = [c \in Client |-> PP!Idle] /\ UNCHANGED <<record, told, confirmed>>
  BY DEF Crash, P!Idle, PP!Idle, P!NoRequest, PP!NoRequest, P!Null, PP!Null
<1>2. PP!TypeOK'
  BY <1>1, EpisodesAreOrders, PP!IdleType DEF PP!Inv, PP!TypeOK, PP!TxType
<1>3. PP!Migrates' /\ PP!SavesValid'
  BY <1>1 DEF PP!Migrates, PP!SavesValid, PP!Idle
<1>4. PP!RecordValid' /\ PP!RecordConfirmed' /\ PP!BoundaryWasConfirmed'
  BY <1>1 DEF PP!Inv, PP!RecordValid, PP!RecordConfirmed, PP!BoundaryWasConfirmed,
              PP!IsSplit
<1> QED BY <1>1, <1>2, <1>3, <1>4 DEF PP!Inv

LEMMA ProgressStep ==
    ASSUME PP!Inv, [Next]_vars
    PROVE  PP!Inv' /\ confirmed \subseteq confirmed'
<1> USE ChatAssumption
<1>1. CASE UNCHANGED progressVars
  BY <1>1, ProgressMoves
<1>2. ASSUME NEW t \in Turn, Check(t) \/ Begin(t) \/ StartGrounding(t)
      PROVE  PP!Next
  BY <1>2, SameActions DEF Check, Begin, StartGrounding, PP!Next
<1>3. ASSUME NEW t \in Turn, Checking(t) \/ ResolveBoundary(t) \/ Ground(t)
      PROVE  PP!Next
  BY <1>3, SameActions DEF Checking, ResolveBoundary, Ground, ResolveStep, PP!Next
<1>4. ASSUME NEW t \in Turn, Break(t) \/ CancelCheck(t)
      PROVE  PP!Next \/ UNCHANGED progressVars
  BY <1>4, SameActions DEF Break, CancelCheck, PP!Next
<1>5. CASE Browse
  <2>1. Requests \subseteq PP!ProgressUpdateRequest
    BY DEF P!ProgressUpdateRequest, PP!ProgressUpdateRequest, P!Null, PP!Null,
           P!Order, PP!Order
  <2> QED BY <1>5, <2>1, SameActions, ProgressMoves DEF Browse, PP!Next
<1>6. ASSUME NEW t \in Turn,
             \/ CheckMissing(t) \/ Send(t) \/ TooManyRequests(t) \/ ReadHistory(t)
             \/ Ask(t) \/ Generate(t) \/ StoreAnswer(t) \/ MarkCompleted(t)
             \/ TurnCompleted(t) \/ Deliver(t) \/ CancelQueued(t)
      PROVE  UNCHANGED progressVars
  BY <1>6 DEF CheckMissing, Send, TooManyRequests, ReadHistory, Ask, Generate,
              StoreAnswer, MarkCompleted, TurnCompleted, Deliver, CancelQueued
<1>7. CASE DeleteSession \/ OtherBegins \/ OtherEnds
  BY <1>1, <1>7 DEF DeleteSession, OtherBegins, OtherEnds
<1>8. CASE UNCHANGED vars
  BY <1>1, <1>8 DEF vars
<1> QED BY <1>2, <1>3, <1>4, <1>5, <1>6, <1>7, <1>8, ProgressMoves, ProgressCrash
           DEF Next, Step
-----------------------------------------------------------------------------
(* Types.                                                                  *)

LEMMA OrderRange ==
    /\ PP!Order \cup {PP!Null} = 0 .. MaxOrder
    /\ 0 .. MaxOrder \subseteq Nat
BY ChatAssumption DEF PP!Order, PP!Null

\* What a resolve tells a turn was confirmed.
LEMMA ToldIsConfirmed ==
    ASSUME PP!Inv', NEW t \in Turn
    PROVE  /\ told'[t] \in 0 .. MaxOrder
           /\ told'[t] # 0 => \E o \in confirmed' : told'[t] <= o
           /\ confirmed' \subseteq Nat
BY ChatAssumption, OrderRange
   DEF PP!Inv, PP!TypeOK, PP!BoundaryWasConfirmed, PP!Null, PP!Order

LEMMA RestingTurns ==
    /\ NewTurn \in TurnType /\ Over \in TurnType
    /\ Over = [pc |-> "over", boundary |-> 0, knows |-> 0]
    /\ "over" \notin Running /\ "new" \notin Running
    /\ "checked" \notin Running /\ "checking" \notin Running
    /\ InTry \subseteq Running /\ Queued \subseteq Running
BY ChatAssumption DEF NewTurn, Over, TurnType, Pcs, Running, InTry, Queued

\* A turn that only moves on keeps its type.
LEMMA MovesOn ==
    ASSUME Typed, NEW t \in Turn, NEW pc \in Pcs
    PROVE  /\ [turn EXCEPT ![t].pc = pc] \in [Turn -> TurnType]
           /\ [turn EXCEPT ![t].pc = pc][t].pc = pc
           /\ \A s \in Turn \ {t} : [turn EXCEPT ![t].pc = pc][s] = turn[s]
BY DEF Typed, TurnType

LEMMA ResolveType ==
    ASSUME Typed, PP!Inv', NEW t \in Turn, NEW from \in {"checking", "boundary", "grounding"},
           NEW pc \in {"over", "checked", "history", "generate"}, ResolveStep(t, from, pc)
    PROVE  /\ turn' \in [Turn -> TurnType]
           /\ UNCHANGED <<others, messageVars>>
<1> DEFINE pcNew == IF tx'[t].pc = "idle" THEN pc ELSE turn[t].pc
           bNew == IF from = "boundary" THEN told'[t] ELSE turn[t].boundary
           kNew == IF from = "grounding" /\ told'[t] > turn[t].knows
                   THEN told'[t] ELSE turn[t].knows
<1>1. told'[t] \in 0 .. MaxOrder
  BY ToldIsConfirmed
<1>2. turn[t] \in TurnType
  BY DEF Typed
<1>3. pcNew \in Pcs /\ bNew \in 0 .. MaxOrder /\ kNew \in 0 .. MaxOrder
  BY <1>1, <1>2 DEF TurnType, Pcs, Running, InTry
<1>4. turn' = [turn EXCEPT ![t].pc = pcNew, ![t].boundary = bNew, ![t].knows = kNew]
  BY DEF ResolveStep
<1> HIDE DEF pcNew, bNew, kNew
<1>5. [turn[t] EXCEPT !.pc = pcNew, !.boundary = bNew, !.knows = kNew] \in TurnType
  BY <1>2, <1>3 DEF TurnType
<1>6. turn' = [turn EXCEPT ![t] = [turn[t] EXCEPT !.pc = pcNew, !.boundary = bNew,
                                                  !.knows = kNew]]
  BY <1>4 DEF Typed
<1>7. turn' \in [Turn -> TurnType]
  BY <1>5, <1>6 DEF Typed
<1> QED BY <1>7 DEF ResolveStep

LEMMA MessagesTyped ==
    ASSUME Typed, Next
    PROVE  MessageType'
<1> USE DEF Typed, MessageType
<1>1. ASSUME NEW t \in Turn, Ask(t) \/ MarkCompleted(t)
      PROVE  MessageType'
  BY <1>1 DEF Ask, MarkCompleted
<1>2. ASSUME NEW t \in Turn, StoreAnswer(t)
      PROVE  MessageType'
  BY <1>2 DEF StoreAnswer, TurnType
<1>3. ASSUME NEW t \in Turn, Break(t)
      PROVE  MessageType'
  BY <1>3 DEF Break, FailedStatus
<1>4. CASE DeleteSession
  <2>1. NoAnswer \in [snapshot : 0 .. MaxOrder, knows : 0 .. MaxOrder]
    BY ChatAssumption DEF NoAnswer
  <2> QED BY <1>4, <2>1 DEF DeleteSession
<1>5. CASE UNCHANGED messageVars
  BY <1>5 DEF messageVars
<1> HIDE DEF Typed, MessageType
<1>6. ASSUME NEW t \in Turn,
             \/ Check(t) \/ CheckMissing(t) \/ Send(t) \/ TooManyRequests(t) \/ Begin(t)
             \/ Checking(t) \/ ResolveBoundary(t) \/ ReadHistory(t) \/ StartGrounding(t)
             \/ Ground(t) \/ Generate(t) \/ TurnCompleted(t) \/ Deliver(t)
             \/ CancelQueued(t) \/ CancelCheck(t)
      PROVE  UNCHANGED messageVars
  BY <1>6 DEF Check, CheckMissing, Send, TooManyRequests, Begin, Checking,
              ResolveBoundary, ReadHistory, StartGrounding, Ground, Generate,
              TurnCompleted, Deliver, CancelQueued, CancelCheck, ResolveStep
<1>7. CASE OtherBegins \/ OtherEnds \/ Browse \/ Crash
  BY <1>5, <1>7 DEF OtherBegins, OtherEnds, Browse, Crash
<1> QED BY <1>1, <1>2, <1>3, <1>4, <1>5, <1>6, <1>7 DEF Next, Step

LEMMA TurnTyped ==
    ASSUME Typed, PP!Inv', Next
    PROVE  turn' \in [Turn -> TurnType]
<1> USE RestingTurns DEF Typed, MessageType
<1>1. ASSUME NEW t \in Turn, Checking(t) \/ ResolveBoundary(t) \/ Ground(t)
      PROVE  turn' \in [Turn -> TurnType]
  BY <1>1, ResolveType DEF Checking, ResolveBoundary, Ground
<1>2. ASSUME NEW t \in Turn, ReadHistory(t)
      PROVE  turn' \in [Turn -> TurnType]
  <2>1. PICK k \in {0} \cup {answer[s].knows : s \in Visible(turn[t].boundary)} :
           turn' = [turn EXCEPT ![t].pc = "ask", ![t].knows = k]
    BY <1>2 DEF ReadHistory
  <2>2. k \in 0 .. MaxOrder
    BY ChatAssumption DEF Visible
  <2>3. turn' = [turn EXCEPT ![t] = [turn[t] EXCEPT !.pc = "ask", !.knows = k]]
    BY <2>1
  <2>4. [turn[t] EXCEPT !.pc = "ask", !.knows = k] \in TurnType
    BY <2>2 DEF TurnType, Pcs, Running, InTry
  <2> QED BY <2>3, <2>4
<1>3. ASSUME NEW t \in Turn,
             \/ Check(t) \/ Send(t) \/ Begin(t) \/ Ask(t) \/ StartGrounding(t)
             \/ Generate(t) \/ StoreAnswer(t) \/ MarkCompleted(t) \/ TurnCompleted(t)
      PROVE  turn' \in [Turn -> TurnType]
  <2>1. PICK pc \in {"checking", "queued", "boundary", "resolve", "grounding", "store",
                     "mark", "marked", "deliver"} :
           turn' = [turn EXCEPT ![t].pc = pc]
    BY <1>3 DEF Check, Send, Begin, Ask, StartGrounding, Generate, StoreAnswer,
                MarkCompleted, TurnCompleted
  <2>2. pc \in Pcs
    BY DEF Pcs, Running, InTry, Queued
  <2> QED BY <2>1, <2>2, MovesOn
<1>4. ASSUME NEW t \in Turn,
             \/ CheckMissing(t) \/ TooManyRequests(t) \/ Deliver(t) \/ Break(t)
             \/ CancelQueued(t) \/ CancelCheck(t)
      PROVE  turn' \in [Turn -> TurnType]
  BY <1>4 DEF CheckMissing, TooManyRequests, Deliver, Break, CancelQueued, CancelCheck
<1>5. CASE DeleteSession \/ OtherBegins \/ OtherEnds \/ Browse \/ Crash
  BY <1>5 DEF DeleteSession, OtherBegins, OtherEnds, Browse, Crash
<1> QED BY <1>1, <1>2, <1>3, <1>4, <1>5 DEF Next, Step

-----------------------------------------------------------------------------
(* The user's slot and the process's permits.                              *)

\* A step either takes the free slot, or gives one back with the only turn that
\* runs, or keeps both as they are.
LEMMA SlotStep ==
    ASSUME Typed, SlotTaken, OneGeneration, Next
    PROVE  slots' \in {0, 1} /\ SlotTaken' /\ OneGeneration'
<1> USE RestingTurns DEF Typed, SlotTaken, OneGeneration
<1>1. ASSUME NEW t \in Turn, Send(t)
      PROVE  slots' \in {0, 1} /\ SlotTaken' /\ OneGeneration'
  <2>1. \A s \in Turn : turn[s].pc \notin Running
    BY <1>1 DEF Send
  <2>2. slots' = 1 /\ turn' = [turn EXCEPT ![t].pc = "queued"]
    BY <1>1 DEF Send
  <2> QED BY <2>1, <2>2
<1>2. ASSUME NEW t \in Turn, turn[t].pc \in Running, turn' = [turn EXCEPT ![t] = Over],
             slots' = IF slots > 0 THEN slots - 1 ELSE slots
      PROVE  slots' \in {0, 1} /\ SlotTaken' /\ OneGeneration'
  <2>1. \A s \in Turn : turn'[s].pc \notin Running
    BY <1>2
  <2>2. slots' = 0
    BY <1>2
  <2> QED BY <2>1, <2>2
<1>3. ASSUME UNCHANGED slots,
             \A t \in Turn : turn'[t].pc \in Running => turn[t].pc \in Running
      PROVE  slots' \in {0, 1} /\ SlotTaken' /\ OneGeneration'
  BY <1>3
<1>4. ASSUME NEW t \in Turn, Deliver(t) \/ Break(t)
      PROVE  slots' \in {0, 1} /\ SlotTaken' /\ OneGeneration'
  BY <1>2, <1>4 DEF Deliver, Break, Release, At, Running, InTry
<1>5. ASSUME NEW t \in Turn, ResolveBoundary(t)
      PROVE  slots' \in {0, 1} /\ SlotTaken' /\ OneGeneration'
  <2>1. turn[t].pc = "boundary" /\ turn[t].pc \in Running
    BY <1>5 DEF ResolveBoundary, ResolveStep, At, Running, InTry
  <2>2. CASE turn'[t].pc = "over"
    <3>1. \A s \in Turn : turn'[s].pc \notin Running
      BY <1>5, <2>1, <2>2 DEF ResolveBoundary, ResolveStep
    <3>2. slots' = 0
      BY <1>5, <2>1, <2>2 DEF ResolveBoundary, Release
    <3> QED BY <3>1, <3>2
  <2>3. CASE turn'[t].pc # "over"
    <3>1. \A s \in Turn : turn'[s].pc \in Running => turn[s].pc \in Running
      BY <1>5, <2>1 DEF ResolveBoundary, ResolveStep
    <3> QED BY <1>3, <1>5, <2>3, <3>1 DEF ResolveBoundary
  <2> QED BY <2>2, <2>3
<1>6. ASSUME NEW t \in Turn, Checking(t) \/ Ground(t)
      PROVE  slots' \in {0, 1} /\ SlotTaken' /\ OneGeneration'
  <2>1. turn'[t].pc \in {"over", "checked", turn[t].pc} \/ turn[t].pc = "grounding"
    BY <1>6 DEF Checking, Ground, ResolveStep, At, TurnType
  <2>2. turn'[t].pc \in Running => turn[t].pc \in Running
    BY <2>1 DEF Running, InTry, Queued
  <2>3. UNCHANGED slots /\ \A s \in Turn \ {t} : turn'[s] = turn[s]
    BY <1>6 DEF Checking, Ground, ResolveStep
  <2> QED BY <1>3, <2>2, <2>3
<1>7. ASSUME NEW t \in Turn,
             \/ Begin(t) \/ ReadHistory(t) \/ Ask(t) \/ StartGrounding(t) \/ Generate(t)
             \/ StoreAnswer(t) \/ MarkCompleted(t) \/ TurnCompleted(t)
      PROVE  slots' \in {0, 1} /\ SlotTaken' /\ OneGeneration'
  <2>1. /\ UNCHANGED slots
        /\ turn[t].pc \in Running
        /\ \A s \in Turn \ {t} : turn'[s] = turn[s]
    BY <1>7 DEF Begin, ReadHistory, Ask, StartGrounding, Generate, StoreAnswer,
                MarkCompleted, TurnCompleted, At, Running, InTry, Queued
  <2> QED BY <1>3, <2>1
<1>8. ASSUME NEW t \in Turn,
             \/ Check(t) \/ CheckMissing(t) \/ TooManyRequests(t) \/ CancelQueued(t)
             \/ CancelCheck(t)
      PROVE  slots' \in {0, 1} /\ SlotTaken' /\ OneGeneration'
  <2>1. /\ UNCHANGED slots
        /\ turn' = [turn EXCEPT ![t].pc = "checking"] \/ turn' = [turn EXCEPT ![t] = Over]
    BY <1>8 DEF Check, CheckMissing, TooManyRequests, CancelQueued, CancelCheck
  <2>2. CASE turn' = [turn EXCEPT ![t].pc = "checking"]
    BY <1>3, <2>1, <2>2 DEF TurnType
  <2>3. CASE turn' = [turn EXCEPT ![t] = Over]
    BY <1>3, <2>1, <2>3
  <2> QED BY <2>1, <2>2, <2>3
<1>9. CASE DeleteSession \/ OtherBegins \/ OtherEnds \/ Browse
  BY <1>3, <1>9 DEF DeleteSession, OtherBegins, OtherEnds, Browse
<1>10. CASE Crash
  BY <1>10 DEF Crash, At
<1> QED BY <1>1, <1>4, <1>5, <1>6, <1>7, <1>8, <1>9, <1>10 DEF Next, Step

\* The turns that hold a permit.
Holders == {t \in Turn : turn[t].pc \in InTry}

LEMMA Counting ==
    /\ IsFiniteSet(Holders) /\ Cardinality(Holders) \in Nat
    /\ \A t \in Turn \ Holders :
         Cardinality(Holders \cup {t}) = Cardinality(Holders) + 1
    /\ \A t \in Holders :
         /\ Cardinality(Holders \ {t}) = Cardinality(Holders) - 1
         /\ Cardinality(Holders) > 0
<1>1. IsFiniteSet(Holders)
  BY ChatAssumption, FS_Subset DEF Holders
<1> HIDE DEF Holders
<1>2. Cardinality(Holders) \in Nat
  BY <1>1, FS_CardinalityType
<1>3. ASSUME NEW t \in Turn \ Holders
      PROVE  Cardinality(Holders \cup {t}) = Cardinality(Holders) + 1
  BY <1>1, <1>3, FS_AddElement
<1>4. ASSUME NEW t \in Holders
      PROVE  Cardinality(Holders \ {t}) = Cardinality(Holders) - 1
  BY <1>1, <1>4, FS_RemoveElement
<1>5. ASSUME NEW t \in Holders
      PROVE  Cardinality(Holders) > 0
  <2>1. Cardinality(Holders) # 0
    BY <1>1, <1>5, FS_EmptySet
  <2> QED BY <1>2, <2>1
<1> QED BY <1>1, <1>2, <1>3, <1>4, <1>5

\* Each permit is with a holder, with another user or free; a turn enters and
\* leaves the holders as it takes and returns its permit.
LEMMA PermitStep ==
    ASSUME Typed, PermitsAccounted, Next
    PROVE  {permits', others'} \subseteq Nat /\ PermitsAccounted'
<1>a. permits \in Nat /\ others \in Nat /\ turn \in [Turn -> TurnType]
  BY DEF Typed
<1>b. PermitsAccounted <=> permits + others + Cardinality(Holders) = MaxPermits
  BY DEF PermitsAccounted, Holders
<1>c. PermitsAccounted' <=> permits' + others' + Cardinality(Holders') = MaxPermits
  BY DEF PermitsAccounted, Holders
<1>d. "over" \notin InTry /\ "new" \notin InTry /\ "checking" \notin InTry
      /\ "checked" \notin InTry /\ "queued" \notin InTry /\ "boundary" \in InTry
  BY DEF InTry
<1> HIDE DEF Holders
<1>1. ASSUME NEW t \in Turn, Begin(t)
      PROVE  {permits', others'} \subseteq Nat /\ PermitsAccounted'
  <2>1. turn' = [turn EXCEPT ![t].pc = "boundary"] /\ turn[t].pc = "queued"
        /\ permits' = permits - 1 /\ permits > 0 /\ others' = others
    BY <1>1 DEF Begin, At
  <2>2. turn'[t].pc = "boundary" /\ \A s \in Turn \ {t} : turn'[s] = turn[s]
    BY <1>a, <2>1 DEF TurnType
  <2>3. Holders' = Holders \cup {t} /\ t \notin Holders
    BY <1>d, <2>1, <2>2 DEF Holders
  <2> QED BY <1>a, <1>b, <1>c, <2>1, <2>3, Counting
<1>2. ASSUME NEW t \in Turn, turn[t].pc \in InTry, turn'[t].pc = "over",
             \A s \in Turn \ {t} : turn'[s] = turn[s],
             permits' = permits + 1, others' = others
      PROVE  {permits', others'} \subseteq Nat /\ PermitsAccounted'
  <2>1. Holders' = Holders \ {t} /\ t \in Holders
    BY <1>2, <1>d DEF Holders
  <2> QED BY <1>a, <1>b, <1>c, <1>2, <2>1, Counting
<1>3. ASSUME \A t \in Turn : turn'[t].pc \in InTry <=> turn[t].pc \in InTry,
             permits' \in Nat, others' \in Nat, permits' + others' = permits + others
      PROVE  {permits', others'} \subseteq Nat /\ PermitsAccounted'
  <2>1. Holders' = Holders
    BY <1>3 DEF Holders
  <2> QED BY <1>a, <1>b, <1>c, <1>3, <2>1
<1>4. ASSUME NEW t \in Turn, Deliver(t) \/ Break(t)
      PROVE  {permits', others'} \subseteq Nat /\ PermitsAccounted'
  <2>1. turn' = [turn EXCEPT ![t] = Over] /\ turn[t].pc \in InTry
        /\ permits' = permits + 1 /\ others' = others
    BY <1>4 DEF Deliver, Break, Release, At, InTry
  <2> QED BY <1>2, <1>a, <2>1, RestingTurns
<1>5. ASSUME NEW t \in Turn, ResolveBoundary(t)
      PROVE  {permits', others'} \subseteq Nat /\ PermitsAccounted'
  <2>1. turn[t].pc = "boundary" /\ others' = others
        /\ \A s \in Turn \ {t} : turn'[s] = turn[s]
    BY <1>5, <1>a DEF ResolveBoundary, ResolveStep, At
  <2>2. turn'[t].pc \in {"over", "history", "boundary"}
    BY <1>5, <1>a, <2>1 DEF ResolveBoundary, ResolveStep, TurnType
  <2>3. CASE turn'[t].pc = "over"
    BY <1>2, <1>5, <1>d, <2>1, <2>3 DEF ResolveBoundary, Release
  <2>4. CASE turn'[t].pc # "over"
    <3>1. turn'[t].pc \in InTry /\ UNCHANGED permits
      BY <1>5, <2>2, <2>4 DEF ResolveBoundary, InTry
    <3> QED BY <1>3, <1>a, <1>d, <2>1, <3>1
  <2> QED BY <2>3, <2>4
<1>6. ASSUME NEW t \in Turn, Checking(t) \/ Ground(t)
      PROVE  {permits', others'} \subseteq Nat /\ PermitsAccounted'
  <2>1. \/ /\ turn[t].pc = "checking"
           /\ turn'[t].pc \in {"checking", "over", "checked"}
        \/ /\ turn[t].pc = "grounding"
           /\ turn'[t].pc \in {"grounding", "generate"}
    BY <1>6, <1>a DEF Checking, Ground, ResolveStep, At, TurnType
  <2>2. UNCHANGED <<permits, others>> /\ \A s \in Turn \ {t} : turn'[s] = turn[s]
    BY <1>6, <1>a DEF Checking, Ground, ResolveStep
  <2>3. turn'[t].pc \in InTry <=> turn[t].pc \in InTry
    BY <2>1 DEF InTry
  <2> QED BY <1>3, <1>a, <2>2, <2>3
<1>7. ASSUME NEW t \in Turn,
             \/ ReadHistory(t) \/ Ask(t) \/ StartGrounding(t) \/ Generate(t)
             \/ StoreAnswer(t) \/ MarkCompleted(t) \/ TurnCompleted(t)
      PROVE  {permits', others'} \subseteq Nat /\ PermitsAccounted'
  <2>1. UNCHANGED <<permits, others>> /\ \A s \in Turn \ {t} : turn'[s] = turn[s]
    BY <1>7, <1>a DEF ReadHistory, Ask, StartGrounding, Generate, StoreAnswer,
                      MarkCompleted, TurnCompleted
  <2>2. turn[t].pc \in {"history", "ask", "resolve", "generate", "store", "mark", "marked"}
    BY <1>7 DEF ReadHistory, Ask, StartGrounding, Generate, StoreAnswer,
                MarkCompleted, TurnCompleted, At
  <2>3. turn'[t].pc \in {"ask", "resolve", "grounding", "store", "mark", "marked", "deliver"}
    <3> USE <1>a DEF TurnType
    <3>1. ASSUME ReadHistory(t)
          PROVE  turn'[t].pc = "ask"
      BY <3>1 DEF ReadHistory
    <3>2. ASSUME Ask(t) \/ StartGrounding(t) \/ Generate(t)
          PROVE  turn'[t].pc \in {"resolve", "grounding", "store"}
      BY <3>2 DEF Ask, StartGrounding, Generate
    <3>3. ASSUME StoreAnswer(t) \/ MarkCompleted(t) \/ TurnCompleted(t)
          PROVE  turn'[t].pc \in {"mark", "marked", "deliver"}
      BY <3>3 DEF StoreAnswer, MarkCompleted, TurnCompleted
    <3> QED BY <1>7, <3>1, <3>2, <3>3
  <2>4. turn[t].pc \in InTry /\ turn'[t].pc \in InTry
    BY <2>2, <2>3 DEF InTry
  <2> QED BY <1>3, <1>a, <2>1, <2>4
<1>8. ASSUME NEW t \in Turn,
             \/ Check(t) \/ CheckMissing(t) \/ Send(t) \/ TooManyRequests(t)
             \/ CancelQueued(t) \/ CancelCheck(t)
      PROVE  {permits', others'} \subseteq Nat /\ PermitsAccounted'
  <2>1. UNCHANGED <<permits, others>> /\ \A s \in Turn \ {t} : turn'[s] = turn[s]
    BY <1>8, <1>a DEF Check, CheckMissing, Send, TooManyRequests, CancelQueued, CancelCheck
  <2>2. turn[t].pc \in {"new", "checked", "queued", "checking"}
    BY <1>8 DEF Check, CheckMissing, Send, TooManyRequests, CancelQueued, CancelCheck, At
  <2>3. turn'[t].pc \in {"checking", "queued", "over"}
    <3> USE <1>a DEF TurnType
    <3>1. ASSUME Check(t) \/ Send(t)
          PROVE  turn'[t].pc \in {"checking", "queued"}
      BY <3>1 DEF Check, Send
    <3>2. ASSUME CheckMissing(t) \/ TooManyRequests(t) \/ CancelQueued(t) \/ CancelCheck(t)
          PROVE  turn'[t].pc = "over"
      BY <3>2, RestingTurns DEF CheckMissing, TooManyRequests, CancelQueued, CancelCheck
    <3> QED BY <1>8, <3>1, <3>2
  <2> QED BY <1>3, <1>a, <1>d, <2>1, <2>2, <2>3
<1>9. CASE OtherBegins \/ OtherEnds
  BY <1>3, <1>9, <1>a DEF OtherBegins, OtherEnds
<1>10. CASE DeleteSession \/ Browse
  BY <1>3, <1>10, <1>a DEF DeleteSession, Browse
<1>11. CASE Crash
  <2>1. Holders' = {}
    BY <1>11, <1>a, <1>d, RestingTurns DEF Crash, Holders, At
  <2>2. Cardinality(Holders') = 0
    BY <2>1, FS_EmptySet
  <2> QED BY <1>11, <1>c, <2>2, ChatAssumption DEF Crash
<1> QED BY <1>1, <1>4, <1>5, <1>6, <1>7, <1>8, <1>9, <1>10, <1>11 DEF Next, Step

-----------------------------------------------------------------------------
(* What answers draw on, and what becomes of questions.                    *)

\* The boundary a turn keeps and what it knows only ever come from a resolve or
\* from answers of this user.
LEMMA ResolvedStep ==
    ASSUME Typed, Resolved, AnswersWithinConfirmed, PP!Inv', Next,
           confirmed \subseteq confirmed'
    PROVE  Resolved'
<1>a. turn \in [Turn -> TurnType]
  BY DEF Typed
<1>b. \A t \in Turn :
        /\ turn[t].pc \in InTry \ {"boundary"} => turn[t].boundary # 0
        /\ turn[t].boundary # 0 => \E o \in confirmed' : turn[t].boundary <= o
        /\ turn[t].knows # 0 => \E o \in confirmed' : turn[t].knows <= o
  BY DEF Resolved
<1>1. ASSUME NEW t \in Turn, \A s \in Turn \ {t} : turn'[s] = turn[s],
             /\ turn'[t].pc \in InTry \ {"boundary"} => turn'[t].boundary # 0
             /\ turn'[t].boundary # 0 => \E o \in confirmed' : turn'[t].boundary <= o
             /\ turn'[t].knows # 0 => \E o \in confirmed' : turn'[t].knows <= o
      PROVE  Resolved'
  BY <1>1, <1>b DEF Resolved
<1>2. ASSUME NEW t \in Turn, \A s \in Turn \ {t} : turn'[s] = turn[s],
             turn'[t].boundary = turn[t].boundary, turn'[t].knows = turn[t].knows,
             turn'[t].pc \in InTry \ {"boundary"} => turn[t].pc \in InTry \ {"boundary"}
      PROVE  Resolved'
  BY <1>1, <1>2, <1>b
<1>3. ASSUME NEW t \in Turn, turn' = [turn EXCEPT ![t] = Over]
      PROVE  Resolved'
  <2>1. turn'[t].pc = "over" /\ turn'[t].boundary = 0 /\ turn'[t].knows = 0
    BY <1>3, <1>a, RestingTurns
  <2> QED BY <1>1, <1>3, <1>a, <2>1 DEF InTry
<1>4. ASSUME NEW t \in Turn, NEW from \in {"checking", "boundary", "grounding"},
             NEW pc, ResolveStep(t, from, pc)
      PROVE  /\ \A s \in Turn \ {t} : turn'[s] = turn[s]
             /\ turn[t].pc = from
             /\ turn'[t].pc = IF tx'[t].pc = "idle" THEN pc ELSE from
             /\ turn'[t].boundary = IF from = "boundary" THEN told'[t] ELSE turn[t].boundary
             /\ turn'[t].knows = IF from = "grounding" /\ told'[t] > turn[t].knows
                                 THEN told'[t] ELSE turn[t].knows
  BY <1>4, <1>a DEF ResolveStep, At, TurnType
<1>5. ASSUME NEW t \in Turn, Checking(t)
      PROVE  Resolved'
  <2> DEFINE pc == IF told'[t] = 0 THEN "over" ELSE "checked"
  <2>1. ResolveStep(t, "checking", pc)
    BY <1>5 DEF Checking
  <2>2. pc \notin InTry /\ "checking" \notin InTry
    BY DEF InTry
  <2> HIDE DEF pc
  <2> QED BY <1>2, <1>4, <2>1, <2>2
<1>6. ASSUME NEW t \in Turn, ResolveBoundary(t)
      PROVE  Resolved'
  <2> DEFINE pc == IF told'[t] = 0 THEN "over" ELSE "history"
  <2>1. ResolveStep(t, "boundary", pc)
    BY <1>6 DEF ResolveBoundary
  <2>2. pc \in InTry => told'[t] # 0
    BY DEF InTry
  <2> HIDE DEF pc
  <2>3. turn'[t].boundary = told'[t] /\ turn'[t].knows = turn[t].knows
    BY <1>4, <2>1
  <2>4. turn'[t].pc \in InTry \ {"boundary"} => turn'[t].boundary # 0
    BY <1>4, <2>1, <2>2, <2>3
  <2> QED BY <1>1, <1>4, <1>b, <2>1, <2>3, <2>4, ToldIsConfirmed
<1>7. ASSUME NEW t \in Turn, Ground(t)
      PROVE  Resolved'
  <2>1. ResolveStep(t, "grounding", "generate")
    BY <1>7 DEF Ground
  <2>2. turn[t].boundary # 0 /\ turn'[t].boundary = turn[t].boundary
    BY <1>4, <1>b, <2>1 DEF InTry
  <2>3. turn'[t].knows = turn[t].knows \/ turn'[t].knows = told'[t]
    BY <1>4, <2>1
  <2> QED BY <1>1, <1>4, <1>b, <2>1, <2>2, <2>3, ToldIsConfirmed
<1>8. ASSUME NEW t \in Turn, ReadHistory(t)
      PROVE  Resolved'
  <2>1. PICK k \in {0} \cup {answer[s].knows : s \in Visible(turn[t].boundary)} :
           turn' = [turn EXCEPT ![t].pc = "ask", ![t].knows = k]
    BY <1>8 DEF ReadHistory
  <2>2. k # 0 => \E o \in confirmed' : k <= o
    BY DEF Visible, AnswersWithinConfirmed
  <2>3. /\ turn'[t].boundary = turn[t].boundary /\ turn'[t].knows = k
        /\ \A s \in Turn \ {t} : turn'[s] = turn[s]
    BY <1>a, <2>1 DEF TurnType
  <2>4. turn[t].boundary # 0
    BY <1>8, <1>b DEF ReadHistory, At, InTry
  <2> QED BY <1>1, <1>b, <2>2, <2>3, <2>4
<1>9. ASSUME NEW t \in Turn, Check(t) \/ Send(t) \/ Begin(t)
      PROVE  Resolved'
  <2>1. PICK pc \in {"checking", "queued", "boundary"} : turn' = [turn EXCEPT ![t].pc = pc]
    BY <1>9 DEF Check, Send, Begin
  <2>2. /\ turn'[t].boundary = turn[t].boundary /\ turn'[t].knows = turn[t].knows
        /\ turn'[t].pc \notin InTry \ {"boundary"}
        /\ \A s \in Turn \ {t} : turn'[s] = turn[s]
    BY <1>a, <2>1 DEF TurnType, InTry
  <2> QED BY <1>2, <2>2
<1>10. ASSUME NEW t \in Turn,
              \/ Ask(t) \/ StartGrounding(t) \/ Generate(t) \/ StoreAnswer(t)
              \/ MarkCompleted(t) \/ TurnCompleted(t)
       PROVE  Resolved'
  <2>1. PICK pc \in InTry : turn' = [turn EXCEPT ![t].pc = pc]
    BY <1>10 DEF Ask, StartGrounding, Generate, StoreAnswer, MarkCompleted,
                 TurnCompleted, InTry
  <2>2. turn[t].pc \in InTry \ {"boundary"}
    BY <1>10 DEF Ask, StartGrounding, Generate, StoreAnswer, MarkCompleted,
                 TurnCompleted, At, InTry
  <2>3. /\ turn'[t].boundary = turn[t].boundary /\ turn'[t].knows = turn[t].knows
        /\ \A s \in Turn \ {t} : turn'[s] = turn[s]
    BY <1>a, <2>1 DEF TurnType
  <2> QED BY <1>2, <2>2, <2>3
<1>11. ASSUME NEW t \in Turn,
              \/ CheckMissing(t) \/ TooManyRequests(t) \/ Deliver(t) \/ Break(t)
              \/ CancelQueued(t) \/ CancelCheck(t)
       PROVE  Resolved'
  BY <1>3, <1>11 DEF CheckMissing, TooManyRequests, Deliver, Break, CancelQueued, CancelCheck
<1>12. CASE UNCHANGED turn
  BY <1>12, <1>b DEF Resolved
<1>13. CASE DeleteSession \/ OtherBegins \/ OtherEnds \/ Browse
  BY <1>12, <1>13 DEF DeleteSession, OtherBegins, OtherEnds, Browse
<1>14. CASE Crash
  <2>1. \A t \in Turn : turn'[t] = turn[t] \/ turn'[t] = Over
    BY <1>14 DEF Crash
  <2> QED BY <1>b, <2>1, RestingTurns DEF Resolved, InTry
<1> QED BY <1>5, <1>6, <1>7, <1>8, <1>9, <1>10, <1>11, <1>13, <1>14 DEF Next, Step

LEMMA AnswersStep ==
    ASSUME Typed, Resolved, AnswersWithinConfirmed, Next,
           confirmed \subseteq confirmed', confirmed \subseteq Nat
    PROVE  AnswersWithinConfirmed'
<1>1. CASE UNCHANGED answer
  BY <1>1 DEF AnswersWithinConfirmed
<1>2. ASSUME NEW t \in Turn, StoreAnswer(t)
      PROVE  AnswersWithinConfirmed'
  <2>1. turn[t].pc = "store" /\ turn[t] \in TurnType
    BY <1>2 DEF StoreAnswer, At, Typed
  <2>2. PICK o \in confirmed : turn[t].boundary <= o
    BY <2>1 DEF Resolved, InTry
  <2>3. \E w \in confirmed : turn[t].knows <= w
    <3>1. CASE turn[t].knows = 0
      BY <2>2, <3>1
    <3>2. CASE turn[t].knows # 0
      BY <3>2 DEF Resolved
    <3> QED BY <3>1, <3>2
  <2>4. /\ answer'[t].knows = turn[t].knows
        /\ \A s \in Turn \ {t} : answer'[s] = answer[s]
    BY <1>2 DEF StoreAnswer, Typed, MessageType
  <2> QED BY <2>3, <2>4 DEF AnswersWithinConfirmed
<1>3. CASE DeleteSession
  BY <1>3 DEF DeleteSession, AnswersWithinConfirmed
<1>4. ASSUME NEW t \in Turn,
             \/ Check(t) \/ CheckMissing(t) \/ Send(t) \/ TooManyRequests(t) \/ Begin(t)
             \/ Checking(t) \/ ResolveBoundary(t) \/ ReadHistory(t) \/ StartGrounding(t)
             \/ Ground(t) \/ Generate(t) \/ TurnCompleted(t) \/ Deliver(t) \/ Break(t)
             \/ CancelQueued(t) \/ CancelCheck(t) \/ Ask(t) \/ MarkCompleted(t)
      PROVE  UNCHANGED answer
  BY <1>4 DEF Check, CheckMissing, Send, TooManyRequests, Begin, Checking,
              ResolveBoundary, ReadHistory, StartGrounding, Ground, Generate,
              TurnCompleted, Deliver, Break, CancelQueued, CancelCheck, ResolveStep,
              Ask, MarkCompleted, messageVars
<1>5. CASE OtherBegins \/ OtherEnds \/ Browse \/ Crash
  BY <1>1, <1>5 DEF OtherBegins, OtherEnds, Browse, Crash, messageVars
<1> QED BY <1>1, <1>2, <1>3, <1>4, <1>5 DEF Next, Step

LEMMA SettlesStep ==
    ASSUME Typed, Resolved, Settles, CompletedIsAnswered, PP!Inv', Next
    PROVE  Settles' /\ CompletedIsAnswered'
<1>a. /\ turn \in [Turn -> TurnType]
      /\ asked \in [Turn -> {"none", "pending", "completed", "failed"}]
      /\ answer \in [Turn -> [snapshot : 0 .. MaxOrder, knows : 0 .. MaxOrder]]
  BY DEF Typed, MessageType
<1> USE DEF Settles, CompletedIsAnswered
<1>1. ASSUME UNCHANGED <<asked, answer>>,
             \A t \in Turn : /\ turn'[t].pc = "mark" => turn[t].pc = "mark"
                             /\ turn[t].pc = "over" => turn'[t].pc = "over"
      PROVE  Settles' /\ CompletedIsAnswered'
  BY <1>1
<1>2. ASSUME NEW t \in Turn, NEW pc, turn[t].pc # "over", pc # "mark",
             UNCHANGED <<asked, answer>>, turn' = [turn EXCEPT ![t].pc = pc]
      PROVE  Settles' /\ CompletedIsAnswered'
  <2>1. turn'[t].pc = pc /\ \A s \in Turn \ {t} : turn'[s] = turn[s]
    BY <1>2, <1>a DEF TurnType
  <2> QED BY <1>1, <1>2, <2>1
<1>3. ASSUME NEW t \in Turn, UNCHANGED <<asked, answer>>, turn' = [turn EXCEPT ![t] = Over]
      PROVE  Settles' /\ CompletedIsAnswered'
  <2>1. turn'[t].pc = "over" /\ \A s \in Turn \ {t} : turn'[s] = turn[s]
    BY <1>3, <1>a, RestingTurns
  <2> QED BY <1>1, <1>3, <2>1
<1>4. ASSUME NEW t \in Turn, Checking(t) \/ ResolveBoundary(t) \/ Ground(t)
      PROVE  Settles' /\ CompletedIsAnswered'
  <2>1. /\ UNCHANGED <<asked, answer>>
        /\ \A s \in Turn \ {t} : turn'[s] = turn[s]
        /\ turn[t].pc \in {"checking", "boundary", "grounding"}
        /\ turn'[t].pc \in {"over", "checked", "history", "generate", turn[t].pc}
    BY <1>4, <1>a DEF Checking, ResolveBoundary, Ground, ResolveStep, At, TurnType,
                      messageVars
  <2> QED BY <1>1, <2>1
<1>5. ASSUME NEW t \in Turn, ReadHistory(t)
      PROVE  Settles' /\ CompletedIsAnswered'
  <2>1. /\ UNCHANGED <<asked, answer>>
        /\ \A s \in Turn \ {t} : turn'[s] = turn[s]
        /\ turn[t].pc = "history" /\ turn'[t].pc = "ask"
    BY <1>5, <1>a DEF ReadHistory, At, TurnType, messageVars
  <2> QED BY <1>1, <2>1
<1>6. ASSUME NEW t \in Turn,
             \/ Check(t) \/ Send(t) \/ Begin(t) \/ StartGrounding(t) \/ Generate(t)
             \/ TurnCompleted(t)
      PROVE  Settles' /\ CompletedIsAnswered'
  <2>1. PICK pc \in {"checking", "queued", "boundary", "grounding", "store", "deliver"} :
           turn' = [turn EXCEPT ![t].pc = pc]
    BY <1>6 DEF Check, Send, Begin, StartGrounding, Generate, TurnCompleted
  <2>2. turn[t].pc # "over" /\ UNCHANGED <<asked, answer>>
    BY <1>6 DEF Check, Send, Begin, StartGrounding, Generate, TurnCompleted, At, messageVars
  <2> QED BY <1>2, <2>1, <2>2
<1>7. ASSUME NEW t \in Turn,
             \/ CheckMissing(t) \/ TooManyRequests(t) \/ Deliver(t) \/ CancelQueued(t)
             \/ CancelCheck(t)
      PROVE  Settles' /\ CompletedIsAnswered'
  BY <1>3, <1>7 DEF CheckMissing, TooManyRequests, Deliver, CancelQueued, CancelCheck,
                    messageVars
<1>8. ASSUME NEW t \in Turn, Ask(t)
      PROVE  Settles' /\ CompletedIsAnswered'
  <2>1. /\ asked'[t] = "pending" /\ turn'[t].pc = "resolve" /\ UNCHANGED answer
        /\ \A s \in Turn \ {t} : turn'[s] = turn[s] /\ asked'[s] = asked[s]
    BY <1>8, <1>a DEF Ask, TurnType
  <2> QED BY <2>1
<1>9. ASSUME NEW t \in Turn, StoreAnswer(t)
      PROVE  Settles' /\ CompletedIsAnswered'
  <2>1. /\ answer'[t] = [snapshot |-> turn[t].boundary, knows |-> turn[t].knows]
        /\ turn[t].pc = "store" /\ turn'[t].pc = "mark" /\ UNCHANGED asked
        /\ \A s \in Turn \ {t} : turn'[s] = turn[s] /\ answer'[s] = answer[s]
    BY <1>9, <1>a DEF StoreAnswer, At, TurnType
  <2>2. answer'[t] # NoAnswer
    BY <2>1 DEF Resolved, InTry, NoAnswer
  <2> QED BY <2>1, <2>2
<1>10. ASSUME NEW t \in Turn, MarkCompleted(t)
       PROVE  Settles' /\ CompletedIsAnswered'
  <2>1. /\ asked'[t] = IF asked[t] = "none" THEN "none" ELSE "completed"
        /\ turn[t].pc = "mark" /\ turn'[t].pc = "marked" /\ UNCHANGED answer
        /\ \A s \in Turn \ {t} : turn'[s] = turn[s] /\ asked'[s] = asked[s]
    BY <1>10, <1>a DEF MarkCompleted, At, TurnType
  <2> QED BY <2>1
<1>11. ASSUME NEW t \in Turn, Break(t)
       PROVE  Settles' /\ CompletedIsAnswered'
  <2>1. /\ asked'[t] \in {asked[t], "failed"} /\ turn'[t].pc = "over" /\ UNCHANGED answer
        /\ \A s \in Turn \ {t} : turn'[s] = turn[s] /\ asked'[s] = asked[s]
    BY <1>11, <1>a, RestingTurns DEF Break, FailedStatus
  <2> QED BY <2>1
<1>12. CASE DeleteSession
  BY <1>12 DEF DeleteSession
<1>13. CASE OtherBegins \/ OtherEnds \/ Browse
  BY <1>1, <1>13 DEF OtherBegins, OtherEnds, Browse, messageVars
<1>14. CASE Crash
  <2>1. /\ UNCHANGED <<asked, answer>>
        /\ \A t \in Turn : turn'[t].pc = "over" \/ (turn[t].pc = "new" /\ turn'[t] = turn[t])
    BY <1>14, RestingTurns DEF Crash, At, messageVars
  <2> QED BY <1>1, <2>1
<1> QED BY <1>4, <1>5, <1>6, <1>7, <1>8, <1>9, <1>10, <1>11, <1>12, <1>13, <1>14
           DEF Next, Step

-----------------------------------------------------------------------------
(* The invariant and the theorems.                                         *)

LEMMA InitInv == Init => Inv
<1> SUFFICES ASSUME Init PROVE Inv
  OBVIOUS
<1> USE DEF Init
<1>1. PP!Inv
  <2>1. PP!Init
    BY DEF P!Init, PP!Init, P!NoRecord, PP!NoRecord, P!PreSplit, PP!PreSplit, P!Idle,
           PP!Idle, P!NoRequest, PP!NoRequest, P!Null, PP!Null
  <2> QED BY <2>1, EpisodesAreOrders, PP!InitInv
<1>2. \A t \in Turn : turn[t].pc = "new" /\ turn[t].boundary = 0 /\ turn[t].knows = 0
  BY DEF NewTurn
<1>3. Typed
  <2>1. NoAnswer \in [snapshot : 0 .. MaxOrder, knows : 0 .. MaxOrder]
    BY ChatAssumption DEF NoAnswer
  <2>2. permits \in Nat /\ others \in Nat
    BY ChatAssumption
  <2> QED BY <2>1, <2>2, RestingTurns DEF Typed, MessageType
<1>4. SlotHasTurn /\ SlotTaken /\ OneGeneration /\ Resolved
  BY <1>2, RestingTurns DEF SlotHasTurn, SlotTaken, OneGeneration, Resolved, InTry
<1>5. PermitsAccounted
  <2>1. {t \in Turn : turn[t].pc \in InTry} = {}
    BY <1>2 DEF InTry
  <2> QED BY <2>1, FS_EmptySet, ChatAssumption DEF PermitsAccounted
<1>6. AnswersWithinConfirmed /\ Settles /\ CompletedIsAnswered
  BY <1>2 DEF AnswersWithinConfirmed, Settles, CompletedIsAnswered
<1> QED BY <1>1, <1>3, <1>4, <1>5, <1>6 DEF Inv

LEMMA StepInv == Inv /\ [Next]_vars => Inv'
<1> SUFFICES ASSUME Inv, [Next]_vars PROVE Inv'
  OBVIOUS
<1>1. PP!Inv' /\ confirmed \subseteq confirmed'
  BY ProgressStep DEF Inv
<1>2. CASE Next
  <2>1. confirmed \subseteq Nat
    BY OrderRange DEF Inv, PP!Inv, PP!TypeOK
  <2>2. Typed'
    BY <1>1, <1>2, TurnTyped, MessagesTyped, SlotStep, PermitStep DEF Inv, Typed
  <2>3. SlotTaken' /\ OneGeneration' /\ PermitsAccounted'
    BY <1>2, SlotStep, PermitStep DEF Inv
  <2>4. Resolved' /\ AnswersWithinConfirmed'
    BY <1>1, <1>2, <2>1, ResolvedStep, AnswersStep DEF Inv
  <2>5. Settles' /\ CompletedIsAnswered'
    BY <1>1, <1>2, SettlesStep DEF Inv
  <2>6. SlotHasTurn'
    <3>1. CASE Turn # {}
      BY <3>1 DEF SlotHasTurn
    <3>2. CASE Turn = {}
      BY <1>2, <3>2 DEF Inv, SlotHasTurn, Next, DeleteSession, OtherBegins, OtherEnds,
                        Browse, Crash
    <3> QED BY <3>1, <3>2
  <2> QED BY <1>1, <2>2, <2>3, <2>4, <2>5, <2>6 DEF Inv
<1>3. CASE UNCHANGED vars
  BY <1>1, <1>3 DEF vars, messageVars, progressVars, Inv, Typed, MessageType,
        SlotHasTurn, SlotTaken, OneGeneration, PermitsAccounted, Resolved,
        AnswersWithinConfirmed, Settles,
        CompletedIsAnswered
<1> QED BY <1>2, <1>3

THEOREM Invariance == Spec => []Inv
BY InitInv, StepInv, PTL DEF Spec

\* Every variable keeps its type; the slot count never passes the number of
\* turns, and neither permits nor other users' shares leave their range.
THEOREM TypeCorrect == Spec => []TypeOK
<1>1. Inv => TypeOK
  <2> SUFFICES ASSUME Inv PROVE TypeOK
    OBVIOUS
  <2>1. P!TypeOK
    BY DEF Inv, PP!Inv, PP!TypeOK, P!TypeOK, PP!Row, P!Row, PP!Order, P!Order, PP!Null,
           P!Null, PP!ProgressUpdateRequest, P!ProgressUpdateRequest, PP!NoRequest,
           P!NoRequest
  <2>2. slots \in 0 .. Cardinality(Turn)
    <3>1. Cardinality(Turn) \in Nat
      BY ChatAssumption, FS_CardinalityType
    <3>2. CASE slots = 0
      BY <3>1, <3>2
    <3>3. CASE slots = 1 /\ Turn # {}
      <4>1. Cardinality(Turn) # 0
        BY <3>3, ChatAssumption, FS_EmptySet
      <4> QED BY <3>1, <3>3, <4>1
    <3> QED BY <3>2, <3>3 DEF Inv, Typed, SlotHasTurn
  <2>3. {permits, others} \subseteq 0 .. MaxPermits
    BY Counting, ChatAssumption DEF Inv, Typed, PermitsAccounted, Holders
  <2> QED BY <2>1, <2>2, <2>3 DEF Inv, Typed, MessageType, TurnType, Pcs, TypeOK
<1> QED BY <1>1, Invariance, PTL

\* T-06-13: however requests, disconnects and restarts interleave, a user never
\* has two generations in flight.
THEOREM AlwaysOneGeneration == Spec => []OneGeneration
<1>1. Inv => OneGeneration
  BY DEF Inv
<1> QED BY <1>1, Invariance, PTL

\* SEC-DOS-002: no way out of a turn keeps or returns a permit too many.
THEOREM PermitsAlwaysAccounted == Spec => []PermitsAccounted
<1>1. Inv => PermitsAccounted
  BY DEF Inv
<1> QED BY <1>1, Invariance, PTL

\* No answer, with what it inherits through the history, draws on anything past
\* every order the user confirmed.
THEOREM AnswersAlwaysWithinConfirmed == Spec => []AnswersWithinConfirmed
<1>1. Inv => AnswersWithinConfirmed
  BY DEF Inv
<1> QED BY <1>1, Invariance, PTL

\* PROB-13: a completed question has its answer.
THEOREM CompletedAlwaysAnswered == Spec => []CompletedIsAnswered
<1>1. Inv => CompletedIsAnswered
  BY DEF Inv
<1> QED BY <1>1, Invariance, PTL

\* The status of a failed, delivered or ended turn changes only with the deletion
\* of the session.
THEOREM StatusAlwaysFinal == Spec => StatusIsFinal
<1>1. Inv /\ [Next]_vars
        => [\A t \in Turn : asked[t] = "failed" \/ turn[t].pc \in {"deliver", "over"}
              => asked'[t] = asked[t] \/ ~ session']_vars
  <2> SUFFICES ASSUME Inv, Next, NEW t \in Turn,
                      turn[t].pc \in {"deliver", "over"}
               PROVE  asked'[t] = asked[t] \/ ~ session'
    BY DEF Inv, Settles
  <2>1. asked \in [Turn -> {"none", "pending", "completed", "failed"}]
    BY DEF Inv, Typed, MessageType
  <2>2. ASSUME NEW s \in Turn, Ask(s) \/ MarkCompleted(s)
        PROVE  asked'[t] = asked[t]
    BY <2>1, <2>2 DEF Ask, MarkCompleted, At
  <2>3. ASSUME NEW s \in Turn, Break(s)
        PROVE  asked'[t] = asked[t]
    <3>1. asked'[t] = asked[t] \/ (s = t /\ asked'[t] = FailedStatus(t))
      BY <2>1, <2>3 DEF Break
    <3>2. s = t => turn[t].pc = "deliver"
      BY <2>3 DEF Break, InTry
    <3> QED BY <3>1, <3>2 DEF FailedStatus, At
  <2>4. ASSUME NEW s \in Turn,
               \/ Check(s) \/ CheckMissing(s) \/ Send(s) \/ TooManyRequests(s)
               \/ Begin(s) \/ Checking(s) \/ ResolveBoundary(s) \/ ReadHistory(s)
               \/ StartGrounding(s) \/ Ground(s) \/ Generate(s) \/ StoreAnswer(s)
               \/ TurnCompleted(s) \/ Deliver(s) \/ CancelQueued(s) \/ CancelCheck(s)
        PROVE  UNCHANGED asked
    BY <2>4 DEF Check, CheckMissing, Send, TooManyRequests, Begin, Checking,
                ResolveBoundary, ReadHistory, StartGrounding, Ground, Generate,
                StoreAnswer, TurnCompleted, Deliver, CancelQueued, CancelCheck,
                ResolveStep, messageVars
  <2>5. CASE DeleteSession \/ OtherBegins \/ OtherEnds \/ Browse \/ Crash
    BY <2>5 DEF DeleteSession, OtherBegins, OtherEnds, Browse, Crash, messageVars
  <2> QED BY <2>2, <2>3, <2>4, <2>5 DEF Next, Step
<1> QED BY <1>1, Invariance, PTL DEF Spec, StatusIsFinal

=============================================================================
