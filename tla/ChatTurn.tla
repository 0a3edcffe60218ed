------------------------------ MODULE ChatTurn ------------------------------
(***************************************************************************)
(* One user's chat session on one series: the turns that answer the user's *)
(* questions, over the progress record of module Progress.                 *)
(*                                                                         *)
(* A turn is one POST of a message.  It takes the user's generation slot,  *)
(* waits for the process-wide semaphore, resolves the boundary, stores the *)
(* question, lets the retrieval pipeline (which resolves the boundary      *)
(* again) gather context and answer, and stores the answer.  Every await   *)
(* is a point where other requests run, where the client may disconnect    *)
(* and where the process may die.                                          *)
(*                                                                         *)
(* What an answer says is abstracted to the largest order it may draw on.  *)
(***************************************************************************)
EXTENDS Integers, FiniteSets

CONSTANTS
    Client,      \* everything that uses the progress record: turns and browsers
    Turn,        \* the messages the user sends
    MaxOrder,    \* bound of Progress
    Episodes,
    Requests,    \* bound: the progress changes a browser makes
    MaxPermits   \* llm_max_concurrent_generations

VARIABLES record, tx, told, confirmed,  \* of Progress
    turn,       \* each turn's place, boundary, and what its history and tools told it
    slots,      \* _concurrent_generations of this user
    permits,    \* value of the llm semaphore
    others,     \* permits other users hold
    session,    \* the chat session exists
    asked,      \* status of each turn's persisted user message
    answer      \* each turn's persisted assistant message

progressVars == <<record, tx, told, confirmed>>
messageVars == <<session, asked, answer>>
vars == <<progressVars, turn, slots, permits, others, messageVars>>

P == INSTANCE Progress

ASSUME ChatAssumption ==
    /\ Turn \subseteq Client
    /\ IsFiniteSet(Turn)
    /\ MaxOrder \in Nat \ {0}
    /\ Episodes \subseteq P!Order
    /\ Requests \subseteq P!ProgressUpdateRequest
    /\ MaxPermits \in Nat \ {0}

Queued == {"queued"}
InTry == {"boundary", "history", "ask", "resolve", "grounding", "generate",
          "store", "mark", "marked", "deliver"}
Running == Queued \cup InTry

NewTurn == [pc |-> "new", boundary |-> 0, knows |-> 0]
Over == [NewTurn EXCEPT !.pc = "over"]
NoAnswer == [snapshot |-> 0, knows |-> 0]

At(t, pc) == turn[t].pc = pc

Init ==
    /\ P!Init
    /\ turn = [t \in Turn |-> NewTurn]
    /\ slots = 0
    /\ permits = MaxPermits
    /\ others = 0
    /\ session = TRUE
    /\ asked = [t \in Turn |-> "none"]
    /\ answer = [t \in Turn |-> NoAnswer]

-----------------------------------------------------------------------------
(* The streaming route checks session and progress before the response.    *)

Check(t) ==
    /\ At(t, "new")
    /\ session
    /\ P!StartResolve(t, TRUE)
    /\ turn' = [turn EXCEPT ![t].pc = "checking"]
    /\ UNCHANGED <<slots, permits, others, messageVars>>

CheckMissing(t) ==
    /\ At(t, "new")
    /\ ~ session
    /\ turn' = [turn EXCEPT ![t] = Over]
    /\ UNCHANGED <<progressVars, slots, permits, others, messageVars>>

\* The next statement of the turn's resolve; pc is where its result leads.
ResolveStep(t, from, pc) ==
    /\ At(t, from)
    /\ P!Continue(t)
    /\ turn' = [turn EXCEPT ![t].pc = IF tx'[t].pc = "idle" THEN pc ELSE @,
                            ![t].boundary = IF from = "boundary" THEN told'[t] ELSE @,
                            ![t].knows = IF from = "grounding" /\ told'[t] > @
                                         THEN told'[t] ELSE @]
    /\ UNCHANGED <<others, messageVars>>

Checking(t) ==
    /\ ResolveStep(t, "checking", IF told'[t] = 0 THEN "over" ELSE "checked")
    /\ UNCHANGED <<slots, permits>>

-----------------------------------------------------------------------------
(* answer_stream.                                                          *)

\* Mutant: the limit was checked earlier, by the route.
SendUnchecked(t) ==
    /\ turn[t].pc \in {"new", "checked"}
    /\ At(t, "new") => slots = 0
    /\ slots' = slots + 1
    /\ turn' = [turn EXCEPT ![t].pc = "queued"]
    /\ UNCHANGED <<progressVars, permits, others, messageVars>>

\* The plain route sends a message without the streaming route's check.
Send(t) ==
    /\ turn[t].pc \in {"new", "checked"}
    /\ slots = 0
    /\ slots' = slots + 1
    /\ turn' = [turn EXCEPT ![t].pc = "queued"]
    /\ UNCHANGED <<progressVars, permits, others, messageVars>>

TooManyRequests(t) ==
    /\ turn[t].pc \in {"new", "checked"}
    /\ slots # 0
    /\ turn' = [turn EXCEPT ![t] = Over]
    /\ UNCHANGED <<progressVars, slots, permits, others, messageVars>>

Begin(t) ==
    /\ At(t, "queued")
    /\ permits > 0
    /\ permits' = permits - 1
    /\ P!StartResolve(t, TRUE)
    /\ turn' = [turn EXCEPT ![t].pc = "boundary"]
    /\ UNCHANGED <<slots, others, messageVars>>

\* The finally clause.
Release(t) ==
    /\ permits' = permits + 1
    /\ slots' = IF slots > 0 THEN slots - 1 ELSE slots

ResolveBoundary(t) ==
    /\ ResolveStep(t, "boundary", IF told'[t] = 0 THEN "over" ELSE "history")
    /\ IF turn'[t].pc = "over" THEN Release(t) ELSE UNCHANGED <<slots, permits>>

Visible(boundary) == {t \in Turn : answer[t] # NoAnswer /\ answer[t].snapshot <= boundary}

\* list_messages_for_context: the answers the boundary admits, and what they know.
ReadHistory(t) ==
    /\ At(t, "history")
    /\ \E k \in {0} \cup {answer[s].knows : s \in Visible(turn[t].boundary)} :
        /\ \A s \in Visible(turn[t].boundary) : answer[s].knows <= k
        /\ turn' = [turn EXCEPT ![t].pc = "ask", ![t].knows = k]
    /\ UNCHANGED <<progressVars, slots, permits, others, messageVars>>

Ask(t) ==
    /\ At(t, "ask")
    /\ session
    /\ asked' = [asked EXCEPT ![t] = "pending"]
    /\ turn' = [turn EXCEPT ![t].pc = "resolve"]
    /\ UNCHANGED <<progressVars, slots, permits, others, session, answer>>

\* RetrievalPipeline.answer resolves the boundary of its tools for itself.
StartGrounding(t) ==
    /\ At(t, "resolve")
    /\ P!StartResolve(t, FALSE)
    /\ turn' = [turn EXCEPT ![t].pc = "grounding"]
    /\ UNCHANGED <<slots, permits, others, messageVars>>

Ground(t) ==
    /\ ResolveStep(t, "grounding", "generate")
    /\ UNCHANGED <<slots, permits>>

\* Mutant: a stream that ends without a done event is taken for an answer.
GenerateUnanswered(t) ==
    /\ At(t, "generate")
    /\ \E pc \in {"store", "mark"} : turn' = [turn EXCEPT ![t].pc = pc]
    /\ UNCHANGED <<progressVars, slots, permits, others, messageVars>>
Generate(t) ==
    /\ At(t, "generate")
    /\ turn' = [turn EXCEPT ![t].pc = "store"]
    /\ UNCHANGED <<progressVars, slots, permits, others, messageVars>>

StoreAnswer(t) ==
    /\ At(t, "store")
    /\ session
    /\ answer' = [answer EXCEPT ![t] = [snapshot |-> turn[t].boundary,
                                        knows |-> turn[t].knows]]
    /\ turn' = [turn EXCEPT ![t].pc = "mark"]
    /\ UNCHANGED <<progressVars, slots, permits, others, session, asked>>

\* The status write matches no row once the session is gone.  It is committed
\* before the turn learns of it, and a disconnect may come between.
MarkCompleted(t) ==
    /\ At(t, "mark")
    /\ asked' = [asked EXCEPT ![t] = IF @ = "none" THEN @ ELSE "completed"]
    /\ turn' = [turn EXCEPT ![t].pc = "marked"]
    /\ UNCHANGED <<progressVars, slots, permits, others, session, answer>>

TurnCompleted(t) ==
    /\ At(t, "marked")
    /\ turn' = [turn EXCEPT ![t].pc = "deliver"]
    /\ UNCHANGED <<progressVars, slots, permits, others, messageVars>>

Deliver(t) ==
    /\ At(t, "deliver")
    /\ Release(t)
    /\ turn' = [turn EXCEPT ![t] = Over]
    /\ UNCHANGED <<progressVars, others, messageVars>>

-----------------------------------------------------------------------------
(* A statement or the provider fails, the session is gone, or the client   *)
(* disconnects: the except clause, whose status write may fail as well.    *)

\* Mutant: the except clause does not ask whether the turn had completed.
FailedUnlessAbsent(t) == IF asked[t] = "none" THEN asked[t] ELSE "failed"
FailedStatus(t) ==
    IF asked[t] = "none" \/ At(t, "deliver") THEN asked[t] ELSE "failed"

\* Mutant: the semaphore is released on the normal path only.
BreakKeepingPermit(t) ==
    /\ turn[t].pc \in InTry
    /\ \E status \in {asked[t], FailedStatus(t)} : asked' = [asked EXCEPT ![t] = status]
    /\ slots' = IF slots > 0 THEN slots - 1 ELSE slots
    /\ turn' = [turn EXCEPT ![t] = Over]
    /\ IF tx[t].pc = "idle" THEN UNCHANGED progressVars ELSE P!Abandon(t)
    /\ UNCHANGED <<permits, others, session, answer>>
Break(t) ==
    /\ turn[t].pc \in InTry
    /\ \E status \in {asked[t], FailedStatus(t)} : asked' = [asked EXCEPT ![t] = status]
    /\ Release(t)
    /\ turn' = [turn EXCEPT ![t] = Over]
    /\ IF tx[t].pc = "idle" THEN UNCHANGED progressVars ELSE P!Abandon(t)
    /\ UNCHANGED <<others, session, answer>>

\* Mutant: the finally runs for a turn that never got its permit.
CancelQueuedReleasing(t) ==
    /\ At(t, "queued")
    /\ Release(t)
    /\ turn' = [turn EXCEPT ![t] = Over]
    /\ UNCHANGED <<progressVars, others, messageVars>>
\* Before the try: the slot is taken, and no finally releases it.  Acquiring
\* the semaphore suspends only while there is no permit.
CancelQueued(t) ==
    /\ At(t, "queued")
    /\ permits = 0
    /\ turn' = [turn EXCEPT ![t] = Over]
    /\ UNCHANGED <<progressVars, slots, permits, others, messageVars>>

CancelCheck(t) ==
    /\ At(t, "checking")
    /\ P!Abandon(t)
    /\ turn' = [turn EXCEPT ![t] = Over]
    /\ UNCHANGED <<slots, permits, others, messageVars>>

-----------------------------------------------------------------------------
(* The rest of the system.                                                 *)

DeleteSession ==
    /\ session
    /\ session' = FALSE
    /\ asked' = [t \in Turn |-> "none"]
    /\ answer' = [t \in Turn |-> NoAnswer]
    /\ UNCHANGED <<progressVars, turn, slots, permits, others>>

OtherBegins ==
    /\ permits > 0
    /\ permits' = permits - 1
    /\ others' = others + 1
    /\ UNCHANGED <<progressVars, turn, slots, messageVars>>

OtherEnds ==
    /\ others > 0
    /\ permits' = permits + 1
    /\ others' = others - 1
    /\ UNCHANGED <<progressVars, turn, slots, messageVars>>

\* The browser moves the user's progress.
Browse ==
    /\ \E c \in Client \ Turn :
        \/ \E req \in Requests : P!StartUpsert(c, req)
        \/ P!Continue(c)
    /\ UNCHANGED <<turn, slots, permits, others, messageVars>>

\* The process dies: its dictionaries and semaphore are gone, the graph stays.
Crash ==
    /\ \E t \in Turn : turn[t].pc \in Running \cup {"checking"}
    /\ turn' = [t \in Turn |-> IF At(t, "new") THEN turn[t] ELSE Over]
    /\ tx' = [c \in Client |-> P!Idle]
    /\ slots' = 0
    /\ permits' = MaxPermits
    /\ others' = 0
    /\ UNCHANGED <<record, told, confirmed, messageVars>>

\* A step of the turn itself, in the order of the code.
Step(t) ==
    \/ Checking(t) \/ ResolveBoundary(t) \/ ReadHistory(t) \/ Ask(t)
    \/ StartGrounding(t) \/ Ground(t) \/ Generate(t) \/ StoreAnswer(t)
    \/ MarkCompleted(t) \/ TurnCompleted(t) \/ Deliver(t)

Next ==
    \/ \E t \in Turn :
        \/ Check(t) \/ CheckMissing(t) \/ Send(t) \/ TooManyRequests(t)
        \/ Begin(t) \/ Step(t) \/ Break(t) \/ CancelQueued(t) \/ CancelCheck(t)
    \/ DeleteSession \/ OtherBegins \/ OtherEnds \/ Browse \/ Crash

\* Statements and provider calls end, by an answer, an error or a timeout
\* (WF of a turn's own step or failure), and so do other users' generations.
\* asyncio.Semaphore is FIFO, so a waiter is not passed over for ever.
Fairness ==
    /\ \A t \in Turn : WF_vars(Step(t) \/ Break(t)) /\ SF_vars(Begin(t))
    /\ WF_vars(OtherEnds)

Spec == Init /\ [][Next]_vars /\ Fairness

-----------------------------------------------------------------------------
(* Properties.                                                             *)

\* Every variable has its type.
TypeOK ==
    /\ P!TypeOK
    /\ turn \in [Turn -> [pc : {"new", "checking", "checked", "over"} \cup Running,
                          boundary : 0 .. MaxOrder, knows : 0 .. MaxOrder]]
    /\ slots \in 0 .. Cardinality(Turn)
    /\ {permits, others} \subseteq 0 .. MaxPermits
    /\ session \in BOOLEAN
    /\ asked \in [Turn -> {"none", "pending", "completed", "failed"}]
    /\ answer \in [Turn -> [snapshot : 0 .. MaxOrder, knows : 0 .. MaxOrder]]

\* T-06-13: however requests, disconnects and restarts interleave, the user
\* never has two generations in flight.
OneGeneration == \A s, t \in Turn : {turn[s].pc, turn[t].pc} \subseteq Running => s = t

\* SEC-DOS-002: every way out of a turn gives the semaphore back what it took.
PermitsAccounted ==
    permits + others + Cardinality({t \in Turn : turn[t].pc \in InTry}) = MaxPermits

\* An answer, with what it inherits from earlier answers through the history,
\* draws on nothing past every order the user confirmed.
AnswersWithinConfirmed ==
    \A t \in Turn : answer[t] # NoAnswer => \E o \in confirmed : answer[t].knows <= o

\* PROB-13: a question is completed only when its answer is stored.
CompletedIsAnswered ==
    \A t \in Turn : asked[t] = "completed" => answer[t] # NoAnswer

\* Once the done event is due or the turn is over, its status is final, and a
\* failed question is never completed; only deleting the session removes it.
StatusIsFinal ==
    [][\A t \in Turn : asked[t] = "failed" \/ turn[t].pc \in {"deliver", "over"}
          => asked'[t] = asked[t] \/ ~ session']_vars

\* A message whose turn waits for the semaphore is dealt with.
TurnEnds == \A t \in Turn : At(t, "queued") ~> At(t, "over")

\* T-06-13: the slot is held by a turn that is still running.
SlotNeverLeaks == slots = Cardinality({t \in Turn : turn[t].pc \in Running})

=============================================================================
