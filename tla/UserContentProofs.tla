--------------------------- MODULE UserContentProofs ---------------------------
(***************************************************************************)
(* What the content of a series keeps for any number of users, resources   *)
(* and requests in flight.                                                 *)
(*                                                                         *)
(* The properties speak of the graph and the log.  They hold because of    *)
(* what a request brings along from its reads and what a revert may later  *)
(* bring back from a snapshot.  The invariant therefore says the same of   *)
(* every copy of a resource, wherever it is kept: it has the owner, the    *)
(* origin, the kind and the order the resource was created with, refers to *)
(* nothing that is visible later (Mine), and is counted as depending on    *)
(* what it refers to (Counts).                                             *)
(***************************************************************************)
EXTENDS UserContent, WellFoundedInduction, TLAPS

Stored == Item \cup {Absent}

TxType == [pc : Pc, req : Req \cup {NoReq}, seen : Stored, rev : Nat, order : Order, at : Nat,
           gone : BOOLEAN, quiet : BOOLEAN]

\* What refers to refs at order o refers to nothing later.
Ordered(refs, o, B) == \A x \in refs : B[x] \in Item /\ B[x].order <= o

\* Of what users make, CUSTOM_NODE_DELETE_QUERY counts all that refers to
\* something; a note's target is no note.
Counts(item, B) ==
    item.origin = "user" /\ item.refs # {} =>
        \/ item.kind = "UserNote" /\ \A x \in item.refs : B[x].kind # "UserNote"
        \/ item.kind = "Claim" /\ item.authored

\* A copy of r has the identity r was created with.
Mine(item, r, B) ==
    item \in Item =>
        /\ B[r] \in Item
        /\ item.owner = B[r].owner /\ item.origin = B[r].origin /\ item.order = B[r].order
        /\ item.kind = B[r].kind
        /\ Ordered(item.refs, item.order, B)
        /\ Counts(item, B)

\* A revision tells of something that was created; what it says was deleted
\* was there, and a user's.
RevFits(v, B) ==
    /\ B[v.of] \in Item
    /\ Mine(v.before, v.of, B) /\ Mine(v.after, v.of, B)
    /\ v.action = "Deleted" => v.before \in Item /\ B[v.of].origin = "user"

Authorised(q, B) ==
    /\ B[q.of] \in Item /\ B[q.of].origin = "user"
    /\ q.actor \in Admin \cup {B[q.of].owner}

About(t, L, action) ==
    t.rev \in 1 .. Len(L) /\ L[t.rev].of = t.req.of /\ L[t.rev].action = action

\* Every revision was stamped before it was logged.
Dated(L) == \A i \in 1 .. Len(L) : L[i].at < i

\* What a request between two statements relies on.
TxFits(t, B, L) ==
    /\ t.pc # "idle" => t.req \in Req /\ Mine(t.seen, t.req.of, B) /\ t.at <= Len(L)
    /\ t.pc = "matched" => /\ t.req \in Request /\ t.req.op = "create" /\ t.req.kind = "Claim"
                           /\ Ordered(t.req.refs, t.order, B)
    /\ t.pc = "counted" => Authorised(t.req, B)
    /\ t.pc = "restoring" => Authorised(t.req, B) /\ About(t, L, "Updated")
    /\ t.pc = "rebuilding" => About(t, L, "Deleted")
    /\ t.pc = "ingesting" => /\ t.req \in Request /\ t.req.op = "ingest"
                             /\ Ordered(t.req.refs, t.order, B)
    /\ t.pc = "reviewing" => t.req.op \in {"approve", "reject", "edit"} /\ t.seen \in Item

\* Only users' content is ever deleted, and only create requests make it.
Kept(r, G, B) == B[r] \in Item /\ B[r].origin # "user" => G[r] \in Item
Made(r, B) ==
    B[r] \in Item /\ B[r].origin = "user" => \E p \in Request : p.op = "create" /\ p.of = r

\* Revision v leaves r in the graph, or decides about it.
Leaves(v, r) == v.of = r /\ v.by \in {"content", "revert"} /\ Present(v.after)
Decides(v, r) == v.of = r /\ v.by = "decision"

Tells(r, G, L) ==
    Present(G[r]) /\ G[r].origin = "user" =>
        \E i \in 1 .. Len(L) :
            /\ Leaves(L[i], r)
            /\ \A j \in 1 .. Len(L) : Leaves(L[j], r) => j <= i
            /\ Bare(L[i].after) = Bare(G[r])

Decided(r, G, L) ==
    G[r].origin = "candidate" =>
        /\ G[r].kind = "Claim"
        /\ IF G[r].status = "candidate" THEN \A j \in 1 .. Len(L) : ~Decides(L[j], r)
           ELSE \E i \in 1 .. Len(L) :
                   /\ Decides(L[i], r)
                   /\ \A j \in 1 .. Len(L) : Decides(L[j], r) => j <= i
                   /\ G[r].status = L[i].after.status

Inv ==
    /\ TypeOK
    /\ \A r \in Resource : /\ Mine(graph[r], r, born)
                           /\ Kept(r, graph, born)
                           /\ Made(r, born)
                           /\ Tells(r, graph, log)
                           /\ Decided(r, graph, log)
    /\ \A i \in 1 .. Len(log) : RevFits(log[i], born)
    /\ Dated(log)
    /\ \A c \in Client : TxFits(tx[c], born, log)

\* How one step may go on: what was created stays as it was, the log grows.
Grows(B, B2) == \A r \in Resource : B[r] \in Item => B2[r] = B[r]
Longer(L, L2) == Len(L) <= Len(L2) /\ \A i \in 1 .. Len(L) : L2[i] = L[i]

-----------------------------------------------------------------------------

LEMMA Orders == Order \subseteq Nat /\ 1 \in Order /\ MaxOrder \in Nat
BY UserContentAssumption DEF Order

\* A nonempty set of orders has a largest element.
LEMMA LargestIs ==
    ASSUME NEW N \in Nat, NEW S \in SUBSET (0 .. N), S # {}
    PROVE  Largest(S) \in S /\ \A m \in S : m <= Largest(S)
<1> DEFINE R == OpToRel(<, Nat)
           T == {N - n : n \in S}
<1>1. \A x, y \in Nat : <<x, y>> \in R <=> x < y
  BY DEF OpToRel
<1> HIDE DEF R
<1>2. T \subseteq Nat /\ T # {}
  <2>1. \A n \in S : N - n \in Nat
    OBVIOUS
  <2>2. PICK n \in S : TRUE
    OBVIOUS
  <2>3. N - n \in T
    OBVIOUS
  <2> QED BY <2>1, <2>3
<1>3. PICK x \in T : \A y \in T : <<y, x>> \notin R
  <2>1. IsWellFoundedOn(R, Nat)
    BY NatLessThanWellFounded DEF R
  <2> QED BY <1>2, <2>1, WFMin
<1>4. PICK n \in S : x = N - n
  OBVIOUS
<1>5. ASSUME NEW m \in S PROVE m <= n
  <2>1. N - m \in T /\ N - m \in Nat /\ x \in Nat
    BY <1>2
  <2>2. ~(N - m < x)
    BY <1>1, <1>3, <2>1
  <2> QED BY <1>4, <2>1, <2>2
<1> QED BY <1>5 DEF Largest

LEMMA NothingIsAbsent == Absent \notin Item /\ Absent.kind = "absent" /\ Absent.origin = "user"
BY DEF Item, Kind, Absent

\* Whatever is stored is an item exactly if it is present.
LEMMA PresentIsItem ==
    ASSUME NEW item \in Stored
    PROVE  Present(item) <=> item \in Item
BY NothingIsAbsent DEF Stored, Present, Item, Kind

LEMMA IdleFits ==
    ASSUME NEW B, NEW L
    PROVE  Idle \in TxType /\ TxFits(Idle, B, L) /\ Idle.pc = "idle"
BY Orders DEF Idle, TxType, TxFits, Pc, Stored

LEMMA Types ==
    ASSUME Inv
    PROVE  /\ graph \in [Resource -> Stored] /\ born \in [Resource -> Stored]
           /\ log \in Seq(Revision) /\ Len(log) \in Nat
           /\ \A i \in 1 .. Len(log) : log[i] \in Revision
           /\ tx \in [Client -> TxType]
BY DEF Inv, TypeOK, TxType, Stored

-----------------------------------------------------------------------------
(* What others do.                                                         *)

LEMMA OrderedGrows ==
    ASSUME NEW B, NEW B2, Grows(B, B2), NEW refs \in SUBSET Resource, NEW o, Ordered(refs, o, B)
    PROVE  Ordered(refs, o, B2)
BY DEF Ordered, Grows

LEMMA MineGrows ==
    ASSUME NEW B, NEW B2, Grows(B, B2), NEW item \in Stored, NEW r \in Resource, Mine(item, r, B)
    PROVE  Mine(item, r, B2)
<1> SUFFICES ASSUME item \in Item PROVE Mine(item, r, B2)
  BY DEF Mine
<1>1. item.refs \in SUBSET Resource
  BY DEF Item
<1>2. Ordered(item.refs, item.order, B2)
  BY <1>1, OrderedGrows DEF Mine
<1>3. Counts(item, B2)
  BY <1>1 DEF Mine, Counts, Ordered, Grows
<1> QED BY <1>2, <1>3 DEF Mine, Grows

LEMMA RevGrows ==
    ASSUME NEW B, NEW B2, Grows(B, B2), NEW v \in Revision, RevFits(v, B)
    PROVE  RevFits(v, B2)
<1>1. v.of \in Resource /\ v.before \in Stored /\ v.after \in Stored
  BY DEF Revision, Stored
<1>2. Mine(v.before, v.of, B2) /\ Mine(v.after, v.of, B2)
  BY <1>1, MineGrows DEF RevFits
<1> QED BY <1>1, <1>2 DEF RevFits, Grows

LEMMA TxGrows ==
    ASSUME NEW B, NEW B2, Grows(B, B2), NEW L, NEW L2, Longer(L, L2),
           Len(L) \in Nat, Len(L2) \in Nat,
           NEW t \in TxType, NEW t2 \in TxType, TxFits(t, B, L),
           t2.pc = t.pc, t2.req = t.req, t2.seen = t.seen, t2.rev = t.rev, t2.order = t.order,
           t2.at = t.at
    PROVE  TxFits(t2, B2, L2)
<1> SUFFICES ASSUME t.pc # "idle" PROVE TxFits(t2, B2, L2)
  BY DEF TxFits
<1>1. t.req \in Req /\ t.seen \in Stored /\ t.pc \in Pc
  BY DEF TxFits, TxType
<1>2. t.req.of \in Resource /\ t.req.refs \in SUBSET Resource
  BY <1>1 DEF Req
<1>3. Mine(t.seen, t.req.of, B2)
  BY <1>1, <1>2, MineGrows DEF TxFits
<1>4. t.pc \in {"matched", "ingesting"} => Ordered(t.req.refs, t.order, B2)
  BY <1>2, OrderedGrows DEF TxFits
<1>5. t.pc \in {"counted", "restoring"} => Authorised(t.req, B2)
  BY <1>2 DEF TxFits, Authorised, Grows
<1>6. /\ t.pc = "restoring" => About(t, L2, "Updated")
      /\ t.pc = "rebuilding" => About(t, L2, "Deleted")
  BY DEF TxFits, About, Longer
<1>7. t.at <= Len(L2)
  BY DEF TxFits, TxType, Longer
<1> QED BY <1>1, <1>3, <1>4, <1>5, <1>6, <1>7 DEF TxFits, About

\* Any stamp there is, is of the past.
LEMMA StampsAre ==
    ASSUME Inv, NEW r \in Resource, NEW n
    PROVE  Stamps(r, n) \subseteq 0 .. Len(log)
<1>1. Logged(r) \subseteq 0 .. Len(log) /\ 0 \in 0 .. Len(log)
  BY Types DEF Logged
<1> QED BY <1>1 DEF Stamps

LEMMA NowIs ==
    ASSUME Inv, NEW r \in Resource
    PROVE  Now(r) \in 0 .. Len(log)
<1>1. {0} \cup Logged(r) \in SUBSET (0 .. Len(log)) /\ {0} \cup Logged(r) # {}
  BY Types DEF Logged
<1> QED BY <1>1, Types, LargestIs DEF Now

-----------------------------------------------------------------------------
(* A read: one request goes on, nothing is written.                        *)

LEMMA ReadKeeps ==
    ASSUME Inv, NEW c \in Client, NEW t \in TxType, Enter(c, t), TxFits(t, born, log),
           UNCHANGED <<graph, born, log>>
    PROVE  Inv'
<1>1. tx \in [Client -> TxType]
  BY Types
<1>2. tx' \in [Client -> TxType] /\ \A d \in Client : tx'[d] = IF d = c THEN t ELSE tx[d]
  BY <1>1 DEF Enter
<1>3. \A d \in Client : TxFits(tx'[d], born, log)
  BY <1>2 DEF Inv
<1>4. TypeOK'
  BY <1>2 DEF Inv, TypeOK, TxType, Stored
<1> QED BY <1>3, <1>4 DEF Inv

LEMMA AbandonKeeps ==
    ASSUME Inv, NEW c \in Client, Abandon(c)
    PROVE  Inv'
BY IdleFits, ReadKeeps DEF Abandon

-----------------------------------------------------------------------------
(* A write: request c commits, after it has written resource r.            *)

\* Others lose no more than an attachment.
Same(item, old) == item = old \/ (old \in Item /\ item = [old EXCEPT !.attached = FALSE])

Written(r) ==
    /\ graph' \in [Resource -> Stored]
    /\ \A x \in Resource : x # r => Same(graph'[x], graph[x])

Adds(r) ==
    \/ UNCHANGED log
    \/ \E v \in Revision : /\ v.of = r /\ v.at <= Len(log)
                           /\ Len(log) < MaxLog /\ log' = Append(log, v)
                           /\ RevFits(v, born')

Bears(r) ==
    \/ UNCHANGED born
    \/ /\ born' \in [Resource -> Stored]
       /\ born[r] \notin Item /\ born'[r] \in Item
       /\ \A x \in Resource : x # r => born'[x] = born[x]

LEMMA SameIs ==
    ASSUME NEW item \in Stored, NEW old \in Stored, Same(item, old)
    PROVE  /\ Present(item) <=> Present(old)
           /\ item \in Item <=> old \in Item
           /\ item.owner = old.owner /\ item.origin = old.origin /\ item.order = old.order
           /\ item.refs = old.refs /\ item.status = old.status /\ item.kind = old.kind
           /\ Bare(item) = Bare(old)
<1>1. CASE item = old
  BY <1>1
<1>2. CASE old \in Item /\ item = [old EXCEPT !.attached = FALSE]
  <2>1. item \in Item /\ item.kind = old.kind
    BY <1>2 DEF Item
  <2>2. Bare(item) = Bare(old)
    BY <1>2 DEF Item, Bare
  <2> QED BY <1>2, <2>1, <2>2 DEF Item, Present
<1> QED BY <1>1, <1>2 DEF Same

LEMMA LogGrows ==
    ASSUME Inv, NEW r \in Resource, Adds(r)
    PROVE  /\ log' \in Seq(Revision) /\ Len(log') \in Nat /\ Len(log') <= MaxLog
           /\ Longer(log, log')
           /\ \A i \in 1 .. Len(log') : i \notin 1 .. Len(log) => log'[i].of = r /\ RevFits(log'[i], born')
           /\ Dated(log')
<1>1. log \in Seq(Revision) /\ Len(log) \in Nat /\ Len(log) <= MaxLog /\ MaxLog \in Nat
  BY Types, UserContentAssumption DEF Inv, TypeOK
<1>2. CASE UNCHANGED log
  BY <1>1, <1>2 DEF Longer, Inv, Dated
<1>3. CASE ~ UNCHANGED log
  <2>1. PICK v \in Revision : /\ v.of = r /\ v.at <= Len(log)
                              /\ Len(log) < MaxLog /\ log' = Append(log, v)
                              /\ RevFits(v, born')
    BY <1>3 DEF Adds
  <2>2. /\ log' \in Seq(Revision) /\ Len(log') = Len(log) + 1
        /\ \A i \in 1 .. Len(log) : log'[i] = log[i]
        /\ log'[Len(log) + 1] = v
    BY <1>1, <2>1
  <2>3. \A i \in 1 .. Len(log') : i \notin 1 .. Len(log) => i = Len(log) + 1
    BY <1>1, <2>2
  <2>4. Dated(log')
    <3>1. v.at \in Nat
      BY DEF Revision
    <3> QED BY <1>1, <2>1, <2>2, <2>3, <3>1 DEF Inv, Dated
  <2> QED BY <1>1, <2>1, <2>2, <2>3, <2>4 DEF Longer
<1> QED BY <1>2, <1>3

LEMMA BearsGrows ==
    ASSUME Inv, NEW r \in Resource, Bears(r)
    PROVE  born' \in [Resource -> Stored] /\ Grows(born, born')
BY Types DEF Bears, Grows

\* What the log says of a resource stays true while nothing new is said.
LEMMA StillTells ==
    ASSUME Inv, NEW x \in Resource, Longer(log, log'), Len(log') \in Nat,
           \A i \in 1 .. Len(log') : i \notin 1 .. Len(log) => ~Leaves(log'[i], x),
           Present(graph'[x]) <=> Present(graph[x]), graph'[x].origin = graph[x].origin,
           Bare(graph'[x]) = Bare(graph[x])
    PROVE  Tells(x, graph', log')
<1>1. Len(log) \in Nat /\ Tells(x, graph, log)
  BY Types DEF Inv
<1>2. \A i \in 1 .. Len(log) : i \in 1 .. Len(log') /\ log'[i] = log[i]
  BY <1>1 DEF Longer
<1> SUFFICES ASSUME Present(graph'[x]), graph'[x].origin = "user"
             PROVE  \E i \in 1 .. Len(log') :
                      /\ Leaves(log'[i], x)
                      /\ \A j \in 1 .. Len(log') : Leaves(log'[j], x) => j <= i
                      /\ Bare(log'[i].after) = Bare(graph'[x])
  BY DEF Tells
<1>3. PICK i \in 1 .. Len(log) : /\ Leaves(log[i], x)
                                 /\ \A j \in 1 .. Len(log) : Leaves(log[j], x) => j <= i
                                 /\ Bare(log[i].after) = Bare(graph[x])
  BY <1>1 DEF Tells
<1>4. \A j \in 1 .. Len(log') : Leaves(log'[j], x) => j <= i
  BY <1>2, <1>3
<1> QED BY <1>2, <1>3, <1>4

LEMMA StillDecided ==
    ASSUME Inv, NEW x \in Resource, Longer(log, log'), Len(log') \in Nat,
           \A i \in 1 .. Len(log') : i \notin 1 .. Len(log) => ~Decides(log'[i], x),
           graph'[x].origin = graph[x].origin, graph'[x].status = graph[x].status,
           graph'[x].kind = graph[x].kind
    PROVE  Decided(x, graph', log')
<1>1. Len(log) \in Nat /\ Decided(x, graph, log)
  BY Types DEF Inv
<1>2. \A i \in 1 .. Len(log) : i \in 1 .. Len(log') /\ log'[i] = log[i]
  BY <1>1 DEF Longer
<1> SUFFICES ASSUME graph'[x].origin = "candidate" PROVE Decided(x, graph', log')
  BY DEF Decided
<1>3. CASE graph'[x].status = "candidate"
  BY <1>1, <1>2, <1>3 DEF Decided
<1>4. CASE graph'[x].status # "candidate"
  <2>1. PICK i \in 1 .. Len(log) : /\ Decides(log[i], x)
                                   /\ \A j \in 1 .. Len(log) : Decides(log[j], x) => j <= i
                                   /\ graph[x].status = log[i].after.status
    BY <1>1, <1>4 DEF Decided
  <2>2. \A j \in 1 .. Len(log') : Decides(log'[j], x) => j <= i
    BY <1>2, <2>1
  <2> QED BY <1>1, <1>2, <1>4, <2>1, <2>2 DEF Decided
<1> QED BY <1>3, <1>4

LEMMA OthersTell ==
    ASSUME Inv, NEW r \in Resource, Written(r), Adds(r), NEW x \in Resource, x # r
    PROVE  Tells(x, graph', log') /\ Decided(x, graph', log')
<1>1. Same(graph'[x], graph[x]) /\ graph'[x] \in Stored /\ graph[x] \in Stored
  BY Types DEF Written
<1>2. /\ Present(graph'[x]) <=> Present(graph[x])
      /\ graph'[x].origin = graph[x].origin /\ graph'[x].status = graph[x].status
      /\ graph'[x].kind = graph[x].kind
      /\ Bare(graph'[x]) = Bare(graph[x])
  BY <1>1, SameIs
<1>3. /\ Len(log') \in Nat /\ Longer(log, log')
      /\ \A i \in 1 .. Len(log') : i \notin 1 .. Len(log) => log'[i].of = r
  BY LogGrows
<1>4. \A i \in 1 .. Len(log') :
         i \notin 1 .. Len(log) => ~Leaves(log'[i], x) /\ ~Decides(log'[i], x)
  BY <1>3 DEF Leaves, Decides
<1> QED BY <1>2, <1>3, <1>4, StillTells, StillDecided

LEMMA CommitFits ==
    ASSUME Inv, NEW c \in Client, Commit(c), NEW r \in Resource, Adds(r), Bears(r),
           graph' \in [Resource -> Stored]
    PROVE  tx' \in [Client -> TxType] /\ \A d \in Client : TxFits(tx'[d], born', log')
<1>1. ASSUME NEW d \in Client
      PROVE  tx'[d] \in TxType /\ TxFits(tx'[d], born', log')
  <2>1. CASE d = c
    BY <2>1, IdleFits DEF Commit
  <2>2. CASE d # c
    <3>1. tx[d] \in TxType /\ TxFits(tx[d], born, log)
      BY Types DEF Inv
    <3>2. /\ tx'[d] \in TxType
          /\ tx'[d].pc = tx[d].pc /\ tx'[d].req = tx[d].req /\ tx'[d].seen = tx[d].seen
          /\ tx'[d].rev = tx[d].rev /\ tx'[d].order = tx[d].order /\ tx'[d].at = tx[d].at
      BY <2>2, <3>1 DEF Commit, TxType
    <3> QED BY <3>1, <3>2, Types, LogGrows, BearsGrows, TxGrows
  <2> QED BY <2>1, <2>2
<1> QED BY <1>1 DEF Commit

LEMMA WriteKeeps ==
    ASSUME Inv, NEW c \in Client, Commit(c),
           NEW r \in Resource, Written(r), Adds(r), Bears(r),
           Mine(graph'[r], r, born'), Kept(r, graph', born'), Made(r, born'),
           Tells(r, graph', log'), Decided(r, graph', log')
    PROVE  Inv'
<1>1. /\ graph \in [Resource -> Stored] /\ graph' \in [Resource -> Stored]
      /\ born' \in [Resource -> Stored] /\ Grows(born, born')
      /\ Len(log) \in Nat /\ \A i \in 1 .. Len(log) : log[i] \in Revision
  BY Types, BearsGrows DEF Written
<1>2. ASSUME NEW x \in Resource, x # r
      PROVE  Mine(graph'[x], x, born') /\ Kept(x, graph', born') /\ Made(x, born')
  <2>1. Same(graph'[x], graph[x]) /\ born'[x] = born[x]
    BY <1>2 DEF Written, Bears
  <2>2. Mine(graph[x], x, born')
    BY <1>1, MineGrows DEF Inv
  <2>3. Mine(graph'[x], x, born')
    <3>1. graph'[x].authored = graph[x].authored
      BY <2>1 DEF Same, Item
    <3> QED BY <1>1, <2>1, <2>2, <3>1, SameIs DEF Mine, Counts
  <2>4. Kept(x, graph', born')
    BY <1>1, <2>1, SameIs DEF Kept, Inv
  <2> QED BY <2>1, <2>3, <2>4 DEF Inv, Made
<1>3. \A x \in Resource : Tells(x, graph', log') /\ Decided(x, graph', log')
  BY OthersTell
<1>4. /\ log' \in Seq(Revision) /\ Len(log') <= MaxLog /\ Longer(log, log') /\ Len(log') \in Nat
      /\ \A i \in 1 .. Len(log') : i \notin 1 .. Len(log) => RevFits(log'[i], born')
      /\ Dated(log')
  BY LogGrows
<1>5. ASSUME NEW i \in 1 .. Len(log') PROVE RevFits(log'[i], born')
  <2>1. CASE i \in 1 .. Len(log)
    <3>1. log'[i] = log[i] /\ RevFits(log[i], born) /\ log[i] \in Revision
      BY <1>1, <1>4, <2>1 DEF Longer, Inv
    <3> QED BY <1>1, <3>1, RevGrows
  <2> QED BY <1>4, <2>1
<1>6. tx' \in [Client -> TxType] /\ \A d \in Client : TxFits(tx'[d], born', log')
  BY <1>1, CommitFits
<1>7. TypeOK'
  BY <1>1, <1>4, <1>6 DEF TypeOK, TxType, Stored
<1> QED BY <1>2, <1>3, <1>4, <1>5, <1>6, <1>7 DEF Inv

\* What one logged revision adds.
LEMMA LogAdds ==
    ASSUME Inv, NEW r \in Resource, NEW action \in {"Created", "Updated", "Deleted", "Reverted"},
           NEW by \in {"content", "decision", "edit", "revert"}, NEW actor \in User,
           NEW before \in Stored, NEW after \in Stored, NEW at \in 0 .. Len(log),
           Log(r, action, by, actor, before, after, at),
           born'[r] \in Item, Mine(before, r, born'), Mine(after, r, born'),
           action = "Deleted" => before \in Item /\ born'[r].origin = "user"
    PROVE  /\ Adds(r)
           /\ Len(log) \in Nat /\ Len(log') = Len(log) + 1
           /\ \A i \in 1 .. Len(log) : log'[i] = log[i]
           /\ log'[Len(log')].of = r /\ log'[Len(log')].by = by /\ log'[Len(log')].after = after
<1> DEFINE v == [of |-> r, action |-> action, by |-> by, actor |-> actor,
                 before |-> before, after |-> after, at |-> at]
<1>1. v \in Revision
  BY DEF Revision, Stored
<1>2. RevFits(v, born')
  BY DEF RevFits
<1>3. Len(log) < MaxLog /\ log' = Append(log, v)
  BY DEF Log
<1>4. v.of = r /\ v.by = by /\ v.after = after /\ v.at <= Len(log)
  OBVIOUS
<1>5. log \in Seq(Revision) /\ Len(log) \in Nat
  BY Types
<1> HIDE DEF v
<1>6. Adds(r)
  BY <1>1, <1>2, <1>3, <1>4 DEF Adds
<1>7. /\ Len(log') = Len(log) + 1 /\ log'[Len(log) + 1] = v
      /\ \A i \in 1 .. Len(log) : log'[i] = log[i]
  BY <1>1, <1>3, <1>5
<1> QED BY <1>4, <1>5, <1>6, <1>7

\* A revision of its own routes that tells what was written.
LEMMA TellsNew ==
    ASSUME NEW r \in Resource, Len(log') \in Nat \ {0}, Leaves(log'[Len(log')], r),
           Bare(log'[Len(log')].after) = Bare(graph'[r])
    PROVE  Tells(r, graph', log')
BY DEF Tells

-----------------------------------------------------------------------------
(* Creating.                                                               *)

LEMMA DeriveIs ==
    ASSUME Inv, NEW episode \in Order, NEW refs \in SUBSET Resource, AllPresent(refs)
    PROVE  Derive(episode, refs) \in Order /\ Ordered(refs, Derive(episode, refs), born)
<1> DEFINE S == {episode} \cup {graph[x].order : x \in refs}
<1>1. ASSUME NEW x \in refs
      PROVE  born[x] \in Item /\ graph[x].order = born[x].order /\ graph[x].order \in Order
  <2>1. graph[x] \in Item
    BY Types, PresentIsItem DEF AllPresent
  <2> QED BY <2>1 DEF Inv, Mine, Item
<1>2. S \subseteq Order /\ S \in SUBSET (0 .. MaxOrder) /\ S # {}
  BY <1>1, UserContentAssumption DEF Order
<1>3. Largest(S) \in S /\ \A m \in S : m <= Largest(S)
  BY <1>2, Orders, LargestIs
<1>4. Derive(episode, refs) = Largest(S)
  BY DEF Derive
<1> HIDE DEF S
<1>5. \A x \in refs : graph[x].order \in S
  BY DEF S
<1> QED BY <1>1, <1>2, <1>3, <1>4, <1>5 DEF Ordered

LEMMA CreateKeeps ==
    ASSUME Inv, NEW c \in Client, NEW q \in Request, q.op = "create", Fresh(q.of),
           NEW o \in Order, Ordered(q.refs, o, born),
           Create(c, q, o),
           q.kind = "Node" => q.refs = {},
           q.kind = "UserNote" => \A x \in q.refs : born[x].kind # "UserNote"
    PROVE  Inv'
<1> DEFINE r == q.of
           item == Born(q, o)
<1>1. q \in Req /\ r \in Resource /\ q.refs \in SUBSET Resource /\ q.actor \in User
  BY UserContentAssumption DEF Req
<1>2. /\ item \in Item /\ item.refs = q.refs /\ item.order = o /\ item.owner = q.actor
      /\ item.origin = "user" /\ item.kind = q.kind /\ item.authored = (q.kind = "Claim")
  BY <1>1 DEF Born, Item, Req, Origin, Status
<1>3. /\ graph' = [graph EXCEPT ![r] = item] /\ born' = [born EXCEPT ![r] = item]
      /\ Log(r, "Created", "content", q.actor, Absent, item, 0) /\ Commit(c)
  BY DEF Create, Write
<1> HIDE DEF item
<1> HIDE DEF r
<1>4. born[r] \notin Item
  BY <1>1, Types, PresentIsItem DEF Fresh, r
<1>5. graph'[r] = item /\ born'[r] = item /\ Written(r) /\ Bears(r)
  BY <1>1, <1>2, <1>3, <1>4, Types DEF Written, Bears, Same, Stored
<1>6. Mine(item, r, born') /\ Mine(Absent, r, born')
  <2>1. Ordered(q.refs, o, born')
    BY <1>1, <1>5, BearsGrows, OrderedGrows
  <2>2. Counts(item, born')
    <3>1. \A x \in q.refs : x \in Resource /\ born'[x] = born[x]
      BY <1>1, <1>5, BearsGrows DEF Ordered, Grows
    <3>2. q.kind \in Kind
      BY <1>1 DEF Req
    <3> QED BY <1>2, <3>1, <3>2 DEF Counts, Kind
  <2> QED BY <1>2, <1>5, <2>1, <2>2, NothingIsAbsent DEF Mine
<1>7. /\ Adds(r) /\ Len(log) \in Nat /\ Len(log') = Len(log) + 1
      /\ log'[Len(log')].of = r /\ log'[Len(log')].by = "content" /\ log'[Len(log')].after = item
  <2>1. item \in Stored /\ Absent \in Stored
    BY <1>2 DEF Stored
  <2>2. r \in Resource /\ q.actor \in User /\ born'[r] \in Item /\ 0 \in 0 .. Len(log)
    BY <1>1, <1>2, <1>5, Types
  <2>3. Log(r, "Created", "content", q.actor, Absent, item, 0)
    BY <1>3
  <2> QED BY <1>6, <2>1, <2>2, <2>3, LogAdds
<1>8. Tells(r, graph', log')
  <2>1. Present(item)
    BY <1>2, PresentIsItem DEF Stored
  <2> QED BY <1>1, <1>5, <1>7, <2>1, TellsNew DEF Leaves
<1>9. Decided(r, graph', log') /\ Kept(r, graph', born')
  BY <1>2, <1>5 DEF Decided, Kept
<1>10. Made(r, born')
  BY DEF Made, r
<1> QED BY <1>1, <1>3, <1>5, <1>6, <1>7, <1>8, <1>9, <1>10, WriteKeeps

LEMMA CreateNodeKeeps ==
    ASSUME Inv, NEW c \in Client, NEW q \in Request, CreateNode(c, q)
    PROVE  Inv'
<1>1. q.episode \in Order /\ AllPresent({})
  BY UserContentAssumption DEF Req, AllPresent
<1>2. Derive(q.episode, {}) \in Order
  BY <1>1, DeriveIs
<1>3. Ordered(q.refs, Derive(q.episode, {}), born)
  BY DEF CreateNode, Ordered
<1> QED BY <1>2, <1>3, CreateKeeps DEF CreateNode

LEMMA CreateNoteKeeps ==
    ASSUME Inv, NEW c \in Client, NEW q \in Request, CreateNote(c, q)
    PROVE  Inv'
<1>1. PICK target \in Resource :
        /\ q.refs = {target}
        /\ graph[target].kind \in {"Node", "Claim"}
        /\ Create(c, q, graph[target].order)
  BY DEF CreateNote
<1>2. graph[target] \in Item
  BY <1>1, Types, PresentIsItem DEF Present
<1>3. graph[target].order \in Order
  BY <1>2 DEF Item
<1>4. /\ born[target] \in Item /\ born[target].order = graph[target].order
      /\ born[target].kind = graph[target].kind
  BY <1>2 DEF Inv, Mine
<1>5. Ordered(q.refs, graph[target].order, born)
  <2>1. graph[target].order \in Nat
    BY <1>3, Orders
  <2> QED BY <1>1, <1>4, <2>1 DEF Ordered
<1> QED BY <1>1, <1>3, <1>4, <1>5, CreateKeeps DEF CreateNote

LEMMA MatchEndsKeeps ==
    ASSUME Inv, NEW c \in Client, NEW q \in Request, MatchEnds(c, q)
    PROVE  Inv'
<1> DEFINE o == Derive(q.episode, q.refs)
           t == [Idle EXCEPT !.pc = "matched", !.req = q, !.order = o]
<1>1. q \in Req /\ q.episode \in Order /\ q.refs \in SUBSET Resource
  BY UserContentAssumption DEF Req
<1>2. o \in Order /\ Ordered(q.refs, o, born)
  BY <1>1, DeriveIs DEF MatchEnds
<1> HIDE DEF o
<1>3. t \in TxType
  BY <1>1, <1>2, IdleFits DEF TxType, Pc
<1>4. t.pc = "matched" /\ t.req = q /\ t.seen = Absent /\ t.order = o /\ t.at = 0
  BY DEF Idle
<1>5. Enter(c, t) /\ UNCHANGED <<graph, born, log>> /\ q.op = "create" /\ q.kind = "Claim"
  BY DEF MatchEnds, o
<1> HIDE DEF t
<1>6. TxFits(t, born, log)
  BY <1>1, <1>2, <1>4, <1>5, Types, NothingIsAbsent DEF TxFits, Mine
<1> QED BY <1>3, <1>5, <1>6, ReadKeeps

LEMMA CreateRelationshipKeeps ==
    ASSUME Inv, NEW c \in Client, CreateRelationship(c)
    PROVE  Inv'
<1>1. TxFits(tx[c], born, log) /\ tx[c] \in TxType
  BY Types DEF Inv
<1>2. /\ tx[c].req \in Request /\ tx[c].req.op = "create" /\ tx[c].req.kind = "Claim"
      /\ Ordered(tx[c].req.refs, tx[c].order, born) /\ tx[c].order \in Order
  BY <1>1, Types DEF CreateRelationship, TxFits, TxType
<1> QED BY <1>2, CreateKeeps DEF CreateRelationship

-----------------------------------------------------------------------------
(* Updating and deleting.                                                  *)

\* A request that is under way, and what it has read.
LEMMA UnderWay ==
    ASSUME Inv, NEW c \in Client, tx[c].pc # "idle"
    PROVE  /\ tx[c] \in TxType /\ TxFits(tx[c], born, log)
           /\ tx[c].req \in Req /\ tx[c].req.of \in Resource /\ tx[c].req.actor \in User
           /\ tx[c].seen \in Stored /\ Mine(tx[c].seen, tx[c].req.of, born)
           /\ tx[c].at \in 0 .. Len(log)
<1>1. tx[c] \in TxType /\ TxFits(tx[c], born, log)
  BY Types DEF Inv
<1>2. tx[c].req \in Req
  BY <1>1 DEF TxFits
<1>3. tx[c].at \in 0 .. Len(log)
  BY <1>1, Types DEF TxFits, TxType
<1> QED BY <1>1, <1>2, <1>3 DEF TxFits, TxType, Req

\* What a request may write on is there, a user's, and the actor's to write on.
LEMMA Matched ==
    ASSUME Inv, NEW q \in Req, Matches(q)
    PROVE  graph[q.of] \in Item /\ graph[q.of].origin = "user" /\ Authorised(q, born)
<1>1. q.of \in Resource /\ q.kind \in Kind
  BY DEF Req
<1>2. graph[q.of] \in Item
  BY <1>1, Types, PresentIsItem DEF Matches, Present, Kind
<1>3. /\ born[q.of] \in Item /\ graph[q.of].origin = born[q.of].origin
      /\ graph[q.of].owner = born[q.of].owner
  BY <1>1, <1>2 DEF Inv, Mine
<1> QED BY <1>2, <1>3 DEF Matches, Authorised

\* One resource is written anew.
LEMMA OverwriteKeeps ==
    ASSUME Inv, NEW c \in Client, Commit(c), NEW r \in Resource, NEW item \in Stored,
           Write(r, item), Adds(r), UNCHANGED born,
           Mine(item, r, born), Kept(r, graph', born),
           Tells(r, graph', log'), Decided(r, graph', log')
    PROVE  Inv'
<1>1. graph' = [graph EXCEPT ![r] = item] /\ graph \in [Resource -> Stored]
  BY Types DEF Write
<1>2. Written(r) /\ graph'[r] = item /\ Bears(r)
  BY <1>1 DEF Written, Same, Bears
<1>3. Made(r, born') /\ Mine(graph'[r], r, born') /\ Kept(r, graph', born')
  BY <1>2 DEF Inv
<1> QED BY <1>2, <1>3, WriteKeeps

LEMMA CaptureOldKeeps ==
    ASSUME Inv, NEW c \in Client, NEW q \in Request, CaptureOld(c, q)
    PROVE  Inv'
<1> DEFINE s == IF graph[q.of].kind = q.kind THEN graph[q.of] ELSE Absent
           at == IF q.op = "delete" THEN 0 ELSE Now(q.of)
           t == [Idle EXCEPT !.pc = "captured", !.req = q, !.at = at, !.seen = s]
<1>1. q \in Req /\ q.of \in Resource
  BY UserContentAssumption DEF Req
<1>7. at \in Nat /\ at <= Len(log)
  BY <1>1, NowIs, Types
<1>2. s \in Stored /\ Mine(s, q.of, born)
  BY <1>1, Types, NothingIsAbsent DEF Inv, Mine, Stored
<1> HIDE DEF s, at
<1>3. t \in TxType
  BY <1>1, <1>2, <1>7, IdleFits DEF TxType, Pc
<1>4. t.pc = "captured" /\ t.req = q /\ t.seen = s /\ t.at = at
  BY DEF Idle
<1>5. Enter(c, t) /\ UNCHANGED <<graph, born, log>>
  BY DEF CaptureOld, s, at
<1> HIDE DEF t
<1>6. TxFits(t, born, log)
  BY <1>1, <1>2, <1>4, <1>7 DEF TxFits
<1> QED BY <1>3, <1>5, <1>6, ReadKeeps

LEMMA UpdateKeeps ==
    ASSUME Inv, NEW c \in Client, Update(c)
    PROVE  Inv'
<1> DEFINE q == tx[c].req
           r == q.of
           item == [graph[r] EXCEPT !.value = q.value]
<1>1. /\ q \in Req /\ r \in Resource /\ q.actor \in User /\ q.value \in Value \cup {NoValue}
      /\ tx[c].seen \in Stored /\ Mine(tx[c].seen, r, born)
  BY UnderWay DEF Update, Req
<1>2. graph[r] \in Item /\ graph[r].origin = "user" /\ born[r] \in Item
  BY <1>1, Matched DEF Update, Authorised
<1>3. /\ item \in Item /\ item.owner = graph[r].owner /\ item.origin = "user"
      /\ item.order = graph[r].order /\ item.refs = graph[r].refs
      /\ item.kind = graph[r].kind /\ item.authored = graph[r].authored
  BY <1>1, <1>2 DEF Item
<1>4. /\ Write(r, item) /\ Commit(c) /\ UNCHANGED born
      /\ \E at \in Stamps(r, tx[c].at) :
           Log(r, "Updated", "content", q.actor, tx[c].seen, graph'[r], at)
  BY DEF Update
<1> HIDE DEF item
<1> HIDE DEF r, q
<1>5. graph'[r] = item
  BY <1>1, <1>4, Types DEF Write
<1>6. Mine(item, r, born) /\ item \in Stored
  BY <1>1, <1>2, <1>3 DEF Inv, Mine, Counts, Stored
<1>7. /\ Adds(r) /\ Len(log) \in Nat /\ Len(log') = Len(log) + 1
      /\ log'[Len(log')].of = r /\ log'[Len(log')].by = "content" /\ log'[Len(log')].after = item
  <2>1. born'[r] \in Item /\ Mine(item, r, born') /\ Mine(tx[c].seen, r, born')
    BY <1>1, <1>2, <1>4, <1>6
  <2>2. PICK at \in 0 .. Len(log) :
          Log(r, "Updated", "content", q.actor, tx[c].seen, item, at)
    BY <1>1, <1>4, <1>5, StampsAre
  <2> QED BY <1>1, <1>6, <2>1, <2>2, LogAdds
<1>8. Tells(r, graph', log')
  <2>1. Present(item)
    BY <1>3, <1>6, PresentIsItem
  <2> QED BY <1>1, <1>5, <1>7, <2>1, TellsNew DEF Leaves
<1>9. Decided(r, graph', log') /\ Kept(r, graph', born)
  BY <1>3, <1>5 DEF Decided, Kept
<1> QED BY <1>1, <1>4, <1>6, <1>7, <1>8, <1>9, OverwriteKeeps

LEMMA CountDependenciesKeeps ==
    ASSUME Inv, NEW c \in Client, CountDependencies(c)
    PROVE  Inv'
<1> DEFINE t == [tx[c] EXCEPT !.pc = "counted", !.gone = FALSE, !.quiet = TRUE]
<1>1. /\ tx[c] \in TxType /\ tx[c].req \in Req /\ Mine(tx[c].seen, tx[c].req.of, born)
      /\ tx[c].at <= Len(log)
  BY UnderWay, Types DEF CountDependencies
<1>2. Authorised(tx[c].req, born)
  BY <1>1, Matched DEF CountDependencies
<1>3. t \in TxType /\ t.pc = "counted" /\ t.req = tx[c].req /\ t.seen = tx[c].seen /\ t.at = tx[c].at
  BY <1>1 DEF TxType, Pc
<1>4. Enter(c, t) /\ UNCHANGED <<graph, born, log>>
  BY DEF CountDependencies
<1> HIDE DEF t
<1>5. TxFits(t, born, log)
  BY <1>1, <1>2, <1>3 DEF TxFits
<1> QED BY <1>3, <1>4, <1>5, ReadKeeps

LEMMA RemoveWrites ==
    ASSUME Inv, NEW r \in Resource, Remove(r)
    PROVE  Written(r) /\ graph'[r] = Absent
<1>1. ASSUME NEW x \in Resource, x # r
      PROVE  Same(graph'[x], graph[x]) /\ graph'[x] \in Stored
  <2>1. graph[x] \in Stored /\ r \notin Absent.refs
    BY Types DEF Absent
  <2>2. CASE r \in graph[x].refs
    <3>1. graph[x] \in Item /\ graph'[x] = [graph[x] EXCEPT !.attached = FALSE]
      BY <1>1, <2>1, <2>2 DEF Remove, Stored
    <3> QED BY <3>1 DEF Same, Stored, Item
  <2>3. CASE r \notin graph[x].refs
    BY <1>1, <2>1, <2>3 DEF Remove, Same
  <2> QED BY <2>2, <2>3
<1>2. graph'[r] = Absent /\ Absent \in Stored
  BY DEF Remove, Stored
<1> QED BY <1>1, <1>2 DEF Written, Remove

\* A delete takes a user's resource away, or finds it gone.
LEMMA DeletionKeeps ==
    ASSUME Inv, NEW c \in Client, tx[c].pc # "idle", Authorised(tx[c].req, born),
           Remove(tx[c].req.of) \/ UNCHANGED graph, LogDeleted(c), Commit(c), UNCHANGED born
    PROVE  Inv'
<1> DEFINE q == tx[c].req
           r == q.of
<1>1. /\ q \in Req /\ r \in Resource /\ q.actor \in User
      /\ tx[c].seen \in Stored /\ Mine(tx[c].seen, r, born)
      /\ born[r] \in Item /\ born[r].origin = "user" /\ Bears(r)
  BY UnderWay DEF Authorised, Bears
<1>2. /\ Adds(r)
      /\ \A i \in 1 .. Len(log') : i \notin 1 .. Len(log) => ~Leaves(log'[i], r) /\ ~Decides(log'[i], r)
  <2>1. CASE Present(tx[c].seen)
    <3>1. Log(r, "Deleted", "content", q.actor, tx[c].seen, Absent, Now(r)) /\ Now(r) \in 0 .. Len(log)
      BY <1>1, <2>1, NowIs DEF LogDeleted
    <3>2. /\ tx[c].seen \in Item /\ Absent \in Stored /\ Mine(Absent, r, born')
          /\ Mine(tx[c].seen, r, born') /\ born'[r] \in Item /\ born'[r].origin = "user"
      BY <1>1, <2>1, PresentIsItem, NothingIsAbsent DEF Mine, Stored
    <3> HIDE DEF r, q
    <3>3. /\ Adds(r) /\ Len(log) \in Nat /\ Len(log') = Len(log) + 1
          /\ log'[Len(log')].by = "content" /\ log'[Len(log')].after = Absent
      BY <1>1, <3>1, <3>2, LogAdds
    <3>4. ~Present(Absent)
      BY NothingIsAbsent DEF Present
    <3>5. \A i \in 1 .. Len(log') : i \notin 1 .. Len(log) => i = Len(log')
      BY <3>3
    <3> QED BY <3>3, <3>4, <3>5 DEF Leaves, Decides
  <2>2. CASE ~Present(tx[c].seen)
    BY <2>2 DEF LogDeleted, Adds
  <2> QED BY <2>1, <2>2
<1> HIDE DEF r, q
<1>3. Longer(log, log') /\ Len(log') \in Nat
  BY <1>1, <1>2, LogGrows
<1>4. Kept(r, graph', born') /\ Made(r, born')
  BY <1>1 DEF Kept, Inv
<1>5. CASE UNCHANGED graph
  <2>1. Written(r) /\ Mine(graph'[r], r, born')
    BY <1>1, <1>5, Types DEF Written, Same, Inv
  <2>2. Tells(r, graph', log') /\ Decided(r, graph', log')
    BY <1>1, <1>2, <1>3, <1>5, StillTells, StillDecided
  <2> QED BY <1>1, <1>2, <1>4, <2>1, <2>2, WriteKeeps
<1>6. CASE Remove(r)
  <2>1. Written(r) /\ graph'[r] = Absent
    BY <1>1, <1>6, RemoveWrites
  <2>2. Mine(graph'[r], r, born') /\ Tells(r, graph', log') /\ Decided(r, graph', log')
    BY <2>1, NothingIsAbsent DEF Mine, Tells, Present, Decided
  <2> QED BY <1>1, <1>2, <1>4, <2>1, <2>2, WriteKeeps
<1> QED BY <1>5, <1>6 DEF r, q

LEMMA DeleteNodeKeeps ==
    ASSUME Inv, NEW c \in Client, DeleteNode(c)
    PROVE  Inv'
<1>1. tx[c].pc # "idle" /\ Authorised(tx[c].req, born)
  BY UnderWay DEF DeleteNode, TxFits
<1> QED BY <1>1, DeletionKeeps DEF DeleteNode

LEMMA DeleteRelationshipKeeps ==
    ASSUME Inv, NEW c \in Client, DeleteRelationship(c)
    PROVE  Inv'
<1>1. tx[c].pc # "idle" /\ Authorised(tx[c].req, born)
  BY UnderWay, Matched DEF DeleteRelationship
<1> QED BY <1>1, DeletionKeeps DEF DeleteRelationship

LEMMA DeleteNoteKeeps ==
    ASSUME Inv, NEW c \in Client, DeleteNote(c)
    PROVE  Inv'
<1>1. tx[c].pc # "idle" /\ Authorised(tx[c].req, born)
  BY UnderWay, Matched DEF DeleteNote
<1> QED BY <1>1, DeletionKeeps DEF DeleteNote

-----------------------------------------------------------------------------
(* Reverting.                                                              *)

LEMMA ReadRevisionKeeps ==
    ASSUME Inv, NEW c \in Client, NEW i \in DOMAIN log, NEW u \in User, ReadRevision(c, i, u)
    PROVE  Inv'
<1> DEFINE q == RevertOf(i, u)
           r == log[i].of
           at == Now(r)
           of(pc) == [Idle EXCEPT !.pc = pc, !.req = q, !.rev = i, !.seen = graph[r], !.at = at]
<1>1. i \in 1 .. Len(log) /\ i \in Nat /\ log[i] \in Revision
  BY Types
<1>2. r \in Resource
  BY <1>1 DEF Revision
<1>3. q \in Req /\ q.of = r /\ q.actor = u
  BY <1>2, Orders DEF RevertOf, Req, Op, Kind
<1>4. graph[r] \in Stored /\ Mine(graph[r], r, born)
  BY <1>2, Types DEF Inv
<1>5. UNCHANGED <<graph, born, log>>
  BY DEF ReadRevision
<1>6. PICK pc \in {"restoring", "rebuilding"} :
         /\ Enter(c, of(pc))
         /\ pc = "restoring" => /\ log[i].action = "Updated" /\ Present(graph[r])
                                /\ graph[r].origin = "user" /\ MayRevert(u, graph[r])
         /\ pc = "rebuilding" => log[i].action = "Deleted"
  BY DEF ReadRevision
<1>7. at \in Nat /\ at <= Len(log)
  BY <1>2, NowIs, Types
<1> HIDE DEF q, at
<1> DEFINE t == of(pc)
<1>8. t \in TxType
  BY <1>1, <1>3, <1>4, <1>7, IdleFits DEF TxType, Pc
<1>9. t.pc = pc /\ t.req = q /\ t.rev = i /\ t.seen = graph[r] /\ t.at = at
  BY DEF Idle
<1>10. pc = "restoring" => Authorised(q, born)
  BY <1>2, <1>3, <1>4, <1>6, PresentIsItem DEF Mine, MayRevert, Authorised
<1>11. Enter(c, t)
  BY <1>6
<1> HIDE DEF t
<1>12. TxFits(t, born, log)
  BY <1>1, <1>3, <1>4, <1>6, <1>7, <1>9, <1>10 DEF TxFits, About
<1> QED BY <1>5, <1>8, <1>11, <1>12, ReadKeeps

\* What a revert puts back has the identity the resource always had.
LEMMA RestoredIs ==
    ASSUME NEW B, NEW r \in Resource, NEW v \in Revision, v.of = r, RevFits(v, B),
           NEW item \in Item, Mine(item, r, B)
    PROVE  /\ Restored(item, v) \in Item /\ Mine(Restored(item, v), r, B)
           /\ Restored(item, v).origin = item.origin
<1>1. v.before \in Stored /\ Mine(v.before, r, B)
  BY DEF Revision, Stored, RevFits
<1>2. CASE ~Present(v.before)
  BY <1>2 DEF Restored
<1>3. CASE Present(v.before)
  <2> DEFINE s == v.before
             new == Restored(item, v)
  <2>1. /\ s \in Item /\ s.owner = item.owner /\ s.order = item.order
        /\ s.kind = item.kind /\ s.origin = item.origin
        /\ Ordered(s.refs, item.order, B) /\ Counts(s, B) /\ Counts(item, B)
    BY <1>1, <1>3, PresentIsItem DEF Mine
  <2>2. new = [item EXCEPT
                 !.owner = IF v.by = "content" THEN s.owner ELSE item.owner,
                 !.refs = IF s.kind = "Claim" /\ v.by = "content" THEN item.refs ELSE s.refs,
                 !.value = IF s.kind = "Claim" /\ v.by = "content" THEN item.value ELSE s.value,
                 !.authored = IF s.kind = "Claim" /\ v.by = "content" THEN item.authored ELSE s.authored]
    BY <1>3 DEF Restored
  <2> HIDE DEF new
  <2>3. /\ new \in Item /\ new.origin = item.origin /\ new.order = item.order
        /\ new.owner = item.owner /\ new.kind = item.kind
        /\ \/ new.refs = item.refs /\ new.authored = item.authored
           \/ new.refs = s.refs /\ new.authored = s.authored
    BY <2>1, <2>2 DEF Item
  <2>4. Mine(new, r, B)
    BY <2>1, <2>3 DEF Mine, Counts
  <2> QED BY <2>3, <2>4 DEF new
<1> QED BY <1>2, <1>3

LEMMA RestoreKeeps ==
    ASSUME Inv, NEW c \in Client, Restore(c)
    PROVE  Inv'
<1> DEFINE r == tx[c].req.of
           actor == tx[c].req.actor
           v == log[tx[c].rev]
           new == IF Present(graph[r]) THEN Restored(graph[r], v) ELSE Absent
<1>1. /\ r \in Resource /\ actor \in User
      /\ tx[c].seen \in Stored /\ Mine(tx[c].seen, r, born)
      /\ v \in Revision /\ v.of = r /\ RevFits(v, born)
      /\ born[r] \in Item /\ born[r].origin = "user"
  <2>1. tx[c].rev \in 1 .. Len(log) /\ v.of = r /\ Authorised(tx[c].req, born)
    BY UnderWay DEF Restore, TxFits, About
  <2> QED BY <2>1, UnderWay, Types DEF Restore, Inv, Authorised
<1>2. /\ Write(r, new) /\ Commit(c) /\ UNCHANGED born
      /\ \E at \in Stamps(r, tx[c].at) :
           Log(r, "Reverted", "revert", actor, tx[c].seen, new, at)
  BY DEF Restore
<1>3. new \in Stored /\ Mine(new, r, born) /\ new.origin = "user"
  <2>1. CASE Present(graph[r])
    <3>1. graph[r] \in Item /\ Mine(graph[r], r, born) /\ graph[r].origin = "user"
      BY <1>1, <2>1, Types, PresentIsItem DEF Inv, Mine
    <3>2. new = Restored(graph[r], v)
      BY <2>1
    <3> HIDE DEF new, v, r
    <3> QED BY <1>1, <3>1, <3>2, RestoredIs DEF Stored
  <2>2. CASE ~Present(graph[r])
    BY <2>2, NothingIsAbsent DEF Mine, Stored
  <2> QED BY <2>1, <2>2
<1> HIDE DEF new, v, r, actor
<1>4. /\ Adds(r) /\ Len(log) \in Nat /\ Len(log') = Len(log) + 1
      /\ log'[Len(log')].of = r /\ log'[Len(log')].by = "revert" /\ log'[Len(log')].after = new
  <2>1. Mine(tx[c].seen, r, born') /\ Mine(new, r, born') /\ born'[r] \in Item
    BY <1>1, <1>2, <1>3
  <2>2. PICK at \in 0 .. Len(log) :
          Log(r, "Reverted", "revert", actor, tx[c].seen, new, at)
    BY <1>1, <1>2, StampsAre
  <2> QED BY <1>1, <1>3, <2>1, <2>2, LogAdds
<1>5. graph'[r] = new
  BY <1>1, <1>2, Types DEF Write
<1>6. Tells(r, graph', log')
  <2>1. CASE Present(new)
    BY <1>1, <1>4, <1>5, <2>1, TellsNew DEF Leaves
  <2>2. CASE ~Present(new)
    BY <1>5, <2>2 DEF Tells
  <2> QED BY <2>1, <2>2
<1>7. Decided(r, graph', log') /\ Kept(r, graph', born)
  BY <1>1, <1>3, <1>5 DEF Decided, Kept
<1> QED BY <1>1, <1>2, <1>3, <1>4, <1>6, <1>7, OverwriteKeeps

LEMMA RebuildKeeps ==
    ASSUME Inv, NEW c \in Client, Rebuild(c)
    PROVE  Inv'
<1> DEFINE r == tx[c].req.of
           actor == tx[c].req.actor
           v == log[tx[c].rev]
           s == v.before
           new == Rebuilt(s)
<1>1. /\ r \in Resource /\ actor \in User
      /\ v \in Revision /\ v.of = r /\ RevFits(v, born)
      /\ v.action = "Deleted"
  <2>1. tx[c].rev \in 1 .. Len(log) /\ v.of = r /\ v.action = "Deleted"
    BY UnderWay DEF Rebuild, TxFits, About
  <2> QED BY <2>1, UnderWay, Types DEF Rebuild, Inv
<1>2. /\ Write(r, new) /\ Commit(c) /\ UNCHANGED born
      /\ \E at \in Stamps(r, tx[c].at) : Log(r, "Reverted", "revert", actor, s, new, at)
  BY DEF Rebuild
<1> HIDE DEF v, r, actor
<1>3. /\ s \in Item /\ Mine(s, r, born) /\ born[r] \in Item /\ born[r].origin = "user"
      /\ s.origin = "user"
  BY <1>1 DEF RevFits, Mine
<1>4. /\ new \in Item /\ new.owner = s.owner /\ new.origin = s.origin /\ new.order = s.order
      /\ new.kind = s.kind /\ new.refs \in {{}, s.refs}
      /\ s.kind = "Claim" => new.refs = {}
  <2>1. s.refs \in SUBSET Resource
    BY <1>3 DEF Item
  <2> HIDE DEF s
  <2> QED BY <1>3, <2>1 DEF Rebuilt, Item
<1> HIDE DEF new, s
<1>5. Mine(new, r, born) /\ new \in Stored /\ s \in Stored /\ Present(new)
  <2>1. new \in Stored /\ s \in Stored
    BY <1>3, <1>4 DEF Stored
  <2>2. Mine(new, r, born)
    BY <1>3, <1>4 DEF Mine, Ordered, Counts
  <2> QED BY <1>4, <2>1, <2>2, PresentIsItem
<1>6. /\ Adds(r) /\ Len(log) \in Nat /\ Len(log') = Len(log) + 1
      /\ log'[Len(log')].of = r /\ log'[Len(log')].by = "revert" /\ log'[Len(log')].after = new
  <2>1. Mine(s, r, born') /\ Mine(new, r, born') /\ born'[r] \in Item
    BY <1>2, <1>3, <1>5
  <2>2. PICK at \in 0 .. Len(log) : Log(r, "Reverted", "revert", actor, s, new, at)
    BY <1>1, <1>2, StampsAre
  <2> QED BY <1>1, <1>5, <2>1, <2>2, LogAdds
<1>7. graph'[r] = new
  BY <1>1, <1>2, Types DEF Write
<1>8. Tells(r, graph', log')
  BY <1>1, <1>5, <1>6, <1>7, TellsNew DEF Leaves
<1>9. Decided(r, graph', log') /\ Kept(r, graph', born)
  BY <1>3, <1>4, <1>7 DEF Decided, Kept
<1> QED BY <1>1, <1>2, <1>5, <1>6, <1>8, <1>9, OverwriteKeeps

-----------------------------------------------------------------------------
(* Candidates.                                                             *)

LEMMA PrepassKeeps ==
    ASSUME Inv, NEW c \in Client, NEW q \in Request, Prepass(c, q)
    PROVE  Inv'
<1> DEFINE o == Derive(q.episode, q.refs)
           t == [Idle EXCEPT !.pc = "ingesting", !.req = q, !.order = o]
<1>1. q \in Req /\ q.episode \in Order /\ q.refs \in SUBSET Resource
  BY UserContentAssumption DEF Req
<1>2. o \in Order /\ Ordered(q.refs, o, born)
  BY <1>1, DeriveIs DEF Prepass
<1> HIDE DEF o
<1>3. t \in TxType
  BY <1>1, <1>2, IdleFits DEF TxType, Pc
<1>4. t.pc = "ingesting" /\ t.req = q /\ t.seen = Absent /\ t.order = o /\ t.at = 0
  BY DEF Idle
<1>5. Enter(c, t) /\ UNCHANGED <<graph, born, log>> /\ q.op = "ingest"
  BY DEF Prepass, o
<1> HIDE DEF t
<1>6. TxFits(t, born, log)
  BY <1>1, <1>2, <1>4, <1>5, Types, NothingIsAbsent DEF TxFits, Mine
<1> QED BY <1>3, <1>5, <1>6, ReadKeeps

\* What is not in the graph when a candidate comes in was never created: a
\* candidate is never deleted, and no user content has its id.
LEMMA IngestedIsNew ==
    ASSUME Inv, NEW q \in Request, q.op = "ingest", ~Present(graph[q.of])
    PROVE  born[q.of] \notin Item
<1>1. q.of \in Resource
  BY UserContentAssumption DEF Req
<1>2. graph[q.of] \notin Item
  BY <1>1, Types, PresentIsItem
<1>3. ~(\E p \in Request : p.op = "create" /\ p.of = q.of)
  BY UserContentAssumption
<1>4. Kept(q.of, graph, born) /\ Made(q.of, born)
  BY <1>1 DEF Inv
<1> QED BY <1>2, <1>3, <1>4 DEF Kept, Made

LEMMA IngestKeeps ==
    ASSUME Inv, NEW c \in Client, Ingest(c)
    PROVE  Inv'
<1> DEFINE q == tx[c].req
           r == q.of
           item == Candidate(q, tx[c].order)
<1>1. /\ q \in Req /\ q \in Request /\ q.op = "ingest" /\ r \in Resource
      /\ tx[c].order \in Order /\ Ordered(q.refs, tx[c].order, born)
      /\ q.refs \in SUBSET Resource /\ q.value \in Value \cup {NoValue}
  BY UnderWay DEF Ingest, TxFits, TxType, Req
<1>2. Commit(c) /\ UNCHANGED log /\ Adds(r)
  BY DEF Ingest, Adds
<1>3. graph[r] \in Stored /\ born[r] \in Stored /\ Len(log) \in Nat /\ Longer(log, log')
  BY <1>1, <1>2, Types DEF Longer
<1>4. CASE Present(graph[r])
  <2>1. UNCHANGED graph
    BY <1>4 DEF Ingest
  <2>2. UNCHANGED born
    <3>1. born[r] \in Item
      BY <1>1, <1>3, <1>4, PresentIsItem DEF Inv, Mine
    <3> QED BY <1>3, <3>1, PresentIsItem DEF Ingest, Fresh
  <2> HIDE DEF r, q
  <2>3. Written(r) /\ Bears(r)
    BY <2>1, <2>2, Types DEF Written, Same, Bears
  <2>4. Tells(r, graph', log') /\ Decided(r, graph', log')
    BY <1>1, <1>2, <1>3, <2>1, StillTells, StillDecided
  <2>5. Mine(graph'[r], r, born') /\ Kept(r, graph', born') /\ Made(r, born')
    BY <1>1, <2>1, <2>2 DEF Inv
  <2> QED BY <1>1, <1>2, <2>3, <2>4, <2>5, WriteKeeps
<1>5. CASE ~Present(graph[r])
  <2>1. born[r] \notin Item
    BY <1>1, <1>5, IngestedIsNew
  <2>2. graph' = [graph EXCEPT ![r] = item] /\ born' = [born EXCEPT ![r] = item]
    BY <1>3, <1>5, <2>1, PresentIsItem DEF Ingest, Write, Fresh
  <2>3. /\ item \in Item /\ item.origin = "candidate" /\ item.kind = "Claim"
        /\ item.status = "candidate" /\ item.refs = q.refs /\ item.order = tx[c].order
    <3> HIDE DEF q
    <3> QED
      BY <1>1 DEF Candidate, Item, Kind, Origin, Status
  <2> HIDE DEF item, r
  <2>4. graph'[r] = item /\ born'[r] = item /\ Written(r) /\ Bears(r)
    BY <1>1, <2>1, <2>2, <2>3, Types DEF Written, Same, Bears, Stored
  <2>5. Mine(graph'[r], r, born')
    <3>1. Ordered(q.refs, tx[c].order, born')
      BY <1>1, <2>4, BearsGrows, OrderedGrows
    <3> QED BY <2>3, <2>4, <3>1 DEF Mine, Counts
  <2>6. \A j \in 1 .. Len(log) : ~Decides(log[j], r)
    BY <2>1 DEF Inv, RevFits, Decides
  <2>7. Tells(r, graph', log') /\ Decided(r, graph', log')
    BY <1>2, <2>3, <2>4, <2>6 DEF Tells, Decided
  <2>8. Kept(r, graph', born') /\ Made(r, born')
    BY <2>3, <2>4 DEF Kept, Made
  <2> QED BY <1>1, <1>2, <2>4, <2>5, <2>7, <2>8, WriteKeeps
<1> QED BY <1>4, <1>5

LEMMA ReadClaimKeeps ==
    ASSUME Inv, NEW c \in Client, NEW q \in Request, ReadClaim(c, q)
    PROVE  Inv'
<1> DEFINE at == Now(q.of)
           t == [Idle EXCEPT !.pc = "reviewing", !.req = q, !.seen = graph[q.of], !.at = at]
<1>1. q \in Req /\ q.of \in Resource
  BY UserContentAssumption DEF Req
<1>7. at \in Nat /\ at <= Len(log)
  BY <1>1, NowIs, Types
<1> HIDE DEF at
<1>2. /\ graph[q.of] \in Stored /\ graph[q.of] \in Item /\ Mine(graph[q.of], q.of, born)
  BY <1>1, Types, PresentIsItem DEF ReadClaim, Present, Inv
<1>3. t \in TxType
  BY <1>1, <1>2, <1>7, IdleFits DEF TxType, Pc
<1>4. t.pc = "reviewing" /\ t.req = q /\ t.seen = graph[q.of] /\ t.at = at
  BY DEF Idle
<1>5. /\ Enter(c, t) /\ UNCHANGED <<graph, born, log>>
      /\ q.op \in {"approve", "reject", "edit"}
  BY DEF ReadClaim, at
<1> HIDE DEF t
<1>6. TxFits(t, born, log)
  BY <1>1, <1>2, <1>4, <1>5, <1>7 DEF TxFits
<1> QED BY <1>3, <1>5, <1>6, ReadKeeps

LEMMA ReviewedIs ==
    ASSUME NEW item \in Item, NEW q \in Req, q.op \in {"approve", "reject", "edit"}
    PROVE  LET new == Reviewed(item, q) IN
           /\ new \in Item /\ new.owner = item.owner /\ new.order = item.order
           /\ new.origin = item.origin /\ new.refs = item.refs /\ new.kind = item.kind
           /\ new.authored = item.authored
           /\ new.status = IF q.op = "edit" THEN item.status
                           ELSE IF q.op = "approve" THEN "canonical" ELSE "rejected"
<1>1. q.value \in Value \cup {NoValue}
  BY DEF Req
<1>2. CASE q.op = "approve"
  BY <1>2 DEF Reviewed, Item, Status
<1>3. CASE q.op = "reject"
  BY <1>3 DEF Reviewed, Item, Status
<1>4. CASE q.op = "edit"
  BY <1>1, <1>4 DEF Reviewed, Item
<1> QED BY <1>2, <1>3, <1>4

LEMMA ReviewKeeps ==
    ASSUME Inv, NEW c \in Client, Review(c)
    PROVE  Inv'
<1> DEFINE q == tx[c].req
           r == q.of
           by == IF q.op = "edit" THEN "edit" ELSE "decision"
           after == Reviewed(tx[c].seen, q)
           candidate == graph[r].kind = "Claim" /\ graph[r].origin = "candidate"
           item == IF candidate THEN Reviewed(graph[r], q) ELSE graph[r]
<1>1. /\ q \in Req /\ r \in Resource /\ q.actor \in User
      /\ q.op \in {"approve", "reject", "edit"}
      /\ tx[c].seen \in Item /\ tx[c].seen \in Stored /\ Mine(tx[c].seen, r, born)
  BY UnderWay DEF Review, TxFits
<1>2. /\ Commit(c) /\ UNCHANGED born
      /\ \E at \in Stamps(r, tx[c].at) : Log(r, "Updated", by, q.actor, tx[c].seen, after, at)
  BY DEF Review
<1>3. born[r] \in Item
  BY <1>1 DEF Mine
<1>4. /\ after \in Item /\ after \in Stored /\ Mine(after, r, born)
      /\ q.op # "edit" => after.status = IF q.op = "approve" THEN "canonical" ELSE "rejected"
  <2>1. after \in Item /\ Mine(after, r, born)
    BY <1>1, ReviewedIs DEF Mine, Counts
  <2> QED BY <1>1, <2>1, ReviewedIs DEF Stored
<1>5. graph[r] \in Stored /\ Mine(graph[r], r, born) /\ Decided(r, graph, log)
  BY <1>1, Types DEF Inv
<1>6. candidate => graph[r] \in Item
  BY <1>5, PresentIsItem DEF Present
<1>7. /\ item \in Stored /\ Mine(item, r, born)
      /\ candidate => /\ item \in Item /\ item.origin = "candidate" /\ item.kind = "Claim"
                      /\ item.status = IF q.op = "edit" THEN graph[r].status
                                       ELSE IF q.op = "approve" THEN "canonical" ELSE "rejected"
  <2>1. CASE candidate
    <3>1. q \in Req /\ q.op \in {"approve", "reject", "edit"} /\ graph[r] \in Item
      BY <1>1, <1>6, <2>1
    <3>2. /\ item \in Item /\ item.owner = graph[r].owner /\ item.order = graph[r].order
          /\ item.origin = graph[r].origin /\ item.refs = graph[r].refs
          /\ item.kind = graph[r].kind /\ item.authored = graph[r].authored
          /\ item.status = IF q.op = "edit" THEN graph[r].status
                           ELSE IF q.op = "approve" THEN "canonical" ELSE "rejected"
      BY <2>1, <3>1, ReviewedIs
    <3>3. graph[r].origin = "candidate" /\ graph[r].kind = "Claim"
      BY <2>1
    <3> HIDE DEF item, r, q
    <3>4. Mine(item, r, born)
      BY <1>5, <3>1, <3>2 DEF Mine, Counts
    <3> QED BY <3>2, <3>3, <3>4 DEF Stored
  <2>2. CASE ~candidate
    BY <1>5, <2>2
  <2> QED BY <2>1, <2>2
<1>8. Write(r, item)
  <2>1. CASE candidate
    BY <2>1 DEF Review
  <2>2. CASE ~candidate
    <3>1. UNCHANGED graph
      BY <2>2 DEF Review
    <3> QED BY <1>1, <2>2, <3>1, Types DEF Write
  <2> QED BY <2>1, <2>2
<1>9. by \in {"decision", "edit"} /\ (by = "decision" <=> q.op # "edit")
  OBVIOUS
<1> HIDE DEF after, by, r
<1>10. /\ Adds(r) /\ Len(log) \in Nat /\ Len(log') = Len(log) + 1
       /\ log'[Len(log')].of = r /\ log'[Len(log')].by = by /\ log'[Len(log')].after = after
  <2>1. Mine(tx[c].seen, r, born') /\ Mine(after, r, born') /\ born'[r] \in Item
    BY <1>1, <1>2, <1>3, <1>4
  <2>2. PICK at \in 0 .. Len(log) : Log(r, "Updated", by, q.actor, tx[c].seen, after, at)
    BY <1>1, <1>2, StampsAre
  <2> QED BY <1>1, <1>4, <1>9, <2>1, <2>2, LogAdds
<1>11. /\ Longer(log, log') /\ Len(log') \in Nat \ {0}
       /\ \A i \in 1 .. Len(log') : i \notin 1 .. Len(log) => i = Len(log')
  BY <1>1, <1>10, LogGrows
<1>12. graph'[r] = item
  BY <1>1, <1>8, Types DEF Write
<1>13. ~Leaves(log'[Len(log')], r)
  BY <1>9, <1>10 DEF Leaves
<1>14. CASE candidate
  <2>1. Tells(r, graph', log')
    BY <1>7, <1>12, <1>14 DEF Tells
  <2>2. CASE q.op = "edit"
    <3>1. ~Decides(log'[Len(log')], r)
      BY <1>9, <1>10, <2>2 DEF Decides
    <3> QED BY <1>1, <1>7, <1>8, <1>10, <1>11, <1>12, <1>14, <2>1, <2>2, <3>1, StillDecided,
               <1>2, OverwriteKeeps DEF Kept
  <2>3. CASE q.op # "edit"
    <3>1. Decides(log'[Len(log')], r) /\ graph'[r].status = log'[Len(log')].after.status
          /\ graph'[r].status # "candidate"
      BY <1>1, <1>4, <1>7, <1>9, <1>10, <1>12, <1>14, <2>3 DEF Decides
    <3>2. Decided(r, graph', log')
      BY <1>7, <1>11, <1>12, <1>14, <3>1 DEF Decided
    <3> QED BY <1>1, <1>2, <1>7, <1>8, <1>10, <1>12, <1>14, <2>1, <3>2, OverwriteKeeps DEF Kept
  <2> QED BY <2>2, <2>3
<1>15. CASE ~candidate
  <2>1. item = graph[r] /\ graph'[r] = graph[r] /\ graph[r].origin # "candidate"
    BY <1>5, <1>12, <1>15 DEF Decided
  <2>2. Tells(r, graph', log')
    BY <1>1, <1>11, <1>13, <2>1, StillTells
  <2>3. Decided(r, graph', log')
    BY <2>1 DEF Decided
  <2>4. Kept(r, graph', born)
    BY <1>1, <2>1 DEF Inv, Kept
  <2> QED BY <1>1, <1>2, <1>7, <1>8, <1>10, <2>2, <2>3, <2>4, OverwriteKeeps
<1> QED BY <1>14, <1>15

-----------------------------------------------------------------------------
(* Every step.                                                             *)

LEMMA InitInv == Init => Inv
<1> SUFFICES ASSUME Init PROVE Inv
  OBVIOUS
<1>1. \A r \in Resource : /\ graph[r] \in Stored /\ born[r] = graph[r]
                          /\ graph[r] \in Item => graph[r].origin = "canonical" /\ graph[r].refs = {}
  BY UserContentAssumption, NothingIsAbsent DEF Init, Stored
<1>2. \A r \in Resource : graph[r].origin # "candidate"
  BY <1>1, NothingIsAbsent DEF Stored
<1>3. ASSUME NEW r \in Resource
      PROVE  /\ Mine(graph[r], r, born) /\ Kept(r, graph, born) /\ Made(r, born)
             /\ Tells(r, graph, log) /\ Decided(r, graph, log)
  <2>1. Mine(graph[r], r, born)
    BY <1>1 DEF Mine, Ordered, Counts
  <2>2. Kept(r, graph, born) /\ Made(r, born)
    BY <1>1 DEF Kept, Made
  <2>3. Tells(r, graph, log) /\ Decided(r, graph, log)
    BY <1>1, <1>2, PresentIsItem DEF Tells, Decided
  <2> QED BY <2>1, <2>2, <2>3
<1>4. log = <<>> /\ Len(log) = 0 /\ log \in Seq(Revision)
  BY DEF Init
<1>5. \A c \in Client : tx[c] \in TxType /\ TxFits(tx[c], born, log)
  BY IdleFits DEF Init
<1>6. TypeOK
  <2>1. tx \in [Client -> TxType] /\ graph \in [Resource -> Stored] /\ born \in [Resource -> Stored]
    BY <1>1, <1>5 DEF Init
  <2> QED BY <1>4, <2>1, UserContentAssumption DEF TypeOK, TxType, Stored
<1>7. \A i \in 1 .. Len(log) : RevFits(log[i], born) /\ log[i].at < i
  BY <1>4
<1> QED BY <1>3, <1>5, <1>6, <1>7 DEF Inv, Dated

\* One step per action of Next.
LEMMA NextInv == Inv /\ [Next]_vars => Inv'
<1> SUFFICES ASSUME Inv, [Next]_vars PROVE Inv'
  OBVIOUS
<1>1. ASSUME NEW c \in Client, NEW q \in Request,
             CreateNode(c, q) \/ CreateNote(c, q) \/ MatchEnds(c, q)
      PROVE  Inv'
  BY <1>1, CreateNodeKeeps, CreateNoteKeeps, MatchEndsKeeps
<1>2. ASSUME NEW c \in Client, NEW q \in Request,
             CaptureOld(c, q) \/ Prepass(c, q) \/ ReadClaim(c, q)
      PROVE  Inv'
  BY <1>2, CaptureOldKeeps, PrepassKeeps, ReadClaimKeeps
<1>3. ASSUME NEW c \in Client, NEW i \in DOMAIN log, NEW u \in User, ReadRevision(c, i, u)
      PROVE  Inv'
  BY <1>3, ReadRevisionKeeps
<1>4. ASSUME NEW c \in Client, CreateRelationship(c) PROVE Inv'
  BY <1>4, CreateRelationshipKeeps
<1>5. ASSUME NEW c \in Client, UpdateNode(c) \/ UpdateRelationship(c) \/ UpdateNote(c)
      PROVE  Inv'
  BY <1>5, UpdateKeeps DEF UpdateNode, UpdateRelationship, UpdateNote
<1>6. ASSUME NEW c \in Client, CountDependencies(c) PROVE Inv'
  BY <1>6, CountDependenciesKeeps
<1>7. ASSUME NEW c \in Client, DeleteNode(c) \/ DeleteRelationship(c) \/ DeleteNote(c)
      PROVE  Inv'
  BY <1>7, DeleteNodeKeeps, DeleteRelationshipKeeps, DeleteNoteKeeps
<1>8. ASSUME NEW c \in Client, Restore(c) \/ Rebuild(c) PROVE Inv'
  BY <1>8, RestoreKeeps, RebuildKeeps
<1>9. ASSUME NEW c \in Client, Ingest(c) \/ Review(c) PROVE Inv'
  BY <1>9, IngestKeeps, ReviewKeeps
<1>10. ASSUME NEW c \in Client, Abandon(c) PROVE Inv'
  BY <1>10, AbandonKeeps
<1>11. CASE UNCHANGED vars
  BY <1>11 DEF vars, Inv, TypeOK
<1> QED
  BY <1>1, <1>2, <1>3, <1>4, <1>5, <1>6, <1>7, <1>8, <1>9, <1>10, <1>11 DEF Next

LEMMA AlwaysInv == Spec => []Inv
<1> QED BY InitInv, NextInv, PTL DEF Spec

\* The graph, the log and every request keep their shape.
THEOREM TypeCorrect == Spec => []TypeOK
<1>1. Inv => TypeOK
  BY DEF Inv
<1> QED BY <1>1, AlwaysInv, PTL

\* What an id stands for never changes hands or moves in the story
\* (revert_revision_work, the update and delete works of user content), for
\* any number of users, resources and overlapping requests.
THEOREM IdentityAlwaysKept == Spec => []IdentityKept
<1>1. ASSUME Inv PROVE IdentityKept
  <2> SUFFICES ASSUME NEW r \in Resource, Present(graph[r])
               PROVE  /\ Present(born[r]) /\ SameIdentity(graph[r], born[r])
                      /\ graph[r].origin = born[r].origin
    BY DEF IdentityKept
  <2>1. graph[r] \in Item /\ Mine(graph[r], r, born) /\ born[r] \in Stored
    BY <1>1, Types, PresentIsItem DEF Inv
  <2> QED BY <2>1, PresentIsItem DEF Mine, SameIdentity
<1> QED BY <1>1, AlwaysInv, PTL

\* No content is visible before what it refers to (derive_visible_from_order
\* and its counterparts), whatever is deleted and brought back in between.
THEOREM NeverVisibleBeforeReferences == Spec => []NotVisibleBeforeReferences
<1>1. ASSUME Inv PROVE NotVisibleBeforeReferences
  <2> SUFFICES ASSUME NEW r \in Resource, NEW x \in graph[r].refs, Present(graph[x])
               PROVE  graph[r].order >= graph[x].order
    BY DEF NotVisibleBeforeReferences
  <2>1. graph[r] \in Item
    BY <1>1, Types DEF Stored, Absent
  <2>2. x \in Resource
    BY <2>1 DEF Item
  <2>3. graph[x] \in Item
    BY <1>1, <2>2, Types, PresentIsItem
  <2>4. /\ graph[x].order = born[x].order /\ born[x].order <= graph[r].order
    BY <1>1, <2>1, <2>2, <2>3 DEF Inv, Mine, Ordered
  <2>5. graph[x].order \in Nat /\ graph[r].order \in Nat
    BY <2>1, <2>3, Orders DEF Item
  <2> QED BY <2>4, <2>5
<1> QED BY <1>1, AlwaysInv, PTL

\* Of some revisions that were stamped before they were logged, one listed before
\* the last logged was logged while that one's request was under way.
LEMMA ListingTells ==
    ASSUME Inv, NEW S \in SUBSET (1 .. Len(log)), NEW R, NEW k \in S,
           \A j \in S : j <= k, k \in R
    PROVE  ListTells(S, R)
<1>1. \A i \in S : i \in Nat /\ log[i].at \in Nat /\ log[i].at < i
  BY Types DEF Inv, Dated, Revision
<1>2. \A i \in ListedFirst(S) : i \in S /\ log[k].at <= log[i].at
  BY DEF ListedFirst
<1>3. ASSUME NEW i \in ListedFirst(S) PROVE i = k \/ (i < k /\ log[k].at < i)
  <2>1. i \in S /\ log[k].at <= log[i].at /\ i <= k
    BY <1>2
  <2>2. i \in Nat /\ k \in Nat /\ log[i].at \in Nat /\ log[k].at \in Nat /\ log[i].at < i
    BY <1>1, <2>1
  <2> QED BY <2>1, <2>2
<1> QED BY <1>3 DEF ListTells

\* The log as the program lists it tells the present (the revision writes of
\* user_content.py and revisions/service.py, REVISION_LIST_QUERY): the state listed
\* first is what the graph holds, or the request that left the present one
\* overlapped with it.  For any number of users, resources and requests.
THEOREM LogAlwaysTellsPresent == Spec => []LogTellsPresent
<1>1. ASSUME Inv PROVE LogTellsPresent
  <2> SUFFICES ASSUME NEW r \in Resource, Present(graph[r]), graph[r].origin = "user"
               PROVE  ListTells(Left(r), {i \in Left(r) : Bare(log[i].after) = Bare(graph[r])})
    BY DEF LogTellsPresent
  <2>1. DOMAIN log = 1 .. Len(log)
    BY <1>1, Types
  <2>2. PICK k \in 1 .. Len(log) :
           /\ Leaves(log[k], r)
           /\ \A j \in 1 .. Len(log) : Leaves(log[j], r) => j <= k
           /\ Bare(log[k].after) = Bare(graph[r])
    BY <1>1 DEF Inv, Tells
  <2>3. Left(r) = {j \in 1 .. Len(log) : Leaves(log[j], r)}
    BY <2>1 DEF Left, Logged, Leaves
  <2> QED BY <1>1, <2>2, <2>3, ListingTells
<1> QED BY <1>1, AlwaysInv, PTL

\* A claim has the status of the decision the program lists first, or of one that
\* overlapped with it and committed later (_approve_claim_work,
\* _reject_claim_work, INGEST_CANDIDATE_QUERY, REVISION_LIST_QUERY).
THEOREM StatusAlwaysLastDecision == Spec => []StatusIsLastDecision
<1>1. ASSUME Inv PROVE StatusIsLastDecision
  <2> SUFFICES ASSUME NEW r \in Resource, graph[r].origin = "candidate"
               PROVE  IF graph[r].status = "candidate" THEN Decisions(r) = {}
                      ELSE ListTells(Decisions(r),
                              {i \in Decisions(r) : log[i].after.status = graph[r].status})
    BY DEF StatusIsLastDecision
  <2>1. DOMAIN log = 1 .. Len(log)
    BY <1>1, Types
  <2>2. Decisions(r) = {j \in 1 .. Len(log) : Decides(log[j], r)}
    BY <2>1 DEF Decisions, Logged, Decides
  <2>3. Decided(r, graph, log)
    BY <1>1 DEF Inv
  <2>4. CASE graph[r].status = "candidate"
    BY <2>2, <2>3, <2>4 DEF Decided
  <2>5. CASE graph[r].status # "candidate"
    <3>1. PICK k \in 1 .. Len(log) : /\ Decides(log[k], r)
                                     /\ \A j \in 1 .. Len(log) : Decides(log[j], r) => j <= k
                                     /\ graph[r].status = log[k].after.status
      BY <2>3, <2>5 DEF Decided
    <3>2. ListTells(Decisions(r),
                    {i \in Decisions(r) : log[i].after.status = graph[r].status})
      BY <1>1, <2>2, <3>1, ListingTells
    <3> QED BY <2>5, <3>2
  <2> QED BY <2>4, <2>5
<1> QED BY <1>1, AlwaysInv, PTL

-----------------------------------------------------------------------------
(* Who changes what.                                                       *)

\* r is all that changes, but for attachments.
OnlyAt(r) == \A x \in Resource : x # r => Bare(graph'[x]) = Bare(graph[x])

\* Some request of its owner or an administrator ends.
Allowed(r) == \E c \in Client : Steps(c) /\ tx[c].req.actor \in Admin \cup {born[r].owner}

\* A user's resource is as it was, or somebody was allowed to change it.
Respected(r) ==
    Present(graph[r]) /\ graph[r].origin = "user" /\ Bare(graph'[r]) # Bare(graph[r]) => Allowed(r)

LEMMA WriteOnlyAt ==
    ASSUME Inv, NEW r \in Resource, NEW item, Write(r, item)
    PROVE  OnlyAt(r)
BY Types DEF Write, OnlyAt

LEMMA RemoveOnlyAt ==
    ASSUME Inv, NEW r \in Resource, Remove(r)
    PROVE  OnlyAt(r)
<1>1. \A x \in Resource : x # r => Same(graph'[x], graph[x]) /\ graph'[x] \in Stored /\ graph[x] \in Stored
  BY RemoveWrites, Types DEF Written
<1> QED BY <1>1, SameIs DEF OnlyAt

LEMMA EndsAllowed ==
    ASSUME Inv, NEW c \in Client, tx[c].pc # "idle", Commit(c), Authorised(tx[c].req, born)
    PROVE  Allowed(tx[c].req.of)
<1>1. tx'[c].pc = "idle"
  BY IdleFits DEF Commit
<1> QED BY <1>1 DEF Allowed, Steps, Authorised

LEMMA StepRespects == Inv /\ [Next]_vars => \A r \in Resource : Respected(r)
<1> SUFFICES ASSUME Inv, [Next]_vars PROVE \A r \in Resource : Respected(r)
  OBVIOUS
<1>1. CASE UNCHANGED graph
  BY <1>1 DEF Respected
<1>2. ASSUME NEW x \in Resource, OnlyAt(x), Allowed(x) \/ ~Present(graph[x]) \/ graph[x].origin # "user"
      PROVE  \A r \in Resource : Respected(r)
  BY <1>2 DEF Respected, OnlyAt
<1>3. ASSUME NEW c \in Client, NEW q \in Req, NEW o, Create(c, q, o), Fresh(q.of)
      PROVE  \A r \in Resource : Respected(r)
  <2>1. q.of \in Resource /\ OnlyAt(q.of)
    BY <1>3, WriteOnlyAt DEF Create, Req
  <2>2. ~Present(graph[q.of])
    BY <1>3, <2>1, Types, PresentIsItem DEF Inv, Mine, Fresh
  <2> QED BY <1>2, <2>1, <2>2
<1>4. ASSUME NEW c \in Client, NEW q \in Request, CreateNode(c, q) \/ CreateNote(c, q)
      PROVE  \A r \in Resource : Respected(r)
  <2>1. q \in Req /\ Fresh(q.of) /\ \E o : Create(c, q, o)
    BY <1>4, UserContentAssumption DEF CreateNode, CreateNote
  <2> QED BY <1>3, <2>1
<1>5. ASSUME NEW c \in Client, CreateRelationship(c)
      PROVE  \A r \in Resource : Respected(r)
  BY <1>3, <1>5, UnderWay DEF CreateRelationship
<1>6. ASSUME NEW c \in Client, Update(c)
      PROVE  \A r \in Resource : Respected(r)
  <2>1. tx[c].pc # "idle" /\ tx[c].req \in Req /\ tx[c].req.of \in Resource
    BY <1>6, UnderWay DEF Update
  <2>2. Allowed(tx[c].req.of)
    BY <1>6, <2>1, Matched, EndsAllowed DEF Update
  <2>3. OnlyAt(tx[c].req.of)
    BY <1>6, <2>1, WriteOnlyAt DEF Update
  <2> QED BY <1>2, <2>1, <2>2, <2>3
<1>7. ASSUME NEW c \in Client, DeleteNode(c) \/ DeleteRelationship(c) \/ DeleteNote(c)
      PROVE  \A r \in Resource : Respected(r)
  <2>1. tx[c].pc # "idle" /\ Commit(c)
    BY <1>7 DEF DeleteNode, DeleteRelationship, DeleteNote
  <2>2. tx[c].req \in Req /\ tx[c].req.of \in Resource
    BY <2>1, UnderWay
  <2>3. Authorised(tx[c].req, born)
    BY <1>7, <2>1, <2>2, UnderWay, Matched
    DEF DeleteNode, DeleteRelationship, DeleteNote, TxFits
  <2>4. Allowed(tx[c].req.of)
    BY <2>1, <2>3, EndsAllowed
  <2>5. UNCHANGED graph \/ Remove(tx[c].req.of)
    BY <1>7 DEF DeleteNode, DeleteRelationship, DeleteNote
  <2>6. OnlyAt(tx[c].req.of)
    BY <2>2, <2>5, RemoveOnlyAt DEF OnlyAt
  <2> QED BY <1>2, <2>2, <2>4, <2>6
<1>8. ASSUME NEW c \in Client, Restore(c)
      PROVE  \A r \in Resource : Respected(r)
  <2>1. tx[c].pc # "idle" /\ tx[c].req.of \in Resource /\ Authorised(tx[c].req, born)
    BY <1>8, UnderWay DEF Restore, TxFits
  <2>2. Allowed(tx[c].req.of)
    BY <1>8, <2>1, EndsAllowed DEF Restore
  <2>3. OnlyAt(tx[c].req.of)
    BY <1>8, <2>1, WriteOnlyAt DEF Restore
  <2> QED BY <1>2, <2>1, <2>2, <2>3
<1>9. ASSUME NEW c \in Client, Rebuild(c)
      PROVE  \A r \in Resource : Respected(r)
  <2>1. tx[c].req.of \in Resource /\ ~Present(graph[tx[c].req.of])
    BY <1>9, UnderWay DEF Rebuild
  <2>2. OnlyAt(tx[c].req.of)
    BY <1>9, <2>1, WriteOnlyAt DEF Rebuild
  <2> QED BY <1>2, <2>1, <2>2
<1>10. ASSUME NEW c \in Client, Ingest(c)
       PROVE  \A r \in Resource : Respected(r)
  <2>1. tx[c].req.of \in Resource
    BY <1>10, UnderWay DEF Ingest
  <2>2. CASE ~Present(graph[tx[c].req.of])
    <3>1. OnlyAt(tx[c].req.of)
      BY <1>10, <2>1, <2>2, WriteOnlyAt DEF Ingest
    <3> QED BY <1>2, <2>1, <2>2, <3>1
  <2>3. CASE Present(graph[tx[c].req.of])
    BY <1>1, <1>10, <2>3 DEF Ingest
  <2> QED BY <2>2, <2>3
<1>11. ASSUME NEW c \in Client, Review(c)
       PROVE  \A r \in Resource : Respected(r)
  <2>1. tx[c].req.of \in Resource
    BY <1>11, UnderWay DEF Review
  <2>2. CASE graph[tx[c].req.of].kind = "Claim" /\ graph[tx[c].req.of].origin = "candidate"
    <3>1. OnlyAt(tx[c].req.of)
      BY <1>11, <2>1, <2>2, WriteOnlyAt DEF Review
    <3> QED BY <1>2, <2>1, <2>2, <3>1
  <2>3. CASE ~(graph[tx[c].req.of].kind = "Claim" /\ graph[tx[c].req.of].origin = "candidate")
    BY <1>1, <1>11, <2>3 DEF Review
  <2> QED BY <2>2, <2>3
<1>12. ASSUME NEW c \in Client, NEW q \in Request,
              MatchEnds(c, q) \/ CaptureOld(c, q) \/ Prepass(c, q) \/ ReadClaim(c, q)
       PROVE  \A r \in Resource : Respected(r)
  BY <1>1, <1>12 DEF MatchEnds, CaptureOld, Prepass, ReadClaim
<1>13. ASSUME NEW c \in Client,
              \/ \E i \in DOMAIN log, u \in User : ReadRevision(c, i, u)
              \/ CountDependencies(c) \/ Abandon(c)
       PROVE  \A r \in Resource : Respected(r)
  BY <1>1, <1>13 DEF ReadRevision, CountDependencies, Abandon
<1>14. CASE UNCHANGED vars
  BY <1>1, <1>14 DEF vars
<1> QED
  BY <1>4, <1>5, <1>6, <1>7, <1>8, <1>9, <1>10, <1>11, <1>12, <1>13, <1>14
  DEF Next, UpdateNode, UpdateRelationship, UpdateNote

\* Users' content changes only by requests of its owner or an administrator
\* (the owner-scoped queries of user_content.py, revert_revision_work),
\* although the check and the write are separate statements.
THEOREM OnlyOwnersEverChange == Spec => OnlyOwnerChanges
<1>1. Inv /\ [Next]_vars =>
        [\A r \in Resource :
            Present(graph[r]) /\ graph[r].origin = "user" /\ Bare(graph[r])' # Bare(graph[r])
               => \E c \in Client : Steps(c) /\ tx[c].req.actor \in Admin \cup {born[r].owner}]_vars
  BY StepRespects DEF Respected, Allowed, Bare
<1> QED BY <1>1, AlwaysInv, PTL DEF Spec, OnlyOwnerChanges

-----------------------------------------------------------------------------
(* What a request that nobody overtook still finds as it read it.          *)

\* The ends a creation matched are there, what a delete counted as unused is
\* unused, as long as no commit came in between.
QuietInv ==
    \A c \in Client : tx[c].quiet =>
        /\ tx[c].pc = "matched" => AllPresent(tx[c].req.refs)
        /\ tx[c].pc = "counted" => Dependants(tx[c].req.of) = {}

\* A commit leaves no request between two statements quiet.
LEMMA CommitDisturbs ==
    ASSUME Inv, NEW c \in Client, Commit(c)
    PROVE  QuietInv'
<1> SUFFICES ASSUME NEW d \in Client, tx'[d].quiet PROVE tx'[d].pc \notin {"matched", "counted"}
  BY DEF QuietInv
<1>1. CASE d = c
  BY <1>1, IdleFits DEF Commit, Idle
<1>2. CASE d # c /\ tx[d].pc \in {"matched", "counted"}
  <2>1. tx[d] \in TxType
    BY Types
  <2> QED BY <1>2, <2>1 DEF Commit, TxType
<1>3. CASE d # c /\ tx[d].pc \notin {"matched", "counted"}
  BY <1>3 DEF Commit
<1> QED BY <1>1, <1>2, <1>3

\* A read changes what one request knows and nothing else.
LEMMA ReadQuiet ==
    ASSUME Inv, QuietInv, NEW c \in Client, NEW t, Enter(c, t), UNCHANGED graph,
           t.pc = "matched" => AllPresent(t.req.refs),
           t.pc = "counted" => Dependants(t.req.of) = {}
    PROVE  QuietInv'
<1>1. \A d \in Client : tx'[d] = IF d = c THEN t ELSE tx[d]
  BY Types DEF Enter
<1> QED BY <1>1 DEF QuietInv, AllPresent, Dependants

LEMMA InitQuiet == Init => QuietInv
BY IdleFits DEF Init, QuietInv

LEMMA NextQuiet == Inv /\ QuietInv /\ [Next]_vars => QuietInv'
<1> SUFFICES ASSUME Inv, QuietInv, [Next]_vars PROVE QuietInv'
  OBVIOUS
<1>1. ASSUME NEW c \in Client, Commit(c) PROVE QuietInv'
  BY <1>1, CommitDisturbs
<1>2. ASSUME NEW c \in Client, NEW q \in Request, MatchEnds(c, q) PROVE QuietInv'
  <2> DEFINE t == [Idle EXCEPT !.pc = "matched", !.req = q, !.order = Derive(q.episode, q.refs)]
  <2>2. t.pc = "matched" /\ t.req = q
    BY DEF Idle
  <2>3. Enter(c, t) /\ UNCHANGED graph /\ AllPresent(q.refs)
    BY <1>2 DEF MatchEnds
  <2> HIDE DEF t
  <2> QED BY <2>2, <2>3, ReadQuiet
<1>3. ASSUME NEW c \in Client, NEW q \in Request, CaptureOld(c, q) \/ Prepass(c, q) \/ ReadClaim(c, q)
      PROVE  QuietInv'
  <2>1. PICK t : /\ Enter(c, t) /\ t.pc \in {"captured", "ingesting", "reviewing"}
                 /\ UNCHANGED graph
    BY <1>3 DEF CaptureOld, Prepass, ReadClaim, Idle
  <2> QED BY <2>1, ReadQuiet
<1>4. ASSUME NEW c \in Client, NEW i \in DOMAIN log, NEW u \in User, ReadRevision(c, i, u)
      PROVE  QuietInv'
  <2>1. PICK t : Enter(c, t) /\ t.pc \in {"restoring", "rebuilding"} /\ UNCHANGED graph
    BY <1>4 DEF ReadRevision, Idle
  <2> QED BY <2>1, ReadQuiet
<1>5. ASSUME NEW c \in Client, CountDependencies(c) PROVE QuietInv'
  <2> DEFINE t == [tx[c] EXCEPT !.pc = "counted", !.gone = FALSE, !.quiet = TRUE]
  <2>1. t.pc = "counted" /\ t.req = tx[c].req
    BY Types DEF TxType
  <2>2. Enter(c, t) /\ UNCHANGED graph /\ Dependants(tx[c].req.of) = {}
    BY <1>5 DEF CountDependencies
  <2> HIDE DEF t
  <2> QED BY <2>1, <2>2, ReadQuiet
<1>6. ASSUME NEW c \in Client, Abandon(c) PROVE QuietInv'
  BY <1>6, IdleFits, ReadQuiet DEF Abandon
<1>7. CASE UNCHANGED vars
  BY <1>7 DEF vars, QuietInv, AllPresent, Dependants
<1>8. ASSUME NEW c \in Client, NEW q \in Request, CreateNode(c, q) \/ CreateNote(c, q)
      PROVE  QuietInv'
  BY <1>1, <1>8 DEF CreateNode, CreateNote, Create
<1>9. ASSUME NEW c \in Client,
             \/ CreateRelationship(c) \/ Update(c) \/ DeleteNode(c) \/ DeleteRelationship(c)
             \/ DeleteNote(c) \/ Restore(c) \/ Rebuild(c) \/ Ingest(c) \/ Review(c)
      PROVE  QuietInv'
  <2>1. Commit(c)
    BY <1>9
    DEF CreateRelationship, Create, Update, DeleteNode, DeleteRelationship, DeleteNote,
        Restore, Rebuild, Ingest, Review
  <2> QED BY <1>1, <2>1
<1> QED
  BY <1>2, <1>3, <1>4, <1>5, <1>6, <1>7, <1>8, <1>9
  DEF Next, UpdateNode, UpdateRelationship, UpdateNote

LEMMA AlwaysQuiet == Spec => [](Inv /\ QuietInv)
<1>1. Init => Inv /\ QuietInv
  BY InitInv, InitQuiet
<1>2. Inv /\ QuietInv /\ [Next]_vars => (Inv /\ QuietInv)'
  BY NextInv, NextQuiet
<1> QED BY <1>1, <1>2, PTL DEF Spec

-----------------------------------------------------------------------------
(* What is left without what it refers to.                                 *)

Excused(r) ==
    \E c \in Client :
        /\ Steps(c)
        /\ \/ ~tx[c].quiet
           \/ tx[c].pc \in {"restoring", "rebuilding"} /\ tx[c].req.of = r

LEMMA EndsHere ==
    ASSUME NEW c \in Client, tx[c].pc # "idle", Commit(c)
    PROVE  Steps(c)
BY IdleFits DEF Commit, Steps

LEMMA SameDangles ==
    ASSUME UNCHANGED <<graph, born>>, NEW r \in Resource, Dangles(r)'
    PROVE  Dangles(r)
BY DEF Dangles

\* Writing something where it is leaves nothing else dangling.
LEMMA WriteDangles ==
    ASSUME Inv, NEW w \in Resource, NEW item \in Item, Write(w, item), Bears(w),
           NEW r \in Resource, r # w, Dangles(r)'
    PROVE  Dangles(r)
<1>1. graph \in [Resource -> Stored] /\ born \in [Resource -> Stored]
  BY Types
<1>2. /\ graph'[w] = item /\ Present(item)
      /\ \A x \in Resource : x # w => graph'[x] = graph[x] /\ born'[x] = born[x]
  BY <1>1, PresentIsItem DEF Write, Bears, Stored
<1>3. graph[r].refs \subseteq Resource
  <2>1. graph[r] \in Stored
    BY <1>1
  <2> QED BY <2>1 DEF Stored, Item, Absent
<1> QED BY <1>2, <1>3 DEF Dangles

\* Nor does the thing itself dangle if it refers to what it referred to.
LEMMA KeptDangles ==
    ASSUME Inv, NEW w \in Resource, NEW item \in Item, Write(w, item), UNCHANGED born,
           item.refs = graph[w].refs, item.origin = graph[w].origin,
           item.kind = graph[w].kind, item.attached = graph[w].attached,
           NEW r \in Resource, Dangles(r)'
    PROVE  Dangles(r)
<1>1. CASE r # w
  BY <1>1, WriteDangles DEF Bears
<1>2. CASE r = w
  <2>1. graph \in [Resource -> Stored]
    BY Types
  <2>2. /\ graph'[w] = item /\ Present(item)
        /\ \A x \in Resource : x # w => graph'[x] = graph[x]
    BY <2>1, PresentIsItem DEF Write, Stored
  <2>3. item.refs \subseteq Resource
    BY DEF Item
  <2> QED BY <1>2, <2>2, <2>3 DEF Dangles
<1> QED BY <1>1, <1>2

\* Who is hurt by a removal: who counts on what goes.
LEMMA RemoveDangles ==
    ASSUME Inv, NEW w \in Resource, Remove(w), UNCHANGED born,
           NEW r \in Resource, Dangles(r)', ~Dangles(r)
    PROVE  /\ graph[r] \in Item /\ graph[r].origin = "user" /\ w \in graph[r].refs
           /\ born[w].kind = "Node" \/ (graph[r].kind = "UserNote" /\ graph[r].attached)
<1>1. graph[r] \in Stored /\ Absent.refs = {} /\ Absent.kind = "absent"
  BY Types DEF Absent
<1>2. \A x \in Resource :
        graph'[x] = IF x = w THEN Absent
                    ELSE IF w \in graph[x].refs THEN [graph[x] EXCEPT !.attached = FALSE]
                    ELSE graph[x]
  BY DEF Remove
<1>3. r # w
  BY <1>1, <1>2 DEF Dangles
<1>4. graph[r].refs \subseteq Resource
  BY <1>1 DEF Stored, Item, Absent
<1>5. \A x \in Resource : x # w => (Present(graph'[x]) <=> Present(graph[x]))
  <2> SUFFICES ASSUME NEW x \in Resource, x # w PROVE Present(graph'[x]) <=> Present(graph[x])
    OBVIOUS
  <2>1. graph[x] \in Stored
    BY Types
  <2>2. graph'[x].kind = graph[x].kind
    BY <1>1, <1>2, <2>1 DEF Stored, Item
  <2> QED BY <2>2 DEF Present
<1>6. CASE w \notin graph[r].refs
  BY <1>2, <1>3, <1>4, <1>5, <1>6 DEF Dangles
<1>7. CASE w \in graph[r].refs
  <2>1. graph[r] \in Item
    BY <1>1, <1>7 DEF Stored
  <2>2. /\ graph'[r].origin = graph[r].origin /\ graph'[r].refs = graph[r].refs
        /\ graph'[r].kind = graph[r].kind
    BY <1>2, <1>3, <1>7, <2>1 DEF Item
  <2>3. graph[r].origin = "user" /\ (graph[r].kind = "UserNote" => graph[r].attached)
    BY <2>2 DEF Dangles
  <2> QED BY <1>4, <1>5, <1>7, <2>1, <2>2, <2>3 DEF Dangles
<1> QED BY <1>6, <1>7

\* A creation whose references are all there dangles nothing.
LEMMA CreateDangles ==
    ASSUME Inv, NEW c \in Client, NEW q \in Request, q.op = "create", NEW o \in Order,
           Create(c, q, o), Fresh(q.of), AllPresent(q.refs), NEW r \in Resource, Dangles(r)'
    PROVE  Dangles(r)
<1> DEFINE w == q.of
           item == Born(q, o)
<1>1. q \in Req /\ w \in Resource /\ q.refs \in SUBSET Resource /\ q.actor \in User
  BY UserContentAssumption DEF Req
<1>2. item \in Item /\ item.refs = q.refs /\ (item.kind = "UserNote" => item.attached)
  BY <1>1 DEF Born, Item, Req, Origin, Status
<1>3. Write(w, item) /\ born' = [born EXCEPT ![w] = item]
  BY DEF Create
<1> HIDE DEF item
<1>4. graph \in [Resource -> Stored] /\ born \in [Resource -> Stored] /\ born[w] \notin Item
  BY <1>1, Types, PresentIsItem DEF Fresh
<1> HIDE DEF w
<1>5. Bears(w)
  BY <1>1, <1>2, <1>3, <1>4 DEF Bears, Stored
<1>6. CASE r # w
  BY <1>1, <1>2, <1>3, <1>5, <1>6, WriteDangles
<1>7. CASE r = w
  <2>1. graph'[w] = item /\ Present(item) /\ \A x \in Resource : x # w => graph'[x] = graph[x]
    BY <1>1, <1>2, <1>3, <1>4, PresentIsItem DEF Write, Stored
  <2>2. \A x \in item.refs : x \in Resource /\ Present(graph'[x])
    BY <1>1, <1>2, <2>1 DEF AllPresent
  <2> QED BY <1>2, <1>7, <2>1, <2>2 DEF Dangles
<1> QED BY <1>6, <1>7

LEMMA StepDangles ==
    ASSUME Inv, QuietInv, [Next]_vars, NEW r \in Resource, Dangles(r)', ~Dangles(r)
    PROVE  Excused(r)
<1>1. CASE UNCHANGED <<graph, born>>
  BY <1>1, SameDangles
<1>2. ASSUME NEW c \in Client, NEW q \in Request, CreateNode(c, q) PROVE Excused(r)
  <2>1. q \in Req /\ q.episode \in Order /\ AllPresent({})
    BY UserContentAssumption DEF Req, AllPresent
  <2>2. Derive(q.episode, {}) \in Order
    BY <2>1, DeriveIs
  <2> QED BY <1>2, <2>1, <2>2, CreateDangles DEF CreateNode
<1>3. ASSUME NEW c \in Client, NEW q \in Request, CreateNote(c, q) PROVE Excused(r)
  <2>1. PICK target \in Resource :
           /\ q.refs = {target}
           /\ graph[target].kind \in {"Node", "Claim"}
           /\ Create(c, q, graph[target].order)
    BY <1>3 DEF CreateNote
  <2>2. Present(graph[target])
    BY <2>1 DEF Present
  <2>3. graph[target] \in Item
    BY <2>2, Types, PresentIsItem
  <2>4. graph[target].order \in Order /\ AllPresent(q.refs)
    BY <2>1, <2>2, <2>3 DEF Item, AllPresent
  <2> QED BY <1>3, <2>1, <2>4, CreateDangles DEF CreateNote
<1>4. ASSUME NEW c \in Client, CreateRelationship(c) PROVE Excused(r)
  <2>1. CASE ~tx[c].quiet
    BY <1>4, <2>1, EndsHere DEF CreateRelationship, Create, Excused
  <2>2. CASE tx[c].quiet
    <3>1. tx[c] \in TxType /\ TxFits(tx[c], born, log)
      BY Types DEF Inv
    <3>2. /\ tx[c].req \in Request /\ tx[c].req.op = "create" /\ tx[c].order \in Order
      BY <1>4, <3>1 DEF CreateRelationship, TxFits, TxType
    <3>3. AllPresent(tx[c].req.refs)
      BY <1>4, <2>2 DEF CreateRelationship, QuietInv
    <3> QED BY <1>4, <3>2, <3>3, CreateDangles DEF CreateRelationship
  <2> QED BY <2>1, <2>2
<1>5. ASSUME NEW c \in Client, Update(c) PROVE Excused(r)
  <2> DEFINE q == tx[c].req
             item == [graph[q.of] EXCEPT !.value = q.value]
  <2>1. q \in Req /\ q.of \in Resource /\ q.value \in Value \cup {NoValue}
    BY <1>5, UnderWay DEF Update, Req
  <2>2. graph[q.of] \in Item
    BY <1>5, <2>1, Matched DEF Update
  <2>3. /\ item \in Item /\ item.refs = graph[q.of].refs /\ item.origin = graph[q.of].origin
        /\ item.kind = graph[q.of].kind /\ item.attached = graph[q.of].attached
    BY <2>1, <2>2 DEF Item
  <2>4. Write(q.of, item) /\ UNCHANGED born
    BY <1>5 DEF Update
  <2> HIDE DEF item, q
  <2> QED BY <2>1, <2>3, <2>4, KeptDangles
<1>6. ASSUME NEW c \in Client, DeleteNode(c) PROVE Excused(r)
  <2> DEFINE w == tx[c].req.of
  <2>1. w \in Resource /\ tx[c].pc = "counted" /\ Commit(c) /\ UNCHANGED born
    BY <1>6, UnderWay DEF DeleteNode
  <2>2. CASE tx[c].gone
    BY <1>1, <1>6, <2>2 DEF DeleteNode
  <2>3. CASE ~tx[c].quiet
    BY <2>1, <2>3, EndsHere DEF Excused
  <2>4. CASE ~tx[c].gone /\ tx[c].quiet
    <3>1. Remove(w) /\ Dependants(w) = {}
      BY <1>6, <2>1, <2>4 DEF DeleteNode, QuietInv
    <3>2. graph[r] \in Item /\ graph[r].origin = "user" /\ w \in graph[r].refs
      BY <2>1, <3>1, RemoveDangles
    <3>3. Counts(graph[r], born)
      BY <3>2 DEF Inv, Mine
    <3>4. r \in Dependants(w)
      BY <3>2, <3>3 DEF Counts, Dependants
    <3> QED BY <3>1, <3>4
  <2> QED BY <2>2, <2>3, <2>4
<1>7. ASSUME NEW c \in Client, DeleteRelationship(c) \/ DeleteNote(c) PROVE Excused(r)
  <2> DEFINE w == tx[c].req.of
  <2>1. /\ w \in Resource /\ tx[c].req \in Req /\ Matches(tx[c].req) /\ Remove(w)
        /\ UNCHANGED born
    BY <1>7, UnderWay DEF DeleteRelationship, DeleteNote
  <2>2. graph[w] \in Item /\ graph[w].kind = tx[c].req.kind
    BY <2>1, Matched DEF Matches
  <2>3. born[w].kind = tx[c].req.kind /\ tx[c].req.kind \in {"Claim", "UserNote"}
    BY <1>7, <2>1, <2>2 DEF Inv, Mine, DeleteRelationship, DeleteNote
  <2> HIDE DEF w
  <2>4. /\ graph[r] \in Item /\ graph[r].origin = "user" /\ w \in graph[r].refs
        /\ graph[r].kind = "UserNote" /\ graph[r].attached
    BY <2>1, <2>3, RemoveDangles
  <2>5. Counts(graph[r], born)
    BY <2>4 DEF Inv, Mine
  <2>6. born[w].kind # "UserNote"
    BY <2>4, <2>5 DEF Counts
  <2>7. Attachments(w) # {}
    BY <2>4 DEF Attachments
  <2> QED BY <1>7, <2>3, <2>6, <2>7 DEF DeleteRelationship, DeleteNote, w
<1>8. ASSUME NEW c \in Client, Restore(c) \/ Rebuild(c), r = tx[c].req.of PROVE Excused(r)
  BY <1>8, EndsHere DEF Restore, Rebuild, Excused
<1>9. ASSUME NEW c \in Client, Restore(c), r # tx[c].req.of PROVE FALSE
  <2> DEFINE w == tx[c].req.of
             v == log[tx[c].rev]
  <2>1. w \in Resource /\ v \in Revision /\ v.of = w /\ RevFits(v, born)
    <3>1. tx[c].rev \in 1 .. Len(log) /\ v.of = w
      BY <1>9, UnderWay DEF Restore, TxFits, About
    <3> QED BY <1>9, <3>1, UnderWay, Types DEF Restore, Inv
  <2>2. graph[w] \in Stored /\ Mine(graph[w], w, born)
    BY <2>1, Types DEF Inv
  <2>3. UNCHANGED born /\ Write(w, IF Present(graph[w]) THEN Restored(graph[w], v) ELSE Absent)
    BY <1>9 DEF Restore
  <2> HIDE DEF v
  <2>4. CASE Present(graph[w])
    <3>1. Restored(graph[w], v) \in Item
      BY <2>1, <2>2, <2>4, PresentIsItem, RestoredIs
    <3> QED BY <1>9, <2>1, <2>3, <2>4, <3>1, WriteDangles DEF Bears
  <2>5. CASE ~Present(graph[w])
    <3>1. graph[w] = Absent
      BY <2>2, <2>5, PresentIsItem DEF Stored
    <3>2. UNCHANGED graph
      BY <2>1, <2>3, <2>5, <3>1, Types DEF Write
    <3> QED BY <2>3, <3>2, SameDangles
  <2> QED BY <2>4, <2>5
<1>10. ASSUME NEW c \in Client, Rebuild(c), r # tx[c].req.of PROVE FALSE
  <2> DEFINE w == tx[c].req.of
             v == log[tx[c].rev]
  <2>1. w \in Resource /\ v.of = w /\ RevFits(v, born) /\ v.action = "Deleted"
    <3>1. tx[c].rev \in 1 .. Len(log) /\ v.of = w /\ v.action = "Deleted"
      BY <1>10, UnderWay DEF Rebuild, TxFits, About
    <3> QED BY <1>10, <3>1, UnderWay, Types DEF Rebuild, Inv
  <2>2. v.before \in Item
    BY <2>1 DEF RevFits
  <2>3. Rebuilt(v.before) \in Item
    <3>1. v.before.refs \in SUBSET Resource
      BY <2>2 DEF Item
    <3> HIDE DEF v
    <3> QED BY <2>2, <3>1 DEF Rebuilt, Item
  <2>4. Write(w, Rebuilt(v.before)) /\ UNCHANGED born
    BY <1>10 DEF Rebuild
  <2> QED BY <1>10, <2>1, <2>3, <2>4, WriteDangles DEF Bears
<1>11. ASSUME NEW c \in Client, Ingest(c) PROVE FALSE
  <2> DEFINE q == tx[c].req
             w == q.of
             item == Candidate(q, tx[c].order)
  <2>1. /\ q \in Req /\ w \in Resource /\ q.refs \in SUBSET Resource
        /\ q.value \in Value \cup {NoValue} /\ tx[c].order \in Order
    BY <1>11, UnderWay DEF Ingest, Req, TxType
  <2>2. item \in Item /\ item.origin = "candidate"
    <3> HIDE DEF q
    <3> QED BY <2>1 DEF Candidate, Item, Kind, Origin, Status
  <2>3. graph \in [Resource -> Stored] /\ born \in [Resource -> Stored]
    BY Types
  <2>4. CASE Present(graph[w])
    <3>1. Present(born[w])
      BY <2>1, <2>3, <2>4, PresentIsItem DEF Inv, Mine
    <3> QED BY <1>11, <2>4, <3>1, SameDangles DEF Ingest, Fresh
  <2>5. CASE ~Present(graph[w])
    <3>1. Write(w, item) /\ born' = IF Fresh(w) THEN [born EXCEPT ![w] = item] ELSE born
      BY <1>11, <2>5 DEF Ingest
    <3> HIDE DEF item, w, q
    <3>2. Bears(w)
      BY <2>1, <2>2, <2>3, <3>1, PresentIsItem DEF Bears, Fresh, Stored
    <3>3. r # w
      BY <2>1, <2>2, <2>3, <3>1 DEF Write, Dangles
    <3> QED BY <2>1, <2>2, <3>1, <3>2, <3>3, WriteDangles
  <2> QED BY <2>4, <2>5
<1>12. ASSUME NEW c \in Client, Review(c) PROVE FALSE
  <2> DEFINE q == tx[c].req
             w == q.of
             item == Reviewed(graph[w], q)
  <2>1. q \in Req /\ w \in Resource /\ q.op \in {"approve", "reject", "edit"} /\ UNCHANGED born
    BY <1>12, UnderWay DEF Review, TxFits
  <2>2. CASE graph[w].kind = "Claim" /\ graph[w].origin = "candidate"
    <3>1. graph[w] \in Item
      BY <2>1, <2>2, Types, PresentIsItem DEF Present
    <3>2. item \in Item /\ item.origin = "candidate"
      BY <2>1, <2>2, <3>1, ReviewedIs
    <3>3. Write(w, item)
      BY <1>12, <2>2 DEF Review
    <3> HIDE DEF item, w, q
    <3>4. r # w
      BY <2>1, <3>2, <3>3, Types DEF Write, Dangles
    <3> QED BY <2>1, <3>2, <3>3, <3>4, WriteDangles DEF Bears
  <2>3. CASE ~(graph[w].kind = "Claim" /\ graph[w].origin = "candidate")
    BY <1>12, <2>3, SameDangles DEF Review
  <2> QED BY <2>2, <2>3
<1>13. ASSUME NEW c \in Client, NEW q \in Request,
              MatchEnds(c, q) \/ CaptureOld(c, q) \/ Prepass(c, q) \/ ReadClaim(c, q)
       PROVE  Excused(r)
  BY <1>1, <1>13 DEF MatchEnds, CaptureOld, Prepass, ReadClaim
<1>14. ASSUME NEW c \in Client,
              \/ \E i \in DOMAIN log, u \in User : ReadRevision(c, i, u)
              \/ CountDependencies(c) \/ Abandon(c)
       PROVE  Excused(r)
  BY <1>1, <1>14 DEF ReadRevision, CountDependencies, Abandon
<1>15. CASE UNCHANGED vars
  BY <1>1, <1>15 DEF vars
<1> QED
  BY <1>2, <1>3, <1>4, <1>5, <1>6, <1>7, <1>8, <1>9, <1>10, <1>11, <1>12, <1>13, <1>14, <1>15
  DEF Next, UpdateNode, UpdateRelationship, UpdateNote

\* A relationship loses a node it connects, or a note its target, only when a
\* commit came between two statements of a delete or a creation, or by a
\* revert of the relationship or note itself (the count in
\* CUSTOM_NODE_DELETE_QUERY, the ends CUSTOM_RELATIONSHIP_CREATE_QUERY
\* matches, the SET and CREATE of revert_revision_work).
THEOREM AlwaysDanglesOnlyIfOvertaken == Spec => DanglesOnlyIfOvertaken
<1>1. Inv /\ QuietInv /\ [Next]_vars =>
        [\A r \in Resource : Dangles(r)' /\ ~Dangles(r)
            => \E c \in Client :
                  /\ Steps(c)
                  /\ \/ ~tx[c].quiet
                     \/ tx[c].pc \in {"restoring", "rebuilding"} /\ tx[c].req.of = r]_vars
  BY StepDangles DEF Excused
<1> QED BY <1>1, AlwaysQuiet, PTL DEF Spec, DanglesOnlyIfOvertaken

=============================================================================
