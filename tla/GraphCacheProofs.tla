-------------------------- MODULE GraphCacheProofs --------------------------
(***************************************************************************)
(* What a cache of any number of keys serves to any number of readers      *)
(* while any number of content writes, some of which lose their            *)
(* invalidation half way, go on.                                           *)
(*                                                                         *)
(* The properties speak of what was served.  The invariant says what makes *)
(* it so: a payload no epoch bump overlapped is at least as new as the     *)
(* last bump, wherever it is on its way from the database to a reader.     *)
(***************************************************************************)
EXTENDS GraphCache, FiniteSets, FiniteSetTheorems, TLAPS

Pay == [version : Int, overlapped : BOOLEAN]
ReaderType == [pc : {"idle", "epoch", "get", "fetch", "set_epoch", "set"},
               kind : Kind, key : Key, epoch : Nat, payload : Pay, since : Nat]
WriterType == [pc : {"idle", "bump", "graph", "viz", "over"},
               version : Nat, todo : SUBSET Key]
EntryType == [key : Key, epoch : Nat, payload : Pay]

\* Without the bounds, which only the instances need.
Types ==
    /\ version \in Nat
    /\ epoch \in Nat
    /\ bumped \in Nat
    /\ swept \in Nat
    /\ graph \in [Key -> Pay]
    /\ viz \subseteq EntryType
    /\ reader \in [Reader -> ReaderType]
    /\ writer \in [Writer -> WriterType]
    /\ served \in [stale : BOOLEAN, kind : Kind, overlapped : BOOLEAN]

\* A payload with every write up to v, or one a bump overlapped.
Sound(p, v) == p.overlapped \/ v <= p.version

Ordered ==
    /\ swept <= bumped
    /\ bumped <= version
    /\ \A w \in Writer :
        /\ writer[w].version <= version
        /\ writer[w].pc \in {"graph", "viz"} => writer[w].version <= bumped

\* What a request carries with it.
Carries(q) ==
    /\ q.since <= IF q.kind = "viz" THEN bumped ELSE swept
    /\ q.epoch <= epoch
    /\ q.pc \in {"set_epoch", "set"} => Sound(q.payload, bumped)
    /\ q.pc = "set_epoch" => q.kind = "viz"
    /\ q.pc = "set" /\ q.kind = "viz" => q.payload.overlapped \/ q.epoch = epoch
Carried == \A r \in Reader : Carries(reader[r])

\* The entries of the current epoch, and of the one a request is looking in.
VizSound ==
    \A x \in viz :
        /\ x.epoch <= epoch
        /\ x.epoch = epoch => Sound(x.payload, bumped)
VizReadSound ==
    \A r \in Reader : reader[r].pc = "get" /\ reader[r].kind = "viz" =>
        \A x \in Slot(r) : Sound(x.payload, reader[r].since)

\* The graph keys, and those a writer's scan is done with.
GraphSound == \A k \in Key : graph[k] # None => Sound(graph[k], swept)
ScanSound ==
    \A w \in Writer : writer[w].pc = "graph" =>
        \A k \in Key \ writer[w].todo :
            graph[k] # None => Sound(graph[k], writer[w].version)

ServedSound == served.stale => served.overlapped

Inv ==
    /\ Types
    /\ Ordered
    /\ Carried
    /\ VizSound
    /\ VizReadSound
    /\ GraphSound
    /\ ScanSound
    /\ ServedSound

-----------------------------------------------------------------------------

LEMMA NoneIsPay == None \in Pay
BY DEF None, Pay

\* One key fewer.
LEMMA OneKeyFewer ==
    ASSUME graph \in [Key -> Pay], NEW k \in Key, graph' = [graph EXCEPT ![k] = None]
    PROVE  /\ graph' \in [Key -> Pay]
           /\ \A i \in Key : graph'[i] # None => graph'[i] = graph[i] /\ i # k
BY NoneIsPay

LEMMA IdleReaderType == IdleReader \in ReaderType /\ IdleReader.pc = "idle"
<1>1. (CHOOSE k \in Key : TRUE) \in Key
  BY CacheAssumption
<1> QED BY <1>1 DEF IdleReader, ReaderType, None, Pay, Kind

LEMMA IdleCarries ==
    ASSUME Types PROVE Carries(IdleReader)
BY DEF Types, Carries, IdleReader, Sound

LEMMA InitInv == Init => Inv
<1> SUFFICES ASSUME Init PROVE Inv
  OBVIOUS
<1>1. Types
  BY IdleReaderType DEF Init, Types, None, Pay, IdleWriter, WriterType, Fresh, Kind, EntryType
<1>2. Ordered
  BY DEF Init, Ordered, IdleWriter
<1>3. Carried
  BY <1>1, IdleCarries DEF Init, Carried
<1>4. VizSound /\ VizReadSound /\ ScanSound
  BY IdleReaderType DEF Init, VizSound, VizReadSound, ScanSound, IdleWriter
<1>5. GraphSound /\ ServedSound
  BY DEF Init, GraphSound, ServedSound, Fresh
<1> QED BY <1>1, <1>2, <1>3, <1>4, <1>5 DEF Inv

\* A reply with a sound payload is sound.
LEMMA ReplySound ==
    ASSUME Types, NEW r \in Reader, NEW p \in Pay, Sound(p, reader[r].since), Reply(r, p)
    PROVE  /\ ServedSound'
           /\ served' \in [stale : BOOLEAN, kind : Kind, overlapped : BOOLEAN]
<1>1. reader[r].since \in Nat /\ p.version \in Int /\ reader[r].kind \in Kind
      /\ p.overlapped \in BOOLEAN
  BY DEF Types, ReaderType, Pay
<1>2. CASE p.version < reader[r].since
  <2>1. p.overlapped
    BY <1>1, <1>2 DEF Sound
  <2> QED BY <1>1, <1>2, <2>1 DEF Reply, ServedSound
<1>3. CASE ~ (p.version < reader[r].since)
  BY <1>3 DEF Reply, ServedSound, Fresh, Kind
<1> QED BY <1>2, <1>3

\* A step of one reader that leaves the cache alone.
LEMMA ReaderStep ==
    ASSUME Inv, NEW r \in Reader, NEW q \in ReaderType,
           reader' = [reader EXCEPT ![r] = q], Carries(q),
           q.pc = "get" /\ q.kind = "viz" =>
               \A x \in viz : x.key = q.key /\ x.epoch = q.epoch => Sound(x.payload, q.since),
           ServedSound', served' \in [stale : BOOLEAN, kind : Kind, overlapped : BOOLEAN],
           UNCHANGED <<version, cacheVars, writer, historyVars>>
    PROVE  Inv'
<1> USE DEF Inv, cacheVars, historyVars
<1>1. Types'
  BY DEF Types
<1>2. Ordered' /\ VizSound' /\ GraphSound' /\ ScanSound'
  BY DEF Ordered, VizSound, GraphSound, ScanSound, Sound
<1>3. Carried'
  <2> SUFFICES ASSUME NEW s \in Reader PROVE Carries(reader[s])'
    BY DEF Carried
  <2>1. CASE s = r
    BY <2>1 DEF Types, Carries, Sound
  <2>2. CASE s # r
    BY <2>2 DEF Types, Carried, Carries, Sound
  <2> QED BY <2>1, <2>2
<1>4. VizReadSound'
  <2> SUFFICES ASSUME NEW s \in Reader, reader'[s].pc = "get", reader'[s].kind = "viz",
                      NEW x \in viz, x.key = reader'[s].key, x.epoch = reader'[s].epoch
               PROVE  Sound(x.payload, reader'[s].since)
    BY DEF VizReadSound, Slot, Sound
  <2>1. CASE s = r
    BY <2>1 DEF Types
  <2>2. CASE s # r
    BY <2>2 DEF Types, VizReadSound, Slot
  <2> QED BY <2>1, <2>2
<1> QED BY <1>1, <1>2, <1>3, <1>4

LEMMA ReadersKeepInv ==
    ASSUME Inv, NEW r \in Reader,
           \/ \E kind \in Kind, k \in Key : Start(r, kind, k)
           \/ ReadEpoch(r) \/ Hit(r) \/ Miss(r) \/ Fetch(r) \/ Abandon(r)
    PROVE  Inv'
<1> DEFINE q0 == reader[r]
<1>1. q0 \in ReaderType /\ Carries(q0) /\ reader \in [Reader -> ReaderType]
  BY DEF Inv, Types, Carried
<1>2. served \in [stale : BOOLEAN, kind : Kind, overlapped : BOOLEAN] /\ ServedSound
  BY DEF Inv, Types
<1>3. bumped \in Nat /\ swept \in Nat /\ epoch \in Nat /\ version \in Nat
      /\ bumped <= version /\ swept <= bumped
  BY DEF Inv, Types, Ordered
<1>4. ASSUME NEW kind \in Kind, NEW k \in Key, Start(r, kind, k) PROVE Inv'
  <2> DEFINE pc == IF kind = "viz" THEN "epoch" ELSE "get"
             v == IF kind = "viz" THEN bumped ELSE swept
  <2>1. pc \in {"epoch", "get"} /\ (pc = "get" => kind # "viz") /\ v \in Nat
        /\ v = (IF kind = "viz" THEN bumped ELSE swept)
    BY <1>3 DEF Kind
  <2>2. reader' = [reader EXCEPT ![r] = [IdleReader EXCEPT !.pc = pc, !.kind = kind,
                                                           !.key = k, !.since = v]]
    BY <1>4 DEF Start
  <2> HIDE DEF pc, v
  <2> DEFINE q == [IdleReader EXCEPT !.pc = pc, !.kind = kind, !.key = k, !.since = v]
  <2>3. IdleReader.epoch = 0
    BY DEF IdleReader
  <2>4. q \in ReaderType /\ q.pc = pc /\ q.kind = kind /\ q.since = v /\ q.epoch = 0
    BY <2>1, <2>3, IdleReaderType DEF ReaderType
  <2> HIDE DEF q
  <2>5. Carries(q)
    BY <1>3, <2>1, <2>4 DEF Carries
  <2>6. reader' = [reader EXCEPT ![r] = q]
    BY <2>2 DEF q
  <2> QED BY <1>2, <1>4, <2>1, <2>4, <2>5, <2>6, ReaderStep DEF Start, ServedSound
<1>5. ASSUME ReadEpoch(r) PROVE Inv'
  <2> DEFINE q == [q0 EXCEPT !.epoch = epoch,
                             !.pc = IF @ = "epoch" THEN "get" ELSE "set"]
  <2>1. q \in ReaderType /\ q.epoch = epoch /\ q.pc = (IF q0.pc = "epoch" THEN "get" ELSE "set")
        /\ q.kind = q0.kind /\ q.since = q0.since /\ q.payload = q0.payload /\ q.key = q0.key
    BY <1>1, <1>3 DEF ReaderType
  <2>2. reader' = [reader EXCEPT ![r] = q]
    BY <1>1, <1>5 DEF ReadEpoch, ReaderType
  <2> HIDE DEF q
  <2>3. q0.pc \in {"epoch", "set_epoch"}
    BY <1>5 DEF ReadEpoch
  <2>4. Carries(q)
    BY <1>1, <1>3, <2>1, <2>3 DEF Carries, Sound
  <2>5. ASSUME q.kind = "viz", NEW x \in viz, x.epoch = q.epoch
        PROVE  Sound(x.payload, q.since)
    <3>1. Sound(x.payload, bumped) /\ q.since <= bumped
      BY <1>1, <2>1, <2>5 DEF Inv, VizSound, Carries
    <3>2. x.payload.version \in Int /\ q.since \in Nat
      BY <2>1 DEF Inv, Types, EntryType, Pay, ReaderType
    <3> QED BY <1>3, <3>1, <3>2 DEF Sound
  <2> QED BY <1>2, <1>5, <2>1, <2>2, <2>4, <2>5, ReaderStep DEF ReadEpoch, ServedSound
<1>6. ASSUME Hit(r) PROVE Inv'
  <2>1. PICK p \in Pay : Sound(p, q0.since) /\ Reply(r, p)
    <3>1. CASE q0.kind = "graph" /\ graph[q0.key] # None /\ Reply(r, graph[q0.key])
      <4>1. graph[q0.key] \in Pay /\ q0.since <= swept /\ Sound(graph[q0.key], swept)
        BY <1>1, <3>1 DEF Inv, Types, ReaderType, Carries, GraphSound
      <4> QED BY <1>1, <1>3, <3>1, <4>1 DEF Sound, Pay, ReaderType
    <3>2. CASE q0.kind = "viz" /\ \E x \in Slot(r) : Reply(r, x.payload)
      <4>1. PICK x \in Slot(r) : Reply(r, x.payload)
        BY <3>2
      <4>2. x.payload \in Pay /\ Sound(x.payload, q0.since)
        BY <1>6, <3>2, <4>1 DEF Hit, At, Inv, VizReadSound, Types, EntryType, Slot
      <4> QED BY <4>1, <4>2
    <3> QED BY <1>6, <3>1, <3>2 DEF Hit
  <2>2. ServedSound' /\ served' \in [stale : BOOLEAN, kind : Kind, overlapped : BOOLEAN]
    BY <2>1, ReplySound DEF Inv
  <2>3. Carries(IdleReader)
    BY IdleCarries DEF Inv
  <2> QED BY <1>6, <2>2, <2>3, IdleReaderType, ReaderStep DEF Hit
<1>7. ASSUME Miss(r) PROVE Inv'
  <2> DEFINE q == [q0 EXCEPT !.pc = "fetch"]
  <2>1. q \in ReaderType /\ q.pc = "fetch" /\ q.kind = q0.kind /\ q.since = q0.since
        /\ q.epoch = q0.epoch
    BY <1>1 DEF ReaderType
  <2>2. reader' = [reader EXCEPT ![r] = q]
    BY <1>7, <1>1 DEF Miss, Goto
  <2> HIDE DEF q
  <2>3. Carries(q)
    BY <1>1, <2>1 DEF Carries
  <2> QED BY <1>2, <1>7, <2>1, <2>2, <2>3, ReaderStep DEF Miss, ServedSound
<1>8. ASSUME Fetch(r) PROVE Inv'
  <2> DEFINE p == [version |-> version, overlapped |-> FALSE]
             q == [q0 EXCEPT !.payload = p, !.since = 0,
                             !.pc = IF q0.kind = "viz" THEN "set_epoch" ELSE "set"]
  <2>1. p \in Pay /\ p.version = version
    BY <1>3 DEF Pay
  <2>2. reader' = [reader EXCEPT ![r] = q] /\ Reply(r, p)
    BY <1>8 DEF Fetch
  <2> HIDE DEF p
  <2>3. q \in ReaderType /\ q.payload = p /\ q.since = 0 /\ q.kind = q0.kind
        /\ q.epoch = q0.epoch /\ q.pc = (IF q0.kind = "viz" THEN "set_epoch" ELSE "set")
    BY <1>1, <2>1 DEF ReaderType
  <2> HIDE DEF q
  <2>4. Carries(q)
    BY <1>1, <1>3, <2>1, <2>3 DEF Carries, Sound
  <2>5. Sound(p, q0.since)
    BY <1>1, <1>3, <2>1 DEF Sound, Carries, ReaderType
  <2>6. ServedSound' /\ served' \in [stale : BOOLEAN, kind : Kind, overlapped : BOOLEAN]
    BY <2>1, <2>2, <2>5, ReplySound DEF Inv
  <2> QED BY <1>8, <2>2, <2>3, <2>4, <2>6, ReaderStep DEF Fetch
<1>9. ASSUME Abandon(r) PROVE Inv'
  <2>1. Carries(IdleReader)
    BY IdleCarries DEF Inv
  <2> QED BY <1>2, <1>9, <2>1, IdleReaderType, ReaderStep DEF Abandon, ServedSound
<1> QED BY <1>4, <1>5, <1>6, <1>7, <1>8, <1>9

\* Storing a payload.
LEMMA SetKeepsInv == ASSUME Inv, NEW r \in Reader, Set(r) PROVE Inv'
<1> DEFINE q == reader[r]
<1>1. q \in ReaderType /\ q.payload \in Pay /\ Carries(q)
  BY DEF Inv, Types, Carried, ReaderType
<1>2. Sound(q.payload, bumped) /\ (q.kind = "viz" => q.payload.overlapped \/ q.epoch = epoch)
      /\ q.epoch <= epoch
  BY <1>1 DEF Set, At, Carries
<1>3. /\ bumped \in Nat /\ swept \in Nat /\ epoch \in Nat
      /\ swept <= bumped /\ q.payload.version \in Int
  BY <1>1 DEF Inv, Types, Ordered, Pay
<1>4. UNCHANGED <<version, epoch, served, writer, bumped, swept>>
      /\ reader' = [reader EXCEPT ![r] = IdleReader]
  BY DEF Set, historyVars
<1>5. CASE q.kind = "viz"
  <2> DEFINE e == [key |-> q.key, epoch |-> q.epoch, payload |-> q.payload]
  <2>1. viz' = (viz \ Slot(r)) \cup {e} /\ UNCHANGED graph
    BY <1>5 DEF Set
  <2>2. e \in EntryType /\ e.epoch = q.epoch /\ e.payload = q.payload
    BY <1>1 DEF EntryType, ReaderType
  <2> HIDE DEF e
  <2>3. Types'
    BY <1>4, <2>1, <2>2, IdleReaderType DEF Inv, Types
  <2>4. Ordered' /\ GraphSound' /\ ScanSound' /\ ServedSound'
    BY <1>4, <2>1 DEF Inv, Ordered, GraphSound, ScanSound, ServedSound, Sound
  <2>5. Carried'
    BY <1>4, IdleCarries DEF Inv, Carried, Types, Carries, Sound
  <2>6. VizSound'
    BY <1>2, <1>4, <2>1, <2>2 DEF Inv, VizSound, Sound
  <2>7. VizReadSound'
    <3> SUFFICES ASSUME NEW s \in Reader, reader'[s].pc = "get", reader'[s].kind = "viz",
                        NEW x \in viz', x.key = reader'[s].key, x.epoch = reader'[s].epoch
                 PROVE  Sound(x.payload, reader'[s].since)
      BY DEF VizReadSound, Slot, Sound
    <3>1. s # r /\ reader'[s] = reader[s]
      BY <1>4, IdleReaderType DEF Inv, Types
    <3>2. CASE x = e
      <4>1. reader[s].since <= bumped /\ reader[s].since \in Nat
        BY <3>1 DEF Inv, Carried, Carries, Types, ReaderType
      <4> QED BY <1>2, <1>3, <2>2, <3>1, <3>2, <4>1 DEF Sound
    <3>3. CASE x # e
      BY <2>1, <3>1, <3>3 DEF Inv, VizReadSound, Slot
    <3> QED BY <3>2, <3>3
  <2> QED BY <2>3, <2>4, <2>5, <2>6, <2>7 DEF Inv
<1>6. CASE q.kind = "graph"
  <2>1. graph' = [graph EXCEPT ![q.key] = q.payload] /\ UNCHANGED viz
    BY <1>6 DEF Set
  <2>2. q.key \in Key
    BY <1>1 DEF ReaderType
  <2>3. Types'
    BY <1>1, <1>4, <2>1, <2>2, IdleReaderType DEF Inv, Types
  <2>4. Ordered' /\ ServedSound' /\ VizSound'
    BY <1>4, <2>1 DEF Inv, Ordered, ServedSound, VizSound, Sound
  <2>5. Carried'
    BY <1>4, IdleCarries DEF Inv, Carried, Types, Carries, Sound
  <2>6. VizReadSound'
    BY <1>4, <2>1, IdleReaderType DEF Inv, Types, VizReadSound, Slot, Sound
  <2>7. ASSUME NEW v \in Nat, v <= bumped, NEW k \in Key,
               graph[k] # None => Sound(graph[k], v)
        PROVE  graph'[k] # None => Sound(graph'[k], v)
    BY <1>2, <1>3, <2>1, <2>2, <2>7 DEF Inv, Types, Sound
  <2>8. GraphSound'
    BY <1>3, <1>4, <2>7 DEF Inv, GraphSound, Sound
  <2>9. ScanSound'
    <3> SUFFICES ASSUME NEW w \in Writer, writer[w].pc = "graph",
                        NEW k \in Key \ writer[w].todo, graph'[k] # None
                 PROVE  Sound(graph'[k], writer[w].version)
      BY <1>4 DEF ScanSound, Sound
    <3>1. writer[w].version \in Nat /\ writer[w].version <= bumped
      BY DEF Inv, Types, WriterType, Ordered
    <3> QED BY <2>7, <3>1 DEF Inv, ScanSound
  <2> QED BY <2>3, <2>4, <2>5, <2>6, <2>8, <2>9 DEF Inv
<1> QED BY <1>1, <1>5, <1>6 DEF ReaderType, Kind

-----------------------------------------------------------------------------
(* Writers and the clock.                                                  *)


\* The reads are as sound as they were after a step that takes nothing but
\* entries away, or is not about the cache.
LEMMA ReadsKept ==
    ASSUME Inv, graph' \in [Key -> Pay], viz' \subseteq viz,
           \A k \in Key : graph'[k] # None => graph'[k] = graph[k],
           UNCHANGED <<epoch, reader, served, bumped, swept>>
    PROVE  Carried' /\ VizSound' /\ VizReadSound' /\ GraphSound' /\ ServedSound'
<1>1. Carried'
  BY DEF Inv, Carried, Carries, Sound
<1>2. VizSound' /\ VizReadSound' /\ ServedSound'
  BY DEF Inv, VizSound, VizReadSound, ServedSound, Slot, Sound
<1>3. GraphSound'
  BY DEF Inv, GraphSound, Sound
<1> QED BY <1>1, <1>2, <1>3

LEMMA BumpKeepsInv == ASSUME Inv, NEW w \in Writer, Bump(w) PROVE Inv'
<1> DEFINE flight(s) == reader[s].pc \in {"set_epoch", "set"}
           v == writer[w].version
<1>1. /\ version \in Nat /\ epoch \in Nat /\ bumped \in Nat /\ swept \in Nat
      /\ v \in Nat /\ v <= version /\ bumped <= version /\ swept <= bumped
      /\ writer \in [Writer -> WriterType] /\ reader \in [Reader -> ReaderType]
  BY DEF Inv, Types, WriterType, Ordered
<1>2. bumped' \in Nat /\ bumped <= bumped' /\ v <= bumped' /\ bumped' <= version
  BY <1>1 DEF Bump, Newest
<1>3. UNCHANGED <<version, graph, viz, served, swept>> /\ epoch' = epoch + 1
  BY DEF Bump, NextEpoch
<1>4. writer' = [writer EXCEPT ![w].pc = "graph", ![w].todo = GraphKeys]
  BY DEF Bump
<1>5. ASSUME NEW s \in Reader
      PROVE  /\ reader'[s] \in ReaderType
             /\ reader'[s].pc = reader[s].pc /\ reader'[s].kind = reader[s].kind
             /\ reader'[s].key = reader[s].key /\ reader'[s].epoch = reader[s].epoch
             /\ reader'[s].since = reader[s].since
             /\ flight(s) => reader'[s].payload.overlapped
  <2> DEFINE o == reader[s].payload.overlapped \/ flight(s)
  <2>1. reader'[s] = [reader[s] EXCEPT !.payload.overlapped = o]
    BY DEF Bump
  <2>2. o \in BOOLEAN /\ (flight(s) => o)
    OBVIOUS
  <2>3. reader[s] \in ReaderType /\ reader[s].payload \in Pay
    BY <1>1 DEF ReaderType
  <2> HIDE DEF o
  <2> DEFINE p == [reader[s].payload EXCEPT !.overlapped = o]
  <2>4. p \in Pay /\ p.overlapped = o
    BY <2>2, <2>3 DEF Pay
  <2>5. reader'[s] = [reader[s] EXCEPT !.payload = p]
    BY <2>1
  <2> HIDE DEF p
  <2> QED BY <2>2, <2>3, <2>4, <2>5 DEF ReaderType
<1>6. GraphKeys \subseteq Key /\ writer' \in [Writer -> WriterType]
  BY <1>1, <1>4 DEF GraphKeys, WriterType
<1>7. reader' \in [Reader -> ReaderType]
  <2>1. reader' = [s \in Reader |-> reader'[s]]
    BY DEF Bump
  <2> QED BY <1>5, <2>1
<1>8. Types'
  BY <1>1, <1>2, <1>3, <1>6, <1>7 DEF Inv, Types
<1>9. Ordered'
  <2> SUFFICES ASSUME NEW u \in Writer
               PROVE  /\ writer'[u].version <= version
                      /\ writer'[u].pc \in {"graph", "viz"} => writer'[u].version <= bumped'
    BY <1>1, <1>2, <1>3 DEF Ordered
  <2>1. CASE u = w
    BY <1>1, <1>2, <1>4, <2>1 DEF WriterType
  <2>2. CASE u # w
    BY <1>1, <1>2, <1>4, <2>2 DEF WriterType, Inv, Ordered
  <2> QED BY <2>1, <2>2
<1>10. Carried'
  <2> SUFFICES ASSUME NEW s \in Reader PROVE Carries(reader[s])'
    BY DEF Carried
  <2>1. reader[s] \in ReaderType /\ Carries(reader[s])
    BY <1>1 DEF Inv, Carried
  <2> QED BY <1>1, <1>2, <1>3, <1>5, <2>1 DEF Carries, Sound, ReaderType
<1>11. VizSound'
  <2> SUFFICES ASSUME NEW x \in viz PROVE x.epoch < epoch'
    BY <1>1, <1>3 DEF VizSound, Inv, Types, EntryType
  <2> QED BY <1>1, <1>3 DEF Inv, VizSound, Types, EntryType
<1>12. VizReadSound'
  BY <1>3, <1>5 DEF Inv, VizReadSound, Slot, Sound
<1>13. GraphSound' /\ ServedSound'
  BY <1>3 DEF Inv, GraphSound, ServedSound, Sound
<1>14. ScanSound'
  <2> SUFFICES ASSUME NEW u \in Writer, writer'[u].pc = "graph",
                      NEW k \in Key \ writer'[u].todo, graph[k] # None
               PROVE  Sound(graph[k], writer'[u].version)
    BY <1>3 DEF ScanSound, Sound
  <2>1. CASE u = w
    BY <1>1, <1>4, <2>1 DEF WriterType, GraphKeys
  <2>2. CASE u # w
    BY <1>1, <1>4, <2>2 DEF Inv, ScanSound
  <2> QED BY <2>1, <2>2
<1> QED BY <1>8, <1>9, <1>10, <1>11, <1>12, <1>13, <1>14 DEF Inv

\* The other steps of a write, and the end of an entry's time.
LEMMA WritersKeepInv ==
    ASSUME Inv, NEW w \in Writer,
           Commit(w) \/ DeleteGraph(w) \/ ScanViz(w) \/ DeleteViz(w) \/ Invalidated(w) \/ GiveUp(w)
    PROVE  Inv'
<1>1. /\ version \in Nat /\ epoch \in Nat /\ bumped \in Nat /\ swept \in Nat
      /\ bumped <= version /\ swept <= bumped
      /\ writer \in [Writer -> WriterType] /\ graph \in [Key -> Pay]
      /\ \A u \in Writer : writer[u].version \in Nat /\ writer[u].version <= version
  BY DEF Inv, Types, WriterType, Ordered
<1>2. ASSUME Commit(w) PROVE Inv'
  <2>1. /\ UNCHANGED <<epoch, graph, viz, reader, served, bumped, swept>>
        /\ version' = version + 1
        /\ writer' = [writer EXCEPT ![w].pc = "bump", ![w].version = version + 1]
    BY <1>2 DEF Commit, cacheVars, historyVars
  <2>2. Types'
    BY <1>1, <2>1 DEF Inv, Types, WriterType
  <2>3. Ordered'
    BY <1>1, <2>1 DEF Inv, Ordered, WriterType
  <2>4. Carried' /\ VizSound' /\ VizReadSound' /\ GraphSound' /\ ServedSound'
    BY <1>1, <2>1, ReadsKept
  <2>5. ScanSound'
    BY <1>1, <2>1 DEF Inv, ScanSound, WriterType, Sound
  <2> QED BY <2>2, <2>3, <2>4, <2>5 DEF Inv
<1>3. ASSUME DeleteGraph(w) PROVE Inv'
  <2>1. PICK k \in writer[w].todo :
           /\ graph' = [graph EXCEPT ![k] = None]
           /\ writer' = [writer EXCEPT ![w].todo = @ \ {k}]
    BY <1>3 DEF DeleteGraph
  <2>2. UNCHANGED <<version, epoch, viz, reader, served, bumped, swept>>
    BY <1>3 DEF DeleteGraph, historyVars
  <2>3. graph' \in [Key -> Pay]
        /\ \A i \in Key : graph'[i] # None => graph'[i] = graph[i] /\ i # k
    <3>1. k \in Key
      BY <1>1, <2>1 DEF WriterType
    <3> QED BY <1>1, <2>1, <3>1, OneKeyFewer
  <2>4. Types'
    BY <1>1, <2>1, <2>2, <2>3 DEF Inv, Types, WriterType
  <2>5. Ordered'
    BY <1>1, <2>1, <2>2 DEF Inv, Ordered, WriterType
  <2>6. Carried' /\ VizSound' /\ VizReadSound' /\ GraphSound' /\ ServedSound'
    BY <2>2, <2>3, ReadsKept
  <2>7. ScanSound'
    <3> SUFFICES ASSUME NEW u \in Writer, writer'[u].pc = "graph",
                        NEW i \in Key \ writer'[u].todo, graph'[i] # None
                 PROVE  Sound(graph'[i], writer'[u].version)
      BY DEF ScanSound, Sound
    <3>1. writer[u].pc = "graph" /\ writer'[u].version = writer[u].version
      BY <1>1, <2>1 DEF WriterType
    <3>2. graph'[i] = graph[i] /\ i # k /\ graph[i] # None
      BY <2>3
    <3>3. i \in Key \ writer[u].todo
      BY <1>1, <2>1, <3>2 DEF WriterType
    <3> QED BY <3>1, <3>2, <3>3 DEF Inv, ScanSound
  <2> QED BY <2>4, <2>5, <2>6, <2>7 DEF Inv
<1>4. ASSUME ScanViz(w) PROVE Inv'
  <2>1. /\ writer[w].pc = "graph" /\ writer[w].todo = {} /\ swept' = Newest(swept, w)
        /\ writer' = [writer EXCEPT ![w].pc = "viz", ![w].todo = VizKeys]
        /\ UNCHANGED <<version, epoch, graph, viz, reader, served, bumped>>
    BY <1>4 DEF ScanViz, cacheVars
  <2>2. swept' \in Nat /\ swept <= swept' /\ swept' <= bumped
        /\ (swept' = swept \/ swept' = writer[w].version)
    BY <1>1, <2>1 DEF Newest, Inv, Ordered
  <2>3. VizKeys \subseteq Key
    BY DEF Inv, Types, EntryType, VizKeys
  <2>4. Types'
    BY <1>1, <2>1, <2>2, <2>3 DEF Inv, Types, WriterType
  <2>5. Ordered'
    BY <1>1, <2>1, <2>2 DEF Inv, Ordered, WriterType
  <2>6. Carried'
    BY <1>1, <2>1, <2>2 DEF Inv, Carried, Carries, Sound, Types, ReaderType
  <2>7. VizSound' /\ VizReadSound' /\ ServedSound'
    BY <2>1 DEF Inv, VizSound, VizReadSound, ServedSound, Slot, Sound
  <2>8. GraphSound'
    BY <2>1, <2>2 DEF Inv, GraphSound, ScanSound, Sound
  <2>9. ScanSound'
    BY <1>1, <2>1 DEF Inv, ScanSound, WriterType, Sound
  <2> QED BY <2>4, <2>5, <2>6, <2>7, <2>8, <2>9 DEF Inv
<1>5. ASSUME DeleteViz(w) PROVE Inv'
  <2>1. PICK k \in writer[w].todo :
           /\ viz' = {x \in viz : x.key # k}
           /\ writer' = [writer EXCEPT ![w].todo = @ \ {k}]
    BY <1>5 DEF DeleteViz
  <2>2. UNCHANGED <<version, epoch, graph, reader, served, bumped, swept>>
    BY <1>5 DEF DeleteViz, historyVars
  <2>3. writer[w].pc = "viz"
    BY <1>5 DEF DeleteViz
  <2>4. Types'
    BY <1>1, <2>1, <2>2 DEF Inv, Types, WriterType
  <2>5. Ordered'
    BY <1>1, <2>1, <2>2 DEF Inv, Ordered, WriterType
  <2>6. Carried' /\ VizSound' /\ VizReadSound' /\ GraphSound' /\ ServedSound'
    BY <1>1, <2>1, <2>2, ReadsKept
  <2>7. ScanSound'
    BY <1>1, <2>1, <2>2, <2>3 DEF Inv, ScanSound, WriterType, Sound
  <2> QED BY <2>4, <2>5, <2>6, <2>7 DEF Inv
<1>6. ASSUME Invalidated(w) \/ GiveUp(w) PROVE Inv'
  <2>1. UNCHANGED <<version, epoch, graph, viz, reader, served, bumped, swept>>
    BY <1>6 DEF Invalidated, GiveUp, cacheVars, historyVars
  <2>2. /\ writer' \in [Writer -> WriterType]
        /\ writer'[w].pc = "over" /\ writer'[w].version = writer[w].version
        /\ \A u \in Writer \ {w} : writer'[u] = writer[u]
    BY <1>1, <1>6 DEF Invalidated, GiveUp, WriterType
  <2>3. Types'
    BY <2>1, <2>2 DEF Inv, Types
  <2>4. Ordered'
    BY <2>1, <2>2 DEF Inv, Ordered
  <2>5. Carried' /\ VizSound' /\ VizReadSound' /\ GraphSound' /\ ServedSound'
    BY <1>1, <2>1, ReadsKept
  <2>6. ScanSound'
    BY <2>1, <2>2 DEF Inv, ScanSound, Sound
  <2> QED BY <2>3, <2>4, <2>5, <2>6 DEF Inv
<1> QED BY <1>2, <1>3, <1>4, <1>5, <1>6

LEMMA ExpiryKeepsInv ==
    ASSUME Inv, NEW k \in Key, ExpireGraph(k) \/ \E e \in Version : ExpireViz(k, e)
    PROVE  Inv'
<1>1. UNCHANGED <<version, epoch, reader, served, writer, bumped, swept>>
      /\ viz' \subseteq viz
  BY DEF ExpireGraph, ExpireViz, historyVars
<1>2. graph' \in [Key -> Pay] /\ \A i \in Key : graph'[i] # None => graph'[i] = graph[i]
  <2>1. graph \in [Key -> Pay]
    BY DEF Inv, Types
  <2>2. CASE graph' = [graph EXCEPT ![k] = None]
    BY <2>1, <2>2, OneKeyFewer
  <2>3. CASE UNCHANGED graph
    BY <2>1, <2>3
  <2> QED BY <2>2, <2>3 DEF ExpireGraph, ExpireViz
<1>3. Types' /\ Ordered'
  BY <1>1, <1>2 DEF Inv, Types, Ordered
<1>4. Carried' /\ VizSound' /\ VizReadSound' /\ GraphSound' /\ ServedSound'
  BY <1>1, <1>2, ReadsKept
<1>5. ScanSound'
  BY <1>1, <1>2 DEF Inv, ScanSound, Sound
<1> QED BY <1>3, <1>4, <1>5 DEF Inv

LEMMA StepInv == Inv /\ [Next]_vars => Inv'
<1> SUFFICES ASSUME Inv, [Next]_vars PROVE Inv'
  OBVIOUS
<1>1. ASSUME NEW r \in Reader, NEW kind \in Kind, NEW k \in Key, Start(r, kind, k) PROVE Inv'
  BY <1>1, ReadersKeepInv
<1>2. ASSUME NEW r \in Reader, Read(r) PROVE Inv'
  BY <1>2, ReadersKeepInv, SetKeepsInv DEF Read
<1>3. ASSUME NEW w \in Writer,
             \/ Commit(w) \/ Bump(w) \/ DeleteGraph(w) \/ ScanViz(w) \/ DeleteViz(w)
             \/ Invalidated(w) \/ GiveUp(w)
      PROVE  Inv'
  BY <1>3, BumpKeepsInv, WritersKeepInv
<1>4. ASSUME NEW k \in Key, ExpireGraph(k) \/ \E e \in Version : ExpireViz(k, e) PROVE Inv'
  BY <1>4, ExpiryKeepsInv
<1>5. CASE UNCHANGED vars
  BY <1>5 DEF vars, cacheVars, historyVars, Inv, Types, Ordered, Carried, Carries,
             VizSound, VizReadSound, Slot, GraphSound, ScanSound, ServedSound, Sound
<1> QED BY <1>1, <1>2, <1>3, <1>4, <1>5 DEF Next

LEMMA Invariance == Spec => []Inv
<1>1. Inv /\ [Next]_vars => Inv'
  BY StepInv
<1> QED BY InitInv, <1>1, PTL DEF Spec

\* Whatever fails, expires or interleaves, a graph request is served content older
\* than an invalidation completed before it only if a fetch that was in flight
\* across an epoch bump stored it (set_cached_graph, invalidate_series).
THEOREM GraphStalenessIsOverlap == Spec => []GraphStaleOnlyIfOverlapped
<1>1. Inv => GraphStaleOnlyIfOverlapped
  BY DEF Inv, ServedSound, GraphStaleOnlyIfOverlapped
<1> QED BY Invariance, <1>1, PTL

\* The epoch alone gives a visualization request the same promise, the deletion
\* of its keys put aside (set_cached_visualization, invalidate_series).
THEOREM VizStalenessIsOverlap == Spec => []VizStaleOnlyIfOverlapped
<1>1. Inv => VizStaleOnlyIfOverlapped
  BY DEF Inv, ServedSound, VizStaleOnlyIfOverlapped
<1> QED BY Invariance, <1>1, PTL

-----------------------------------------------------------------------------
(* The bounds of TypeOK: every bump answers a commit of its own.           *)

\* The writes whose epoch bump is still to come.
Bumping == {w \in Writer : writer[w].pc = "bump"}

Answered == IsFiniteSet(Bumping) /\ epoch + Cardinality(Bumping) <= version

\* Only a fetch puts a payload on its way to the cache.
Fetched == \A r \in Reader : reader[r].pc \in {"set_epoch", "set"} => reader[r].payload \in Payload

Bounded == TypeOK /\ Fetched /\ Answered

\* One writer more or less.
LEMMA OneWriter ==
    ASSUME writer \in [Writer -> WriterType], Answered, epoch \in Nat, version \in Nat,
           NEW w \in Writer, NEW q \in WriterType, writer' = [writer EXCEPT ![w] = q],
           epoch' \in Nat, version' \in Nat,
           \/ writer[w].pc # "bump" /\ q.pc = "bump" /\ epoch' = epoch /\ version' = version + 1
           \/ writer[w].pc = "bump" /\ q.pc # "bump" /\ epoch' \in {epoch, epoch + 1}
                                                     /\ version' = version
           \/ writer[w].pc # "bump" /\ q.pc # "bump" /\ epoch' = epoch /\ version' = version
    PROVE  Answered'
<1>1. CASE writer[w].pc # "bump" /\ q.pc = "bump" /\ epoch' = epoch /\ version' = version + 1
  <2>1. Bumping' = Bumping \cup {w} /\ w \notin Bumping
    BY <1>1 DEF Bumping
  <2>2. IsFiniteSet(Bumping') /\ Cardinality(Bumping') = Cardinality(Bumping) + 1
    BY <2>1, FS_AddElement DEF Answered
  <2>3. Cardinality(Bumping) \in Nat
    BY FS_CardinalityType DEF Answered
  <2> QED BY <1>1, <2>2, <2>3 DEF Answered
<1>2. CASE writer[w].pc = "bump" /\ q.pc # "bump" /\ epoch' \in {epoch, epoch + 1}
           /\ version' = version
  <2>1. Bumping' = Bumping \ {w} /\ w \in Bumping
    BY <1>2 DEF Bumping
  <2>2. IsFiniteSet(Bumping') /\ Cardinality(Bumping') = Cardinality(Bumping) - 1
    BY <2>1, FS_RemoveElement DEF Answered
  <2>3. Cardinality(Bumping) \in Nat
    BY FS_CardinalityType DEF Answered
  <2> QED BY <1>2, <2>2, <2>3 DEF Answered
<1>3. CASE writer[w].pc # "bump" /\ q.pc # "bump" /\ epoch' = epoch /\ version' = version
  <2>1. Bumping' = Bumping
    BY <1>3 DEF Bumping
  <2> QED BY <1>3, <2>1 DEF Answered
<1> QED BY <1>1, <1>2, <1>3

LEMMA SameWriters ==
    ASSUME Answered, UNCHANGED <<writer, epoch, version>>
    PROVE  Answered'
BY DEF Answered, Bumping

ReaderBounded == [pc : {"idle", "epoch", "get", "fetch", "set_epoch", "set"},
                  kind : Kind, key : Key, epoch : Version,
                  payload : MaybePayload, since : Version]

LEMMA IdleReaderBounded == IdleReader \in ReaderBounded /\ IdleReader.pc = "idle"
<1>1. (CHOOSE k \in Key : TRUE) \in Key
  BY CacheAssumption
<1>2. 0 \in Version
  BY CacheAssumption DEF Version
<1> QED BY <1>1, <1>2 DEF IdleReader, ReaderBounded, MaybePayload, Kind

\* A reader's step, which leaves the writers alone.
LEMMA ReadersKeepBounds ==
    ASSUME Inv, Inv', Bounded, NEW r \in Reader,
           Read(r) \/ \E kind \in Kind, k \in Key : Start(r, kind, k)
    PROVE  Bounded'
<1> DEFINE Served == [stale : BOOLEAN, kind : Kind, overlapped : BOOLEAN]
           Goes(q) == /\ q.pc \in {"set_epoch", "set"} => q.payload \in Payload
                      /\ reader' = [reader EXCEPT ![r] = q]
<1>0. /\ {version, epoch, bumped, swept} \subseteq Version
      /\ graph \in [Key -> MaybePayload] /\ viz \subseteq VizEntry
      /\ reader \in [Reader -> ReaderBounded] /\ served \in Served
      /\ 0 \in Version
      /\ reader[r] \in ReaderBounded
  BY CacheAssumption DEF Bounded, TypeOK, ReaderBounded, Version
<1>1. UNCHANGED <<version, epoch, writer, bumped, swept>>
  BY DEF Read, Start, ReadEpoch, Hit, Miss, Fetch, Set, Abandon, Goto, cacheVars, historyVars
<1>2. Answered'
  BY <1>1, SameWriters DEF Bounded
<1>3. \E q \in ReaderBounded : Goes(q)
  <2>1. ASSUME NEW kind \in Kind, NEW k \in Key, Start(r, kind, k)
        PROVE  \E q \in ReaderBounded : Goes(q)
    <3> DEFINE q == [IdleReader EXCEPT !.pc = IF kind = "viz" THEN "epoch" ELSE "get",
                                       !.kind = kind, !.key = k,
                                       !.since = IF kind = "viz" THEN bumped ELSE swept]
    <3>1. q \in ReaderBounded /\ q.pc \notin {"set_epoch", "set"}
      BY <1>0, IdleReaderBounded DEF ReaderBounded
    <3> QED BY <2>1, <3>1 DEF Start
  <2>2. ASSUME ReadEpoch(r)
        PROVE  \E q \in ReaderBounded : Goes(q)
    <3> DEFINE q == [reader[r] EXCEPT !.epoch = epoch,
                                      !.pc = IF @ = "epoch" THEN "get" ELSE "set"]
    <3>1. q \in ReaderBounded /\ q.payload = reader[r].payload
      BY <1>0, <2>2 DEF ReadEpoch, ReaderBounded
    <3>2. reader' = [reader EXCEPT ![r] = q]
      BY <1>0, <2>2 DEF ReadEpoch, ReaderBounded
    <3>3. q.pc \in {"set_epoch", "set"} => reader[r].pc = "set_epoch"
      BY <1>0, <2>2 DEF ReadEpoch, ReaderBounded
    <3> QED BY <3>1, <3>2, <3>3 DEF Bounded, Fetched
  <2>3. ASSUME Hit(r) \/ Set(r) \/ Abandon(r)
        PROVE  \E q \in ReaderBounded : Goes(q)
    BY <2>3, IdleReaderBounded DEF Hit, Set, Abandon
  <2>4. ASSUME Miss(r)
        PROVE  \E q \in ReaderBounded : Goes(q)
    <3> DEFINE q == [reader[r] EXCEPT !.pc = "fetch"]
    <3>1. q \in ReaderBounded /\ q.pc = "fetch"
      BY <1>0 DEF ReaderBounded
    <3>2. reader' = [reader EXCEPT ![r] = q]
      BY <1>0, <2>4 DEF Miss, Goto
    <3> QED BY <3>1, <3>2
  <2>5. ASSUME Fetch(r)
        PROVE  \E q \in ReaderBounded : Goes(q)
    <3> DEFINE p == [version |-> version, overlapped |-> FALSE]
               q == [reader[r] EXCEPT !.payload = p, !.since = 0,
                       !.pc = IF reader[r].kind = "viz" THEN "set_epoch" ELSE "set"]
    <3>1. p \in Payload
      BY <1>0 DEF Payload
    <3>2. q \in ReaderBounded /\ q.payload = p
      BY <1>0, <3>1 DEF ReaderBounded, MaybePayload
    <3>3. reader' = [reader EXCEPT ![r] = q]
      BY <1>0, <2>5 DEF Fetch
    <3> QED BY <3>1, <3>2, <3>3
  <2> QED BY <2>1, <2>2, <2>3, <2>4, <2>5 DEF Read
<1>4. served' \in Served
  BY DEF Inv, Types
<1>5. graph' \in [Key -> MaybePayload] /\ viz' \subseteq VizEntry
  <2>1. CASE Set(r)
    <3>1. reader[r].payload \in Payload
      BY <2>1 DEF Set, At, Bounded, Fetched
    <3> QED BY <1>0, <2>1, <3>1 DEF Set, ReaderBounded, VizEntry, MaybePayload
  <2>2. CASE ~ Set(r)
    <3>1. UNCHANGED <<graph, viz>>
      BY <2>2 DEF Read, Start, ReadEpoch, Hit, Miss, Fetch, Abandon, Goto, cacheVars
    <3> QED BY <1>0, <3>1
  <2> QED BY <2>1, <2>2
<1>6. reader' \in [Reader -> ReaderBounded] /\ Fetched'
  BY <1>0, <1>3 DEF Bounded, Fetched
<1> QED
  BY <1>0, <1>1, <1>2, <1>4, <1>5, <1>6 DEF Bounded, TypeOK, ReaderBounded

WriterBounded == [pc : {"idle", "bump", "graph", "viz", "over"},
                  version : Version, todo : SUBSET Key]

\* A writer's step but for the bump, which leaves the readers alone.
LEMMA WritersKeepBounds ==
    ASSUME Inv, Inv', Bounded, NEW w \in Writer,
           \/ Commit(w) \/ DeleteGraph(w) \/ ScanViz(w) \/ DeleteViz(w)
           \/ Invalidated(w) \/ GiveUp(w)
    PROVE  Bounded'
<1>0. /\ {version, epoch, bumped, swept} \subseteq Version
      /\ graph \in [Key -> MaybePayload] /\ viz \subseteq VizEntry
      /\ reader \in [Reader -> ReaderBounded]
      /\ writer \in [Writer -> WriterBounded] /\ writer[w] \in WriterBounded
      /\ writer[w] \in WriterType
      /\ writer \in [Writer -> WriterType]
      /\ version \in Nat /\ epoch \in Nat
  BY DEF Bounded, TypeOK, ReaderBounded, WriterBounded, Inv, Types
<1>1. UNCHANGED <<epoch, bumped, reader, served>>
  BY DEF Commit, DeleteGraph, ScanViz, DeleteViz, Invalidated, GiveUp, cacheVars, historyVars
<1>2. version' \in Version /\ swept' \in Version
  <2>1. version' \in Version
    BY <1>0, CacheAssumption
       DEF Commit, DeleteGraph, ScanViz, DeleteViz, Invalidated, GiveUp, Version
  <2>2. swept' \in Version
    BY <1>0 DEF Commit, DeleteGraph, ScanViz, DeleteViz, Invalidated, GiveUp, Newest,
                WriterBounded, historyVars
  <2> QED BY <2>1, <2>2
<1>3. graph' \in [Key -> MaybePayload] /\ viz' \subseteq VizEntry
  BY <1>0 DEF Commit, DeleteGraph, ScanViz, DeleteViz, Invalidated, GiveUp, cacheVars,
              MaybePayload
<1>4. writer' \in [Writer -> WriterBounded] /\ Answered'
  <2>1. CASE Commit(w)
    <3> DEFINE q == [writer[w] EXCEPT !.pc = "bump", !.version = version + 1]
    <3>3. writer[w].pc # "bump" /\ version' = version + 1 /\ version' \in Nat
      BY <1>0, <2>1 DEF Commit
    <3>1. q \in WriterBounded /\ q \in WriterType /\ q.pc = "bump"
      BY <1>0, <1>2, <3>3 DEF WriterBounded, WriterType
    <3>2. writer' = [writer EXCEPT ![w] = q]
      BY <1>0, <2>1 DEF Commit
    <3> HIDE DEF q
    <3>4. Answered'
      BY <1>0, <1>1, <3>1, <3>2, <3>3, OneWriter DEF Bounded
    <3> QED BY <1>0, <3>1, <3>2, <3>4
  <2>2. ASSUME NEW q \in WriterBounded, writer' = [writer EXCEPT ![w] = q],
               q \in WriterType, q.pc # "bump", version' = version
        PROVE  writer' \in [Writer -> WriterBounded] /\ Answered'
    BY <1>0, <1>1, <2>2, OneWriter DEF Bounded
  <2>3. CASE DeleteGraph(w) \/ DeleteViz(w)
    <3>1. PICK k \in writer[w].todo : writer' = [writer EXCEPT ![w].todo = @ \ {k}]
      BY <2>3 DEF DeleteGraph, DeleteViz
    <3> DEFINE q == [writer[w] EXCEPT !.todo = @ \ {k}]
    <3>2. q \in WriterBounded /\ q \in WriterType /\ q.pc # "bump"
      BY <1>0, <2>3 DEF DeleteGraph, DeleteViz, WriterBounded, WriterType
    <3>3. writer' = [writer EXCEPT ![w] = q] /\ version' = version
      BY <1>0, <2>3, <3>1 DEF DeleteGraph, DeleteViz
    <3> QED BY <2>2, <3>2, <3>3
  <2>4. CASE ScanViz(w)
    <3> DEFINE q == [writer[w] EXCEPT !.pc = "viz", !.todo = VizKeys]
    <3>1. VizKeys \subseteq Key
      BY <1>0 DEF VizKeys, VizEntry
    <3>2. q \in WriterBounded /\ q \in WriterType /\ q.pc # "bump"
      BY <1>0, <3>1 DEF WriterBounded, WriterType
    <3>3. writer' = [writer EXCEPT ![w] = q] /\ version' = version
      BY <1>0, <2>4 DEF ScanViz
    <3> QED BY <2>2, <3>2, <3>3
  <2>5. CASE Invalidated(w)
    <3> DEFINE q == [writer[w] EXCEPT !.pc = "over"]
    <3>1. q \in WriterBounded /\ q \in WriterType /\ q.pc # "bump"
      BY <1>0 DEF WriterBounded, WriterType
    <3>2. writer' = [writer EXCEPT ![w] = q] /\ version' = version
      BY <1>0, <2>5 DEF Invalidated
    <3> QED BY <2>2, <3>1, <3>2
  <2>6. CASE GiveUp(w)
    <3> DEFINE q == [writer[w] EXCEPT !.pc = "over", !.todo = {}]
    <3>1. q \in WriterBounded /\ q \in WriterType /\ q.pc # "bump"
      BY <1>0 DEF WriterBounded, WriterType
    <3>2. writer' = [writer EXCEPT ![w] = q] /\ version' = version
      BY <1>0, <2>6 DEF GiveUp
    <3> QED BY <2>2, <3>1, <3>2
  <2> QED BY <2>1, <2>3, <2>4, <2>5, <2>6
<1> QED
  BY <1>0, <1>1, <1>2, <1>3, <1>4
     DEF Bounded, TypeOK, Fetched, ReaderBounded, WriterBounded

\* The bump marks the payloads on their way, and has a commit behind it.
LEMMA BumpKeepsBounds == ASSUME Inv, Inv', Bounded, NEW w \in Writer, Bump(w) PROVE Bounded'
<1>0. /\ {version, epoch, bumped, swept} \subseteq Version
      /\ graph \in [Key -> MaybePayload] /\ viz \subseteq VizEntry
      /\ reader \in [Reader -> ReaderBounded]
      /\ writer \in [Writer -> WriterBounded] /\ writer[w] \in WriterBounded
      /\ writer[w] \in WriterType /\ writer \in [Writer -> WriterType]
      /\ version \in Nat /\ epoch \in Nat
  BY DEF Bounded, TypeOK, ReaderBounded, WriterBounded, Inv, Types
<1>1. UNCHANGED <<version, graph, viz, served, swept>> /\ epoch' = epoch + 1
  BY DEF Bump, NextEpoch
<1>2. Answered' /\ writer' \in [Writer -> WriterBounded]
  <2> DEFINE q == [writer[w] EXCEPT !.pc = "graph", !.todo = GraphKeys]
  <2>1. q \in WriterBounded /\ q \in WriterType /\ q.pc = "graph"
    BY <1>0 DEF WriterBounded, WriterType, GraphKeys
  <2>2. writer' = [writer EXCEPT ![w] = q] /\ writer[w].pc = "bump"
    BY <1>0 DEF Bump
  <2> HIDE DEF q
  <2>3. Answered'
    <3>1. version' = version /\ epoch' \in {epoch, epoch + 1} /\ q.pc # "bump"
      BY <1>1, <2>1
    <3>2. epoch' \in Nat /\ version' \in Nat /\ Answered
      BY <1>0, <3>1 DEF Bounded
    <3> HIDE DEF Bounded
    <3> QED BY <1>0, <2>1, <2>2, <3>1, <3>2, OneWriter
  <2> QED BY <1>0, <2>1, <2>2, <2>3
<1>3. epoch' \in Version
  <2>1. Cardinality(Bumping') \in Nat
    BY <1>2, FS_CardinalityType DEF Answered
  <2> QED BY <1>0, <1>1, <1>2, <2>1, CacheAssumption DEF Answered, Version
<1>4. bumped' \in Version
  BY <1>0 DEF Bump, Newest, WriterBounded
<1>5. reader' \in [Reader -> ReaderBounded] /\ Fetched'
  <2> DEFINE marked(r) == [reader[r] EXCEPT !.payload.overlapped =
                              @ \/ reader[r].pc \in {"set_epoch", "set"}]
  <2>1. reader' = [r \in Reader |-> marked(r)]
    BY DEF Bump
  <2>2. ASSUME NEW r \in Reader
        PROVE  /\ marked(r) \in ReaderBounded
               /\ marked(r).pc \in {"set_epoch", "set"} => marked(r).payload \in Payload
    <3>1. reader[r] \in ReaderBounded
      BY <1>0
    <3>2. CASE reader[r].pc \in {"set_epoch", "set"}
      <4>1. reader[r].payload \in Payload
        BY <3>2 DEF Bounded, Fetched
      <4>2. marked(r) = [reader[r] EXCEPT !.payload = [reader[r].payload EXCEPT !.overlapped = TRUE]]
        BY <3>1, <3>2, <4>1 DEF ReaderBounded, Payload
      <4>3. [reader[r].payload EXCEPT !.overlapped = TRUE] \in Payload
        BY <4>1 DEF Payload
      <4> HIDE DEF marked
      <4> QED BY <3>1, <4>2, <4>3 DEF ReaderBounded, MaybePayload
    <3>3. CASE reader[r].pc \notin {"set_epoch", "set"}
      <4>1. reader[r].payload.overlapped \in BOOLEAN
        <5> HIDE DEF marked
        <5>1. CASE reader[r].payload \in Payload
          BY <5>1 DEF Payload
        <5>2. CASE reader[r].payload = None
          BY <5>2 DEF None
        <5> QED BY <3>1, <5>1, <5>2 DEF ReaderBounded, MaybePayload
      <4>2. marked(r) = reader[r]
        BY <3>1, <3>3, <4>1 DEF ReaderBounded, MaybePayload, Payload, None
      <4> HIDE DEF marked
      <4> QED BY <3>1, <3>3, <4>2
    <3> QED BY <3>2, <3>3
  <2> HIDE DEF marked
  <2> QED BY <2>1, <2>2 DEF Fetched
<1> QED
  BY <1>0, <1>1, <1>2, <1>3, <1>4, <1>5 DEF Bounded, TypeOK, ReaderBounded, WriterBounded

LEMMA ExpiryKeepsBounds ==
    ASSUME Bounded, NEW k \in Key, ExpireGraph(k) \/ \E e \in Version : ExpireViz(k, e)
    PROVE  Bounded'
<1>1. UNCHANGED <<version, epoch, reader, served, writer, bumped, swept>>
  BY DEF ExpireGraph, ExpireViz, historyVars
<1>2. graph' \in [Key -> MaybePayload] /\ viz' \subseteq VizEntry
  BY DEF ExpireGraph, ExpireViz, Bounded, TypeOK, MaybePayload
<1>3. Answered'
  BY <1>1, SameWriters DEF Bounded
<1> QED BY <1>1, <1>2, <1>3 DEF Bounded, TypeOK, Fetched

\* Whatever fails, the epoch counts at most one bump for each committed write, so
\* that every variable stays within the bounds of its type (invalidate_series).
THEOREM TypeCorrect == Spec => []TypeOK
<1>1. Init => Bounded
  <2> SUFFICES ASSUME Init PROVE Bounded
    OBVIOUS
  <2>1. 0 \in Version
    BY CacheAssumption DEF Version
  <2>2. Bumping = {}
    BY DEF Init, Bumping, IdleWriter
  <2>3. Answered
    BY <2>2, FS_EmptySet DEF Init, Answered
  <2>4. TypeOK
    BY <2>1, IdleReaderBounded
       DEF Init, TypeOK, MaybePayload, ReaderBounded, Fresh, Kind, IdleWriter
  <2>5. Fetched
    BY IdleReaderBounded DEF Init, Fetched
  <2> QED BY <2>3, <2>4, <2>5 DEF Bounded
<1>2. Inv /\ Inv' /\ Bounded /\ [Next]_vars => Bounded'
  <2> SUFFICES ASSUME Inv, Inv', Bounded, [Next]_vars PROVE Bounded'
    OBVIOUS
  <2>1. ASSUME NEW r \in Reader, Read(r) \/ \E kind \in Kind, k \in Key : Start(r, kind, k)
        PROVE  Bounded'
    BY <2>1, ReadersKeepBounds
  <2>2. ASSUME NEW w \in Writer,
               \/ Commit(w) \/ Bump(w) \/ DeleteGraph(w) \/ ScanViz(w) \/ DeleteViz(w)
               \/ Invalidated(w) \/ GiveUp(w)
        PROVE  Bounded'
    BY <2>2, BumpKeepsBounds, WritersKeepBounds
  <2>3. ASSUME NEW k \in Key, ExpireGraph(k) \/ \E e \in Version : ExpireViz(k, e)
        PROVE  Bounded'
    BY <2>3, ExpiryKeepsBounds
  <2>4. CASE UNCHANGED vars
    BY <2>4, SameWriters DEF vars, cacheVars, historyVars, Bounded, TypeOK, Fetched
  <2> QED BY <2>1, <2>2, <2>3, <2>4 DEF Next
<1>3. Bounded => TypeOK
  BY DEF Bounded
<1> QED BY <1>1, <1>2, <1>3, Invariance, PTL DEF Spec
=============================================================================
