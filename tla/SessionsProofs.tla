---------------------------- MODULE SessionsProofs ----------------------------
(***************************************************************************)
(* What module Sessions keeps for any number of requests, users, tokens    *)
(* and links, however long the clock runs.                                 *)
(*                                                                         *)
(* The properties are not inductive: what a request may still be served    *)
(* depends on the record its token names, which others write.  The         *)
(* invariant says what a request relies on at each point (Fits), and every *)
(* write keeps that (Ages): records never come back to life, and the       *)
(* highest boundary only grows.                                            *)
(***************************************************************************)
EXTENDS Sessions, TLAPS

ReqType == [pc : Pc, token : Token \cup Link \cup {NoToken}, user : User \cup {NoUser},
            at : Time, shown : Order, dead : BOOLEAN]

\* What was ever issued has somebody it was issued to.
Issued ==
    /\ \A t \in Token : sessions[t] = NoSession \/ sessions[t].user \in User
    /\ \A l \in Link : \/ links[l] = NoLink
                       \/ /\ links[l].by \in User
                          /\ links[l].order <= reached[links[l].by]
    /\ \A u \in User : order[u] <= reached[u]

\* A request fits sessions S, links L and the highest boundaries R.
Fits(r, S, L, R) ==
    /\ r.pc = "session" =>
         /\ r.token \in Token /\ S[r.token].user \in User
         /\ r.dead => ~ValidAt(S[r.token], r.at)
    /\ r.pc = "visit" =>
         /\ r.token \in Link /\ L[r.token].by \in User
         /\ r.dead => ~ValidAt(L[r.token], r.at)
    /\ r.pc = "revoking" => r.token \in Link /\ L[r.token].by \in User
    /\ r.pc \in {"admitted", "creating", "revoking", "showing"} => r.user \in User /\ ~r.dead
    /\ r.pc \in {"creating", "showing"} => r.shown <= R[r.user]

Past == \A c \in Client : req[c].at <= now

Inv ==
    /\ TypeOK
    /\ Issued
    /\ Past
    /\ \A c \in Client : Fits(req[c], sessions, links, reached)

\* One record may become another: it never comes back to life.
Older(r, s) == \A a \in Time : ~ValidAt(r, a) => ~ValidAt(s, a)

\* What one step may make of what is stored.
Ages(S, L, R, S2, L2, R2) ==
    /\ \A t \in Token : S[t].user \in User => S2[t].user = S[t].user /\ Older(S[t], S2[t])
    /\ \A l \in Link : L[l].by \in User => /\ L2[l].by = L[l].by /\ L2[l].order = L[l].order
                                           /\ Older(L[l], L2[l])
    /\ \A u \in User : R[u] <= R2[u]

-----------------------------------------------------------------------------

LEMMA Numbers ==
    /\ Time \subseteq Nat /\ Order \subseteq Nat /\ 1 \in Order /\ 0 \in Time
    /\ Ttl \in Nat /\ LinkTtl \in Nat
BY SessionsAssumption DEF Time, Order

LEMMA NobodyIsNoUser == NoUser \notin User
BY SessionsAssumption

\* What is not valid at one moment is not valid later.
LEMMA StaysInvalid ==
    ASSUME NEW r, r.expires \in Nat, NEW a \in Time, NEW b \in Time, a <= b, ~ValidAt(r, a)
    PROVE  ~ValidAt(r, b)
BY Numbers DEF ValidAt

LEMMA IdleFits ==
    ASSUME NEW S, NEW L, NEW R
    PROVE  Fits(Idle, S, L, R) /\ Idle \in ReqType
BY Numbers DEF Fits, Idle, ReqType, Pc

\* A request that waits still fits what others have made of the records.
LEMMA FitsAges ==
    ASSUME NEW S \in [Token -> Session], NEW L \in [Link -> ShareToken], NEW R \in [User -> Order],
           NEW S2 \in [Token -> Session], NEW L2 \in [Link -> ShareToken], NEW R2 \in [User -> Order],
           NEW r \in ReqType,
           Fits(r, S, L, R), Ages(S, L, R, S2, L2, R2)
    PROVE  Fits(r, S2, L2, R2)
<1>1. r.at \in Time /\ r.shown \in Order
  BY DEF ReqType
<1>2. CASE r.pc = "session"
  <2>1. S2[r.token].user \in User
    BY <1>2 DEF Fits, Ages
  <2>2. r.dead => ~ValidAt(S2[r.token], r.at)
    BY <1>1, <1>2 DEF Fits, Ages, Older
  <2> QED BY <1>2, <2>1, <2>2 DEF Fits
<1>3. CASE r.pc = "visit"
  <2>1. L2[r.token].by \in User
    BY <1>3 DEF Fits, Ages
  <2>2. r.dead => ~ValidAt(L2[r.token], r.at)
    BY <1>1, <1>3 DEF Fits, Ages, Older
  <2> QED BY <1>3, <2>1, <2>2 DEF Fits
<1>4. CASE r.pc = "revoking"
  <2>1. L2[r.token].by \in User
    BY <1>4 DEF Fits, Ages
  <2> QED BY <1>4, <2>1 DEF Fits
<1>5. CASE r.pc \in {"creating", "showing"}
  <2>1. r.user \in User /\ r.shown <= R[r.user] /\ R[r.user] <= R2[r.user]
    BY <1>5 DEF Fits, Ages
  <2>2. r.shown \in Nat /\ R[r.user] \in Nat /\ R2[r.user] \in Nat
    BY <1>1, <2>1, Numbers
  <2>3. r.shown <= R2[r.user]
    BY <2>1, <2>2
  <2> QED BY <1>5, <2>1, <2>3 DEF Fits
<1>6. CASE r.pc \in {"idle", "admitted"}
  BY <1>6 DEF Fits
<1> QED BY <1>2, <1>3, <1>4, <1>5, <1>6 DEF ReqType, Pc

-----------------------------------------------------------------------------

\* A step that leaves the requests alone.
LEMMA OthersFit ==
    ASSUME Inv, UNCHANGED req, Ages(sessions, links, reached, sessions', links', reached'),
           sessions' \in [Token -> Session], links' \in [Link -> ShareToken],
           reached' \in [User -> Order]
    PROVE  \A c \in Client : Fits(req'[c], sessions', links', reached')
<1> SUFFICES ASSUME NEW c \in Client PROVE Fits(req[c], sessions', links', reached')
  OBVIOUS
<1>1. req[c] \in ReqType
  BY DEF Inv, TypeOK, ReqType
<1>2. Fits(req[c], sessions, links, reached)
  BY DEF Inv
<1>3. /\ sessions \in [Token -> Session] /\ links \in [Link -> ShareToken]
      /\ reached \in [User -> Order]
  BY DEF Inv, TypeOK
<1> QED BY <1>1, <1>2, <1>3, FitsAges

\* A step of one request.
LEMMA OneMoves ==
    ASSUME Inv, NEW c \in Client, NEW r \in ReqType,
           Set(c, r), now' = now, r.at <= now,
           Ages(sessions, links, reached, sessions', links', reached'),
           sessions' \in [Token -> Session], links' \in [Link -> ShareToken],
           reached' \in [User -> Order],
           Fits(r, sessions', links', reached')
    PROVE  /\ req' \in [Client -> ReqType]
           /\ Past'
           /\ \A d \in Client : Fits(req'[d], sessions', links', reached')
<1>1. req \in [Client -> ReqType] /\ Past
  BY DEF Inv, TypeOK, ReqType
<1>2. req' \in [Client -> ReqType] /\ req'[c] = r
  BY <1>1 DEF Set
<1>3. \A d \in Client : d # c => req'[d] = req[d]
  BY <1>1 DEF Set
<1>4. Past'
  BY <1>1, <1>2, <1>3 DEF Past
<1>5. ASSUME NEW d \in Client PROVE Fits(req'[d], sessions', links', reached')
  <2>1. CASE d = c
    BY <1>2, <2>1
  <2>2. CASE d # c
    <3>1. req[d] \in ReqType /\ Fits(req[d], sessions, links, reached)
      BY <1>1 DEF Inv
    <3>2. /\ sessions \in [Token -> Session] /\ links \in [Link -> ShareToken]
          /\ reached \in [User -> Order]
      BY DEF Inv, TypeOK
    <3>3. Fits(req[d], sessions', links', reached')
      BY <3>1, <3>2, FitsAges
    <3> QED BY <1>3, <2>2, <3>3
  <2> QED BY <2>1, <2>2
<1> QED BY <1>2, <1>4, <1>5

\* Nothing stored changes.
LEMMA NothingAges ==
    ASSUME Inv, UNCHANGED <<sessions, links, reached>>
    PROVE  /\ Ages(sessions, links, reached, sessions', links', reached')
           /\ sessions' \in [Token -> Session] /\ links' \in [Link -> ShareToken]
           /\ reached' \in [User -> Order]
<1>1. \A u \in User : reached[u] \in Nat
  BY Numbers DEF Inv, TypeOK
<1> QED BY <1>1 DEF Inv, TypeOK, Ages, Older

\* A request moves and nothing else does.
LEMMA OnlyMoves ==
    ASSUME Inv, NEW c \in Client, NEW r \in ReqType, Set(c, r), r.at <= now,
           Fits(r, sessions, links, reached),
           UNCHANGED <<now, sessions, links, order, reached, sweep>>
    PROVE  Inv'
<1>1. /\ req' \in [Client -> ReqType]
      /\ Past'
      /\ \A d \in Client : Fits(req'[d], sessions', links', reached')
  BY NothingAges, OneMoves
<1>2. TypeOK'
  BY <1>1 DEF Inv, TypeOK, ReqType
<1>3. Issued'
  BY DEF Inv, Issued
<1> QED BY <1>1, <1>2, <1>3 DEF Inv

LEMMA IdlePast ==
    ASSUME Inv
    PROVE  Idle.at <= now
BY Numbers DEF Inv, TypeOK, Idle

LEMMA OnlyEnds ==
    ASSUME Inv, NEW c \in Client, Done(c), UNCHANGED <<now, sessions, links, order, reached, sweep>>
    PROVE  Inv'
<1>1. Idle \in ReqType /\ Fits(Idle, sessions, links, reached)
  BY IdleFits
<1> QED BY <1>1, IdlePast, OnlyMoves DEF Done

-----------------------------------------------------------------------------
(* The requests.                                                           *)

LEMMA BeginKeeps ==
    ASSUME Inv, NEW c \in Client, NEW t \in Token, Begin(c, t)
    PROVE  Inv'
<1> DEFINE r == [Idle EXCEPT !.pc = "session", !.token = t, !.at = now,
                             !.dead = ~ValidAt(sessions[t], now)]
<1>1. now \in Time /\ sessions[t] \in Session
  BY DEF Inv, TypeOK
<1>2. Idle \in ReqType
  BY IdleFits
<1>3. r \in ReqType /\ r.at = now /\ now <= now
  <2>1. r \in ReqType
    BY <1>1, <1>2 DEF ReqType, Pc
  <2>2. r.at = now
    BY DEF Idle
  <2> HIDE DEF r
  <2> QED BY <1>1, <2>1, <2>2, Numbers
<1>4. sessions[t].user \in User
  BY DEF Begin, Inv, Issued
<1>5. Fits(r, sessions, links, reached)
  BY <1>4 DEF Fits, Idle
<1> HIDE DEF r
<1>6. Set(c, r) /\ UNCHANGED <<now, sessions, links, order, reached, sweep>>
  BY DEF Begin, r
<1>7. r.at <= now
  BY <1>3
<1> QED BY <1>3, <1>5, <1>6, <1>7, OnlyMoves

LEMMA VisitKeeps ==
    ASSUME Inv, NEW c \in Client, NEW l \in Link, Visit(c, l)
    PROVE  Inv'
<1> DEFINE r == [Idle EXCEPT !.pc = "visit", !.token = l, !.at = now,
                             !.dead = ~ValidAt(links[l], now)]
<1>1. now \in Time /\ links[l] \in ShareToken
  BY DEF Inv, TypeOK
<1>2. Idle \in ReqType
  BY IdleFits
<1>3. r \in ReqType /\ r.at = now /\ now <= now
  <2>1. r \in ReqType
    BY <1>1, <1>2 DEF ReqType, Pc
  <2>2. r.at = now
    BY DEF Idle
  <2> HIDE DEF r
  <2> QED BY <1>1, <2>1, <2>2, Numbers
<1>4. links[l].by \in User
  BY DEF Visit, Inv, Issued
<1>5. Fits(r, sessions, links, reached)
  BY <1>4 DEF Fits, Idle
<1> HIDE DEF r
<1>6. Set(c, r) /\ UNCHANGED <<now, sessions, links, order, reached, sweep>>
  BY DEF Visit, r
<1>7. r.at <= now
  BY <1>3
<1> QED BY <1>3, <1>5, <1>6, <1>7, OnlyMoves

\* A lookup that finds a valid record finds one whose request was not dead:
\* it was sent no earlier than the request came in.
LEMMA FoundAlive ==
    ASSUME Inv, NEW c \in Client, NEW at \in req[c].at .. now, NEW s,
           s.expires \in Nat, ValidAt(s, at), req[c].dead => ~ValidAt(s, req[c].at)
    PROVE  ~req[c].dead
<1>1. req[c].at \in Time /\ now \in Time
  BY DEF Inv, TypeOK
<1>2. at \in Time /\ req[c].at <= at
  BY <1>1, SessionsAssumption DEF Time
<1> QED BY <1>1, <1>2, StaysInvalid

LEMMA AuthenticateKeeps ==
    ASSUME Inv, NEW c \in Client, Authenticate(c)
    PROVE  Inv'
<1> DEFINE s == sessions[req[c].token]
<1>1. UNCHANGED <<now, sessions, links, order, reached, sweep>> /\ At(c, "session")
  BY DEF Authenticate
<1>2. req[c] \in ReqType /\ Fits(req[c], sessions, links, reached) /\ now \in Time
  BY DEF Inv, TypeOK, ReqType
<1>3. /\ req[c].token \in Token /\ s.user \in User
      /\ req[c].dead => ~ValidAt(s, req[c].at)
  BY <1>1, <1>2 DEF At, Fits
<1>4. s.expires \in Nat
  BY <1>3 DEF Inv, TypeOK, Session
<1>5. PICK at \in req[c].at .. now :
         IF ValidAt(s, at)
         THEN Set(c, [req[c] EXCEPT !.pc = "admitted", !.user = s.user, !.at = now])
         ELSE Done(c)
  BY DEF Authenticate
<1>6. CASE ~ValidAt(s, at)
  BY <1>1, <1>5, <1>6, OnlyEnds
<1>7. CASE ValidAt(s, at)
  <2> DEFINE r == [req[c] EXCEPT !.pc = "admitted", !.user = s.user, !.at = now]
  <2>1. ~req[c].dead
    BY <1>3, <1>4, <1>7, FoundAlive
  <2>2. r \in ReqType /\ r.at = now
    BY <1>2, <1>3 DEF ReqType, Pc
  <2>3. Fits(r, sessions, links, reached)
    BY <1>2, <1>3, <2>1 DEF Fits, ReqType
  <2>4. Set(c, r) /\ r.at <= now
    BY <1>2, <1>5, <1>7, <2>2, Numbers
  <2> HIDE DEF r
  <2> QED BY <1>1, <2>2, <2>3, <2>4, OnlyMoves
<1> QED BY <1>6, <1>7

LEMMA ReadBoundaryKeeps ==
    ASSUME Inv, NEW c \in Client, ReadBoundary(c)
    PROVE  Inv'
<1>1. UNCHANGED <<now, sessions, links, order, reached, sweep>> /\ At(c, "admitted")
  BY DEF ReadBoundary
<1>2. req[c] \in ReqType /\ Fits(req[c], sessions, links, reached) /\ now \in Time
  BY DEF Inv, TypeOK, ReqType
<1>3. req[c].user \in User /\ ~req[c].dead
  BY <1>1, <1>2 DEF At, Fits
<1>4. PICK asked \in Order :
         Set(c, [req[c] EXCEPT !.pc = "creating", !.shown = Least(asked, order[req[c].user]),
                               !.at = now])
  BY DEF ReadBoundary
<1> DEFINE m == Least(asked, order[req[c].user])
           r == [req[c] EXCEPT !.pc = "creating", !.shown = m, !.at = now]
<1>5. /\ order[req[c].user] \in Order /\ reached[req[c].user] \in Order
      /\ order[req[c].user] <= reached[req[c].user]
  BY <1>3 DEF Inv, TypeOK, Issued
<1>6. m \in Order /\ m <= reached[req[c].user]
  BY <1>4, <1>5, Numbers DEF Least
<1> HIDE DEF m
<1>7. r \in ReqType /\ r.at = now /\ r.pc = "creating" /\ r.user = req[c].user /\ r.shown = m
      /\ r.dead = req[c].dead
  BY <1>2, <1>3, <1>6 DEF ReqType, Pc
<1>8. Set(c, r)
  BY <1>4 DEF m
<1> HIDE DEF r
<1>9. Fits(r, sessions, links, reached)
  BY <1>3, <1>6, <1>7 DEF Fits
<1>10. r.at <= now
  BY <1>2, <1>7, Numbers
<1> QED BY <1>1, <1>7, <1>8, <1>9, <1>10, OnlyMoves

LEMMA FindLinkKeeps ==
    ASSUME Inv, NEW c \in Client, NEW l \in Link, FindLink(c, l)
    PROVE  Inv'
<1> DEFINE Found(at) == ValidAt(links[l], at) /\ req[c].user \in Admin \cup {links[l].by}
<1>1. UNCHANGED <<now, sessions, links, order, reached, sweep>> /\ At(c, "admitted")
  BY DEF FindLink
<1>2. req[c] \in ReqType /\ Fits(req[c], sessions, links, reached) /\ now \in Time
  BY DEF Inv, TypeOK, ReqType
<1>3. req[c].user \in User /\ ~req[c].dead
  BY <1>1, <1>2 DEF At, Fits
<1>4. PICK at \in req[c].at .. now :
         IF Found(at)
         THEN Set(c, [req[c] EXCEPT !.pc = "revoking", !.token = l, !.at = now])
         ELSE Done(c)
  BY DEF FindLink
<1>5. CASE ~Found(at)
  BY <1>1, <1>4, <1>5, OnlyEnds
<1>6. CASE Found(at)
  <2> DEFINE r == [req[c] EXCEPT !.pc = "revoking", !.token = l, !.at = now]
  <2>1. links[l].by \in User
    BY <1>6 DEF ValidAt, NoLink, Inv, Issued
  <2>2. r \in ReqType /\ r.at = now
    BY <1>2 DEF ReqType, Pc
  <2>3. Fits(r, sessions, links, reached)
    BY <1>2, <1>3, <2>1 DEF Fits, ReqType
  <2>4. Set(c, r) /\ r.at <= now
    BY <1>2, <1>4, <1>6, <2>2, Numbers
  <2> HIDE DEF r
  <2> QED BY <1>1, <2>2, <2>3, <2>4, OnlyMoves
<1> QED BY <1>5, <1>6

LEMMA LookUpKeeps ==
    ASSUME Inv, NEW c \in Client, LookUp(c)
    PROVE  Inv'
<1> DEFINE l == links[req[c].token]
           Found(at) == ValidAt(l, at) /\ now <= l.expires
<1>1. UNCHANGED <<now, sessions, links, order, reached, sweep>> /\ At(c, "visit")
  BY DEF LookUp
<1>2. req[c] \in ReqType /\ Fits(req[c], sessions, links, reached) /\ now \in Time
  BY DEF Inv, TypeOK, ReqType
<1>3. /\ req[c].token \in Link /\ l.by \in User
      /\ req[c].dead => ~ValidAt(l, req[c].at)
  BY <1>1, <1>2 DEF At, Fits
<1>4. l.expires \in Nat /\ l.order \in Order
  BY <1>3 DEF Inv, TypeOK, ShareToken
<1>5. PICK at \in req[c].at .. now :
         IF Found(at)
         THEN Set(c, [req[c] EXCEPT !.pc = "showing", !.user = l.by, !.shown = l.order, !.at = now])
         ELSE Done(c)
  BY DEF LookUp
<1>6. CASE ~Found(at)
  BY <1>1, <1>5, <1>6, OnlyEnds
<1>7. CASE Found(at)
  <2> DEFINE r == [req[c] EXCEPT !.pc = "showing", !.user = l.by, !.shown = l.order, !.at = now]
  <2>1. ~req[c].dead
    BY <1>3, <1>4, <1>7, FoundAlive
  <2>2. l.order <= reached[l.by]
    BY <1>3, NobodyIsNoUser DEF Inv, Issued, NoLink
  <2>3. r \in ReqType /\ r.at = now /\ r.pc = "showing" /\ r.user = l.by /\ r.shown = l.order
        /\ r.dead = req[c].dead
    BY <1>2, <1>3, <1>4 DEF ReqType, Pc
  <2>4. Set(c, r) /\ r.at <= now
    BY <1>2, <1>5, <1>7, <2>3, Numbers
  <2> HIDE DEF r, l
  <2>5. Fits(r, sessions, links, reached)
    BY <1>3, <2>1, <2>2, <2>3 DEF Fits
  <2> QED BY <1>1, <2>3, <2>4, <2>5, OnlyMoves
<1> QED BY <1>6, <1>7

-----------------------------------------------------------------------------
(* What is stored.                                                         *)

\* A step that writes sessions and links and leaves the requests alone.
LEMMA Writes ==
    ASSUME Inv, UNCHANGED <<now, order, reached, req>>,
           sweep' \in {"off", "sessions", "links", "asleep"},
           sessions' \in [Token -> Session], links' \in [Link -> ShareToken],
           Ages(sessions, links, reached, sessions', links', reached'),
           Issued'
    PROVE  Inv'
<1>1. reached' \in [User -> Order]
  BY DEF Inv, TypeOK
<1>2. \A c \in Client : Fits(req'[c], sessions', links', reached')
  BY <1>1, OthersFit
<1>3. TypeOK' /\ Past'
  BY DEF Inv, TypeOK, Past
<1> QED BY <1>2, <1>3 DEF Inv

LEMMA LoginKeeps ==
    ASSUME Inv, NEW t \in Token, NEW u \in User, Login(u, t)
    PROVE  Inv'
<1> DEFINE s == [user |-> u, expires |-> now + Ttl, revoked |-> FALSE, gone |-> FALSE]
<1>1. now \in Nat
  BY Numbers DEF Inv, TypeOK
<1>2. s \in Session /\ s.user = u
  BY <1>1, Numbers DEF Session
<1>3. sessions' = [sessions EXCEPT ![t] = s] /\ sessions[t].user = NoUser
  BY DEF Login, NoSession
<1> HIDE DEF s
<1>4. sessions' \in [Token -> Session] /\ sessions'[t].user = u
  BY <1>2, <1>3 DEF Inv, TypeOK
<1>5. \A x \in Token : x # t => sessions'[x] = sessions[x]
  BY <1>3 DEF Inv, TypeOK
<1>6. Ages(sessions, links, reached, sessions', links', reached')
  <2>1. UNCHANGED <<links, reached>>
    BY DEF Login
  <2>2. \A x \in User : reached[x] \in Nat
    BY Numbers DEF Inv, TypeOK
  <2> QED BY <1>3, <1>5, <2>1, <2>2, NobodyIsNoUser DEF Ages, Older
<1>7. Issued'
  BY <1>4, <1>5 DEF Inv, Issued, Login
<1> QED BY <1>4, <1>6, <1>7, Writes DEF Login, Inv, TypeOK

\* Ending one session or link: its record stays, and is not valid.
LEMMA LogoutKeeps ==
    ASSUME Inv, NEW t \in Token, Logout(t)
    PROVE  Inv'
<1>1. sessions \in [Token -> Session]
  BY DEF Inv, TypeOK
<1>2. /\ sessions' \in [Token -> Session]
      /\ sessions'[t] = [sessions[t] EXCEPT !.revoked = TRUE]
      /\ \A x \in Token : x # t => sessions'[x] = sessions[x]
  BY <1>1 DEF Logout, Session
<1>3. \A x \in Token : sessions'[x].user = sessions[x].user
  BY <1>1, <1>2 DEF Session
<1>4. \A x \in Token : Older(sessions[x], sessions'[x])
  BY <1>1, <1>2 DEF Older, ValidAt, Session
<1>5. Ages(sessions, links, reached, sessions', links', reached')
  <2>1. \A x \in User : reached[x] \in Nat
    BY Numbers DEF Inv, TypeOK
  <2>2. UNCHANGED <<links, reached>>
    BY DEF Logout
  <2> QED BY <1>3, <1>4, <2>1, <2>2 DEF Ages, Older
<1>6. Issued'
  <2>1. sessions[t] # NoSession
    BY DEF Logout, NoSession
  <2> QED BY <1>2, <1>3, <2>1 DEF Inv, Issued, Logout
<1> QED BY <1>2, <1>5, <1>6, Writes DEF Logout, Inv, TypeOK

\* A sweep or a revocation marks links; it changes nothing else about them.
Marked(L, L2) ==
    \A l \in Link : \/ L2[l] = L[l]
                    \/ L2[l] = [L[l] EXCEPT !.gone = TRUE]
                    \/ L2[l] = [L[l] EXCEPT !.revoked = TRUE] /\ ~L[l].gone

LEMMA MarkedLinks ==
    ASSUME Inv, links' \in [Link -> ShareToken], Marked(links, links'),
           UNCHANGED <<order, sessions, reached>>
    PROVE  Ages(sessions, links, reached, sessions', links', reached') /\ Issued'
<1>1. links \in [Link -> ShareToken]
  BY DEF Inv, TypeOK
<1>2. ASSUME NEW l \in Link
      PROVE  /\ links'[l].by = links[l].by /\ links'[l].order = links[l].order
             /\ Older(links[l], links'[l])
  BY <1>1, <1>2 DEF Marked, ShareToken, Older, ValidAt
<1>3. ASSUME NEW l \in Link, links[l] = NoLink
      PROVE  links'[l] = NoLink
  BY <1>1, <1>3 DEF Marked, NoLink
<1>4. Ages(sessions, links, reached, sessions', links', reached')
  <2>1. \A x \in User : reached[x] \in Nat
    BY Numbers DEF Inv, TypeOK
  <2> QED BY <1>2, <2>1 DEF Ages, Older
<1>5. Issued'
  BY <1>2, <1>3 DEF Inv, Issued
<1> QED BY <1>4, <1>5

LEMMA SweepSessionsKeeps ==
    ASSUME Inv, SweepSessions
    PROVE  Inv'
<1>1. sessions \in [Token -> Session]
  BY DEF Inv, TypeOK
<1>2. \A t \in Token : \/ sessions'[t] = sessions[t]
                       \/ sessions'[t] = [sessions[t] EXCEPT !.gone = TRUE]
  BY DEF SweepSessions
<1>3. \A t \in Token : sessions'[t] \in Session /\ sessions'[t].user = sessions[t].user
  BY <1>1, <1>2 DEF Session
<1>4. sessions' \in [Token -> Session]
  BY <1>3 DEF SweepSessions
<1>5. \A t \in Token : Older(sessions[t], sessions'[t])
  BY <1>1, <1>2 DEF Older, ValidAt, Session
<1>6. Ages(sessions, links, reached, sessions', links', reached')
  <2>1. \A x \in User : reached[x] \in Nat
    BY Numbers DEF Inv, TypeOK
  <2> QED BY <1>3, <1>5, <2>1 DEF Ages, SweepSessions, Older
<1>7. ASSUME NEW t \in Token, sessions[t] = NoSession
      PROVE  sessions'[t] = NoSession
  <2>1. sessions[t].gone = TRUE
    BY <1>7 DEF NoSession
  <2>2. [sessions[t] EXCEPT !.gone = TRUE] = sessions[t]
    BY <1>1, <2>1 DEF Session
  <2> QED BY <1>2, <1>7, <2>2
<1>8. Issued'
  BY <1>3, <1>7 DEF Inv, Issued, SweepSessions
<1> QED BY <1>4, <1>6, <1>8, Writes DEF SweepSessions, Inv, TypeOK

LEMMA SweepLinksKeeps ==
    ASSUME Inv, SweepLinks
    PROVE  Inv'
<1>1. links \in [Link -> ShareToken]
  BY DEF Inv, TypeOK
<1>2. \A l \in Link : links'[l] \in {links[l], [links[l] EXCEPT !.gone = TRUE]}
  BY DEF SweepLinks
<1>3. links' \in [Link -> ShareToken]
  BY <1>1, <1>2 DEF SweepLinks, ShareToken
<1>4. Marked(links, links')
  BY <1>2 DEF Marked
<1> QED BY <1>3, <1>4, MarkedLinks, Writes DEF SweepLinks, Inv, TypeOK

LEMMA RevokeLinkKeeps ==
    ASSUME Inv, NEW c \in Client, RevokeLink(c)
    PROVE  Inv'
<1> DEFINE k == req[c].token
<1>1. /\ links \in [Link -> ShareToken]
      /\ At(c, "revoking") /\ Set(c, Idle)
      /\ UNCHANGED <<now, sessions, order, reached, sweep>>
  BY DEF RevokeLink, Done, Inv, TypeOK
<1>2. k \in Link
  BY <1>1 DEF Inv, Fits, At
<1>3. links' = IF links[k].gone THEN links ELSE [links EXCEPT ![k].revoked = TRUE]
  BY DEF RevokeLink
<1> HIDE DEF k
<1>4. links' \in [Link -> ShareToken]
  BY <1>1, <1>2, <1>3 DEF ShareToken
<1>5. Marked(links, links')
  <2>1. CASE links[k].gone
    BY <1>3, <2>1 DEF Marked
  <2>2. CASE ~links[k].gone
    <3>1. \A l \in Link : l # k => links'[l] = links[l]
      BY <1>1, <1>3, <2>2
    <3>2. links'[k] = [links[k] EXCEPT !.revoked = TRUE]
      BY <1>1, <1>2, <1>3, <2>2
    <3> QED BY <2>2, <3>1, <3>2 DEF Marked
  <2> QED BY <2>1, <2>2
<1>6. Ages(sessions, links, reached, sessions', links', reached') /\ Issued'
  BY <1>1, <1>4, <1>5, MarkedLinks
<1>7. Idle \in ReqType /\ Fits(Idle, sessions', links', reached') /\ Idle.at <= now
  BY IdleFits, IdlePast
<1>8. /\ sessions' \in [Token -> Session] /\ reached' \in [User -> Order]
  BY <1>1 DEF Inv, TypeOK
<1>9. /\ req' \in [Client -> ReqType]
      /\ Past'
      /\ \A d \in Client : Fits(req'[d], sessions', links', reached')
  BY <1>1, <1>4, <1>6, <1>7, <1>8, OneMoves
<1>10. TypeOK'
  BY <1>1, <1>4, <1>9 DEF Inv, TypeOK, ReqType
<1> QED BY <1>6, <1>9, <1>10 DEF Inv

\* The link carries the order the request has clamped.
LEMMA CreateLinkKeeps ==
    ASSUME Inv, NEW c \in Client, NEW l \in Link, CreateLink(c, l)
    PROVE  Inv'
<1>1. /\ links \in [Link -> ShareToken] /\ sessions \in [Token -> Session]
      /\ reached \in [User -> Order] /\ req[c] \in ReqType /\ now \in Time
      /\ At(c, "creating") /\ Set(c, Idle) /\ links[l] = NoLink
      /\ UNCHANGED <<now, sessions, order, reached, sweep>>
  BY DEF CreateLink, Done, Inv, TypeOK, ReqType
<1>2. /\ req[c].user \in User /\ req[c].shown <= reached[req[c].user]
      /\ req[c].shown \in Order /\ req[c].at \in Time
  BY <1>1 DEF Inv, Fits, At, ReqType
<1>3. PICK at \in req[c].at .. now :
         links' = [links EXCEPT ![l] = [by |-> req[c].user, order |-> req[c].shown,
                                        expires |-> at + LinkTtl, revoked |-> FALSE,
                                        gone |-> FALSE]]
  BY DEF CreateLink
<1> DEFINE new == [by |-> req[c].user, order |-> req[c].shown, expires |-> at + LinkTtl,
                   revoked |-> FALSE, gone |-> FALSE]
<1>4. at + LinkTtl \in Nat
  <2>1. req[c].at \in Nat /\ now \in Nat
    BY <1>1, <1>2, Numbers
  <2>2. at \in Nat
    BY <1>3, <2>1
  <2> QED BY <2>2, Numbers
<1>5. new \in ShareToken /\ new.by = req[c].user /\ new.order = req[c].shown
  BY <1>2, <1>4 DEF ShareToken
<1> HIDE DEF new
<1>6. links' = [links EXCEPT ![l] = new]
  BY <1>3 DEF new
<1>7. /\ links' \in [Link -> ShareToken]
      /\ links'[l] = new
      /\ \A x \in Link : x # l => links'[x] = links[x]
  BY <1>1, <1>5, <1>6
<1>8. Ages(sessions, links, reached, sessions', links', reached')
  <2>1. \A x \in User : reached[x] \in Nat
    BY <1>1, Numbers
  <2>2. links[l].by \notin User
    BY <1>1, NobodyIsNoUser DEF NoLink
  <2> QED BY <1>1, <1>7, <2>1, <2>2 DEF Ages, Older
<1>9. Issued'
  BY <1>1, <1>2, <1>5, <1>7 DEF Inv, Issued
<1>10. Idle \in ReqType /\ Fits(Idle, sessions', links', reached') /\ Idle.at <= now
  BY IdleFits, IdlePast
<1>11. /\ req' \in [Client -> ReqType]
       /\ Past'
       /\ \A d \in Client : Fits(req'[d], sessions', links', reached')
  BY <1>1, <1>7, <1>8, <1>10, OneMoves
<1>12. TypeOK'
  BY <1>1, <1>7, <1>11 DEF Inv, TypeOK, ReqType
<1> QED BY <1>9, <1>11, <1>12 DEF Inv

-----------------------------------------------------------------------------
(* The rest of the world.                                                  *)

\* What does not touch what a request relies on.
LEMMA SweeperKeeps ==
    ASSUME Inv, UNCHANGED <<now, sessions, links, order, reached, req>>,
           sweep' \in {"off", "sessions", "links", "asleep"}
    PROVE  Inv'
<1>1. Issued'
  BY DEF Inv, Issued
<1> QED BY <1>1, NothingAges, Writes

LEMMA TickKeeps ==
    ASSUME Inv, Tick
    PROVE  Inv'
<1>1. now \in Time /\ now' \in Time /\ now <= now'
  BY SessionsAssumption DEF Inv, TypeOK, Tick, Time
<1>2. \A c \in Client : req'[c].at <= now'
  <2> SUFFICES ASSUME NEW c \in Client PROVE req[c].at <= now'
    BY DEF Tick
  <2>1. req[c].at \in Time /\ req[c].at <= now
    BY DEF Inv, TypeOK, Past
  <2>2. req[c].at \in Nat /\ now \in Nat /\ now' \in Nat
    BY <1>1, <2>1, Numbers
  <2> QED BY <1>1, <2>1, <2>2
<1>3. TypeOK' /\ Issued'
  BY <1>1 DEF Inv, TypeOK, Issued, Tick
<1>4. \A c \in Client : Fits(req'[c], sessions', links', reached')
  BY DEF Inv, Tick
<1> QED BY <1>2, <1>3, <1>4 DEF Inv, Past

LEMMA MoveKeeps ==
    ASSUME Inv, NEW u \in User, NEW o \in Order, Move(u, o)
    PROVE  Inv'
<1>1. /\ order \in [User -> Order] /\ reached \in [User -> Order]
      /\ \A x \in User : order[x] \in Nat /\ reached[x] \in Nat /\ order[x] <= reached[x]
      /\ o \in Nat
  BY Numbers DEF Inv, TypeOK, Issued
<1>2. /\ order' = [order EXCEPT ![u] = o]
      /\ reached' = [reached EXCEPT ![u] = IF o > @ THEN o ELSE @]
      /\ UNCHANGED <<now, sessions, links, sweep, req>>
  BY DEF Move
<1>3. order' \in [User -> Order] /\ reached' \in [User -> Order]
  BY <1>1, <1>2
<1>4. \A x \in User : order'[x] <= reached'[x] /\ reached[x] <= reached'[x]
  BY <1>1, <1>2
<1>5. \A x \in User : reached'[x] \in Nat
  BY <1>3, Numbers
<1>6. Ages(sessions, links, reached, sessions', links', reached')
  BY <1>2, <1>4 DEF Ages, Older
<1>7. Issued'
  <2> SUFFICES ASSUME NEW l \in Link, links[l] # NoLink
               PROVE  links[l].by \in User /\ links[l].order <= reached'[links[l].by]
    BY <1>2, <1>4 DEF Inv, Issued
  <2>1. links[l].by \in User /\ links[l].order <= reached[links[l].by]
    BY DEF Inv, Issued
  <2>2. links[l].order \in Nat
    BY Numbers DEF Inv, TypeOK, ShareToken
  <2> QED BY <1>1, <1>4, <1>5, <2>1, <2>2
<1>8. \A c \in Client : Fits(req'[c], sessions', links', reached')
  <2>1. /\ UNCHANGED req /\ sessions' \in [Token -> Session] /\ links' \in [Link -> ShareToken]
    BY <1>2 DEF Inv, TypeOK
  <2> QED BY <1>3, <1>6, <2>1, OthersFit
<1>9. TypeOK' /\ Past'
  BY <1>2, <1>3 DEF Inv, TypeOK, Past
<1> QED BY <1>7, <1>8, <1>9 DEF Inv

LEMMA RestartKeeps ==
    ASSUME Inv, Restart
    PROVE  Inv'
<1>1. Idle \in ReqType /\ Idle.at <= now
  BY IdleFits, IdlePast
<1>2. \A c \in Client : req'[c] = Idle
  BY DEF Restart
<1>3. req' \in [Client -> ReqType] /\ Past'
  BY <1>1, <1>2 DEF Restart, Past
<1>4. \A c \in Client : Fits(req'[c], sessions', links', reached')
  BY <1>2, IdleFits
<1>5. TypeOK' /\ Issued'
  BY <1>3 DEF Inv, TypeOK, Issued, Restart, ReqType
<1> QED BY <1>3, <1>4, <1>5 DEF Inv

-----------------------------------------------------------------------------

LEMMA InitInv == Init => Inv
<1> SUFFICES ASSUME Init PROVE Inv
  OBVIOUS
<1>1. NoSession \in Session /\ NoLink \in ShareToken /\ Idle \in ReqType
  BY Numbers, IdleFits DEF Session, ShareToken, NoSession, NoLink
<1>2. TypeOK
  BY <1>1, Numbers DEF Init, TypeOK, ReqType
<1>3. Issued /\ Past
  BY Numbers DEF Init, Issued, Past, Idle
<1>4. \A c \in Client : Fits(req[c], sessions, links, reached)
  BY IdleFits DEF Init
<1> QED BY <1>2, <1>3, <1>4 DEF Inv

\* One step per action of Next.
LEMMA NextInv == Inv /\ [Next]_vars => Inv'
<1> SUFFICES ASSUME Inv, [Next]_vars PROVE Inv'
  OBVIOUS
<1>1. CASE \E t \in Token : Logout(t) \/ \E u \in User : Login(u, t)
  BY <1>1, LoginKeeps, LogoutKeeps
<1>2. ASSUME NEW c \in Client, NEW t \in Token, Begin(c, t) PROVE Inv'
  BY <1>2, BeginKeeps
<1>3. ASSUME NEW c \in Client, Authenticate(c) PROVE Inv'
  BY <1>3, AuthenticateKeeps
<1>4. ASSUME NEW c \in Client, ReadBoundary(c) PROVE Inv'
  BY <1>4, ReadBoundaryKeeps
<1>5. ASSUME NEW c \in Client, RevokeLink(c) PROVE Inv'
  BY <1>5, RevokeLinkKeeps
<1>6. ASSUME NEW c \in Client, LookUp(c) PROVE Inv'
  BY <1>6, LookUpKeeps
<1>7. ASSUME NEW c \in Client, End(c) PROVE Inv'
  BY <1>7, OnlyEnds DEF End
<1>8. ASSUME NEW c \in Client, NEW l \in Link, CreateLink(c, l) PROVE Inv'
  BY <1>8, CreateLinkKeeps
<1>9. ASSUME NEW c \in Client, NEW l \in Link, FindLink(c, l) PROVE Inv'
  BY <1>9, FindLinkKeeps
<1>10. ASSUME NEW c \in Client, NEW l \in Link, Visit(c, l) PROVE Inv'
  BY <1>10, VisitKeeps
<1>11. CASE SweepSessions \/ SweepLinks
  BY <1>11, SweepSessionsKeeps, SweepLinksKeeps
<1>12. CASE SweepFails \/ Wake
  BY <1>12, SweeperKeeps DEF SweepFails, Wake
<1>13. CASE Tick
  BY <1>13, TickKeeps
<1>14. CASE \E u \in User, o \in Order : Move(u, o)
  BY <1>14, MoveKeeps
<1>15. CASE Restart
  BY <1>15, RestartKeeps
<1>16. CASE UNCHANGED vars
  BY <1>16, SweeperKeeps DEF vars, Inv, TypeOK
<1> QED
  BY <1>1, <1>2, <1>3, <1>4, <1>5, <1>6, <1>7, <1>8, <1>9, <1>10, <1>11, <1>12, <1>13,
     <1>14, <1>15, <1>16 DEF Next

LEMMA AlwaysInv == Spec => []Inv
<1> QED BY InitInv, NextInv, PTL DEF Spec

\* What is stored and what every request carries keep their shape.
THEOREM TypeCorrect == Spec => []TypeOK
<1>1. Inv => TypeOK
  BY DEF Inv
<1> QED BY <1>1, AlwaysInv, PTL

\* Nobody is served under a token that was no longer valid when the request
\* came in (get_session, get_by_raw_token, is_valid), for any number of
\* requests, tokens and users and whatever the sweep removes meanwhile.
THEOREM ServedAlwaysLive == Spec => []ServedIsLive
<1>1. Inv => ServedIsLive
  BY DEF Inv, Fits, ServedIsLive
<1> QED BY <1>1, AlwaysInv, PTL

\* A share link never shows more than its creator had confirmed when it was
\* made (create_share_link, get_share_graph), however the creator's progress
\* moves.
THEOREM SharedAlwaysWithin == Spec => []SharedWithinConfirmed
<1>1. Inv => SharedWithinConfirmed
  BY DEF Inv, Issued, Fits, SharedWithinConfirmed
<1> QED BY <1>1, AlwaysInv, PTL

=============================================================================
