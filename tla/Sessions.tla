------------------------------- MODULE Sessions -------------------------------
(***************************************************************************)
(* Login sessions and share links: how they are issued, looked up, ended    *)
(* and swept against a clock that moves between any two statements.  Both   *)
(* live in Neo4j and outlive the process; each statement is a transaction   *)
(* of its own (execute_query), whose $now was read before it was sent.      *)
(***************************************************************************)
EXTENDS Integers

CONSTANTS
    Client,    \* requests the server may be handling at the same time
    User,
    Admin,     \* the users whose verified address is in ADMIN_EMAILS
    NoUser,
    Token,     \* session tokens, unguessable and never issued twice
    Link,      \* share tokens, the same
    NoToken,
    Ttl,       \* session_ttl_seconds
    LinkTtl,   \* a share link's ttl_seconds
    MaxOrder,  \* number of episodes
    MaxTime    \* bound: the clock stops there

ASSUME SessionsAssumption ==
    /\ Admin \subseteq User /\ NoUser \notin User
    /\ NoToken \notin Token /\ NoToken \notin Link
    /\ Ttl \in Nat \ {0} /\ LinkTtl \in Nat \ {0}
    /\ MaxOrder \in Nat \ {0}
    /\ MaxTime \in Nat

Order == 1 .. MaxOrder
Time == 0 .. MaxTime

\* gone: swept, or, when there is no user, not issued yet.
Session == [user : User \cup {NoUser}, expires : Nat, revoked : BOOLEAN, gone : BOOLEAN]
ShareToken == [by : User \cup {NoUser}, order : Order, expires : Nat, revoked : BOOLEAN,
               gone : BOOLEAN]

VARIABLES
    now,       \* time.time()
    sessions,  \* what is stored for each session token
    links,     \* what is stored for each share token
    order,     \* the effective boundary of each user
    reached,   \* history: the highest it has been
    sweep,     \* where the sweep loop is
    req        \* the requests being handled

vars == <<now, sessions, links, order, reached, sweep, req>>

NoSession == [user |-> NoUser, expires |-> 0, revoked |-> FALSE, gone |-> TRUE]
NoLink == [by |-> NoUser, order |-> 1, expires |-> 0, revoked |-> FALSE, gone |-> TRUE]

\* at: when its last statement was done.  shown: the order it shows or captures.
\* dead: history, its token was not valid when it came in.
Idle == [pc |-> "idle", token |-> NoToken, user |-> NoUser, at |-> 0,
         shown |-> 1, dead |-> FALSE]

Init ==
    /\ now = 0
    /\ sessions = [t \in Token |-> NoSession]
    /\ links = [l \in Link |-> NoLink]
    /\ order = [u \in User |-> 1]
    /\ reached = order
    /\ sweep \in {"off", "sessions"}
    /\ req = [c \in Client |-> Idle]

\* The WHERE of both lookups, with the $now they were sent with.
ValidAt(record, at) == ~record.gone /\ ~record.revoked /\ record.expires > at

Set(c, r) == req' = [req EXCEPT ![c] = r]
Done(c) == Set(c, Idle)
At(c, pc) == req[c].pc = pc

-----------------------------------------------------------------------------
(* Login and logout.                                                       *)

\* authenticate and Neo4jSessionRepository.create.
Login(u, t) ==
    /\ sessions[t] = NoSession
    /\ sessions' = [sessions EXCEPT ![t] = [user |-> u, expires |-> now + Ttl,
                                            revoked |-> FALSE, gone |-> FALSE]]
    /\ UNCHANGED <<now, links, order, reached, sweep, req>>

\* logout, whatever has become of the session.
Logout(t) ==
    /\ ~sessions[t].gone
    /\ sessions' = [sessions EXCEPT ![t].revoked = TRUE]
    /\ UNCHANGED <<now, links, order, reached, sweep, req>>

-----------------------------------------------------------------------------
(* require_current_user.                                                   *)

\* A request with a session token; what it asks for is left open until it is
\* admitted, since admission does not look at it.
Begin(c, t) ==
    /\ At(c, "idle")
    /\ sessions[t] # NoSession
    /\ Set(c, [Idle EXCEPT !.pc = "session", !.token = t, !.at = now,
                           !.dead = ~ValidAt(sessions[t], now)])
    /\ UNCHANGED <<now, sessions, links, order, reached, sweep>>

\* Mutant: a valid access extends the session.
AuthenticateSliding(c) ==
    LET t == req[c].token IN
    /\ At(c, "session")
    /\ \E at \in req[c].at .. now :
         IF ValidAt(sessions[t], at)
         THEN /\ Set(c, [req[c] EXCEPT !.pc = "admitted", !.user = sessions[t].user, !.at = now])
              /\ sessions' = [sessions EXCEPT ![t].expires = at + Ttl]
         ELSE Done(c) /\ UNCHANGED sessions
    /\ UNCHANGED <<now, links, order, reached, sweep>>

\* get_current_user: no session is a 401.  Of the two statements that follow,
\* refresh sets last_seen_at, which nothing reads, and get_by_id reads the
\* role the login has stored.
Authenticate(c) ==
    LET s == sessions[req[c].token] IN
    /\ At(c, "session")
    /\ \E at \in req[c].at .. now :
         IF ValidAt(s, at)
         THEN Set(c, [req[c] EXCEPT !.pc = "admitted", !.user = s.user, !.at = now])
         ELSE Done(c)
    /\ UNCHANGED <<now, sessions, links, order, reached, sweep>>

-----------------------------------------------------------------------------
(* Share links.                                                            *)

Least(n, m) == IF n < m THEN n ELSE m

\* Mutant: the link captures the order that was asked for.
ReadBoundaryAsAsked(c) ==
    /\ At(c, "admitted")
    /\ \E asked \in Order : Set(c, [req[c] EXCEPT !.pc = "creating", !.shown = asked, !.at = now])
    /\ UNCHANGED <<now, sessions, links, order, reached, sweep>>

\* create_share_link: the order asked for, clamped by the creator's boundary.
ReadBoundary(c) ==
    /\ At(c, "admitted")
    /\ \E asked \in Order :
         Set(c, [req[c] EXCEPT !.pc = "creating", !.shown = Least(asked, order[req[c].user]),
                               !.at = now])
    /\ UNCHANGED <<now, sessions, links, order, reached, sweep>>

\* Neo4jShareRepository.create.
CreateLink(c, l) ==
    /\ At(c, "creating")
    /\ links[l] = NoLink
    /\ \E at \in req[c].at .. now :
         links' = [links EXCEPT ![l] = [by |-> req[c].user, order |-> req[c].shown,
                                        expires |-> at + LinkTtl, revoked |-> FALSE,
                                        gone |-> FALSE]]
    /\ Done(c)
    /\ UNCHANGED <<now, sessions, order, reached, sweep>>

\* revoke_share_link: for its creator or an administrator.
FindLink(c, l) ==
    /\ At(c, "admitted")
    /\ \E at \in req[c].at .. now :
         IF ValidAt(links[l], at) /\ req[c].user \in Admin \cup {links[l].by}
         THEN Set(c, [req[c] EXCEPT !.pc = "revoking", !.token = l, !.at = now])
         ELSE Done(c)
    /\ UNCHANGED <<now, sessions, links, order, reached, sweep>>

\* Neo4jShareRepository.revoke: one that is revoked or swept by now stays so.
RevokeLink(c) ==
    /\ At(c, "revoking")
    /\ links' = IF links[req[c].token].gone THEN links
                ELSE [links EXCEPT ![req[c].token].revoked = TRUE]
    /\ Done(c)
    /\ UNCHANGED <<now, sessions, order, reached, sweep>>

\* get_share_graph, without a session.
Visit(c, l) ==
    /\ At(c, "idle")
    /\ links[l] # NoLink
    /\ Set(c, [Idle EXCEPT !.pc = "visit", !.token = l, !.at = now,
                           !.dead = ~ValidAt(links[l], now)])
    /\ UNCHANGED <<now, sessions, links, order, reached, sweep>>

\* get_by_raw_token, then record.is_valid by a later clock.
LookUp(c) ==
    LET l == links[req[c].token] IN
    /\ At(c, "visit")
    /\ \E at \in req[c].at .. now :
         IF ValidAt(l, at) /\ now <= l.expires
         THEN Set(c, [req[c] EXCEPT !.pc = "showing", !.user = l.by, !.shown = l.order,
                                    !.at = now])
         ELSE Done(c)
    /\ UNCHANGED <<now, sessions, links, order, reached, sweep>>

\* The graph is read at the captured order; or the request fails at any point.
End(c) ==
    /\ ~At(c, "idle")
    /\ Done(c)
    /\ UNCHANGED <<now, sessions, links, order, reached, sweep>>

-----------------------------------------------------------------------------
(* The sweep loop of the lifespan.  An earlier $now would sweep less.      *)

SweepSessions ==
    /\ sweep = "sessions"
    /\ sessions' = [t \in Token |->
                       IF sessions[t].expires < now \/ sessions[t].revoked
                       THEN [sessions[t] EXCEPT !.gone = TRUE] ELSE sessions[t]]
    /\ sweep' = "links"
    /\ UNCHANGED <<now, links, order, reached, req>>

\* Mutant: the sweep looks only at the expiry.
SweepNeverRevoked ==
    /\ sweep = "links"
    /\ links' = [l \in Link |->
                    IF links[l].expires <= now /\ ~links[l].revoked
                    THEN [links[l] EXCEPT !.gone = TRUE] ELSE links[l]]
    /\ sweep' = "asleep"
    /\ UNCHANGED <<now, sessions, order, reached, req>>

SweepLinks ==
    /\ sweep = "links"
    /\ links' = [l \in Link |->
                    IF links[l].expires <= now \/ links[l].revoked
                    THEN [links[l] EXCEPT !.gone = TRUE] ELSE links[l]]
    /\ sweep' = "asleep"
    /\ UNCHANGED <<now, sessions, order, reached, req>>

\* A statement that fails is logged and ends the iteration.
SweepFails ==
    /\ sweep \in {"sessions", "links"}
    /\ sweep' = "asleep"
    /\ UNCHANGED <<now, sessions, links, order, reached, req>>

Wake ==
    /\ sweep = "asleep"
    /\ sweep' = "sessions"
    /\ UNCHANGED <<now, sessions, links, order, reached, req>>

-----------------------------------------------------------------------------
Tick ==
    /\ now < MaxTime
    /\ now' = now + 1
    /\ UNCHANGED <<sessions, links, order, reached, sweep, req>>

\* A progress change (Progress), up or down.
Move(u, o) ==
    /\ order' = [order EXCEPT ![u] = o]
    /\ reached' = [reached EXCEPT ![u] = IF o > @ THEN o ELSE @]
    /\ UNCHANGED <<now, sessions, links, sweep, req>>

\* A process that finds no database when it starts has no sweep loop.
Restart ==
    /\ sweep' \in {"off", "sessions"}
    /\ req' = [c \in Client |-> Idle]
    /\ UNCHANGED <<now, sessions, links, order, reached>>

Next ==
    \/ \E t \in Token : Logout(t) \/ \E u \in User : Login(u, t)
    \/ \E c \in Client :
         \/ \E t \in Token : Begin(c, t)
         \/ Authenticate(c) \/ ReadBoundary(c) \/ RevokeLink(c) \/ LookUp(c) \/ End(c)
         \/ \E l \in Link : CreateLink(c, l) \/ FindLink(c, l) \/ Visit(c, l)
    \/ SweepSessions \/ SweepLinks \/ SweepFails \/ Wake
    \/ Tick
    \/ \E u \in User, o \in Order : Move(u, o)
    \/ Restart

\* The loop wakes up, and its statements do not fail for ever.
Spec ==
    /\ Init /\ [][Next]_vars
    /\ WF_vars(Wake)
    /\ SF_vars(SweepSessions)
    /\ SF_vars(SweepLinks)

-----------------------------------------------------------------------------
(* Properties.                                                             *)

Pc == {"idle", "session", "admitted", "creating", "revoking", "visit", "showing"}

\* The type invariant: what a request carries fits what it still has to do.
TypeOK ==
    /\ now \in Time
    /\ sessions \in [Token -> Session]
    /\ links \in [Link -> ShareToken]
    /\ order \in [User -> Order] /\ reached \in [User -> Order]
    /\ sweep \in {"off", "sessions", "links", "asleep"}
    /\ req \in [Client -> [pc : Pc, token : Token \cup Link \cup {NoToken}, user : User \cup {NoUser},
                           at : Time, shown : Order, dead : BOOLEAN]]

\* Nobody is served under a token that was no longer valid when the request
\* came in: a logout or revocation that is done, or the expiry, ends a session
\* or a link for good, also while other requests use it and the sweep runs.
ServedIsLive ==
    \A c \in Client :
        req[c].pc \in {"admitted", "creating", "revoking", "showing"} => ~req[c].dead

\* A share link never shows more than its creator had confirmed when it was
\* made, wherever the creator's progress moved before, between or after.
SharedWithinConfirmed ==
    /\ \A l \in Link : links[l] # NoLink => links[l].order <= reached[links[l].by]
    /\ \A c \in Client : req[c].pc = "showing" => req[c].shown <= reached[req[c].user]

Ended(record) == record.revoked \/ record.expires < now

\* As long as processes with a sweep loop keep running, whatever has been
\* revoked or has expired is removed.
EventuallySwept ==
    []<>(sweep # "off") =>
        /\ \A t \in Token : Ended(sessions[t]) ~> sessions[t].gone
        /\ \A l \in Link : Ended(links[l]) ~> links[l].gone

=============================================================================
