----------------------------- MODULE MCChatTurn -----------------------------
(* Two messages and a browser that moves the user's progress. *)
EXTENDS ChatTurn, TLC

CONSTANTS t1, t2, browser

\* The user confirms episode 2, views as of 1 again, asks for the view of 2.
MCRequests == {[watched |-> 2, view |-> 0, until |-> 0],
               [watched |-> 0, view |-> 1, until |-> 0],
               [watched |-> 0, view |-> 2, until |-> 0]}
=============================================================================
