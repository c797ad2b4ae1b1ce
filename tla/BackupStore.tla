---------------------------- MODULE BackupStore ----------------------------
(***************************************************************************)
(* What the server promises to a client that has the user to itself: a     *)
(* store of files, and sessions that vouch for the content of some paths.  *)
(* No view, no stream, no temp file and no chunk: a file the session       *)
(* vouches for stays as it is until the session itself lets go of it; one  *)
(* it does not vouch for only grows, or is removed, until an upload that   *)
(* ends well commits it.  The end of the process takes every session, and  *)
(* at most the one path whose replacement it interrupted.                  *)
(*                                                                         *)
(* RequestHandler implements it: see StoreRefinement.                      *)
(***************************************************************************)
EXTENDS Sequences, SequencesExt

CONSTANTS
    Conns,    \* the connections
    Users,    \* the users
    NoUser,   \* the user of a connection without a session
    Paths,    \* the paths a client uploads
    Content,  \* the contents of files
    None      \* no file, no promise

VARIABLES
    stored,   \* stored[u][p]: the content of path p of user u, or None
    who,      \* who[c]: the user of the session on c, or NoUser
    promise   \* promise[c][p]: the content the session vouches for, or None

vars == <<stored, who, promise>>

NoPromise == [p \in Paths |-> None]

Init ==
    /\ stored = [u \in Users |-> [p \in Paths |-> None]]
    /\ who = [c \in Conns |-> NoUser]
    /\ promise = [c \in Conns |-> NoPromise]

\* A file nobody vouches for may appear, and may be appended to.
Grown(old, new) ==
    \/ new = old
    \/ old = None /\ new \in Content
    \/ old # None /\ new \in Content /\ IsPrefix(old, new)

\* A request of session c about path p may make files grow that c does not
\* vouch for; of the other paths and the other users it changes nothing else.
Elsewhere(c, p) ==
    \A u \in Users, q \in Paths : <<u, q>> # <<who[c], p>> =>
        IF u = who[c] /\ promise[c][q] = None
        THEN Grown(stored[u][q], stored'[u][q])
        ELSE stored'[u][q] = stored[u][q]

Promises(c, p, content) == promise' = [promise EXCEPT ![c][p] = content]

\* A session begins, the only one of its user: each path it vouches for is
\* vouched for as it is stored.
Open(c, u) ==
    /\ who[c] = NoUser
    /\ \A e \in Conns : who[e] # u
    /\ who' = [who EXCEPT ![c] = u]
    /\ \E listed \in SUBSET Paths :
         promise' = [promise EXCEPT ![c] =
                       [p \in Paths |-> IF p \in listed THEN stored[u][p] ELSE None]]
    /\ UNCHANGED stored

Close(c) ==
    /\ who[c] # NoUser
    /\ who' = [who EXCEPT ![c] = NoUser]
    /\ promise' = [promise EXCEPT ![c] = NoPromise]
    /\ UNCHANGED stored

\* A part of an upload of p arrived: the session stops vouching for p, but the
\* file that was vouched for is still whole.
Upload(c, p) ==
    /\ who[c] # NoUser
    /\ Promises(c, p, None)
    /\ Elsewhere(c, p)
    /\ IF promise[c][p] = None
       THEN Grown(stored[who[c]][p], stored'[who[c]][p])
       ELSE stored'[who[c]][p] = stored[who[c]][p]
    /\ UNCHANGED who

\* The upload of p is complete and right.
Commit(c, p) ==
    /\ who[c] # NoUser
    /\ stored'[who[c]][p] \in Content
    /\ Promises(c, p, stored'[who[c]][p])
    /\ Elsewhere(c, p)
    /\ UNCHANGED who

\* p is erased, or its upload is complete and wrong.
Delete(c, p) ==
    /\ who[c] # NoUser
    /\ stored'[who[c]][p] = None
    /\ Promises(c, p, None)
    /\ Elsewhere(c, p)
    /\ UNCHANGED who

\* The process ends, perhaps between the removal of p and the rename that was
\* to replace it.
Crash ==
    /\ who' = [c \in Conns |-> NoUser]
    /\ promise' = [c \in Conns |-> NoPromise]
    /\ \/ UNCHANGED stored
       \/ \E c \in Conns, p \in Paths :
            /\ who[c] # NoUser
            /\ stored'[who[c]][p] = None
            /\ Elsewhere(c, p)

Next ==
    \/ \E c \in Conns :
         \/ \E u \in Users : Open(c, u)
         \/ Close(c)
         \/ \E p \in Paths : Upload(c, p) \/ Commit(c, p) \/ Delete(c, p)
    \/ Crash

Spec == Init /\ [][Next]_vars
-----------------------------------------------------------------------------
\* What a session vouches for is stored.
Kept ==
    \A c \in Conns, p \in Paths :
        who[c] # NoUser /\ promise[c][p] # None
            => stored[who[c]][p] = promise[c][p]
=============================================================================
