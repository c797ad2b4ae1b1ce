-------------------------- MODULE StoreRefinement --------------------------
(***************************************************************************)
(* RequestHandler implements BackupStore, when a user has one session at a *)
(* time and no client path is the temp name of another.                    *)
(*                                                                         *)
(* A session is one past its LIST; it vouches for the paths whose entry in *)
(* its view is synced, with the entry's digest; what is stored is the disk *)
(* without the temp files.  The streams and the unsynced entries are the   *)
(* details the abstract store does without.                                *)
(***************************************************************************)
EXTENDS RequestHandler

Vouched(c, p) ==
    IF Ready(c) /\ IsSynced(view[c][p]) THEN view[c][p].digest ELSE None

Stored  == [u \in Users |-> [p \in Paths |-> disk[u][p]]]
Who     == [c \in Conns |-> IF Ready(c) THEN conn[c].id ELSE NoUser]
Promise == [c \in Conns |-> [p \in Paths |-> Vouched(c, p)]]

Store == INSTANCE BackupStore WITH
    stored <- Stored, who <- Who, promise <- Promise

\* Every request, and the end of the process, changes the files of a user only
\* as the abstract store allows: never a file the session vouches for behind
\* its back, never a file that is being replaced before the replacement is
\* whole, never another user's. (handle_create, handle_update, handle_erase,
\* user::dir, open_streams)
ImplementsStore == Store!Spec
=============================================================================
