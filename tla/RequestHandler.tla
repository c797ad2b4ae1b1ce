--------------------------- MODULE RequestHandler ---------------------------
(***************************************************************************)
(* The server of the remote backup, as its clients can drive it: the       *)
(* sessions of server/core/connection.cpp, the gate and the handlers of    *)
(* server/core/request_handler.cpp, the one write stream per user of       *)
(* server/core/open_streams.cpp, the per-session directory view of         *)
(* server/core/user.cpp and the backup tree on disk, which is all that     *)
(* survives the process.                                                   *)
(*                                                                         *)
(* A handler runs to its end on the strand of its connection, so it is one *)
(* action; the process may however die inside one (Crash,                  *)
(* UpdateInterrupted).  Requests are those of ANY client: every type, path,*)
(* digest, piece of content and end-of-file flag, in every order.          *)
(*                                                                         *)
(* A file's content is a sequence of Data, and the MD5 digest of a file is *)
(* its content: digests of one path differ when the contents differ.  The  *)
(* digest is computed over the path and the content, and every comparison  *)
(* in the code is between two digests of the same path.                    *)
(*                                                                         *)
(* Operators that no other one uses (ShutdownKeepsStream and the like) are *)
(* faulty variants of the one that follows them: PROJECT.json names them,  *)
(* with the property each of them breaks.                                  *)
(***************************************************************************)
EXTENDS Integers, Sequences

CONSTANTS
    Conns,       \* the connections the server can hold at a time
    Users,       \* the user ids of the credentials file
    NoUser,      \* the empty id of a connection nobody authenticated on
    Names,       \* the file names that can appear in a user's directory
    Paths,       \* those a client uploads
    Temp,        \* Temp[p] is the name p + ".temp" that handle_update writes
    Data,        \* the alphabet of file contents
    Pieces,      \* the contents one chunk can carry
    Digests,     \* the digests a client can send
    None,        \* no file, no entry, no stream
    TempDigest,  \* the digest "TEMP" of an entry whose upload has begun
    Uninit,      \* what an uninitialised bool of class user can hold
    Unopenable,  \* names no stream can be opened on (too long, say)
    IOFaults,    \* may writing, removing or making a directory fail?
    SharedLogin, \* may two connections be authenticated as one user?
    MaxLen       \* bound of the model: the length of a file

Content == Seq(Data)

ASSUME NamesAssumption ==
    /\ Paths \subseteq Names
    /\ Unopenable \subseteq Names
    /\ Temp \in [Paths -> Names]
    /\ \A p, q \in Paths : Temp[p] = Temp[q] => p = q

ASSUME ContentAssumption ==
    /\ \A x \in Pieces : x \in Content
    /\ \A d \in Digests : d \in Content
    /\ None \notin Content

ASSUME SessionAssumption ==
    /\ NoUser \notin Users
    /\ Uninit \subseteq BOOLEAN
    /\ IOFaults \in BOOLEAN
    /\ SharedLogin \in BOOLEAN
    /\ MaxLen \in Nat

VARIABLES
    disk,     \* disk[u][n]: the content of file n of user u, or None
    conn,     \* conn[c]: the class user of connection c, and whether it is open
    view,     \* view[c][n]: the s_resource of n in the directory view, or None
    streams,  \* streams[u]: the open stream of user u, or None
    reply     \* reply[c]: the result of the last request served on c

vars == <<disk, conn, view, streams, reply>>

Results ==
    {"NONE", "OK", "AUTH_FAILED", "LIST_FAILED", "ALREADY_EXIST",
     "CREATE_FAILED", "CREATE_NO_MATCH", "NOT_EXIST", "ALREADY_UPDATED",
     "UPDATE_FAILED", "UPDATE_NO_MATCH", "ERASE_NO_MATCH", "ERASE_FAILED",
     "MSG_TYPE_REJECTED"}

Session  == [open : BOOLEAN, id : Users \cup {NoUser},
             auth : BOOLEAN, synced : BOOLEAN]
Resource == [synced : BOOLEAN, digest : {TempDigest} \cup Content]
\* linked: the stream's file still has its name (no ERASE unlinked it)
Stream   == [name : Names, good : BOOLEAN, linked : BOOLEAN]

ASSUME EntryAssumption == None \notin Resource

TypeOK ==
    /\ disk \in [Users -> [Names -> {None} \cup Content]]
    /\ conn \in [Conns -> Session]
    /\ view \in [Conns -> [Names -> {None} \cup Resource]]
    /\ streams \in [Users -> {None} \cup Stream]
    /\ reply \in [Conns -> Results]

Closed    == [open |-> FALSE, id |-> NoUser, auth |-> FALSE, synced |-> FALSE]
EmptyView == [n \in Names |-> None]

Init ==
    /\ disk = [u \in Users |-> [n \in Names |-> None]]
    /\ conn = [c \in Conns |-> Closed]
    /\ view = [c \in Conns |-> EmptyView]
    /\ streams = [u \in Users |-> None]
    /\ reply = [c \in Conns |-> "NONE"]

Authed(c) == conn[c].open /\ conn[c].auth /\ conn[c].id \in Users
Ready(c)  == Authed(c) /\ conn[c].synced

Answer(c, r) == reply' = [reply EXCEPT ![c] = r]
Refuse(c, r) == Answer(c, r) /\ UNCHANGED <<disk, conn, view, streams>>

(***************************************************************************)
(* Sessions.                                                               *)
(***************************************************************************)

\* The bools of class user have no initialiser: a new connection starts with
\* whatever its memory held.
Accept(c) ==
    /\ ~conn[c].open
    /\ \E a, s \in Uninit :
         conn' = [conn EXCEPT ![c] = [open |-> TRUE, id |-> NoUser,
                                      auth |-> a, synced |-> s]]
    /\ view' = [view EXCEPT ![c] = EmptyView]
    /\ Answer(c, "NONE")
    /\ UNCHANGED <<disk, streams>>

ShutdownKeepsStream(c) ==
    /\ conn[c].open
    /\ conn' = [conn EXCEPT ![c] = Closed]
    /\ view' = [view EXCEPT ![c] = EmptyView]
    /\ Answer(c, "NONE")
    /\ UNCHANGED <<disk, streams>>

\* A read, write or handshake error, or the timeout: the user's stream is
\* erased, which closes it, and the connection is gone with its view.
Shutdown(c) ==
    /\ conn[c].open
    /\ streams' = [u \in Users |-> IF u = conn[c].id THEN None ELSE streams[u]]
    /\ conn' = [conn EXCEPT ![c] = Closed]
    /\ view' = [view EXCEPT ![c] = EmptyView]
    /\ Answer(c, "NONE")
    /\ UNCHANGED disk

Auth(c, u) ==
    /\ conn[c].open /\ ~conn[c].auth
    /\ SharedLogin \/ \A e \in Conns : conn[e].id # u
    /\ conn' = [conn EXCEPT ![c].id = u, ![c].auth = TRUE]
    /\ view' = [view EXCEPT ![c] = EmptyView]
    /\ Answer(c, "OK")
    /\ UNCHANGED <<disk, streams>>

AuthFailed(c) ==
    /\ conn[c].open /\ ~conn[c].auth
    /\ Refuse(c, "AUTH_FAILED")

\* A request of a type the session's phase does not accept, AUTH and LIST
\* after their phase included.
Rejected(c) ==
    /\ conn[c].open
    /\ Refuse(c, "MSG_TYPE_REJECTED")

KeepAlive(c) ==
    /\ conn[c].open /\ conn[c].auth /\ conn[c].synced
    /\ Refuse(c, "OK")

(***************************************************************************)
(* LIST: the view becomes the disk, every entry synced.                    *)
(***************************************************************************)

ListedUnchecked(u) == [n \in Names |-> [synced |-> TRUE, digest |-> disk[u][n]]]

Listed(u) == [n \in Names |->
    IF disk[u][n] = None THEN None
                         ELSE [synced |-> TRUE, digest |-> disk[u][n]]]

List(c) ==
    /\ Authed(c) /\ ~conn[c].synced
    /\ view' = [view EXCEPT ![c] = Listed(conn[c].id)]
    /\ conn' = [conn EXCEPT ![c].synced = TRUE]
    /\ Answer(c, "OK")
    /\ UNCHANGED <<disk, streams>>

\* The user's directory does not exist yet, or it cannot be read.
ListFailed(c) ==
    /\ Authed(c) /\ ~conn[c].synced
    /\ view' = [view EXCEPT ![c] = EmptyView]
    /\ Answer(c, "LIST_FAILED")
    /\ UNCHANGED <<disk, conn, streams>>

(***************************************************************************)
(* open_streams::get_stream(user, n).  The arguments of emplace are built  *)
(* first: an ofstream opened on n for appending, which creates the file.   *)
(* Then the user's stream is the one already in the map, whatever file it  *)
(* was opened on, or else the new one; one that failed to open stays in    *)
(* the map too.                                                            *)
(***************************************************************************)

Touched(u, n) ==
    IF disk[u][n] = None /\ n \notin Unopenable
    THEN [disk[u] EXCEPT ![n] = <<>>] ELSE disk[u]

IsFirst(u) == streams[u] = None

GetStream(u, n) ==
    IF IsFirst(u) THEN [name |-> n, good |-> n \notin Unopenable, linked |-> TRUE]
                  ELSE streams[u]

\* The files of u once get_stream(u, n) was called and data written to what
\* it returned; an unlinked file takes the data out of sight.
Written(u, n, data) ==
    LET s == GetStream(u, n)
    IN  IF s.linked THEN [Touched(u, n) EXCEPT ![s.name] = @ \o data]
                    ELSE Touched(u, n)

Fits(files) == \A n \in Names : files[n] # None => Len(files[n]) <= MaxLen

\* What reaches the file of data, given whether the write fails (disk full).
Kept(data, fault) == IF fault THEN <<>> ELSE data

FaultChoice == IF IOFaults THEN BOOLEAN ELSE {FALSE}

IsSynced(e)   == e # None /\ e.synced
Matches(e, d) == e # None /\ e.digest = d

\* The stream get_stream returns is bad: it is put, or left, in the map.
BadStream(c, n, r) ==
    LET u == conn[c].id
    IN  /\ ~GetStream(u, n).good
        /\ disk' = [disk EXCEPT ![u] = Touched(u, n)]
        /\ streams' = [streams EXCEPT ![u] = GetStream(u, n)]
        /\ Answer(c, r)
        /\ UNCHANGED <<conn, view>>

(***************************************************************************)
(* CREATE.                                                                 *)
(***************************************************************************)

CreateRefused(c, p) ==
    /\ Ready(c)
    /\ IsSynced(view[c][p])
    /\ Refuse(c, "ALREADY_EXIST")

CreateDirsFailed(c, p) ==
    /\ Ready(c) /\ IOFaults
    /\ ~IsSynced(view[c][p])
    /\ Refuse(c, "CREATE_FAILED")

CreateBadStream(c, p) ==
    /\ Ready(c)
    /\ ~IsSynced(view[c][p])
    /\ BadStream(c, p, "CREATE_FAILED")

\* handle_create flushes after every chunk, which is where a failed write
\* turns the stream bad.
CreateChunk(c, p, data, fault) ==
    LET u     == conn[c].id
        files == Written(u, p, Kept(data, fault))
    IN  /\ Ready(c)
        /\ ~IsSynced(view[c][p])
        /\ GetStream(u, p).good
        /\ Fits(files)
        /\ disk' = [disk EXCEPT ![u] = files]
        /\ streams' = [streams EXCEPT ![u] = [GetStream(u, p) EXCEPT !.good = ~fault]]
        /\ view' = IF IsFirst(u)
                   THEN [view EXCEPT ![c][p] = [synced |-> FALSE, digest |-> TempDigest]]
                   ELSE view
        /\ Answer(c, "OK")
        /\ UNCHANGED conn

CreateLastLeavesStream(c, p, d, data, fault) ==
    LET u     == conn[c].id
        files == Written(u, p, Kept(data, fault))
    IN  /\ Ready(c)
        /\ ~IsSynced(view[c][p])
        /\ GetStream(u, p).good
        /\ Fits(files)
        /\ files[p] # None
        /\ files[p] # d
        /\ streams' = [streams EXCEPT ![u] = GetStream(u, p)]
        /\ disk' = [disk EXCEPT ![u] = [files EXCEPT ![p] = None]]
        /\ view' = [view EXCEPT ![c][p] = None]
        /\ Answer(c, "CREATE_NO_MATCH")
        /\ UNCHANGED conn

\* The chunk that ends in an END tag: the stream is closed and erased and the
\* file's digest compared with the client's.  (Where the file does not exist,
\* MD5_hash throws what nobody catches: see Crash.)
CreateLast(c, p, d, data, fault) ==
    LET u     == conn[c].id
        files == Written(u, p, Kept(data, fault))
    IN  /\ Ready(c)
        /\ ~IsSynced(view[c][p])
        /\ GetStream(u, p).good
        /\ Fits(files)
        /\ files[p] # None
        /\ streams' = [streams EXCEPT ![u] = None]
        /\ \/ /\ files[p] = d
              /\ disk' = [disk EXCEPT ![u] = files]
              /\ view' = [view EXCEPT ![c][p] = [synced |-> TRUE, digest |-> d]]
              /\ Answer(c, "OK")
           \/ /\ files[p] # d
              /\ disk' = [disk EXCEPT ![u] = [files EXCEPT ![p] = None]]
              /\ view' = [view EXCEPT ![c][p] = None]
              /\ Answer(c, "CREATE_NO_MATCH")
        /\ UNCHANGED conn

(***************************************************************************)
(* UPDATE: as CREATE, on p + ".temp", which then takes the place of p.     *)
(***************************************************************************)

UpdateNotExist(c, p) ==
    /\ Ready(c)
    /\ view[c][p] = None
    /\ Refuse(c, "NOT_EXIST")

AlreadyUpdated(c, p, d) ==
    /\ Ready(c)
    /\ Matches(view[c][p], d)
    /\ Refuse(c, "ALREADY_UPDATED")

Updating(c, p, d) ==
    /\ Ready(c)
    /\ view[c][p] # None /\ ~Matches(view[c][p], d)

UpdateBadStream(c, p, d) ==
    /\ Updating(c, p, d)
    /\ BadStream(c, Temp[p], "UPDATE_FAILED")

UpdateChunkInPlace(c, p, d, data, fault) ==
    LET u     == conn[c].id
        files == Written(u, p, Kept(data, fault))
    IN  /\ Updating(c, p, d)
        /\ GetStream(u, p).good
        /\ Fits(files)
        /\ disk' = [disk EXCEPT ![u] = files]
        /\ streams' = [streams EXCEPT ![u] = GetStream(u, p)]
        /\ view' = IF IsFirst(u) THEN [view EXCEPT ![c][p].synced = FALSE]
                                 ELSE view
        /\ Answer(c, "OK")
        /\ UNCHANGED conn

UpdateChunk(c, p, d, data, fault) ==
    LET u     == conn[c].id
        files == Written(u, Temp[p], Kept(data, fault))
    IN  /\ Updating(c, p, d)
        /\ GetStream(u, Temp[p]).good
        /\ Fits(files)
        /\ disk' = [disk EXCEPT ![u] = files]
        /\ streams' = [streams EXCEPT ![u] = GetStream(u, Temp[p])]
        /\ view' = IF IsFirst(u) THEN [view EXCEPT ![c][p].synced = FALSE]
                                 ELSE view
        /\ Answer(c, "OK")
        /\ UNCHANGED conn

UpdateLast(c, p, d, data, fault) ==
    LET u       == conn[c].id
        files   == Written(u, Temp[p], Kept(data, fault))
        content == files[Temp[p]]
    IN  /\ Updating(c, p, d)
        /\ GetStream(u, Temp[p]).good
        /\ Fits(files)
        /\ content # None
        /\ streams' = [streams EXCEPT ![u] = None]
        /\ \/ /\ content = d
              /\ disk' = [disk EXCEPT ![u] =
                            [files EXCEPT ![p] = content, ![Temp[p]] = None]]
              /\ view' = [view EXCEPT ![c][p] = [synced |-> TRUE, digest |-> d]]
              /\ Answer(c, "OK")
           \/ /\ content # d
              /\ disk' = [disk EXCEPT ![u] =
                            [files EXCEPT ![p] = None, ![Temp[p]] = None]]
              /\ view' = [view EXCEPT ![c][p] = None]
              /\ Answer(c, "UPDATE_NO_MATCH")
        /\ UNCHANGED conn

(***************************************************************************)
(* ERASE and RETRIEVE.                                                     *)
(***************************************************************************)

EraseRefused(c, n, d) ==
    /\ Ready(c)
    /\ ~Matches(view[c][n], d)
    /\ Refuse(c, "ERASE_NO_MATCH")

EraseFailed(c, n, d) ==
    /\ Ready(c) /\ IOFaults
    /\ Matches(view[c][n], d)
    /\ Refuse(c, "ERASE_FAILED")

Erase(c, n, d) ==
    LET u == conn[c].id
    IN  /\ Ready(c)
        /\ Matches(view[c][n], d)
        /\ disk' = [disk EXCEPT ![u][n] = None]
        /\ view' = [view EXCEPT ![c][n] = None]
        /\ streams' = IF ~IsFirst(u) /\ streams[u].name = n
                      THEN [streams EXCEPT ![u].linked = FALSE]
                      ELSE streams
        /\ Answer(c, "OK")
        /\ UNCHANGED conn

\* The reply carries the file in chunks; nothing changes.  (Where the file cannot
\* be read, the error is added to a queue that has just been emptied: see Crash.)
Retrieve(c, n) ==
    /\ Ready(c)
    /\ disk[conn[c].id][n] # None
    /\ Refuse(c, "OK")

(***************************************************************************)
(* The process ends: every connection, view and stream is gone, and the    *)
(* tail of a temp file not yet flushed may be (handle_update does not      *)
(* flush).  It ends for any outside reason; because a handler calls        *)
(* std::exit or lets an exception escape, CREATE of a file that cannot be  *)
(* read included; or by undefined behaviour: message_queue::add_TLV calls  *)
(* back() on the empty queue of a RETRIEVE that fails, and a session whose *)
(* uninitialised is_auth_ held true is used without a directory.           *)
(***************************************************************************)

Ended ==
    /\ conn' = [c \in Conns |-> Closed]
    /\ view' = [c \in Conns |-> EmptyView]
    /\ streams' = [u \in Users |-> None]
    /\ reply' = [c \in Conns |-> "NONE"]

Unflushed(u) ==
    /\ streams[u] # None
    /\ streams[u].good /\ streams[u].linked
    /\ \E p \in Paths : streams[u].name = Temp[p]

Crash ==
    /\ \E k \in 0..MaxLen :
         disk' = [u \in Users |->
                    IF Unflushed(u) /\ k < Len(disk[u][streams[u].name])
                    THEN [disk[u] EXCEPT ![streams[u].name] = SubSeq(@, 1, k)]
                    ELSE disk[u]]
    /\ Ended

\* handle_update dies after it has removed p and before the rename: killed, or
\* by std::exit because remove or rename failed.
UpdateInterrupted(c, p, d, data) ==
    LET u     == conn[c].id
        files == Written(u, Temp[p], data)
    IN  /\ Updating(c, p, d)
        /\ GetStream(u, Temp[p]).good
        /\ Fits(files)
        /\ disk' = [disk EXCEPT ![u] = [files EXCEPT ![p] = None]]
        /\ Ended

(***************************************************************************)
(* The specification.                                                      *)
(***************************************************************************)

SessionStep(c) ==
    \/ Accept(c)
    \/ Shutdown(c)
    \/ \E u \in Users : Auth(c, u)
    \/ AuthFailed(c)
    \/ Rejected(c)
    \/ KeepAlive(c)
    \/ List(c)
    \/ ListFailed(c)

CreateStep(c, p) ==
    \/ CreateRefused(c, p)
    \/ CreateDirsFailed(c, p)
    \/ CreateBadStream(c, p)
    \/ \E data \in Pieces, fault \in FaultChoice :
         \/ CreateChunk(c, p, data, fault)
         \/ \E d \in Digests : CreateLast(c, p, d, data, fault)

UpdateStep(c, p) ==
    \/ UpdateNotExist(c, p)
    \/ \E d \in Digests :
         \/ AlreadyUpdated(c, p, d)
         \/ UpdateBadStream(c, p, d)
         \/ \E data \in Pieces, fault \in FaultChoice :
              \/ UpdateChunk(c, p, d, data, fault)
              \/ UpdateLast(c, p, d, data, fault)
         \/ \E data \in Pieces : UpdateInterrupted(c, p, d, data)

EraseStep(c, n) ==
    \E d \in Digests :
      \/ EraseRefused(c, n, d)
      \/ EraseFailed(c, n, d)
      \/ Erase(c, n, d)

Next ==
    \/ \E c \in Conns :
         \/ SessionStep(c)
         \/ \E p \in Paths : CreateStep(c, p) \/ UpdateStep(c, p)
         \/ \E n \in Names : EraseStep(c, n) \/ Retrieve(c, n)
    \/ Crash

Spec == Init /\ [][Next]_vars
-----------------------------------------------------------------------------
(***************************************************************************)
(* Properties.                                                             *)
(***************************************************************************)

\* What the server answers ALREADY_EXIST from is true: in a session that has
\* listed, an entry of a client's path whose synced flag is set has the digest
\* of the file on disk, whatever uploads were begun, abandoned or interleaved.
\* (class s_resource, handle_create, handle_update, handle_erase)
ViewSound ==
    \A c \in Conns, p \in Paths :
        Ready(c) /\ IsSynced(view[c][p])
            => disk[conn[c].id][p] = view[c][p].digest

\* No stream outlives its sessions: while a user has an open stream, some live
\* connection of that user is past its LIST, so a new session that is the
\* user's only one starts every upload at a fresh stream.
\* (connection::shutdown, open_streams::erase_stream)
NoStreamLeak ==
    \A u \in Users : streams[u] # None =>
        \E c \in Conns : Ready(c) /\ conn[c].id = u

\* A file that is being written to is not vouched for: no session has a synced
\* entry for the file the user's stream appends to.
\* (the synced flag handle_create sets on the first chunk)
NotSyncedWhileWritten ==
    \A c \in Conns : Ready(c) /\ streams[conn[c].id] # None =>
        LET n == streams[conn[c].id].name
        IN  n \in Paths => ~IsSynced(view[c][n])

\* A usable stream writes to a file that is there: an ERASE under it leaves it
\* unlinked, and the removal of a mismatching upload leaves none behind.
\* (handle_erase, the closing of the stream before remove and rename)
StreamOnDisk ==
    \A u \in Users :
        streams[u] # None /\ streams[u].good /\ streams[u].linked
            => disk[u][streams[u].name] # None
=============================================================================
