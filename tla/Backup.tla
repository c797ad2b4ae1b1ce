------------------------------- MODULE Backup -------------------------------
(***************************************************************************)
(* The whole backup: the client of client/core keeping a watched directory *)
(* on the server of RequestHandler, over one connection.                   *)
(*                                                                         *)
(* The client is three kinds of threads around one directory of entries    *)
(* (class dir<c_resource>, whose operations each take its lock):           *)
(*   - the watcher (file_watcher::start) compares files with entries and   *)
(*     posts lambdas to the io_context (scheduler::create, update, erase); *)
(*   - the pool runs the lambdas: each rewrites its entry, opens the file  *)
(*     and posts a job on the strand of the connection;                    *)
(*   - the strand runs the jobs one by one (connection::async_post):       *)
(*     messages and replies in turn, reconnection and SYNC when the link   *)
(*     is found broken, and at last the handler of the response.           *)
(*                                                                         *)
(* Around them are the user, who edits files, the server process and its   *)
(* connections, which can go down, and the client process, which can be    *)
(* restarted: its entries are not persistent.                              *)
(*                                                                         *)
(* Operators that no other one uses (SyncPostsKeepsExtra and the like) are *)
(* faulty variants of the one that follows them: PROJECT.json names them,  *)
(* with the property each of them breaks.                                  *)
(***************************************************************************)
EXTENDS RequestHandler, SequencesExt

CONSTANTS
    Me,           \* the user whose credentials were typed at login
    Link,         \* the connection of the client, one at a time
    Texts,        \* the contents the user gives to files
    Threads,      \* the size of the pool, --threads
    Prompt,       \* does a free thread run what is posted before the watcher's next
                  \* look, --delay milliseconds later?
    ServerDies,   \* can the server process end, or only the connection?
    EditsApart,   \* does the user leave a file alone while the client is at it?
    MaxPending,   \* bounds of the model: lambdas and jobs left when the watcher looks,
    MaxEdits,     \* edits of the user,
    MaxDrops,     \* losses of the link,
    MaxStarts     \* and restarts of the client process

ASSUME ClientAssumption ==
    /\ Me \in Users /\ Link \in Conns
    /\ Texts \subseteq Content
    /\ Threads \in Nat \ {0}
    /\ Prompt \in BOOLEAN /\ ServerDies \in BOOLEAN /\ EditsApart \in BOOLEAN
    /\ MaxPending \in Nat /\ MaxEdits \in Nat /\ MaxDrops \in Nat /\ MaxStarts \in Nat

VARIABLES
    file,    \* file[p]: the content of p in the watched directory, or None
    dir,     \* dir[n]: the c_resource of n in the client's directory, or None
    watch,   \* the file the watcher has come to, and how far it is with it, or None
    pool,    \* the lambdas posted to the io_context
    strand,  \* the jobs of the strand, the running one first
    task,    \* where the strand is in that job
    client,  \* the client process: "login", "starting" (no SYNC yet), "watching"
             \* or "exited"
    budget   \* what remains of the bounds on edits, drops and restarts

server == <<disk, conn, view, streams, reply>>
cvars  == <<file, dir, watch, pool, strand, task, client, budget>>
allVars == <<vars, cvars>>

Lambda == [op : {"CREATE", "UPDATE", "ERASE"}, path : Names, digest : Content]

\* A job is a lambda and its f_message: the length the file had when it was
\* opened (-1: it was not there), and what is read from it when it is no longer
\* the file of that name (None: it still is).
Job == [op : {"CREATE", "UPDATE", "ERASE"}, path : Names, digest : Content,
        len : Int, text : {None} \cup Content]

\* listed in the pass; its digest computed; its entry found.
Watched == [path : Paths, step : {"listed", "hashed", "found"},
            digest : {None} \cup Content]

CResource == [synced : {"true", "false", "indeterminate"}, exist : BOOLEAN,
              digest : Content]

\* ofJob: the strand is in its first job (or else in a KEEP_ALIVE, or the main
\* thread is starting).  "LOST" is the nullopt a handler is given for want of a
\* response.
Task == [phase : {"idle", "send", "await", "connect", "auth", "scan", "list",
                  "handle", "store"},
         ofJob : BOOLEAN, sent : Nat, resp : Results \cup {"LOST"},
         copy : {None} \cup CResource]

ASSUME CResourceAssumption == None \notin CResource

Idle == [phase |-> "idle", ofJob |-> FALSE, sent |-> 0, resp |-> "NONE",
         copy |-> None]

ClientTypeOK ==
    /\ file \in [Paths -> {None} \cup Content]
    /\ dir \in [Names -> {None} \cup CResource]
    /\ watch \in {None} \cup Watched
    /\ pool \in Seq(Lambda)
    /\ strand \in Seq(Job)
    /\ task \in Task
    /\ client \in {"login", "starting", "watching", "exited"}
    /\ budget \in [edits : Nat, drops : Nat, starts : Nat]

Local(n) == IF n \in Paths THEN file[n] ELSE None
Entry(s, e, d) == [synced |-> s, exist |-> e, digest |-> d]
Posted(o, n, d) == [op |-> o, path |-> n, digest |-> d]

ClientInit ==
    /\ Init
    /\ file \in [Paths -> {None} \cup Texts]
    /\ dir = [n \in Names |-> None]
    /\ watch = None
    /\ pool = <<>>
    /\ strand = <<>>
    /\ task = [Idle EXCEPT !.phase = "connect"]
    /\ client = "login"
    /\ budget = [edits |-> MaxEdits, drops |-> MaxDrops, starts |-> MaxStarts]

(***************************************************************************)
(* The watcher.  A pass looks for entries without a file, then at every    *)
(* file; which path it has come to is left open.                           *)
(***************************************************************************)

\* The strand, when it runs a job, has one of the threads of the pool.
FreeThreads == IF task.phase = "idle" THEN Threads ELSE Threads - 1

CanLook ==
    /\ client = "watching" /\ watch = None
    /\ Len(pool) + Len(strand) < MaxPending
    /\ Prompt => pool = <<>> \/ FreeThreads = 0

WatchMissingAgain(n) ==
    /\ CanLook
    /\ dir[n] # None /\ Local(n) = None
    /\ dir[n].exist
    /\ pool' = Append(pool, Posted("ERASE", n, dir[n].digest))
    /\ UNCHANGED <<server, file, dir, watch, strand, task, client, budget>>

WatchMissing(n) ==
    /\ CanLook
    /\ dir[n] # None /\ Local(n) = None
    /\ dir[n].synced # "indeterminate" /\ dir[n].exist
    /\ pool' = Append(pool, Posted("ERASE", n, dir[n].digest))
    /\ UNCHANGED <<server, file, dir, watch, strand, task, client, budget>>

WatchList(p) ==
    /\ CanLook
    /\ file[p] # None
    /\ watch' = [path |-> p, step |-> "listed", digest |-> None]
    /\ UNCHANGED <<server, file, dir, pool, strand, task, client, budget>>

Watching(step) == client = "watching" /\ watch # None /\ watch.step = step

WatchHash ==
    /\ Watching("listed")
    /\ file[watch.path] # None
    /\ watch' = [watch EXCEPT !.step = "hashed", !.digest = file[watch.path]]
    /\ UNCHANGED <<server, file, dir, pool, strand, task, client, budget>>

\* contains() ...
WatchFind ==
    /\ Watching("hashed")
    /\ IF dir[watch.path] = None
       THEN /\ pool' = Append(pool, Posted("CREATE", watch.path, watch.digest))
            /\ watch' = None
       ELSE /\ watch' = [watch EXCEPT !.step = "found"]
            /\ UNCHANGED pool
    /\ UNCHANGED <<server, file, dir, strand, task, client, budget>>

DueSkipsUpdate(e, d) ==
    IF e.synced = "false" /\ ~e.exist THEN {"CREATE"}
    ELSE IF e.synced = "false" THEN {"UPDATE"} ELSE {}

\* What the watcher schedules for a file of digest d whose entry is e.
Due(e, d) ==
    CASE e.synced = "true" /\ e.digest # d -> {"UPDATE"}
      [] e.synced = "false" /\ e.exist     -> {"UPDATE"}
      [] e.synced = "false" /\ ~e.exist    -> {"CREATE"}
      [] OTHER                             -> {}

\* ... and then rsrc().
WatchDecide ==
    /\ Watching("found")
    /\ dir[watch.path] # None
    /\ LET due == Due(dir[watch.path], watch.digest)
       IN  pool' = pool \o SetToSeq({Posted(o, watch.path, watch.digest) : o \in due})
    /\ watch' = None
    /\ UNCHANGED <<server, file, dir, strand, task, client, budget>>

\* The file is gone when it is hashed, or the entry when it is read: what
\* MD5_hash and value() throw is caught in main, which exits.
WatchThrows ==
    /\ \/ Watching("listed") /\ file[watch.path] = None
       \/ Watching("found") /\ dir[watch.path] = None
    /\ client' = "exited"
    /\ UNCHANGED <<server, file, dir, watch, pool, strand, task, budget>>

(***************************************************************************)
(* The pool.                                                               *)
(***************************************************************************)

RunLambda(i) ==
    LET l == pool[i]
    IN  /\ i \in DOMAIN pool /\ i <= FreeThreads
        /\ dir' = [dir EXCEPT ![l.path] =
                     Entry("indeterminate", l.op # "CREATE", l.digest)]
        /\ strand' = Append(strand,
             [op |-> l.op, path |-> l.path, digest |-> l.digest,
              len  |-> IF Local(l.path) = None THEN -1 ELSE Len(Local(l.path)),
              text |-> None])
        /\ pool' = RemoveAt(pool, i)
        /\ UNCHANGED <<server, file, watch, task, client, budget>>

(***************************************************************************)
(* The strand: one job.                                                    *)
(***************************************************************************)

job == Head(strand)

StartJob ==
    /\ client = "watching"
    /\ task.phase = "idle" /\ strand # <<>>
    /\ task' = [Idle EXCEPT !.phase = "send", !.ofJob = TRUE]
    /\ UNCHANGED <<server, file, dir, watch, pool, strand, client, budget>>

\* next_chunk: a file of length n goes in n messages, the empty one in one.
Text       == IF job.text = None THEN Local(job.path) ELSE job.text
IsLastPart == task.sent + 1 >= job.len
Readable   == job.len = 0 \/ (job.len # -1 /\ Text # None /\ task.sent < Len(Text))
Part       == IF job.len = 0 THEN <<>> ELSE SubSeq(Text, task.sent + 1, task.sent + 1)

\* The server's side of one message.
Serve ==
    LET p == job.path
        d == job.digest
    IN  \/ /\ job.op = "ERASE"
           /\ Erase(Link, p, d) \/ EraseRefused(Link, p, d)
        \/ /\ job.op = "CREATE" /\ IsLastPart
           /\ CreateLast(Link, p, d, Part, FALSE)
        \/ /\ job.op = "CREATE" /\ ~IsLastPart
           /\ CreateChunk(Link, p, Part, FALSE)
        \/ /\ job.op = "CREATE"
           /\ CreateRefused(Link, p) \/ CreateBadStream(Link, p)
        \/ /\ job.op = "UPDATE" /\ IsLastPart
           /\ UpdateLast(Link, p, d, Part, FALSE)
        \/ /\ job.op = "UPDATE" /\ ~IsLastPart
           /\ UpdateChunk(Link, p, d, Part, FALSE)
        \/ /\ job.op = "UPDATE"
           /\ \/ UpdateNotExist(Link, p) \/ AlreadyUpdated(Link, p, d)
              \/ UpdateBadStream(Link, p, d)

Send ==
    /\ task.phase = "send"
    /\ conn[Link].open
    /\ job.op # "ERASE" => Readable
    /\ Serve
    /\ task' = [task EXCEPT !.phase = "await", !.sent = @ + 1]
    /\ UNCHANGED <<file, dir, watch, pool, strand, client, budget>>

ReadFailsUnheard ==
    /\ task.phase = "send"
    /\ job.op # "ERASE" /\ ~Readable
    /\ task' = Idle
    /\ strand' = Tail(strand)
    /\ UNCHANGED <<server, file, dir, watch, pool, client, budget>>

\* next_chunk throws: the handler is called without a response.
ReadFails ==
    /\ task.phase = "send"
    /\ job.op # "ERASE" /\ ~Readable
    /\ task' = [task EXCEPT !.phase = "handle", !.resp = "LOST"]
    /\ UNCHANGED <<server, file, dir, watch, pool, strand, client, budget>>

ReceiveFirst ==
    /\ task.phase = "await"
    /\ conn[Link].open
    /\ task' = [task EXCEPT !.phase = "handle", !.resp = reply[Link]]
    /\ UNCHANGED <<server, file, dir, watch, pool, strand, client, budget>>

\* Only the response to the last message reaches the handler.
Receive ==
    /\ task.phase = "await"
    /\ conn[Link].open
    /\ task' = IF job.op # "ERASE" /\ task.sent < job.len
               THEN [task EXCEPT !.phase = "send"]
               ELSE [task EXCEPT !.phase = "handle", !.resp = reply[Link]]
    /\ UNCHANGED <<server, file, dir, watch, pool, strand, client, budget>>

(***************************************************************************)
(* The strand: reconnection and SYNC, which are also how the client        *)
(* starts.                                                                 *)
(***************************************************************************)

\* A write or a read of a job finds the connection closed.
Broken ==
    /\ \/ task.phase = "send" /\ (job.op # "ERASE" => Readable)
       \/ task.phase = "await"
    /\ ~conn[Link].open

\* The error is eof, connection_reset or broken_pipe: boost::indeterminate.  On
\* an idle strand it is met by a KEEP_ALIVE.
LinkLost ==
    /\ \/ Broken
       \/ /\ client = "watching" /\ ~conn[Link].open
          /\ task.phase = "idle" /\ strand = <<>>
    /\ task' = [task EXCEPT !.phase = "connect"]
    /\ UNCHANGED <<server, file, dir, watch, pool, strand, client, budget>>

\* It is another one, a TLS stream cut short say: false, and no reconnection.
LinkFails ==
    /\ Broken
    /\ task' = [task EXCEPT !.phase = "handle", !.resp = "LOST"]
    /\ UNCHANGED <<server, file, dir, watch, pool, strand, client, budget>>

Connect ==
    /\ task.phase = "connect"
    /\ Accept(Link)
    /\ task' = [task EXCEPT !.phase = "auth"]
    /\ UNCHANGED <<file, dir, watch, pool, strand, client, budget>>

Authenticate ==
    /\ task.phase = "auth"
    /\ Auth(Link, Me)
    /\ task' = [task EXCEPT !.phase = IF client = "login" THEN "scan" ELSE "list"]
    /\ UNCHANGED <<file, dir, watch, pool, strand, client, budget>>

\* "Connection has been lost during authentication", and the LIST of sync()
\* failing with an error that does not mean a lost connection.
StartFails ==
    /\ task.phase \in {"auth", "list"}
    /\ ~conn[Link].open
    /\ client' = "exited"
    /\ UNCHANGED <<server, file, dir, watch, pool, strand, task, budget>>

\* The constructor of file_watcher.
Scan ==
    /\ task.phase = "scan"
    /\ dir' = [n \in Names |-> IF Local(n) = None THEN None
                               ELSE Entry("indeterminate", FALSE, Local(n))]
    /\ client' = "starting"
    /\ task' = [task EXCEPT !.phase = "list"]
    /\ UNCHANGED <<server, file, watch, pool, strand, budget>>

\* What sync() posts: the server's files the client has not or has otherwise,
\* then the client's files the server has not.
SyncPostsKeepsExtra ==
    LET listed == {n \in Names : disk[Me][n] # None}
        known  == {n \in Names : dir[n] # None}
        update == {Posted("UPDATE", n, dir[n].digest) :
                      n \in {m \in listed \cap known : dir[m].digest # disk[Me][m]}}
        create == {Posted("CREATE", n, dir[n].digest) : n \in known \ listed}
    IN  SetToSeq(update) \o SetToSeq(create)

SyncPosts ==
    LET listed == {n \in Names : disk[Me][n] # None}
        known  == {n \in Names : dir[n] # None}
        erase  == {Posted("ERASE", n, disk[Me][n]) : n \in listed \ known}
        update == {Posted("UPDATE", n, dir[n].digest) :
                      n \in {m \in listed \cap known : dir[m].digest # disk[Me][m]}}
        create == {Posted("CREATE", n, dir[n].digest) : n \in known \ listed}
    IN  SetToSeq(erase \cup update) \o SetToSeq(create)

Sync ==
    /\ task.phase = "list"
    /\ List(Link)
    /\ dir' = [n \in Names |->
                 IF dir[n] # None /\ dir[n].digest = disk[Me][n]
                 THEN Entry("true", TRUE, dir[n].digest) ELSE dir[n]]
    /\ pool' = pool \o SyncPosts
    /\ task' = IF task.ofJob THEN [task EXCEPT !.phase = "handle", !.resp = "LOST"]
                             ELSE Idle
    /\ client' = "watching"
    /\ UNCHANGED <<file, watch, strand, budget>>

SyncLost ==
    /\ task.phase = "list"
    /\ ~conn[Link].open
    /\ task' = [task EXCEPT !.phase = "connect"]
    /\ UNCHANGED <<server, file, dir, watch, pool, strand, client, budget>>

(***************************************************************************)
(* The strand: the handlers.  rsrc() and insert_or_assign() each take the  *)
(* lock of the directory, the handler does not.                            *)
(***************************************************************************)

Accepted(op) ==
    CASE op = "CREATE" -> {"OK", "ALREADY_EXIST"}
      [] op = "UPDATE" -> {"OK", "ALREADY_UPDATED"}
      [] op = "ERASE"  -> {"OK"}

HandleRead ==
    /\ task.phase = "handle"
    /\ dir[job.path] # None
    /\ task' = [task EXCEPT !.phase = "store", !.copy = dir[job.path]]
    /\ UNCHANGED <<server, file, dir, watch, pool, strand, client, budget>>

\* if (!rsrc_opt) std::exit(EXIT_FAILURE);
HandleExits ==
    /\ task.phase = "handle"
    /\ dir[job.path] = None
    /\ client' = "exited"
    /\ UNCHANGED <<server, file, dir, watch, pool, strand, task, budget>>

HandledOnlyAnswers ==
    IF task.resp = "LOST" THEN task.copy
    ELSE IF task.resp \notin Accepted(job.op) THEN [task.copy EXCEPT !.synced = "false"]
    ELSE IF job.op = "ERASE" THEN None
    ELSE [task.copy EXCEPT !.synced = "true", !.exist = TRUE]

HandledMarksErased ==
    IF task.resp \in Accepted(job.op) THEN [task.copy EXCEPT !.synced = "erased"]
    ELSE [task.copy EXCEPT !.synced = "false"]

Handled ==
    IF task.resp \notin Accepted(job.op) THEN [task.copy EXCEPT !.synced = "false"]
    ELSE CASE job.op = "CREATE" -> [task.copy EXCEPT !.synced = "true", !.exist = TRUE]
           [] job.op = "UPDATE" -> [task.copy EXCEPT !.synced = "true"]
           [] job.op = "ERASE"  -> None

HandleStore ==
    /\ task.phase = "store"
    /\ dir' = [dir EXCEPT ![job.path] = Handled]
    /\ strand' = Tail(strand)
    /\ task' = Idle
    /\ UNCHANGED <<server, file, watch, pool, client, budget>>

(***************************************************************************)
(* The user, and what can go wrong.                                        *)
(***************************************************************************)

Pending(n) == \/ \E i \in DOMAIN pool : pool[i].path = n
              \/ \E i \in DOMAIN strand : strand[i].path = n

\* The client is at file p: scanned but not compared with the LIST, looked at by
\* the watcher, or with an operation on its way.
ClientAt(p) ==
    \/ client = "starting"
    \/ watch # None /\ watch.path = p
    \/ Pending(p)

AtRest == /\ client = "watching" /\ watch = None
          /\ pool = <<>> /\ strand = <<>> /\ task.phase = "idle"

CanEdit(p) == budget.edits > 0 /\ (EditsApart => ~ClientAt(p))

\* A file is written in place, under the streams opened on it.
Write(p, t) ==
    /\ CanEdit(p)
    /\ file[p] # t
    /\ file' = [file EXCEPT ![p] = t]
    /\ budget' = [budget EXCEPT !.edits = @ - 1]
    /\ UNCHANGED <<server, dir, watch, pool, strand, task, client>>

\* A removed file is still there for the streams opened on it.
Unlink(p) ==
    /\ CanEdit(p)
    /\ file[p] # None
    /\ file' = [file EXCEPT ![p] = None]
    /\ strand' = [i \in DOMAIN strand |->
                    IF strand[i].path = p /\ strand[i].len # -1 /\ strand[i].text = None
                    THEN [strand[i] EXCEPT !.text = file[p]] ELSE strand[i]]
    /\ budget' = [budget EXCEPT !.edits = @ - 1]
    /\ UNCHANGED <<server, dir, watch, pool, task, client>>

\* The server shuts the connection down, or dies and is started again.
Drop ==
    /\ budget.drops > 0
    /\ conn[Link].open
    /\ Shutdown(Link) \/ (ServerDies /\ Crash)
    /\ budget' = [budget EXCEPT !.drops = @ - 1]
    /\ UNCHANGED <<file, dir, watch, pool, strand, task, client>>

\* It dies serving the last message of an UPDATE.
SendInterrupted ==
    /\ ServerDies /\ budget.drops > 0
    /\ task.phase = "send" /\ conn[Link].open
    /\ job.op = "UPDATE" /\ Readable /\ IsLastPart
    /\ UpdateInterrupted(Link, job.path, job.digest, Part)
    /\ task' = [task EXCEPT !.phase = "await", !.sent = @ + 1]
    /\ budget' = [budget EXCEPT !.drops = @ - 1]
    /\ UNCHANGED <<file, dir, watch, pool, strand, client>>

\* The client process ends, if it has not exited, and is started again; the
\* server finds the connection closed.
Restart ==
    /\ budget.starts > 0
    /\ IF conn[Link].open THEN Shutdown(Link) ELSE UNCHANGED server
    /\ dir' = [n \in Names |-> None]
    /\ watch' = None /\ pool' = <<>> /\ strand' = <<>>
    /\ task' = [Idle EXCEPT !.phase = "connect"]
    /\ client' = "login"
    /\ budget' = [budget EXCEPT !.starts = @ - 1]
    /\ UNCHANGED file

(***************************************************************************)
(* The specification.                                                      *)
(***************************************************************************)

StrandStep ==
    /\ client # "exited"
    /\ \/ StartJob \/ Send \/ ReadFails \/ Receive
       \/ LinkLost \/ LinkFails \/ Connect \/ Authenticate \/ StartFails
       \/ Scan \/ Sync \/ SyncLost
       \/ HandleRead \/ HandleExits \/ HandleStore

\* Of an idle strand nothing is asked: a keep-alive timer that an error has left
\* stopped never tells it that the link is gone.
Working == task.phase # "idle" \/ strand # <<>>

WatchStep == WatchHash \/ WatchFind \/ WatchDecide \/ WatchThrows

PoolStep == client # "exited" /\ \E i \in DOMAIN pool : RunLambda(i)

Environment ==
    \/ \E p \in Paths : Unlink(p) \/ \E t \in Texts : Write(p, t)
    \/ Drop
    \/ client # "exited" /\ SendInterrupted
    \/ Restart

BackupNext ==
    \/ StrandStep
    \/ PoolStep
    \/ \E n \in Names : WatchMissing(n)
    \/ \E p \in Paths : WatchList(p)
    \/ WatchStep
    \/ Environment

BackupSpec == ClientInit /\ [][BackupNext]_allVars

\* Every thread of the client goes on, and every pass of the watcher comes to every
\* path.  Nothing is asked of the user or of failures, nor of how a lost link is
\* reported.
FairBackup ==
    /\ BackupSpec
    /\ WF_allVars(Working /\ StrandStep) /\ WF_allVars(PoolStep) /\ WF_allVars(WatchStep)
    /\ \A n \in Names : SF_allVars(WatchMissing(n))
    /\ \A p \in Paths : SF_allVars(WatchList(p))
-----------------------------------------------------------------------------
(***************************************************************************)
(* Properties.                                                             *)
(***************************************************************************)

Synced(p) == dir[p] # None /\ dir[p].synced = "true"

Waiting(n) == dir[n] # None /\ dir[n].synced = "indeterminate"

\* The watcher leaves indeterminate entries alone, so one without a lambda or a
\* job whose handler will settle it would never be looked at again.
\* (scheduler::create, update, erase and their handlers, file_watcher::start)
NoOrphan == client = "watching" => \A n \in Names : Waiting(n) => Pending(n)

\* An entry does not stay indeterminate: every request is some time answered or
\* given up, however the link falls, unless the process ends.
\* (connection::async_post, scheduler::reconnect, the handlers)
Answered == \A n \in Names : Waiting(n) ~> ~Waiting(n) \/ client = "exited"

\* A synced entry nothing is pending for holds the digest of the file on the
\* server, whatever the user does to files while they are hashed and sent.
\* (the handlers, file_watcher::start, handle_create and handle_update)
SyncedIsStored == \A p \in Paths :
    client = "watching" /\ Synced(p) /\ ~Pending(p) => disk[Me][p] = dir[p].digest

\* if (!rsrc_opt) std::exit(EXIT_FAILURE): a handler finds the entry its lambda
\* made.  (scheduler::handle_create, handle_update, handle_erase)
HandlerFinds == task.phase = "handle" => dir[job.path] # None

Converged == \A p \in Paths : disk[Me][p] = file[p]

\* The client does not exit as long as its user leaves the file it is at alone,
\* although others are edited while that one is hashed, sent or erased.
\* (file_watcher::start, the handlers)
StaysUp == client # "exited"

\* And then the server comes to hold what the directory holds, and goes on holding
\* it.  (file_watcher::start, the handlers on both sides)
Mirrors ==
    (client = "watching" /\ budget.edits = 0) ~> (client = "exited" \/ []Converged)

\* A client that is started after the last edit and the last failure brings the
\* server to the state of the watched directory, whatever was left there.
\* (file_watcher::start, scheduler::sync)
RestartHeals ==
    (/\ client = "login" /\ task.phase = "connect"
     /\ budget.edits = 0 /\ budget.drops = 0) ~> []Converged

\* "true: client is synced with server on this resource": not so, and nothing
\* left to notice it, when the client is at rest with the digest of the file.
\* (class c_resource)
NoFalseSync == \A p \in Paths :
    AtRest /\ Synced(p) /\ dir[p].digest = file[p] => disk[Me][p] = file[p]

\* "true: the client knows that the resource exists on server".
\* (class c_resource)
ExistIsTrue == \A p \in Paths :
    AtRest /\ dir[p] # None /\ dir[p].exist => disk[Me][p] # None
=============================================================================
