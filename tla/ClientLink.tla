----------------------------- MODULE ClientLink -----------------------------
(***************************************************************************)
(* The client's connection in time: who uses its one socket, and when, and *)
(* what keeps the server from cutting it off.                              *)
(*                                                                         *)
(* The main thread logs in, scans the directory and sends LIST (main.cpp,  *)
(* scheduler::login, file_watcher's constructor, scheduler::sync), or      *)
(* restores (scheduler::restore).  When it does not restore, the pool is   *)
(* there from the login on, and on the strand the KEEP_ALIVE handler of    *)
(* connection::schedule_keepalive and the jobs use the same socket,        *)
(* reconnection (scheduler::reconnect) included.  Nothing keeps the two    *)
(* threads apart but time.                                                 *)
(*                                                                         *)
(* The messages, the threads and the server take no time; typing, the      *)
(* scan, hashing in a restore, connecting and waiting for something to do  *)
(* take any.  The watched directory does not change, and the server holds  *)
(* all of it at the start: a file missing there is one the client erased,  *)
(* and with at most one lost link, it has nothing else to send (Backup has *)
(* the changes of the directory, CREATE and UPDATE).                       *)
(*                                                                         *)
(* Operators that no other one uses (ArmsNot, FireEarly and the like) are  *)
(* faulty variants of the one that follows them: PROJECT.json names them,  *)
(* with the property each of them breaks.                                  *)
(***************************************************************************)
EXTENDS Integers, SequencesExt

CONSTANTS
    Files,            \* the files of the watched directory
    KEEPALIVE_INT_S,  \* the client's keep-alive interval
    TIMEOUT,          \* the server's timeout, in the same unit
    MaxAttempts,      \* general_attempts of scheduler::login
    MaxDrops,         \* bound of the model: losses of the link
    MaxFired          \* bound of the model: keep-alive handlers queued at a time

ASSUME LinkAssumption ==
    /\ KEEPALIVE_INT_S \in Nat \ {0} /\ TIMEOUT \in Nat
    /\ KEEPALIVE_INT_S < TIMEOUT
    /\ MaxAttempts \in Nat \ {0} /\ MaxDrops \in Nat /\ MaxFired \in Nat \ {0}

VARIABLES
    restore,   \* --restore
    at,        \* at[t]: what thread t is doing
    waits,     \* the threads that wait for a reply
    left,      \* left[t]: the attempts left in the login of t
    authed,    \* auth_data_ is that of an authenticated user
    ka,        \* the time left to keepalive_timer_, or Off
    fired,     \* its handlers queued on the strand
    link,      \* the connection: "up" or "down"
    session,   \* the server's session on it: "new", "auth" or "synced"
    srv,       \* the time left to the server's timeout_timer_
    requests,  \* on their way to the server
    replies,   \* on their way to the client
    toScan,    \* the files the scan has not come to
    known,     \* the files with an entry in the client's directory
    stored,    \* the files the server holds
    jobs,      \* the files to ERASE, by the strand; the first one is running or next
    inJob,     \* is the strand in a job?
    scanFor,   \* how long the scan has taken, up to KEEPALIVE_INT_S
    drops,     \* the losses of the link so far
    cut,       \* the server has timed the client out
    failed,    \* an exchange has ended in an error other than a lost connection
    missed     \* a RETRIEVE has had no answer

threads == <<restore, at, waits, left, authed>>
timer   == <<ka, fired>>
wire    == <<link, session, srv, requests, replies>>
files   == <<toScan, known, stored, jobs, inJob>>
history == <<scanFor, drops, cut, failed, missed>>
vars    == <<threads, timer, wire, files, history>>

Thread == {"main", "strand"}

\* Phases of one exchange each; reconnect() goes through connect, auth, list.
Exchanges == {"login", "auth", "list", "restore", "retrieve", "keepalive", "job"}

\* In granted and refused the strand is about to call the handler of its job.
Phases == Exchanges \cup {"prompt", "connect", "scan", "watch", "hash", "done",
                          "idle", "granted", "refused", "exited"}

Off == -1

Types   == {"AUTH", "LIST", "RETRIEVE", "KEEP_ALIVE", "ERASE"}
Message == [type : Types, arg : Files \cup {"typed", "known", "none"}]
Reply   == [type : Types, ok : BOOLEAN, list : SUBSET Files]

TypeOK ==
    /\ restore \in BOOLEAN /\ authed \in BOOLEAN
    /\ at \in [Thread -> Phases] /\ waits \subseteq Thread
    /\ left \in [Thread -> 0..MaxAttempts]
    /\ ka \in {Off} \cup 0..KEEPALIVE_INT_S /\ fired \in 0..MaxFired
    /\ link \in {"up", "down"} /\ session \in {"new", "auth", "synced"}
    /\ srv \in 0..TIMEOUT
    /\ requests \in Seq(Message) /\ replies \in Seq(Reply)
    /\ toScan \subseteq Files /\ stored \subseteq Files
    /\ known \subseteq Files
    /\ jobs \in Seq(Files) /\ inJob \in BOOLEAN
    /\ scanFor \in 0..KEEPALIVE_INT_S /\ drops \in 0..MaxDrops
    /\ cut \in BOOLEAN /\ failed \in BOOLEAN /\ missed \in BOOLEAN

Init ==
    /\ restore \in BOOLEAN
    /\ at = [t \in Thread |-> IF t = "main" THEN "prompt" ELSE "idle"]
    /\ waits = {}
    /\ left = [t \in Thread |-> MaxAttempts]
    /\ authed = FALSE
    /\ ka = Off /\ fired = 0
    /\ link = "up" /\ session = "new" /\ srv = TIMEOUT
    /\ requests = <<>> /\ replies = <<>>
    /\ toScan = Files
    /\ known = {}
    /\ stored = Files
    /\ jobs = <<>> /\ inJob = FALSE
    /\ scanFor = 0 /\ drops = 0 /\ cut = FALSE /\ failed = FALSE /\ missed = FALSE

\* The threads that run the io_context are made after the login.
Pool == authed /\ ~restore

Goes(t, phase) ==
    /\ at' = [at EXCEPT ![t] = phase]
    /\ waits' = waits \ {t}

\* std::exit, by either thread.
Exits ==
    /\ at' = [t \in Thread |-> "exited"]
    /\ waits' = {}

Exited == at["main"] = "exited"

(***************************************************************************)
(* The server: the gate of handle_request and the timeout.                 *)
(***************************************************************************)

AllowedButRetrieve(type) ==
    CASE session = "new"    -> type = "AUTH"
      [] session = "auth"   -> type = "LIST"
      [] session = "synced" -> type \notin {"AUTH", "LIST", "RETRIEVE"}

Allowed(type) ==
    CASE session = "new"    -> type = "AUTH"
      [] session = "auth"   -> type = "LIST"
      [] session = "synced" -> type \notin {"AUTH", "LIST"}

\* Whether the request is granted, once the gate lets it through: typed
\* credentials may be wrong.
Granted(r) ==
    CASE r.type = "AUTH"  -> IF r.arg = "typed" THEN BOOLEAN ELSE {TRUE}
      [] r.type = "ERASE" -> {r.arg \in stored}
      [] OTHER            -> {TRUE}

ServeRequestSilent ==
    /\ link = "up" /\ requests # <<>>
    /\ LET r == Head(requests)
       IN  /\ session' = CASE Allowed(r.type) /\ r.type = "AUTH" -> "auth"
                            [] Allowed(r.type) /\ r.type = "LIST" -> "synced"
                            [] OTHER                              -> session
           /\ replies' = IF Allowed(r.type)
                         THEN Append(replies, [type |-> r.type, ok |-> TRUE,
                                list |-> IF r.type = "LIST" THEN stored ELSE {}])
                         ELSE replies
    /\ requests' = Tail(requests)
    /\ srv' = TIMEOUT
    /\ UNCHANGED <<threads, timer, link, toScan, known, stored, jobs, inJob, history>>

ServeRequest ==
    /\ link = "up" /\ requests # <<>>
    /\ LET r == Head(requests)
       IN  \E ok \in IF Allowed(r.type) THEN Granted(r) ELSE {FALSE} :
             /\ session' = CASE ok /\ r.type = "AUTH" -> "auth"
                             [] ok /\ r.type = "LIST" -> "synced"
                             [] OTHER                 -> session
             /\ stored' = IF ok /\ r.type = "ERASE" THEN stored \ {r.arg} ELSE stored
             /\ replies' = Append(replies, [type |-> r.type, ok |-> ok,
                               list |-> IF ok /\ r.type = "LIST" THEN stored ELSE {}])
    /\ requests' = Tail(requests)
    /\ srv' = TIMEOUT
    /\ UNCHANGED <<threads, timer, link, toScan, known, jobs, inJob, history>>

LinkGoes ==
    /\ link' = "down"
    /\ requests' = <<>> /\ replies' = <<>>
    /\ UNCHANGED <<threads, timer, session, srv, files>>

TimesOut ==
    /\ link = "up" /\ srv = 0 /\ requests = <<>>
    /\ LinkGoes
    /\ cut' = TRUE
    /\ UNCHANGED <<scanFor, drops, failed, missed>>

\* The link is lost, with what is on its way.
Drop ==
    /\ link = "up" /\ drops < MaxDrops
    /\ LinkGoes
    /\ drops' = drops + 1
    /\ UNCHANGED <<scanFor, cut, failed, missed>>

(***************************************************************************)
(* One exchange: sync_post, or a message of async_post.                    *)
(***************************************************************************)

Using(t) == at[t] \in Exchanges \cup {"connect"}

\* Both threads are in operations of one ssl::stream, which is not made for it.
Overlap == \A t \in Thread : Using(t)

Request(t) ==
    CASE at[t] = "login"               -> [type |-> "AUTH", arg |-> "typed"]
      [] at[t] = "auth"                -> [type |-> "AUTH", arg |-> "known"]
      [] at[t] \in {"list", "restore"} -> [type |-> "LIST", arg |-> "none"]
      [] at[t] = "retrieve"            -> [type |-> "RETRIEVE", arg |-> "none"]
      [] at[t] = "keepalive"           -> [type |-> "KEEP_ALIVE", arg |-> "none"]
      [] at[t] = "job"                 -> [type |-> "ERASE", arg |-> Head(jobs)]

\* write() sets the keep-alive timer, which read() stops at once.  On a link that
\* is down it may still succeed, into the buffers of the system.
Write(t) ==
    /\ at[t] \in Exchanges /\ t \notin waits
    /\ requests' = IF link = "up" THEN Append(requests, Request(t)) ELSE requests
    /\ waits' = waits \cup {t}
    /\ ka' = Off
    /\ UNCHANGED <<restore, at, left, authed, fired, link, session, srv, replies, files,
                   history>>

\* With two threads reading, either gets the reply.
CanRead(t) == t \in waits /\ replies # <<>>

\* auth() looks only for an OK in front, which the replies to KEEP_ALIVE and to the
\* LIST of no file have too.
Fits(t, reply) ==
    /\ reply.ok
    /\ \/ reply.type = Request(t).type
       \/ /\ Request(t).type = "AUTH"
          /\ reply.type = "KEEP_ALIVE" \/ (reply.type = "LIST" /\ reply.list = {})

ArmsNot(t) == Off

\* The timer after a read that succeeds; login() stops it when it asks again.
Arms(t) ==
    IF at[t] = "login" /\ ~Fits(t, Head(replies)) THEN Off ELSE KEEPALIVE_INT_S

DeniedForEver(t) ==
    /\ left' = [left EXCEPT ![t] = IF at[t] = "login" THEN @ - 1 ELSE MaxAttempts]
    /\ Goes(t, "prompt")

\* auth() is false: login() asks again, up to the last attempt; reconnect(), which
\* tries the known credentials, goes on to login().
Denied(t) ==
    IF at[t] = "login" /\ left[t] = 1
    THEN Exits /\ UNCHANGED left
    ELSE /\ left' = [left EXCEPT ![t] = IF at[t] = "login" THEN @ - 1 ELSE MaxAttempts]
         /\ Goes(t, "prompt")

\* What follows an exchange that failed, or whose reply is an error: "Failed to
\* sync server state" and exit, the next file to restore, the job's handler.
Unanswered(t) ==
    /\ CASE at[t] \in {"login", "auth"}   -> Denied(t)
         [] at[t] \in {"list", "restore"} -> Exits /\ UNCHANGED left
         [] at[t] = "retrieve"            -> Goes(t, "hash") /\ UNCHANGED left
         [] at[t] = "keepalive"           -> Goes(t, "idle") /\ UNCHANGED left
         [] at[t] = "job"                 -> Goes(t, "refused") /\ UNCHANGED left
    /\ missed' = (missed \/ at[t] = "retrieve")

\* The link is down, and the error says so (boost::indeterminate): auth() and
\* restore() give up, the others reconnect.
Lost(t) ==
    /\ at[t] \in Exchanges
    /\ link = "down"
    /\ ka' = Off
    /\ IF at[t] \in {"login", "auth", "restore"} THEN Exits
       ELSE Goes(t, IF at[t] = "retrieve" THEN "hash" ELSE "connect")
    /\ missed' = (missed \/ at[t] = "retrieve")
    /\ UNCHANGED <<restore, left, authed, fired, wire, files, scanFor, drops, cut, failed>>

\* It is another error, or one that two threads in the stream have caused.  The
\* timer stays stopped.
Fails(t) ==
    /\ at[t] \in Exchanges
    /\ link = "down" \/ Overlap
    /\ ka' = Off
    /\ Unanswered(t)
    /\ failed' = TRUE
    /\ UNCHANGED <<restore, authed, fired, wire, files, scanFor, drops, cut>>

Refused(t) ==
    /\ CanRead(t) /\ ~Fits(t, Head(replies))
    /\ replies' = Tail(replies)
    /\ ka' = Arms(t)
    /\ Unanswered(t)
    /\ UNCHANGED <<restore, authed, fired, link, session, srv, requests, files,
                   scanFor, drops, cut, failed>>

AfterLogin == IF authed THEN "list" ELSE IF restore THEN "restore" ELSE "scan"

\* Every reply that fits, but that of a LIST of sync().
Answered(t) ==
    /\ CanRead(t) /\ Fits(t, Head(replies)) /\ at[t] # "list"
    /\ replies' = Tail(replies)
    /\ ka' = Arms(t)
    /\ authed' = (authed \/ at[t] = "login")
    /\ Goes(t, CASE at[t] \in {"login", "auth"}       -> AfterLogin
                 [] at[t] \in {"restore", "retrieve"} -> "hash"
                 [] at[t] = "keepalive"               -> "idle"
                 [] at[t] = "job"                     -> "granted")
    /\ UNCHANGED <<restore, left, fired, link, session, srv, requests, files, history>>

(***************************************************************************)
(* login(), the scan, reconnect() and sync().                              *)
(***************************************************************************)

\* A name and a password that match their patterns, or three that do not.
Enter(t) ==
    /\ at[t] = "prompt"
    /\ Goes(t, "login") \/ Exits
    /\ UNCHANGED <<restore, left, authed, timer, wire, files, history>>

ScanFile(f) ==
    /\ at["main"] = "scan" /\ f \in toScan
    /\ toScan' = toScan \ {f}
    /\ known' = known \cup {f}
    /\ UNCHANGED <<threads, timer, wire, stored, jobs, inJob, history>>

ScanEndsEarly ==
    /\ at["main"] = "scan"
    /\ Goes("main", "list")
    /\ UNCHANGED <<restore, left, authed, timer, wire, files, history>>

ScanEnds ==
    /\ at["main"] = "scan" /\ toScan = {}
    /\ Goes("main", "list")
    /\ UNCHANGED <<restore, left, authed, timer, wire, files, history>>

\* connect() comes back when there is a server; the old connection is gone with
\* what was on it.
Connect(t) ==
    /\ at[t] = "connect"
    /\ link' = "up" /\ session' = "new" /\ srv' = TIMEOUT
    /\ requests' = <<>> /\ replies' = <<>>
    /\ Goes(t, "auth")
    /\ UNCHANGED <<restore, left, authed, timer, files, history>>

\* The handshake fails.
ConnectFails(t) ==
    /\ at[t] = "connect"
    /\ Exits
    /\ UNCHANGED <<restore, left, authed, timer, wire, files, history>>

\* sync() posts an ERASE of every listed file that has no entry, and the pool makes
\* it one.
Sync(t) ==
    /\ CanRead(t) /\ Fits(t, Head(replies)) /\ at[t] = "list"
    /\ replies' = Tail(replies)
    /\ ka' = Arms(t)
    /\ jobs' = jobs \o SetToSeq(Head(replies).list \ known)
    /\ known' = known \cup Head(replies).list
    /\ Goes(t, IF t = "main" THEN "watch" ELSE IF inJob THEN "refused" ELSE "idle")
    /\ UNCHANGED <<restore, left, authed, fired, link, session, srv, requests,
                   toScan, stored, inJob, history>>

(***************************************************************************)
(* The strand.                                                             *)
(***************************************************************************)

FireEarly ==
    /\ Pool /\ ~Exited /\ ka # Off
    /\ ka' = Off
    /\ fired' = IF fired < MaxFired THEN fired + 1 ELSE fired
    /\ UNCHANGED <<threads, wire, files, history>>

\* The timer's handler is queued on the strand, from where nothing removes it.
Fire ==
    /\ Pool /\ ~Exited /\ ka = 0
    /\ ka' = Off
    /\ fired' = IF fired < MaxFired THEN fired + 1 ELSE fired
    /\ UNCHANGED <<threads, wire, files, history>>

SendKeepAlive ==
    /\ at["strand"] = "idle" /\ fired > 0
    /\ fired' = fired - 1
    /\ Goes("strand", "keepalive")
    /\ UNCHANGED <<restore, left, authed, ka, wire, files, history>>

StartJob ==
    /\ at["strand"] = "idle" /\ jobs # <<>>
    /\ inJob' = TRUE
    /\ Goes("strand", "job")
    /\ UNCHANGED <<restore, left, authed, timer, wire, toScan, known, stored, jobs, history>>

\* scheduler::handle_erase.
Handle ==
    LET f == Head(jobs)
    IN  /\ at["strand"] \in {"granted", "refused"}
        /\ IF f \in known THEN Goes("strand", "idle") ELSE Exits
        /\ known' = IF at["strand"] = "granted" THEN known \ {f} ELSE known
        /\ jobs' = Tail(jobs)
        /\ inJob' = FALSE
        /\ UNCHANGED <<restore, left, authed, timer, wire, toScan, stored, history>>

(***************************************************************************)
(* scheduler::restore: a local file is hashed, then left alone or fetched. *)
(***************************************************************************)

Restore ==
    /\ at["main"] = "hash"
    /\ Goes("main", "retrieve") \/ Goes("main", "done")
    /\ UNCHANGED <<restore, left, authed, timer, wire, files, history>>

(***************************************************************************)
(* Time, which passes only while nobody has anything to do at once.        *)
(***************************************************************************)

Patient == {"prompt", "scan", "watch", "hash", "done", "idle"}

\* connect() waits for as long as there is no server to connect to, and a read
\* whose request went down with another connection for its reply.
Waits(t) ==
    \/ at[t] \in Patient
    \/ at[t] = "connect" /\ link = "down"
    \/ t \in waits /\ link = "up" /\ requests = <<>> /\ replies = <<>>

Tick ==
    /\ \A t \in Thread : Waits(t)
    /\ link = "up" => srv > 0
    /\ at["strand"] = "idle" => jobs = <<>> /\ fired = 0 /\ ~(Pool /\ ka = 0)
    /\ ka' = IF ka > 0 THEN ka - 1 ELSE ka
    /\ srv' = IF link = "up" THEN srv - 1 ELSE srv
    /\ scanFor' = IF at["main"] = "scan" /\ scanFor < KEEPALIVE_INT_S
                  THEN scanFor + 1 ELSE scanFor
    /\ UNCHANGED <<threads, fired, link, session, requests, replies, files,
                   drops, cut, failed, missed>>

(***************************************************************************)
(* The specification.                                                      *)
(***************************************************************************)

Exchange(t) == Write(t) \/ Lost(t) \/ Fails(t) \/ Refused(t) \/ Answered(t) \/ Sync(t)

Strand == SendKeepAlive \/ StartJob \/ Handle

Next ==
    \/ ServeRequest \/ TimesOut \/ Drop
    \/ \E t \in Thread : Exchange(t) \/ Enter(t) \/ Connect(t) \/ ConnectFails(t)
    \/ \E f \in Files : ScanFile(f)
    \/ ScanEnds \/ Restore
    \/ Fire \/ Strand
    \/ Tick

Spec == Init /\ [][Next]_vars

\* Time passes, threads and server go on, scans end; nobody need ever type, and
\* nothing says how a lost link is reported.
FairSpec ==
    /\ Spec
    /\ WF_vars(ServeRequest) /\ WF_vars(TimesOut) /\ WF_vars(Tick)
    /\ WF_vars(Fire) /\ WF_vars(Strand) /\ WF_vars(ScanEnds)
    /\ \A t \in Thread : WF_vars(Exchange(t)) /\ WF_vars(Connect(t))
    /\ \A f \in Files : WF_vars(ScanFile(f))
-----------------------------------------------------------------------------
(***************************************************************************)
(* Properties.                                                             *)
(***************************************************************************)

SlowScan == scanFor = KEEPALIVE_INT_S

\* What can mix up the two threads' replies.
Crossed == SlowScan /\ drops > 0

\* The server never times out a client that backs up, however long it scans,
\* reconnects or has nothing to do: a KEEP_ALIVE comes before.  Only an exchange
\* that failed in another way than by a lost link leaves the timer unset, and two
\* threads that reconnect at a time can wait for a reply only one of them gets.
\* (connection::schedule_keepalive, write, read; KEEPALIVE_INT_S and TIMEOUT)
KeptAlive ==
    Pool /\ link = "up" /\ srv = 0 => failed \/ Crossed

\* The socket is used by one thread at a time, unless the scan takes as long as
\* the keep-alive interval: no lock says so, only the order in which the threads
\* come to have something to send.
\* (main.cpp, scheduler::sync, connection::schedule_keepalive)
OneUser == Overlap => SlowScan

\* A file that is in the watched directory is erased from the backup only when
\* the scan is slow AND the link is lost in it: a KEEP_ALIVE then reconnects, and
\* its SYNC takes the files that are not scanned yet for deleted ones.
\* (scheduler::reconnect, sync, file_watcher's constructor)
ErasedForCause == stored # Files => Crossed

\* A client that has logged in gives up, or leaves a file out of a restore, only
\* after a lost link, a server that timed it out or a slow scan.
\* (scheduler::sync, retrieve, the gate of handle_request)
GivesUpForCause == (Exited /\ authed) \/ missed => drops > 0 \/ cut \/ SlowScan

\* The start ends, whatever the strand does beside it: the client watches the
\* directory, exits or asks for the password again.  Where the threads have used
\* the socket at once, the strand can get the main thread's reply, and keep up the
\* session in which the main thread waits for ever.  (scheduler::sync, reconnect)
Starts == at["main"] = "scan" ~> at["main"] \in {"watch", "exited", "prompt"} \/ Crossed

\* A client that backs up notices that the link is down, however idle it is, and
\* connects again or exits.  An exchange that failed in another way (failed) leaves
\* the timer unset, or the strand at the prompt of a login.
\* (connection::schedule_keepalive, scheduler::reconnect)
Notices == Pool /\ link = "down" ~> link = "up" \/ Exited \/ failed \/ Crossed
=============================================================================
