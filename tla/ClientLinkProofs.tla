-------------------------- MODULE ClientLinkProofs --------------------------
(***************************************************************************)
(* Theorems about the client's connection in time, for any files and any   *)
(* intervals: the socket has one user, the server is kept from timing the  *)
(* client out, and what is erased or given up has a cause.                 *)
(*                                                                         *)
(* The argument has two regimes, between which a slow scan makes the       *)
(* passage.  Before it (Alone) the main thread is the only user of the     *)
(* socket until it watches, and the strand is from then on.  After it, for *)
(* as long as no link is lost and no exchange fails (Shared), the strand   *)
(* only sends KEEP_ALIVEs beside the main thread.                          *)
(***************************************************************************)
EXTENDS ClientLink, SequenceTheorems, FiniteSetTheorems, TLAPS

FiniteFiles == IsFiniteSet(Files)

MainPhases == {"prompt", "login", "auth", "list", "restore", "retrieve", "connect",
               "scan", "watch", "hash", "done", "exited"}

StrandPhases == {"idle", "keepalive", "job", "granted", "refused", "connect", "auth",
                 "list", "prompt", "login", "exited"}

InHandler == {"job", "granted", "refused"}

\* Where the threads can be, and what they hold there.  Until the pool is there the
\* strand has nothing.
Phased ==
    /\ at["main"] \in MainPhases /\ at["strand"] \in StrandPhases
    /\ Exited <=> at["strand"] = "exited"
    /\ \A t \in waits : at[t] \in Exchanges
    /\ \A t \in Thread : left[t] # 0
    /\ link = "down" => requests = <<>> /\ replies = <<>>
    /\ at["strand"] \in InHandler => inJob
    /\ inJob => jobs # <<>>
    /\ at["main"] \in {"restore", "retrieve", "hash", "done"} => restore /\ authed
    /\ at["main"] \in {"scan", "list", "auth", "connect", "watch"} => Pool
    /\ at["main"] \in {"prompt", "login"} => ~restore \/ ~authed
    /\ ~Pool /\ ~Exited => at["strand"] = "idle" /\ fired = 0 /\ jobs = <<>>

Waiting == (IF "main" \in waits THEN 1 ELSE 0) + (IF "strand" \in waits THEN 1 ELSE 0)

\* The regime after a slow scan in which the two threads share the socket.
Shared == SlowScan /\ drops = 0 /\ ~failed

\* The main thread has scanned, and not yet synchronised.
Before == at["main"] \notin {"watch", "exited"}

\* The strand has nothing to send before the main thread watches: the timer is
\* stopped, or it was set when the scan began.
MainFirst ==
    /\ Before => at["strand"] = "idle" /\ fired = 0 /\ jobs = <<>>
    /\ Before /\ Pool =>
         /\ ka # 0
         /\ at["main"] = "scan" => ka = KEEPALIVE_INT_S - scanFor
         /\ at["main"] \in {"prompt", "login", "connect", "auth"} => ka = Off
         /\ "main" \in waits => ka = Off
    /\ ~authed => scanFor = 0

\* What is on its way is what thread t has asked for, and the credentials of a
\* reconnection find a new session.
Matched(t) ==
    /\ at[t] = "connect" => link = "down" /\ ka = Off
    /\ t \in waits /\ link = "up" =>
         /\ \A i \in DOMAIN requests : requests[i] = Request(t)
         /\ \A i \in DOMAIN replies :
              replies[i].type = Request(t).type /\ (at[t] = "auth" => replies[i].ok)
    /\ at[t] = "auth" /\ link = "up" => session = "new" \/ replies # <<>>

Alone == ~SlowScan => MainFirst /\ \A t \in Thread : Matched(t)

\* Every request on its way, and every reply, is one that a thread waits for, and
\* a reply is read at once.
Counted ==
    (~SlowScan \/ Shared) /\ ~Exited /\ link = "up" =>
      /\ Len(requests) + Len(replies) = Waiting
      /\ replies # <<>> => srv = TIMEOUT

\* After a slow scan, nothing but KEEP_ALIVE goes beside the main thread.
Beside ==
    Shared => /\ link = "up" /\ Pool
              /\ at["main"] \in {"scan", "list", "watch", "exited"}
              /\ at["strand"] \in {"idle", "keepalive", "exited"}

\* Somebody is about to send, or waits for a reply that is on its way.
Busy ==
    \/ \E t \in Thread : at[t] \in Exchanges
    \/ at["strand"] = "idle" /\ fired > 0

\* The keep-alive timer goes off before the server's does; where it is stopped,
\* time does not pass.
Alive ==
    /\ ~failed /\ ~Crossed /\ Pool => \A t \in Thread : at[t] \notin {"prompt", "login"}
    /\ ~failed /\ ~Crossed /\ Pool /\ link = "up" =>
         /\ srv > 0
         /\ ka # Off => srv >= ka + (TIMEOUT - KEEPALIVE_INT_S)
         /\ ka = Off /\ ~Exited => Busy

\* What the client knows covers what the server holds, once the scan has ended.
Whole ==
    ~Crossed =>
      /\ stored = Files /\ known \cup toScan = Files
      /\ jobs = <<>> /\ ~inJob
      /\ \A i \in DOMAIN requests : requests[i].type # "ERASE"
      /\ Pool /\ at["main"] \notin {"scan", "exited"} => toScan = {}
      /\ at["main"] = "scan" => /\ ~failed /\ (drops = 0 => link = "up")
                                /\ at["strand"] \in {"idle", "keepalive"}
      /\ ~authed /\ failed => link = "down"

\* No link was lost, nobody timed out, and the scan was not slow.
Sound == drops = 0 /\ ~cut /\ ~SlowScan

\* Then nothing fails, and nobody gives up who has logged in.
Unharmed ==
    /\ link = "up" /\ ~failed /\ ~missed
    /\ authed => at["main"] \notin {"prompt", "login", "exited"}
    /\ \A t \in Thread : at[t] \notin {"connect", "auth"}
    /\ at["strand"] # "list"

\* And the server's session is where the main thread takes it to be.
InSession ==
    /\ at["main"] \in {"prompt", "login"} /\ replies = <<>> => session = "new"
    /\ at["main"] = "login" =>
         \A i \in DOMAIN replies : session = IF replies[i].ok THEN "auth" ELSE "new"
    /\ at["main"] = "scan" => session = "auth"
    /\ at["main"] \in {"list", "restore"} =>
         session = IF replies = <<>> THEN "auth" ELSE "synced"
    /\ at["main"] \in {"hash", "retrieve", "watch"} => session = "synced"
    /\ at["main"] \in {"list", "restore", "retrieve"} =>
         \A i \in DOMAIN replies : replies[i].ok

Blameless == Sound => Unharmed /\ InSession

IInv == TypeOK /\ Phased /\ Alone /\ Counted /\ Beside /\ Alive /\ Whole /\ Blameless

(***************************************************************************)
(* What the steps of a thread have in common.                              *)
(***************************************************************************)

LEMMA ThreadsAre == \A t \in Thread : t = "main" \/ t = "strand"
  BY DEF Thread

LEMMA GoesTo ==
    ASSUME TypeOK, NEW t \in Thread, NEW phase \in Phases, Goes(t, phase)
    PROVE  /\ at' \in [Thread -> Phases] /\ at'[t] = phase
           /\ \A u \in Thread : u # t => at'[u] = at[u]
           /\ waits' = waits \ {t} /\ waits' \subseteq Thread
  BY DEF TypeOK, Goes

LEMMA ExitsTo ==
    ASSUME Exits
    PROVE  /\ at' \in [Thread -> Phases]
           /\ \A u \in Thread : at'[u] = "exited"
           /\ waits' = {} /\ waits' \subseteq Thread
  BY DEF Exits, Phases

LEMMA HeadAndTail ==
    ASSUME NEW S, NEW s \in Seq(S), s # <<>>
    PROVE  /\ Head(s) \in S /\ Head(s) = s[1] /\ 1 \in DOMAIN s
           /\ Tail(s) \in Seq(S) /\ Len(Tail(s)) = Len(s) - 1
           /\ \A i \in DOMAIN Tail(s) : i + 1 \in DOMAIN s /\ Tail(s)[i] = s[i + 1]
  BY HeadTailProperties, LenProperties

LEMMA Appended ==
    ASSUME NEW S, NEW s \in Seq(S), NEW e \in S
    PROVE  /\ Append(s, e) \in Seq(S) /\ Append(s, e) # <<>> /\ Len(Append(s, e)) = Len(s) + 1
           /\ \A i \in DOMAIN Append(s, e) :
                \/ i \in DOMAIN s /\ Append(s, e)[i] = s[i]
                \/ Append(s, e)[i] = e
  BY AppendProperties, LenProperties

\* The files that SetToSeq puts in a sequence.
LEMMA SetToSeqIsOfSet ==
    ASSUME NEW S, IsFiniteSet(S)
    PROVE  SetToSeq(S) \in Seq(S) /\ (S = {} => SetToSeq(S) = <<>>)
  <1> DEFINE n == Cardinality(S)
             f == SetToSeq(S)
  <1>1. n \in Nat /\ ExistsBijection(1..n, S)
    BY FS_CardinalityType
  <1>2. \E g \in [1..n -> S] : IsInjective(g)
    BY <1>1 DEF ExistsBijection, Bijection, Injection, IsInjective
  <1>3. f \in [1..n -> S] /\ IsInjective(f)
    BY <1>2 DEF SetToSeq
  <1>4. f \in Seq(S)
    BY <1>1, <1>3, SeqDef
  <1>5. ASSUME S = {} PROVE f = <<>>
    <2>1. f \in Seq({})
      BY <1>4, <1>5
    <2> HIDE DEF f
    <2> QED BY <2>1, ElementOfSeq, EmptySeq, LenProperties
  <1> QED BY <1>4, <1>5

(***************************************************************************)
(* Types, and where the threads can be.                                    *)
(***************************************************************************)

Typed == TypeOK /\ Phased

LEMMA TypedInit == Init => Typed
  <1> SUFFICES ASSUME Init PROVE Typed
    OBVIOUS
  <1>1. at["main"] = "prompt" /\ at["strand"] = "idle" /\ at \in [Thread -> Phases]
    BY DEF Init, Thread, Phases
  <1>2. left \in [Thread -> 0..MaxAttempts] /\ \A t \in Thread : left[t] # 0
    BY LinkAssumption DEF Init
  <1>3. TypeOK
    <2>1. requests \in Seq(Message) /\ replies \in Seq(Reply) /\ jobs \in Seq(Files)
      BY DEF Init
    <2>2. /\ ka \in {Off} \cup 0..KEEPALIVE_INT_S /\ fired \in 0..MaxFired
          /\ srv \in 0..TIMEOUT /\ scanFor \in 0..KEEPALIVE_INT_S /\ drops \in 0..MaxDrops
      BY LinkAssumption DEF Init, Off
    <2>3. /\ authed \in BOOLEAN /\ inJob \in BOOLEAN /\ restore \in BOOLEAN
          /\ cut \in BOOLEAN /\ failed \in BOOLEAN /\ missed \in BOOLEAN
      BY DEF Init
    <2> QED BY <1>1, <1>2, <2>1, <2>2, <2>3 DEF Init, TypeOK
  <1>4. Phased
    BY <1>1, <1>2 DEF Init, Phased, MainPhases, StrandPhases, Exited, InHandler, Pool
  <1> QED BY <1>3, <1>4 DEF Typed

\* A request a thread makes.
LEMMA RequestIs ==
    ASSUME Typed, NEW t \in Thread, at[t] \in Exchanges
    PROVE  Request(t) \in Message /\ (Request(t).type = "ERASE" <=> at[t] = "job")
  <1>1. at[t] = "job" => Head(jobs) \in Files
    BY ThreadsAre, HeadAndTail DEF Typed, TypeOK, Phased, MainPhases, InHandler
  <1> QED BY <1>1 DEF Request, Exchanges, Message, Types

\* A step in which only one thread moves, by its goto or by the exit of both.
Step(t) ==
    \/ \E phase \in Phases : Goes(t, phase)
    \/ Exits

LEMMA TypedThread ==
    ASSUME TypeOK, NEW t \in Thread, Step(t)
    PROVE  at' \in [Thread -> Phases] /\ waits' \subseteq Thread
  BY GoesTo, ExitsTo DEF Step

LEMMA TypedServe == Typed /\ ServeRequest => Typed'
  <1> SUFFICES ASSUME Typed, ServeRequest PROVE Typed'
    OBVIOUS
  <1> DEFINE r == Head(requests)
  <1>1. requests # <<>> /\ link = "up" /\ requests \in Seq(Message) /\ replies \in Seq(Reply)
    BY DEF ServeRequest, Typed, TypeOK
  <1>2. r \in Message /\ requests' \in Seq(Message)
    BY <1>1, HeadAndTail DEF ServeRequest
  <1>3. r.type \in Types
    BY <1>2 DEF Message
  <1>4. PICK ok \in IF Allowed(r.type) THEN Granted(r) ELSE {FALSE} :
             /\ session' = CASE ok /\ r.type = "AUTH" -> "auth"
                             [] ok /\ r.type = "LIST" -> "synced"
                             [] OTHER                 -> session
             /\ stored' = IF ok /\ r.type = "ERASE" THEN stored \ {r.arg} ELSE stored
             /\ replies' = Append(replies, [type |-> r.type, ok |-> ok,
                               list |-> IF ok /\ r.type = "LIST" THEN stored ELSE {}])
    BY DEF ServeRequest
  <1>5. ok \in BOOLEAN
    <2>1. {r.arg \in stored} \subseteq BOOLEAN /\ {TRUE} \subseteq BOOLEAN
      OBVIOUS
    <2>2. Granted(r) \subseteq BOOLEAN
      BY <2>1, Zenon DEF Granted
    <2> QED BY <1>4, <2>2
  <1>6. stored' \subseteq Files /\ session' \in {"new", "auth", "synced"}
    BY <1>4 DEF Typed, TypeOK
  <1>7. [type |-> r.type, ok |-> ok, list |-> IF ok /\ r.type = "LIST" THEN stored ELSE {}] \in Reply
    BY <1>3, <1>5 DEF Reply, Typed, TypeOK
  <1>8. replies' \in Seq(Reply)
    BY <1>1, <1>4, <1>7, Appended
  <1> USE DEF ServeRequest, threads, timer, history
  <1>9. TypeOK'
    BY <1>2, <1>6, <1>8, LinkAssumption DEF Typed, TypeOK
  <1>10. Phased'
    BY <1>1 DEF Typed, Phased, Exited, Pool
  <1> QED BY <1>9, <1>10 DEF Typed

LEMMA TypedLink == Typed /\ (TimesOut \/ Drop) => Typed'
  <1> SUFFICES ASSUME Typed, TimesOut \/ Drop PROVE Typed'
    OBVIOUS
  <1>1. LinkGoes /\ scanFor' = scanFor /\ failed' = failed /\ missed' = missed
    BY DEF TimesOut, Drop
  <1>2. link' = "down" /\ requests' = <<>> /\ replies' = <<>>
    BY <1>1 DEF LinkGoes
  <1>3. requests' \in Seq(Message) /\ replies' \in Seq(Reply)
    BY <1>2
  <1>4. drops' \in 0..MaxDrops
    BY LinkAssumption DEF Typed, TypeOK, TimesOut, Drop
  <1>5. cut' \in BOOLEAN
    <2>1. CASE TimesOut
      BY <2>1 DEF TimesOut
    <2>2. CASE Drop
      BY <2>2 DEF Typed, TypeOK, Drop
    <2> QED BY <2>1, <2>2
  <1>6. TypeOK'
    BY <1>1, <1>2, <1>3, <1>4, <1>5 DEF Typed, TypeOK, LinkGoes, threads, timer, files
  <1>7. Phased'
    BY <1>1, <1>2 DEF Typed, Phased, Exited, Pool, LinkGoes, threads, timer, files
  <1> QED BY <1>6, <1>7 DEF Typed

LEMMA TypedWrite == \A t \in Thread : Typed /\ Write(t) => Typed'
  <1> SUFFICES ASSUME NEW t \in Thread, Typed, Write(t) PROVE Typed'
    OBVIOUS
  <1>1. requests' \in Seq(Message) /\ (link = "down" => requests' = <<>>)
    BY RequestIs, Appended DEF Write, Typed, TypeOK, Phased
  <1> USE DEF Write, files, history
  <1>2. TypeOK'
    BY <1>1, LinkAssumption DEF Typed, TypeOK
  <1>3. Phased'
    BY <1>1 DEF Typed, Phased, Exited, Pool
  <1> QED BY <1>2, <1>3 DEF Typed

\* What becomes of an exchange without an answer, or with an error for one.
LEMMA UnansweredTo ==
    ASSUME Typed, NEW t \in Thread, at[t] \in Exchanges, Unanswered(t)
    PROVE  /\ left' \in [Thread -> 0..MaxAttempts] /\ \A u \in Thread : left'[u] # 0
           /\ missed' = (missed \/ at[t] = "retrieve")
           /\ \/ Exits /\ at[t] \in {"login", "list", "restore"}
              \/ Goes(t, "prompt") /\ at[t] \in {"login", "auth"}
              \/ Goes(t, "hash") /\ at[t] = "retrieve"
              \/ Goes(t, "idle") /\ at[t] = "keepalive"
              \/ Goes(t, "refused") /\ at[t] = "job"
  <1>1. left \in [Thread -> 0..MaxAttempts] /\ \A u \in Thread : left[u] # 0
    BY DEF Typed, TypeOK, Phased
  <1>2. ASSUME at[t] \in {"login", "auth"}, Denied(t)
        PROVE  /\ left' \in [Thread -> 0..MaxAttempts] /\ \A u \in Thread : left'[u] # 0
               /\ \/ Exits /\ at[t] = "login"
                  \/ Goes(t, "prompt")
    <2>1. CASE at[t] = "login" /\ left[t] = 1
      BY <1>1, <1>2, <2>1 DEF Denied
    <2>2. CASE ~(at[t] = "login" /\ left[t] = 1)
      <3>1. left' = [left EXCEPT ![t] = IF at[t] = "login" THEN @ - 1 ELSE MaxAttempts]
            /\ Goes(t, "prompt")
        BY <1>2, <2>2 DEF Denied
      <3>2. left' \in [Thread -> 0..MaxAttempts] /\ \A u \in Thread : left'[u] # 0
        BY <1>1, <2>2, <3>1, LinkAssumption
      <3> QED BY <3>1, <3>2
    <2> QED BY <2>1, <2>2
  <1> QED BY <1>1, <1>2 DEF Unanswered, Exchanges

\* The exits that leave Phased as it is.
LEMMA PhasedExit ==
    ASSUME Typed, Exits, left' \in [Thread -> 0..MaxAttempts], \A u \in Thread : left'[u] # 0,
           link' = "down" => requests' = <<>> /\ replies' = <<>>,
           inJob' => jobs' # <<>>
    PROVE  Phased'
  <1>1. at'["main"] = "exited" /\ at'["strand"] = "exited" /\ waits' = {}
    BY ExitsTo DEF Thread
  <1> QED BY <1>1 DEF Phased, MainPhases, StrandPhases, InHandler, Exited

\* The replies on their way when one is read.
LEMMA Reading ==
    ASSUME Typed, replies # <<>>
    PROVE  /\ Head(replies) \in Reply /\ Head(replies) = replies[1] /\ 1 \in DOMAIN replies
           /\ Tail(replies) \in Seq(Reply) /\ link = "up"
           /\ Len(Tail(replies)) = Len(replies) - 1
           /\ \A i \in DOMAIN Tail(replies) : /\ i + 1 \in DOMAIN replies
                                              /\ Tail(replies)[i] = replies[i + 1]
  BY HeadAndTail DEF Typed, TypeOK, Phased

\* Where thread t may go, when it does not exit.
Fit(t, phase) ==
    /\ t = "main" =>
         /\ phase \in MainPhases \ {"exited"}
         /\ phase \in {"restore", "retrieve", "hash", "done"} => restore /\ authed'
         /\ phase \in {"scan", "list", "auth", "connect", "watch"} => ~restore /\ authed'
         /\ phase \in {"prompt", "login"} => ~restore \/ ~authed'
    /\ t = "strand" => /\ phase \in StrandPhases \ {"exited"}
                       /\ phase \in InHandler => inJob'

\* And that a move to there leaves Phased as it is.
LEMMA PhasedMove ==
    ASSUME Typed, NEW t \in Thread, NEW phase \in Phases, Goes(t, phase), Fit(t, phase),
           at[t] # "exited", t = "strand" => Pool,
           restore' = restore, authed' \in BOOLEAN, authed => authed',
           left' \in [Thread -> 0..MaxAttempts], \A u \in Thread : left'[u] # 0,
           link' = "down" => requests' = <<>> /\ replies' = <<>>,
           t = "main" => (inJob => inJob'), inJob' => jobs' # <<>>,
           ~Pool' => fired' = fired /\ jobs' = jobs
    PROVE  Phased'
  <1>1. /\ at'[t] = phase /\ \A u \in Thread : u # t => at'[u] = at[u]
        /\ waits' = waits \ {t}
    BY GoesTo DEF Typed
  <1>2. "main" \in Thread /\ "strand" \in Thread /\ (t = "main" \/ t = "strand")
    BY DEF Thread
  <1>3. /\ at["main"] # "exited" /\ at["strand"] # "exited"
        /\ at'["main"] # "exited" /\ at'["strand"] # "exited"
    BY <1>1, <1>2 DEF Typed, Phased, Fit, Exited
  <1>4. Pool => Pool'
    BY DEF Pool
  <1>5. at'["main"] \in MainPhases /\ at'["strand"] \in StrandPhases
    BY <1>1, <1>2 DEF Typed, Phased, Fit
  <1>6. \A u \in waits' : at'[u] \in Exchanges
    BY <1>1 DEF Typed, TypeOK, Phased
  <1>7. at'["strand"] \in InHandler => inJob'
    BY <1>1, <1>2 DEF Typed, Phased, Fit
  <1>8. /\ at'["main"] \in {"restore", "retrieve", "hash", "done"} => restore /\ authed'
        /\ at'["main"] \in {"scan", "list", "auth", "connect", "watch"} => ~restore /\ authed'
    BY <1>1, <1>2 DEF Typed, Phased, Fit, Pool
  <1>9. at'["main"] \in {"prompt", "login"} => ~restore \/ ~authed'
    BY <1>1, <1>2 DEF Typed, Phased, Fit, Pool
  <1>10. ~Pool' => at'["strand"] = "idle" /\ fired' = 0 /\ jobs' = <<>>
    BY <1>1, <1>2, <1>3, <1>4 DEF Typed, Phased, Exited
  <1> QED BY <1>3, <1>5, <1>6, <1>7, <1>8, <1>9, <1>10 DEF Phased, Exited, Pool

\* The strand is not idle before the pool is there.
LEMMA StrandInPool ==
    ASSUME Typed, at["strand"] \notin {"idle", "exited"}
    PROVE  Pool
  BY DEF Typed, Phased, Exited

\* The steps of a thread in an exchange, one by one: where it goes, and what else
\* changes.
LEMMA LostTo ==
    ASSUME Typed, NEW t \in Thread, Lost(t)
    PROVE  /\ at[t] \in Exchanges /\ link = "down" /\ ka' = Off
           /\ \/ Exits /\ at[t] \in {"login", "auth", "restore"}
              \/ Goes(t, "hash") /\ at[t] = "retrieve"
              \/ Goes(t, "connect") /\ at[t] \in {"list", "keepalive", "job"}
           /\ missed' = (missed \/ at[t] = "retrieve")
           /\ UNCHANGED <<restore, left, authed, fired, link, session, srv, requests, replies,
                          toScan, known, stored, jobs, inJob, scanFor, drops, cut, failed>>
  BY DEF Lost, wire, files, Exchanges

LEMMA FailsTo ==
    ASSUME Typed, NEW t \in Thread, Fails(t)
    PROVE  /\ at[t] \in Exchanges /\ (link = "down" \/ Overlap) /\ ka' = Off
           /\ left' \in [Thread -> 0..MaxAttempts] /\ \A u \in Thread : left'[u] # 0
           /\ \/ Exits /\ at[t] \in {"login", "list", "restore"}
              \/ Goes(t, "prompt") /\ at[t] \in {"login", "auth"}
              \/ Goes(t, "hash") /\ at[t] = "retrieve"
              \/ Goes(t, "idle") /\ at[t] = "keepalive"
              \/ Goes(t, "refused") /\ at[t] = "job"
           /\ failed' = TRUE /\ missed' = (missed \/ at[t] = "retrieve")
           /\ UNCHANGED <<restore, authed, fired, link, session, srv, requests, replies,
                          toScan, known, stored, jobs, inJob, scanFor, drops, cut>>
  <1>1. at[t] \in Exchanges /\ Unanswered(t)
    BY DEF Fails
  <1> QED BY <1>1, UnansweredTo DEF Fails, wire, files

LEMMA RefusedTo ==
    ASSUME Typed, NEW t \in Thread, Refused(t)
    PROVE  /\ at[t] \in Exchanges /\ t \in waits /\ ka' = Arms(t)
           /\ replies # <<>> /\ replies' = Tail(replies) /\ ~Fits(t, Head(replies))
           /\ left' \in [Thread -> 0..MaxAttempts] /\ \A u \in Thread : left'[u] # 0
           /\ \/ Exits /\ at[t] \in {"login", "list", "restore"}
              \/ Goes(t, "prompt") /\ at[t] \in {"login", "auth"}
              \/ Goes(t, "hash") /\ at[t] = "retrieve"
              \/ Goes(t, "idle") /\ at[t] = "keepalive"
              \/ Goes(t, "refused") /\ at[t] = "job"
           /\ missed' = (missed \/ at[t] = "retrieve")
           /\ UNCHANGED <<restore, authed, fired, link, session, srv, requests,
                          toScan, known, stored, jobs, inJob, scanFor, drops, cut, failed>>
  <1>1. at[t] \in Exchanges /\ Unanswered(t)
    BY DEF Refused, CanRead, Typed, Phased
  <1> QED BY <1>1, UnansweredTo DEF Refused, CanRead, files

LEMMA AnsweredTo ==
    ASSUME Typed, NEW t \in Thread, Answered(t)
    PROVE  /\ at[t] \in Exchanges \ {"list"} /\ t \in waits /\ ka' = Arms(t)
           /\ replies # <<>> /\ replies' = Tail(replies) /\ Fits(t, Head(replies))
           /\ authed' = (authed \/ at[t] = "login")
           /\ \/ Goes(t, "list") /\ at[t] \in {"login", "auth"} /\ authed
              \/ Goes(t, "restore") /\ at[t] \in {"login", "auth"} /\ ~authed /\ restore
              \/ Goes(t, "scan") /\ at[t] \in {"login", "auth"} /\ ~authed /\ ~restore
              \/ Goes(t, "hash") /\ at[t] \in {"restore", "retrieve"}
              \/ Goes(t, "idle") /\ at[t] = "keepalive"
              \/ Goes(t, "granted") /\ at[t] = "job"
           /\ UNCHANGED <<restore, left, fired, link, session, srv, requests, toScan, known,
                          stored, jobs, inJob, scanFor, drops, cut, failed, missed>>
  <1>1. at[t] \in Exchanges \ {"list"} /\ t \in waits
    BY DEF Answered, CanRead, Typed, Phased
  <1> QED BY <1>1 DEF Answered, CanRead, AfterLogin, Exchanges, files, history

LEMMA SyncTo ==
    ASSUME Typed, NEW t \in Thread, Sync(t), IsFiniteSet(Files)
    PROVE  /\ at[t] = "list" /\ t \in waits /\ ka' = Arms(t)
           /\ replies # <<>> /\ replies' = Tail(replies) /\ Fits(t, Head(replies))
           /\ Head(replies).list \subseteq Files
           /\ known' = known \cup Head(replies).list
           /\ jobs' \in Seq(Files) /\ (jobs # <<>> => jobs' # <<>>)
           /\ Head(replies).list \subseteq known => jobs' = jobs
           /\ \/ Goes(t, "watch") /\ t = "main"
              \/ Goes(t, "refused") /\ t = "strand" /\ inJob
              \/ Goes(t, "idle") /\ t = "strand" /\ ~inJob
           /\ UNCHANGED <<restore, left, authed, fired, link, session, srv, requests, toScan,
                          stored, inJob, scanFor, drops, cut, failed, missed>>
  <1> DEFINE new == Head(replies).list \ known
  <1>1. replies # <<>> /\ Head(replies) \in Reply
    BY HeadAndTail DEF Sync, CanRead, Typed, TypeOK
  <1>2. Head(replies).list \subseteq Files
    BY <1>1 DEF Reply
  <1>3. IsFiniteSet(new)
    BY <1>2, FS_Subset
  <1>4. SetToSeq(new) \in Seq(Files) /\ (new = {} => SetToSeq(new) = <<>>)
    <2>1. SetToSeq(new) \in Seq(new) /\ (new = {} => SetToSeq(new) = <<>>)
      BY <1>3, SetToSeqIsOfSet
    <2> QED BY <2>1, <1>2, SeqMonotonic
  <1>5. jobs' = jobs \o SetToSeq(new) /\ jobs \in Seq(Files)
    BY DEF Sync, Typed, TypeOK
  <1> HIDE DEF new
  <1>6. jobs' \in Seq(Files) /\ (jobs # <<>> => jobs' # <<>>) /\ (new = {} => jobs' = jobs)
    <2>1. jobs' \in Seq(Files)
      BY <1>4, <1>5, ConcatProperties
    <2>2. jobs # <<>> => jobs' # <<>>
      BY <1>4, <1>5, ConcatEqualIffEmpty, ConcatProperties, LenProperties, EmptySeq
    <2>3. new = {} => jobs' = jobs
      BY <1>4, <1>5, ConcatEmptySeq
    <2> QED BY <2>1, <2>2, <2>3
  <1>7. Head(replies).list \subseteq known => new = {}
    BY DEF new
  <1>8. CASE t = "main"
    BY <1>1, <1>2, <1>6, <1>7, <1>8 DEF Sync, CanRead, history
  <1>9. CASE t = "strand"
    BY <1>1, <1>2, <1>6, <1>7, <1>9 DEF Sync, CanRead, history
  <1> QED BY <1>8, <1>9, ThreadsAre

LEMMA ArmsIs ==
    ASSUME NEW t
    PROVE  Arms(t) \in {Off} \cup 0..KEEPALIVE_INT_S
  BY LinkAssumption DEF Arms, Off

\* Where a thread goes in an exchange.
Onward(t, phase) ==
    \/ at[t] \in {"login", "auth"} /\ phase = "prompt" /\ authed' = authed
    \/ at[t] = "retrieve" /\ phase = "hash"
    \/ at[t] = "keepalive" /\ phase = "idle"
    \/ at[t] = "job" /\ phase = "refused"
    \/ at[t] \in {"list", "keepalive", "job"} /\ phase = "connect"
    \/ at[t] \in {"login", "auth"} /\ phase = "list" /\ authed
    \/ at[t] = "login" /\ phase = "restore" /\ ~authed /\ restore /\ authed'
    \/ at[t] = "login" /\ phase = "scan" /\ ~authed /\ ~restore /\ authed'
    \/ at[t] = "restore" /\ phase = "hash"
    \/ at[t] = "job" /\ phase = "granted"
    \/ at[t] = "list" /\ phase = "watch" /\ t = "main"
    \/ at[t] = "list" /\ phase = "refused" /\ t = "strand" /\ inJob
    \/ at[t] = "list" /\ phase = "idle" /\ t = "strand"

LEMMA TypedExchange ==
    ASSUME Typed, IsFiniteSet(Files), NEW t \in Thread,
           Lost(t) \/ Fails(t) \/ Refused(t) \/ Answered(t) \/ Sync(t)
    PROVE  Typed'
  <1>0. t \in {"main", "strand"} /\ at[t] \in Exchanges
    BY LostTo, FailsTo, RefusedTo, AnsweredTo, SyncTo DEF Thread, Exchanges
  <1>1. /\ ka' \in {Off} \cup 0..KEEPALIVE_INT_S
        /\ left' \in [Thread -> 0..MaxAttempts] /\ \A u \in Thread : left'[u] # 0
        /\ replies' \in Seq(Reply) /\ (link = "down" => replies' = <<>>)
        /\ known' \subseteq Files
        /\ jobs' \in Seq(Files) /\ (jobs # <<>> => jobs' # <<>>)
        /\ authed => authed'
        /\ jobs' = jobs \/ Pool
        /\ UNCHANGED <<restore, fired, link, session, srv, requests, toScan, stored, inJob,
                       scanFor, drops, cut>>
    <2>1. CASE Lost(t)
      BY <2>1, LostTo DEF Typed, TypeOK, Phased
    <2>2. CASE Fails(t)
      BY <2>2, FailsTo DEF Typed, TypeOK, Phased
    <2>3. CASE Refused(t)
      <3>1. replies' \in Seq(Reply) /\ link = "up" /\ ka' \in {Off} \cup 0..KEEPALIVE_INT_S
        BY <2>3, RefusedTo, ArmsIs, Reading
      <3> QED BY <2>3, <3>1, RefusedTo DEF Typed, TypeOK, Phased
    <2>4. CASE Answered(t)
      <3>1. replies' \in Seq(Reply) /\ link = "up" /\ ka' \in {Off} \cup 0..KEEPALIVE_INT_S
        BY <2>4, AnsweredTo, ArmsIs, Reading
      <3> QED BY <2>4, <3>1, AnsweredTo DEF Typed, TypeOK, Phased
    <2>5. CASE Sync(t)
      <3>1. Pool
        BY <1>0, <2>5, SyncTo, StrandInPool DEF Typed, Phased
      <3>2. replies' \in Seq(Reply) /\ link = "up" /\ ka' \in {Off} \cup 0..KEEPALIVE_INT_S
        BY <2>5, SyncTo, ArmsIs, Reading
      <3>3. known' \subseteq Files
        BY <2>5, SyncTo DEF Typed, TypeOK
      <3> QED BY <2>5, <3>1, <3>2, <3>3, SyncTo DEF Typed, TypeOK, Phased
    <2> QED BY <2>1, <2>2, <2>3, <2>4, <2>5
  <1>2. authed' \in BOOLEAN /\ failed' \in BOOLEAN /\ missed' \in BOOLEAN
    <2>1. CASE Lost(t)
      BY <2>1, LostTo DEF Typed, TypeOK
    <2>2. CASE Fails(t)
      BY <2>2, FailsTo DEF Typed, TypeOK
    <2>3. CASE Refused(t)
      BY <2>3, RefusedTo DEF Typed, TypeOK
    <2>4. CASE Answered(t)
      BY <2>4, AnsweredTo DEF Typed, TypeOK
    <2>5. CASE Sync(t)
      BY <2>5, SyncTo DEF Typed, TypeOK
    <2> QED BY <2>1, <2>2, <2>3, <2>4, <2>5
  <1>3. \/ Exits
        \/ \E phase \in Phases : Goes(t, phase) /\ Onward(t, phase)
    <2>1. CASE Lost(t)
      BY <2>1, LostTo DEF Onward, Phases, Exchanges
    <2>2. CASE Fails(t)
      BY <2>2, FailsTo DEF Onward, Phases, Exchanges
    <2>3. CASE Refused(t)
      BY <2>3, RefusedTo DEF Onward, Phases, Exchanges
    <2>4. CASE Answered(t)
      <3>1. at[t] = "auth" => authed
        BY <1>0, StrandInPool DEF Typed, Phased, Pool
      <3> QED BY <2>4, <3>1, AnsweredTo DEF Onward, Phases, Exchanges
    <2>5. CASE Sync(t)
      BY <2>5, SyncTo DEF Onward, Phases, Exchanges
    <2> QED BY <2>1, <2>2, <2>3, <2>4, <2>5
  <1>4. at' \in [Thread -> Phases] /\ waits' \subseteq Thread
    BY <1>3, GoesTo, ExitsTo DEF Typed
  <1>5. TypeOK'
    BY <1>1, <1>2, <1>4 DEF Typed, TypeOK
  <1>6. CASE Exits
    BY <1>1, <1>5, <1>6, PhasedExit DEF Typed, Phased
  <1>7. ASSUME NEW phase \in Phases, Goes(t, phase), Onward(t, phase)
        PROVE  Phased'
    <2>1. at[t] # "exited" /\ (t = "strand" => Pool)
      BY <1>0, StrandInPool DEF Exchanges
    <2>2. Fit(t, phase)
      <3>1. CASE t = "main"
        BY <1>1, <1>7, <3>1 DEF Fit, Onward, Typed, Phased, Pool, MainPhases
      <3>2. CASE t = "strand"
        BY <1>1, <1>7, <2>1, <3>2 DEF Fit, Onward, Typed, Phased, Pool, StrandPhases, InHandler
      <3> QED BY <1>0, <3>1, <3>2
    <2>3. ~Pool' => jobs' = jobs
      BY <1>1 DEF Pool
    <2> QED BY <1>1, <1>2, <1>7, <2>1, <2>2, <2>3, PhasedMove DEF Typed, Phased
  <1> QED BY <1>3, <1>5, <1>6, <1>7 DEF Typed

\* The moves between exchanges: typing, the scan, connect(), the restore, the strand.
Between(t) ==
    \/ Enter(t) \/ Connect(t) \/ ConnectFails(t)
    \/ t = "main" /\ (ScanEnds \/ Restore)
    \/ t = "strand" /\ (SendKeepAlive \/ StartJob \/ Handle)

LEMMA TypedBetween ==
    ASSUME Typed, NEW t \in Thread, Between(t)
    PROVE  Typed'
  <1>0. t \in {"main", "strand"}
    BY DEF Thread
  <1>1. CASE Enter(t)
    <2>1. at[t] = "prompt" /\ UNCHANGED <<restore, left, authed, ka, fired, link, session, srv,
              requests, replies, toScan, known, stored, jobs, inJob, scanFor, drops, cut, failed, missed>>
      BY <1>1 DEF Enter, timer, wire, files, history
    <2>2. CASE Goes(t, "login")
      <3>1. "login" \in Phases /\ at'["main"] \in Phases
        BY <2>2, GoesTo DEF Phases, Exchanges, Typed, Thread
      <3>2. TypeOK'
        BY <2>1, <2>2, <3>1, GoesTo DEF Typed, TypeOK
      <3>3. Fit(t, "login")
        BY <1>0, <2>1 DEF Fit, Typed, Phased, Pool, MainPhases, StrandPhases, InHandler
      <3>4. Phased'
        BY <2>1, <2>2, <3>1, <3>2, <3>3, PhasedMove, StrandInPool DEF Typed, TypeOK, Phased, Pool
      <3> QED BY <3>2, <3>4 DEF Typed
    <2>3. CASE Exits
      <3>1. TypeOK'
        BY <2>1, <2>3, ExitsTo DEF Typed, TypeOK
      <3>2. Phased'
        BY <2>1, <2>3, PhasedExit DEF Typed, TypeOK, Phased
      <3> QED BY <3>1, <3>2 DEF Typed
    <2> QED BY <1>1, <2>2, <2>3 DEF Enter
  <1>2. CASE Connect(t)
    <2>1. /\ at[t] = "connect" /\ Goes(t, "auth") /\ "auth" \in Phases
          /\ link' = "up" /\ session' = "new" /\ srv' = TIMEOUT /\ requests' = <<>> /\ replies' = <<>>
          /\ UNCHANGED <<restore, left, authed, ka, fired, toScan, known, stored, jobs, inJob,
                         scanFor, drops, cut, failed, missed>>
      BY <1>2 DEF Connect, timer, files, history, Phases, Exchanges
    <2>2. requests' \in Seq(Message) /\ replies' \in Seq(Reply) /\ srv' \in 0..TIMEOUT
      BY <2>1, LinkAssumption
    <2>3. TypeOK'
      BY <2>1, <2>2, GoesTo DEF Typed, TypeOK
    <2>4. Fit(t, "auth")
      BY <1>0, <2>1 DEF Fit, Typed, Phased, Pool, MainPhases, StrandPhases, InHandler
    <2>5. Phased'
      BY <2>1, <2>3, <2>4, PhasedMove, StrandInPool DEF Typed, TypeOK, Phased, Pool
    <2> QED BY <2>3, <2>5 DEF Typed
  <1>3. CASE ConnectFails(t)
    <2>1. Exits /\ UNCHANGED <<restore, left, authed, ka, fired, link, session, srv,
              requests, replies, toScan, known, stored, jobs, inJob, scanFor, drops, cut, failed, missed>>
      BY <1>3 DEF ConnectFails, timer, wire, files, history
    <2>2. TypeOK'
      BY <2>1, ExitsTo DEF Typed, TypeOK
    <2>3. Phased'
      BY <2>1, PhasedExit DEF Typed, TypeOK, Phased
    <2> QED BY <2>2, <2>3 DEF Typed
  <1>4. CASE t = "main" /\ (ScanEnds \/ Restore)
    <2>0. \/ Goes("main", "list") /\ at["main"] = "scan"
          \/ Goes("main", "retrieve") /\ at["main"] = "hash"
          \/ Goes("main", "done") /\ at["main"] = "hash"
      BY <1>4 DEF ScanEnds, Restore
    <2>1. UNCHANGED <<restore, left, authed, ka, fired, link, session, srv,
              requests, replies, toScan, known, stored, jobs, inJob, scanFor, drops, cut, failed, missed>>
      BY <1>4 DEF ScanEnds, Restore, timer, wire, files, history
    <2>2. "main" \in Thread /\ {"list", "retrieve", "done"} \subseteq Phases
      BY DEF Phases, Exchanges, Thread
    <2>3. ASSUME NEW phase \in Phases, Goes("main", phase),
                 \/ phase = "list" /\ at["main"] = "scan"
                 \/ phase \in {"retrieve", "done"} /\ at["main"] = "hash"
          PROVE  Typed'
      <3>1. TypeOK'
        BY <2>1, <2>2, <2>3, GoesTo DEF Typed, TypeOK
      <3>2. Fit("main", phase)
        BY <2>1, <2>3 DEF Fit, Typed, Phased, Pool, MainPhases
      <3>3. Phased'
        BY <2>1, <2>2, <2>3, <3>1, <3>2, PhasedMove DEF Typed, TypeOK, Phased, Pool
      <3> QED BY <3>1, <3>3 DEF Typed
    <2> QED BY <2>0, <2>2, <2>3
  <1>5. CASE t = "strand" /\ SendKeepAlive
    <2>1. /\ at["strand"] = "idle" /\ Goes("strand", "keepalive") /\ fired > 0 /\ fired' = fired - 1
          /\ UNCHANGED <<restore, left, authed, ka, link, session, srv,
              requests, replies, toScan, known, stored, jobs, inJob, scanFor, drops, cut, failed, missed>>
      BY <1>5 DEF SendKeepAlive, wire, files, history
    <2>2. "keepalive" \in Phases /\ "strand" \in Thread
      BY DEF Phases, Exchanges, Thread
    <2>3. TypeOK'
      BY <2>1, <2>2, GoesTo, LinkAssumption DEF Typed, TypeOK
    <2>4. Fit("strand", "keepalive")
      BY DEF Fit, StrandPhases, InHandler
    <2>5. Pool
      BY <2>1 DEF Typed, TypeOK, Phased, Exited
    <2>6. Phased'
      BY <2>1, <2>2, <2>3, <2>4, <2>5, PhasedMove DEF Typed, TypeOK, Phased, Pool
    <2> QED BY <2>3, <2>6 DEF Typed
  <1>6. CASE t = "strand" /\ StartJob
    <2>1. /\ at["strand"] = "idle" /\ Goes("strand", "job") /\ jobs # <<>> /\ inJob' = TRUE
          /\ UNCHANGED <<restore, left, authed, ka, fired, link, session, srv,
              requests, replies, toScan, known, stored, jobs, scanFor, drops, cut, failed, missed>>
      BY <1>6 DEF StartJob, timer, wire, history
    <2>2. "job" \in Phases /\ "strand" \in Thread /\ inJob' \in BOOLEAN
      BY <2>1 DEF Phases, Exchanges, Thread
    <2>3. TypeOK'
      BY <2>1, <2>2, GoesTo DEF Typed, TypeOK
    <2>4. Fit("strand", "job")
      BY <2>1 DEF Fit, StrandPhases, InHandler
    <2>5. Pool
      BY <2>1 DEF Typed, TypeOK, Phased, Exited
    <2>6. Phased'
      BY <2>1, <2>2, <2>3, <2>4, <2>5, PhasedMove DEF Typed, TypeOK, Phased, Pool
    <2> QED BY <2>3, <2>6 DEF Typed
  <1>7. CASE t = "strand" /\ Handle
    <2>1. /\ at["strand"] \in {"granted", "refused"} /\ (Goes("strand", "idle") \/ Exits)
          /\ (known' = known \/ \E f : known' = known \ {f}) /\ jobs' = Tail(jobs) /\ inJob' = FALSE
          /\ UNCHANGED <<restore, left, authed, ka, fired, link, session, srv,
              requests, replies, toScan, stored, scanFor, drops, cut, failed, missed>>
      BY <1>7 DEF Handle, timer, wire, history
    <2>2. "idle" \in Phases /\ "strand" \in Thread /\ inJob' \in BOOLEAN
      BY <2>1 DEF Phases, Thread
    <2>3. jobs # <<>> /\ jobs' \in Seq(Files)
      BY <2>1, HeadAndTail DEF Typed, TypeOK, Phased, InHandler
    <2>4. TypeOK'
      BY <2>1, <2>2, <2>3, GoesTo, ExitsTo DEF Typed, TypeOK
    <2>5. CASE Goes("strand", "idle")
      <3>1. Fit("strand", "idle")
        BY DEF Fit, StrandPhases, InHandler
      <3>2. Pool
        BY <2>1, StrandInPool
      <3>3. Phased'
        BY <2>1, <2>2, <2>4, <2>5, <3>1, <3>2, PhasedMove DEF Typed, TypeOK, Phased, Pool
      <3> QED BY <2>4, <3>3 DEF Typed
    <2>6. CASE Exits
      <3>1. Phased'
        BY <2>1, <2>6, PhasedExit DEF Typed, TypeOK, Phased
      <3> QED BY <2>4, <3>1 DEF Typed
    <2> QED BY <2>1, <2>5, <2>6
  <1> QED BY <1>1, <1>2, <1>3, <1>4, <1>5, <1>6, <1>7 DEF Between

LEMMA TypedScan == \A f \in Files : Typed /\ ScanFile(f) => Typed'
  <1> SUFFICES ASSUME NEW f \in Files, Typed, ScanFile(f) PROVE Typed'
    OBVIOUS
  <1>1. /\ toScan' = toScan \ {f} /\ known' = known \cup {f}
        /\ UNCHANGED <<restore, at, waits, left, authed, ka, fired, link, session, srv, requests,
              replies, stored, jobs, inJob, scanFor, drops, cut, failed, missed>>
    BY DEF ScanFile, threads, timer, wire, history
  <1>2. TypeOK'
    BY <1>1 DEF Typed, TypeOK
  <1>3. Phased'
    BY <1>1 DEF Typed, Phased, Exited, Pool
  <1> QED BY <1>2, <1>3 DEF Typed

LEMMA TypedFire == Typed /\ Fire => Typed'
  <1> SUFFICES ASSUME Typed, Fire PROVE Typed'
    OBVIOUS
  <1>1. /\ Pool /\ ka' = Off /\ fired' = IF fired < MaxFired THEN fired + 1 ELSE fired
        /\ UNCHANGED <<restore, at, waits, left, authed, link, session, srv, requests, replies,
              toScan, known, stored, jobs, inJob, scanFor, drops, cut, failed, missed>>
    BY DEF Fire, threads, wire, files, history
  <1>2. fired' \in 0..MaxFired
    BY <1>1, LinkAssumption DEF Typed, TypeOK
  <1>3. TypeOK'
    BY <1>1, <1>2 DEF Typed, TypeOK
  <1>4. Phased'
    BY <1>1 DEF Typed, Phased, Exited, Pool
  <1> QED BY <1>3, <1>4 DEF Typed

\* What time changes.
LEMMA TickTo ==
    ASSUME Typed, Tick
    PROVE  /\ ka' = (IF ka > 0 THEN ka - 1 ELSE ka) /\ ka' \in {Off} \cup 0..KEEPALIVE_INT_S
           /\ srv' = (IF link = "up" THEN srv - 1 ELSE srv) /\ srv' \in 0..TIMEOUT
           /\ scanFor' = (IF at["main"] = "scan" /\ scanFor < KEEPALIVE_INT_S
                          THEN scanFor + 1 ELSE scanFor)
           /\ scanFor' \in 0..KEEPALIVE_INT_S
           /\ \A t \in Thread : Waits(t)
           /\ at["strand"] = "idle" => jobs = <<>> /\ fired = 0 /\ ~(Pool /\ ka = 0)
           /\ link = "up" => srv > 0
           /\ UNCHANGED <<restore, at, waits, left, authed, fired, link, session, requests, replies,
                 toScan, known, stored, jobs, inJob, drops, cut, failed, missed>>
  <1>1. /\ ka' = (IF ka > 0 THEN ka - 1 ELSE ka)
        /\ srv' = (IF link = "up" THEN srv - 1 ELSE srv) /\ (link = "up" => srv > 0)
        /\ scanFor' = (IF at["main"] = "scan" /\ scanFor < KEEPALIVE_INT_S
                       THEN scanFor + 1 ELSE scanFor)
    BY DEF Tick
  <1>2. /\ ka \in {Off} \cup 0..KEEPALIVE_INT_S /\ srv \in 0..TIMEOUT
        /\ scanFor \in 0..KEEPALIVE_INT_S
    BY DEF Typed, TypeOK
  <1>3. ka' \in {Off} \cup 0..KEEPALIVE_INT_S
    BY <1>1, <1>2, LinkAssumption DEF Off
  <1>4. srv' \in 0..TIMEOUT
    BY <1>1, <1>2, LinkAssumption
  <1>5. scanFor' \in 0..KEEPALIVE_INT_S
    BY <1>1, <1>2, LinkAssumption
  <1> QED BY <1>1, <1>3, <1>4, <1>5 DEF Tick, threads, files

LEMMA TypedTick == Typed /\ Tick => Typed'
  <1> SUFFICES ASSUME Typed, Tick PROVE Typed'
    OBVIOUS
  <1>1. TypeOK'
    BY TickTo DEF Typed, TypeOK
  <1>2. Phased'
    BY TickTo DEF Typed, Phased, Exited, Pool
  <1> QED BY <1>1, <1>2 DEF Typed

LEMMA Stutters ==
    ASSUME UNCHANGED vars
    PROVE  UNCHANGED <<restore, at, waits, left, authed, ka, fired, link, session, srv, requests,
             replies, toScan, known, stored, jobs, inJob, scanFor, drops, cut, failed, missed>>
  BY DEF vars, threads, timer, wire, files, history

\* The steps, grouped the way the proofs take them.
LEMMA Steps ==
    ASSUME [Next]_vars
    PROVE  \/ ServeRequest \/ TimesOut \/ Drop \/ Fire \/ Tick \/ UNCHANGED vars
           \/ \E f \in Files : ScanFile(f)
           \/ \E t \in Thread : Write(t)
           \/ \E t \in Thread : Lost(t) \/ Fails(t) \/ Refused(t) \/ Answered(t) \/ Sync(t)
           \/ \E t \in Thread : Between(t)
  <1>1. "main" \in Thread /\ "strand" \in Thread
    BY DEF Thread
  <1>2. CASE ScanEnds \/ Restore
    BY <1>1, <1>2 DEF Between
  <1>3. CASE Strand
    BY <1>1, <1>3 DEF Between, Strand
  <1>4. CASE \E t \in Thread : Exchange(t) \/ Enter(t) \/ Connect(t) \/ ConnectFails(t)
    BY <1>4 DEF Between, Exchange
  <1> QED BY <1>2, <1>3, <1>4 DEF Next

LEMMA TypedNext ==
    ASSUME FiniteFiles, Typed, [Next]_vars
    PROVE  Typed'
  <1>1. CASE UNCHANGED vars
    BY <1>1, Stutters DEF Typed, TypeOK, Phased, Exited, Pool
  <1>2. IsFiniteSet(Files)
    BY DEF FiniteFiles
  <1> QED BY <1>1, <1>2, Steps, TypedServe, TypedLink, TypedFire, TypedTick, TypedScan,
             TypedWrite, TypedExchange, TypedBetween

LEMMA TypedAlways ==
    ASSUME FiniteFiles
    PROVE  Spec => []Typed
  <1>1. Typed /\ [Next]_vars => Typed'
    BY TypedNext
  <1> QED BY <1>1, TypedInit, PTL DEF Spec

\* The client's state stays what its variables are for, whoever uses the socket and
\* whatever the link does: no thread reads a job that is not there, the attempts of a
\* login and the two timers keep their range.
\* (scheduler::login, connection::schedule_keepalive, scheduler::sync)
THEOREM LinkTypeCorrect ==
    ASSUME FiniteFiles
    PROVE  Spec => []TypeOK
  <1>1. Typed => TypeOK
    BY DEF Typed
  <1> QED BY <1>1, TypedAlways, PTL

(***************************************************************************)
(* The two regimes.                                                        *)
(***************************************************************************)

LEMMA Moved ==
    ASSUME Typed, NEW t \in Thread, NEW phase, Goes(t, phase)
    PROVE  /\ at'[t] = phase /\ waits' = waits \ {t}
           /\ \A u \in Thread : u # t => at'[u] = at[u]
           /\ t = "main" => at'["main"] = phase /\ at'["strand"] = at["strand"]
           /\ t = "strand" => at'["strand"] = phase /\ at'["main"] = at["main"]
  <1>1. at \in [Thread -> Phases] /\ "main" \in Thread /\ "strand" \in Thread
    BY DEF Typed, TypeOK, Thread
  <1> QED BY <1>1 DEF Goes

LEMMA Gone ==
    ASSUME Exits
    PROVE  at'["main"] = "exited" /\ at'["strand"] = "exited" /\ waits' = {} /\ Exited'
  BY ExitsTo DEF Thread, Exited

LEMMA ServeTo ==
    ASSUME Typed, ServeRequest
    PROVE  /\ link = "up" /\ requests # <<>> /\ requests' = Tail(requests) /\ srv' = TIMEOUT
           /\ Head(requests) \in Message
           /\ \E ok \in BOOLEAN :
                /\ ok => Allowed(Head(requests).type)
                /\ ~ok => ~Allowed(Head(requests).type) \/ ~(TRUE \in Granted(Head(requests)))
                                                         \/ Head(requests).arg = "typed"
                /\ session' = CASE ok /\ Head(requests).type = "AUTH" -> "auth"
                                [] ok /\ Head(requests).type = "LIST" -> "synced"
                                [] OTHER                              -> session
                /\ Head(requests).type # "ERASE" => stored' = stored
                /\ \E list : replies' =
                     Append(replies, [type |-> Head(requests).type, ok |-> ok, list |-> list])
           /\ UNCHANGED <<restore, at, waits, left, authed, ka, fired, link, toScan, known, jobs,
                          inJob, scanFor, drops, cut, failed, missed>>
  <1> DEFINE r == Head(requests)
  <1>1. /\ link = "up" /\ requests # <<>> /\ requests' = Tail(requests) /\ srv' = TIMEOUT
        /\ UNCHANGED <<restore, at, waits, left, authed, ka, fired, link, toScan, known, jobs,
                       inJob, scanFor, drops, cut, failed, missed>>
    BY DEF ServeRequest, threads, timer, history
  <1>2. r \in Message
    BY <1>1, HeadAndTail DEF Typed, TypeOK
  <1>3. PICK ok \in IF Allowed(r.type) THEN Granted(r) ELSE {FALSE} :
             /\ session' = CASE ok /\ r.type = "AUTH" -> "auth"
                             [] ok /\ r.type = "LIST" -> "synced"
                             [] OTHER                 -> session
             /\ stored' = IF ok /\ r.type = "ERASE" THEN stored \ {r.arg} ELSE stored
             /\ replies' = Append(replies, [type |-> r.type, ok |-> ok,
                               list |-> IF ok /\ r.type = "LIST" THEN stored ELSE {}])
    BY DEF ServeRequest
  <1>4. ok \in BOOLEAN
    <2>1. {r.arg \in stored} \subseteq BOOLEAN /\ {TRUE} \subseteq BOOLEAN
      OBVIOUS
    <2>2. Granted(r) \subseteq BOOLEAN
      BY <2>1, Zenon DEF Granted
    <2> QED BY <1>3, <2>2
  <1>5. ok => Allowed(r.type)
    BY <1>3, Zenon
  <1>6. ~ok => ~Allowed(r.type) \/ ~(TRUE \in Granted(r)) \/ r.arg = "typed"
    <2>1. SUFFICES ASSUME Allowed(r.type), r.arg # "typed", TRUE \in Granted(r) PROVE ok
      BY <1>4, Zenon
    <2>2. ok \in Granted(r)
      BY <1>3, <2>1
    <2>3. CASE r.type = "AUTH"
      BY <2>1, <2>2, <2>3 DEF Granted
    <2>4. CASE r.type = "ERASE"
      BY <2>1, <2>2, <2>4, Zenon DEF Granted
    <2>5. CASE r.type # "AUTH" /\ r.type # "ERASE"
      BY <2>2, <2>5 DEF Granted
    <2> QED BY <2>3, <2>4, <2>5
  <1>7. r.type # "ERASE" => stored' = stored
    BY <1>3
  <1>8. \E list : replies' = Append(replies, [type |-> r.type, ok |-> ok, list |-> list])
    BY <1>3
  <1> QED BY <1>1, <1>2, <1>3, <1>4, <1>5, <1>6, <1>7, <1>8

LEMMA LinkTo ==
    ASSUME TimesOut \/ Drop
    PROVE  /\ link = "up" /\ link' = "down" /\ requests' = <<>> /\ replies' = <<>>
           /\ \/ srv = 0 /\ cut' = TRUE /\ drops' = drops
              \/ drops < MaxDrops /\ drops' = drops + 1 /\ cut' = cut
           /\ UNCHANGED <<restore, at, waits, left, authed, ka, fired, session, srv, toScan,
                          known, stored, jobs, inJob, scanFor, failed, missed>>
  BY DEF TimesOut, Drop, LinkGoes, threads, timer, files

LEMMA WriteTo ==
    ASSUME NEW t \in Thread, Write(t)
    PROVE  /\ at[t] \in Exchanges /\ t \notin waits /\ waits' = waits \cup {t} /\ ka' = Off
           /\ requests' = (IF link = "up" THEN Append(requests, Request(t)) ELSE requests)
           /\ UNCHANGED <<restore, at, left, authed, fired, link, session, srv, replies, toScan,
                          known, stored, jobs, inJob, scanFor, drops, cut, failed, missed>>
  BY DEF Write, files, history

LEMMA ScanTo ==
    ASSUME NEW f \in Files, ScanFile(f)
    PROVE  /\ at["main"] = "scan" /\ toScan' = toScan \ {f} /\ known' = known \cup {f}
           /\ UNCHANGED <<restore, at, waits, left, authed, ka, fired, link, session, srv, requests,
                          replies, stored, jobs, inJob, scanFor, drops, cut, failed, missed>>
  BY DEF ScanFile, threads, timer, wire, history

LEMMA FireTo ==
    ASSUME Typed, Fire
    PROVE  /\ Pool /\ ~Exited /\ ka = 0 /\ ka' = Off /\ fired' > 0
           /\ UNCHANGED <<restore, at, waits, left, authed, link, session, srv, requests, replies,
                          toScan, known, stored, jobs, inJob, scanFor, drops, cut, failed, missed>>
  <1>1. fired' > 0
    BY LinkAssumption DEF Fire, Typed, TypeOK
  <1> QED BY <1>1 DEF Fire, threads, wire, files, history

LEMMA BetweenTo ==
    ASSUME NEW t \in Thread, Between(t)
    PROVE  /\ UNCHANGED <<restore, left, authed, ka, toScan, stored, scanFor, drops, cut, failed,
                          missed>>
           /\ \/ /\ at[t] = "connect" /\ Goes(t, "auth")
                 /\ link' = "up" /\ session' = "new" /\ srv' = TIMEOUT
                 /\ requests' = <<>> /\ replies' = <<>>
                 /\ UNCHANGED <<fired, known, jobs, inJob>>
              \/ /\ \/ at[t] = "prompt" /\ (Goes(t, "login") \/ Exits)
                    \/ at[t] = "connect" /\ Exits
                    \/ t = "main" /\ at[t] = "scan" /\ toScan = {} /\ Goes(t, "list")
                    \/ t = "main" /\ at[t] = "hash" /\ (Goes(t, "retrieve") \/ Goes(t, "done"))
                 /\ UNCHANGED <<link, session, srv, requests, replies, fired, known, jobs, inJob>>
              \/ /\ t = "strand"
                 /\ \/ /\ at[t] = "idle" /\ fired > 0 /\ Goes(t, "keepalive")
                       /\ UNCHANGED <<known, jobs, inJob>>
                    \/ at[t] = "idle" /\ jobs # <<>> /\ Goes(t, "job")
                    \/ at[t] \in InHandler /\ (Goes(t, "idle") \/ Exits)
                 /\ UNCHANGED <<link, session, srv, requests, replies>>
  <1>1. CASE Enter(t)
    BY <1>1 DEF Enter, timer, wire, files, history
  <1>2. CASE Connect(t)
    BY <1>2 DEF Connect, timer, files, history
  <1>3. CASE ConnectFails(t)
    BY <1>3 DEF ConnectFails, timer, wire, files, history
  <1>4. CASE t = "main" /\ ScanEnds
    BY <1>4 DEF ScanEnds, timer, wire, files, history
  <1>5. CASE t = "main" /\ Restore
    BY <1>5 DEF Restore, timer, wire, files, history
  <1>6. CASE t = "strand" /\ SendKeepAlive
    BY <1>6 DEF SendKeepAlive, wire, files, history
  <1>7. CASE t = "strand" /\ StartJob
    BY <1>7 DEF StartJob, timer, wire, history
  <1>8. CASE t = "strand" /\ Handle
    BY <1>8 DEF Handle, timer, wire, history, InHandler
  <1> QED BY <1>1, <1>2, <1>3, <1>4, <1>5, <1>6, <1>7, <1>8 DEF Between

\* Before a slow scan, a thread in an exchange is the only one.
LEMMA OneThread ==
    ASSUME Typed, Alone, ~SlowScan, NEW t \in Thread, Using(t)
    PROVE  /\ \A u \in Thread : u # t => ~Using(u) /\ u \notin waits
           /\ waits \subseteq {t} /\ ~Overlap
           /\ t = "main" => at["strand"] = "idle"
           /\ t = "strand" => at["main"] = "watch"
  <1>1. "main" \in Thread /\ "strand" \in Thread /\ (t = "main" \/ t = "strand")
    BY DEF Thread
  <1>2. CASE t = "main"
    <2>1. at["strand"] = "idle"
      BY <1>2 DEF Alone, MainFirst, Before, Using, Exchanges
    <2> QED BY <1>1, <1>2, <2>1, ThreadsAre DEF Using, Overlap, Exchanges, Typed, TypeOK, Phased
  <1>3. CASE t = "strand"
    <2>1. at["main"] = "watch"
      BY <1>3 DEF Alone, MainFirst, Before, Using, Exchanges, Typed, Phased, Exited
    <2> QED BY <1>1, <1>3, <2>1, ThreadsAre DEF Using, Overlap, Exchanges, Typed, TypeOK, Phased
  <1> QED BY <1>1, <1>2, <1>3

LEMMA OneOfTwo ==
    ASSUME NEW m \in Nat, NEW n \in Nat, m + n = 1
    PROVE  (m = 0 /\ n = 1) \/ (m = 1 /\ n = 0)
  OBVIOUS

\* And what is on its way is its request, or the reply to it.
LEMMA OneMessage ==
    ASSUME Typed, Alone, Counted, ~SlowScan, NEW t \in Thread, Using(t), link = "up"
    PROVE  /\ t \notin waits => requests = <<>> /\ replies = <<>>
           /\ t \in waits => \/ requests = <<>> /\ Len(replies) = 1
                             \/ replies = <<>> /\ Len(requests) = 1
           /\ replies # <<>> => requests = <<>> /\ Len(replies) = 1
  <1>1. waits \subseteq {t} /\ ~Exited
    BY OneThread DEF Using, Exchanges, Exited, Typed, Phased, Thread
  <1>2. Waiting = (IF t \in waits THEN 1 ELSE 0)
    <2>1. "main" \in Thread /\ "strand" \in Thread /\ (t = "main" \/ t = "strand")
      BY DEF Thread
    <2> QED BY <1>1, <2>1 DEF Waiting
  <1>3. requests \in Seq(Message) /\ replies \in Seq(Reply)
    BY DEF Typed, TypeOK
  <1>4. Len(requests) + Len(replies) = IF t \in waits THEN 1 ELSE 0
    BY <1>1, <1>2 DEF Counted
  <1>5. /\ Len(requests) \in Nat /\ Len(replies) \in Nat
        /\ Len(requests) = 0 <=> requests = <<>>
        /\ Len(replies) = 0 <=> replies = <<>>
    BY <1>3, LenProperties, EmptySeq
  <1>6. CASE t \notin waits
    <2>1. Len(requests) = 0 /\ Len(replies) = 0
      BY <1>4, <1>5, <1>6
    <2> QED BY <1>5, <1>6, <2>1
  <1>7. CASE t \in waits
    <2>1. \/ Len(requests) = 0 /\ Len(replies) = 1
          \/ Len(requests) = 1 /\ Len(replies) = 0
      <3>1. Len(requests) + Len(replies) = 1
        BY <1>4, <1>7
      <3> QED BY <1>5, <3>1, OneOfTwo
    <2> QED BY <1>5, <1>7, <2>1
  <1> QED BY <1>6, <1>7

\* A thread that waits with its reply there, or its request under way, and one in
\* an exchange it has not begun, are not waiting for time to pass.
LEMMA Waiter ==
    ASSUME Typed, (~SlowScan \/ Shared), Counted, NEW t \in Thread, at[t] \in Exchanges, ~Exited,
           link = "up"
    PROVE  ~Waits(t)
  <1>1. at[t] \notin Patient /\ at[t] # "connect"
    BY DEF Patient, Exchanges
  <1>2. t \in waits => requests # <<>> \/ replies # <<>>
    <2> SUFFICES ASSUME t \in waits, requests = <<>>, replies = <<>> PROVE FALSE
      OBVIOUS
    <2>1. Waiting >= 1
      BY ThreadsAre DEF Waiting
    <2>2. Len(requests) = 0 /\ Len(replies) = 0
      BY EmptySeq
    <2> QED BY <2>1, <2>2 DEF Counted, Waiting
  <1> QED BY <1>1, <1>2 DEF Waits

(***************************************************************************)
(* Without a slow scan: one user of the socket.                            *)
(***************************************************************************)

\* Where a failed exchange leads.
LEMMA FailsMoves ==
    ASSUME Typed, NEW t \in Thread, Fails(t), ~Exits
    PROVE  /\ waits' = waits \ {t} /\ \A u \in Thread : u # t => at'[u] = at[u]
           /\ at'[t] \in {"prompt", "hash", "idle", "refused"}
  <1>1. \/ Goes(t, "prompt") \/ Goes(t, "hash") \/ Goes(t, "idle") \/ Goes(t, "refused")
    BY FailsTo
  <1>2. CASE Goes(t, "prompt")
    BY <1>2, Moved
  <1>3. CASE Goes(t, "hash")
    BY <1>3, Moved
  <1>4. CASE Goes(t, "idle")
    BY <1>4, Moved
  <1>5. CASE Goes(t, "refused")
    BY <1>5, Moved
  <1> QED BY <1>1, <1>2, <1>3, <1>4, <1>5

\* Only thread t moves.
LEMMA ThreadMoves ==
    ASSUME IsFiniteSet(Files), Typed, NEW t \in Thread, ~Exits,
           Lost(t) \/ Fails(t) \/ Refused(t) \/ Answered(t) \/ Sync(t) \/ Between(t)
    PROVE  /\ waits' = waits \ {t} /\ \A u \in Thread : u # t => at'[u] = at[u]
           /\ t = "main" => at'["strand"] = at["strand"]
           /\ t = "strand" => at'["main"] = at["main"]
  <1>1. CASE Lost(t)
    BY <1>1, LostTo, Moved
  <1>2. CASE Fails(t)
    BY <1>2, FailsMoves DEF Thread
  <1>3. CASE Refused(t)
    BY <1>3, RefusedTo, Moved
  <1>4. CASE Answered(t)
    BY <1>4, AnsweredTo, Moved
  <1>5. CASE Sync(t)
    BY <1>5, SyncTo, Moved
  <1>6. CASE Between(t)
    BY <1>6, BetweenTo, Moved
  <1> QED BY <1>1, <1>2, <1>3, <1>4, <1>5, <1>6

LEMMA AloneExchange ==
    ASSUME IsFiniteSet(Files), Typed, Alone, Counted, ~SlowScan, NEW t \in Thread,
           Lost(t) \/ Fails(t) \/ Refused(t) \/ Answered(t) \/ Sync(t)
    PROVE  Alone'
  <1>0. at[t] \in Exchanges /\ Using(t) /\ "main" \in Thread /\ "strand" \in Thread
    BY LostTo, FailsTo, RefusedTo, AnsweredTo, SyncTo DEF Thread, Exchanges, Using
  <1>1. /\ \A u \in Thread : u # t => ~Using(u) /\ u \notin waits
        /\ ~Overlap /\ (t = "main" => at["strand"] = "idle") /\ (t = "strand" => at["main"] = "watch")
    BY <1>0, OneThread
  <1>2. MainFirst /\ Matched(t)
    BY DEF Alone
  <1>3. UNCHANGED <<restore, fired, link, session, srv, requests, scanFor>> /\ (authed => authed')
    BY LostTo, FailsTo, RefusedTo, AnsweredTo, SyncTo
  <1>4. CASE Exits
    <2>1. at'["main"] = "exited" /\ at'["strand"] = "exited" /\ waits' = {}
      BY <1>4, Gone
    <2> QED BY <1>2, <1>3, <2>1, ThreadsAre DEF Alone, MainFirst, Matched, Before
  <1>5. ASSUME ~Exits
        PROVE  /\ waits' = waits \ {t} /\ \A u \in Thread : u # t => at'[u] = at[u]
               /\ at'[t] # "auth" /\ (at'[t] = "connect" => Lost(t))
    <2>1. CASE Lost(t)
      BY <1>5, <2>1, LostTo, Moved
    <2>2. CASE Fails(t)
      BY <1>5, <2>2, FailsMoves
    <2>3. CASE Refused(t)
      BY <1>5, <2>3, RefusedTo, Moved
    <2>4. CASE Answered(t)
      BY <1>5, <2>4, AnsweredTo, Moved
    <2>5. CASE Sync(t)
      BY <1>5, <2>5, SyncTo, Moved
    <2> QED BY <2>1, <2>2, <2>3, <2>4, <2>5
  <1>6. CASE ~Exits
    <2> DEFINE phase == at'[t]
    <2>1. phase # "auth" /\ (phase = "connect" => Lost(t))
      BY <1>5, <1>6
    <2>2. /\ at'[t] = phase /\ waits' = waits \ {t} /\ waits' = {}
          /\ \A u \in Thread : u # t => at'[u] = at[u]
      BY <1>1, <1>5, <1>6 DEF Typed, TypeOK
    <2> HIDE DEF phase
    <2>3. ASSUME NEW u \in Thread PROVE Matched(u)'
      <3>1. CASE u = t
        BY <2>1, <2>2, <3>1, LostTo DEF Matched
      <3>2. CASE u # t
        BY <1>1, <2>2, <3>2 DEF Matched, Using, Exchanges
      <3> QED BY <3>1, <3>2
    <2>4. CASE t = "strand"
      <3>1. at'["main"] = "watch"
        BY <1>0, <1>1, <2>2, <2>4
      <3> QED BY <1>2, <1>3, <2>3, <3>1 DEF Alone, MainFirst, Before
    <2>5. CASE t = "main"
      <3>1. /\ at'["main"] = phase /\ at'["strand"] = "idle" /\ "main" \notin waits'
            /\ fired = 0 /\ jobs = <<>>
        BY <1>0, <1>1, <1>2, <2>2, <2>5 DEF MainFirst, Before, Exchanges
      <3>2. phase # "watch" => jobs' = jobs
        <4>1. ~Sync(t) => jobs' = jobs
          BY LostTo, FailsTo, RefusedTo, AnsweredTo
        <4>2. ASSUME Sync(t) PROVE phase = "watch"
          BY <2>2, <2>5, <4>2, SyncTo, Moved
        <4> QED BY <4>1, <4>2
      <3>3. ASSUME phase # "watch", Pool'
            PROVE  /\ ka' # 0
                   /\ phase = "scan" => ka' = KEEPALIVE_INT_S - scanFor'
                   /\ phase \in {"prompt", "login", "connect", "auth"} => ka' = Off
        <4>1. CASE Lost(t) \/ Fails(t)
          <5>1. ka' = Off
            BY <4>1, LostTo, FailsTo
          <5>2. phase # "scan"
            <6>1. CASE Lost(t)
              BY <1>6, <2>2, <6>1, LostTo, Moved
            <6>2. CASE Fails(t)
              BY <1>6, <2>2, <6>2, FailsMoves
            <6> QED BY <4>1, <6>1, <6>2
          <5> QED BY <5>1, <5>2 DEF Off
        <4>2. CASE Refused(t)
          <5>1. /\ at[t] \in Exchanges /\ t \in waits /\ replies # <<>> /\ ~Fits(t, Head(replies))
                /\ ka' = Arms(t) /\ restore' = restore /\ authed' = authed
            BY <4>2, RefusedTo
          <5>2. link = "up" /\ Head(replies) = replies[1] /\ 1 \in DOMAIN replies
            BY <5>1, Reading
          <5>3. at[t] # "auth"
            BY <1>2, <5>1, <5>2 DEF Matched, Fits
          <5>4. phase \in {"prompt", "hash"} /\ (phase = "hash" <=> at[t] = "retrieve")
                /\ (phase = "prompt" <=> at[t] = "login")
            BY <1>0, <2>2, <2>5, <4>2, <5>3, <1>6, RefusedTo, Moved DEF Typed, Phased, MainPhases
          <5>5. at[t] = "login"
            BY <3>3, <5>1, <5>4, <2>5 DEF Typed, Phased, Pool
          <5>6. ka' = Off
            BY <5>1, <5>5 DEF Arms
          <5> QED BY <5>4, <5>6, <5>5 DEF Off
        <4>3. CASE Answered(t)
          <5>1. /\ Fits(t, Head(replies)) /\ ka' = Arms(t)
                /\ authed' = (authed \/ at[t] = "login")
            BY <4>3, AnsweredTo
          <5>2. ka' = KEEPALIVE_INT_S /\ ka' # 0
            BY <5>1, LinkAssumption DEF Arms
          <5>3. phase \notin {"prompt", "login", "connect", "auth"} /\ (phase = "scan" => ~authed)
            BY <2>2, <4>3, AnsweredTo, Moved, <2>5
          <5>4. phase = "scan" => scanFor' = 0
            BY <1>2, <1>3, <5>3 DEF MainFirst
          <5> QED BY <5>2, <5>3, <5>4, LinkAssumption
        <4>4. CASE Sync(t)
          BY <2>2, <2>5, <3>3, <4>4, SyncTo, Moved
        <4> QED BY <4>1, <4>2, <4>3, <4>4
      <3>4. MainFirst'
        <4>1. Before' => phase # "watch"
          BY <3>1 DEF Before
        <4>2. ~authed' => scanFor' = 0
          BY <1>2, <1>3 DEF MainFirst
        <4> QED BY <1>3, <3>1, <3>2, <3>3, <4>1, <4>2 DEF MainFirst
      <3> QED BY <2>3, <3>4 DEF Alone
    <2> QED BY <2>4, <2>5, ThreadsAre
  <1> QED BY <1>4, <1>6

LEMMA AloneBetween ==
    ASSUME Typed, Alone, Counted, ~SlowScan, NEW t \in Thread, Between(t)
    PROVE  Alone'
  <1>0. "main" \in Thread /\ "strand" \in Thread /\ t \in {"main", "strand"} /\ TypeOK
    BY DEF Thread, Typed
  <1>1. MainFirst /\ \A u \in Thread : Matched(u)
    BY DEF Alone
  <1>2. UNCHANGED <<restore, left, authed, ka, toScan, stored, scanFor, drops, cut, failed, missed>>
    BY BetweenTo
  <1>3. CASE Exits
    <2>1. at'["main"] = "exited" /\ at'["strand"] = "exited" /\ waits' = {}
      BY <1>3, Gone
    <2> QED BY <1>1, <1>2, <2>1, ThreadsAre DEF Alone, MainFirst, Matched, Before
  <1>4. CASE at[t] = "connect" /\ Goes(t, "auth") /\ Connect(t)
    <2>1. /\ link' = "up" /\ session' = "new" /\ requests' = <<>> /\ replies' = <<>>
          /\ fired' = fired /\ jobs' = jobs
      BY <1>4 DEF Connect, timer, files
    <2>2. /\ \A u \in Thread : u # t => ~Using(u) /\ u \notin waits
          /\ (t = "main" => at["strand"] = "idle") /\ (t = "strand" => at["main"] = "watch")
      BY <1>4, OneThread DEF Using
    <2>3. /\ at'[t] = "auth" /\ waits' = {} /\ \A u \in Thread : u # t => at'[u] = at[u]
      BY <1>0, <1>4, <2>2, Moved DEF TypeOK
    <2>4. ASSUME NEW u \in Thread PROVE Matched(u)'
      <3>1. CASE u = t
        BY <2>1, <2>3, <3>1 DEF Matched
      <3>2. CASE u # t
        BY <2>2, <2>3, <3>2 DEF Matched, Using, Exchanges
      <3> QED BY <3>1, <3>2
    <2>5. ka = Off
      BY <1>1, <1>4 DEF Matched
    <2>6. MainFirst'
      <3>1. CASE t = "main"
        BY <1>0, <1>1, <1>2, <1>4, <2>1, <2>2, <2>3, <2>5, <3>1
           DEF MainFirst, Before, Pool, Off
      <3>2. CASE t = "strand"
        BY <1>0, <1>1, <1>2, <2>2, <2>3, <3>2 DEF MainFirst, Before
      <3> QED BY <1>0, <3>1, <3>2
    <2> QED BY <2>4, <2>6 DEF Alone
  <1>5. CASE t = "main" /\ ~Exits /\ ~Connect(t)
    <2>1. /\ UNCHANGED <<link, session, requests, replies, fired, jobs>>
          /\ \/ at["main"] = "prompt" /\ Goes("main", "login")
             \/ at["main"] = "scan" /\ Goes("main", "list")
             \/ at["main"] = "hash" /\ (Goes("main", "retrieve") \/ Goes("main", "done"))
      BY <1>0, <1>5 DEF Between, Enter, ConnectFails, ScanEnds, Restore, timer, wire, files
    <2>2. /\ waits' = waits \ {"main"} /\ at'["strand"] = at["strand"]
          /\ \/ at["main"] = "prompt" /\ at'["main"] = "login"
             \/ at["main"] = "scan" /\ at'["main"] = "list"
             \/ at["main"] = "hash" /\ at'["main"] \in {"retrieve", "done"}
      BY <1>0, <2>1, Moved
    <2>3. MainFirst'
      BY <1>1, <1>2, <2>1, <2>2 DEF MainFirst, Before, Pool, Typed, Phased
    <2>4. Matched("main")'
      BY <2>2 DEF Matched
    <2>5. Matched("strand")'
      BY <1>0, <1>1, <2>2 DEF Matched, MainFirst, Before, Typed, Phased, Exchanges
    <2> QED BY <2>3, <2>4, <2>5, ThreadsAre DEF Alone
  <1>6. CASE t = "strand" /\ ~Exits /\ ~Connect(t)
    <2>1. /\ UNCHANGED <<link, session, requests, replies>>
          /\ \/ at["strand"] = "prompt" /\ Goes("strand", "login")
             \/ at["strand"] = "idle" /\ Goes("strand", "keepalive") /\ fired > 0
             \/ at["strand"] = "idle" /\ Goes("strand", "job") /\ jobs # <<>>
             \/ at["strand"] \in InHandler /\ Goes("strand", "idle")
      <3>1. CASE Enter(t)
        BY <1>6, <3>1 DEF Enter, wire
      <3>2. CASE SendKeepAlive
        BY <1>6, <3>2 DEF SendKeepAlive, wire
      <3>3. CASE StartJob
        BY <1>6, <3>3 DEF StartJob, wire
      <3>4. CASE Handle
        BY <1>6, <3>4 DEF Handle, wire, InHandler
      <3>5. ~ConnectFails(t)
        BY <1>6 DEF ConnectFails
      <3> QED BY <1>0, <1>6, <3>1, <3>2, <3>3, <3>4, <3>5 DEF Between
    <2>2. /\ waits' = waits \ {"strand"} /\ at'["main"] = at["main"]
          /\ at'["strand"] \notin {"auth", "connect"}
      BY <1>0, <2>1, Moved
    <2>3. ~Before
      BY <1>1, <2>1 DEF MainFirst, InHandler
    <2>4. MainFirst'
      BY <1>1, <1>2, <2>2, <2>3 DEF MainFirst, Before
    <2>5. Matched("strand")'
      BY <2>2 DEF Matched
    <2>6. Matched("main")'
      BY <2>2, <2>3 DEF Matched, Before, Typed, Phased, Exchanges
    <2> QED BY <2>4, <2>5, <2>6, ThreadsAre DEF Alone
  <1> QED BY <1>0, <1>3, <1>4, <1>5, <1>6 DEF Connect

LEMMA AloneWrite ==
    ASSUME Typed, Alone, Counted, ~SlowScan, NEW t \in Thread, Write(t)
    PROVE  Alone'
  <1>0. /\ Using(t) /\ "main" \in Thread /\ "strand" \in Thread
        /\ MainFirst /\ \A u \in Thread : Matched(u)
    BY WriteTo DEF Using, Thread, Alone
  <1>1. /\ at[t] \in Exchanges /\ t \notin waits /\ waits' = waits \cup {t} /\ ka' = Off
        /\ requests' = (IF link = "up" THEN Append(requests, Request(t)) ELSE requests)
        /\ UNCHANGED <<restore, at, left, authed, fired, link, session, srv, replies, jobs, scanFor>>
    BY WriteTo
  <1>2. \A u \in Thread : u # t => ~Using(u) /\ u \notin waits
    BY <1>0, OneThread
  <1>3. MainFirst'
    <2>1. Before' <=> Before
      BY <1>1 DEF Before
    <2>2. Before' => at'["main"] # "scan" \/ t = "strand"
      BY <1>1, ThreadsAre DEF Exchanges
    <2>3. Before => t # "strand"
      BY <1>0, <1>1 DEF MainFirst, Exchanges
    <2> QED BY <1>0, <1>1, <2>1, <2>2, <2>3, ThreadsAre DEF MainFirst, Off
  <1>4. Matched(t)'
    <2>1. CASE link = "down"
      BY <1>0, <1>1, <2>1 DEF Matched, Exchanges
    <2>2. CASE link = "up"
      <3>1. requests = <<>> /\ replies = <<>>
        BY <1>0, <1>1, <2>2, OneMessage
      <3>2. \A i \in DOMAIN requests' : requests'[i] = Request(t)
        BY <1>1, <2>2, <3>1, RequestIs, Appended DEF Typed, TypeOK
      <3>3. Request(t)' = Request(t)
        BY <1>1 DEF Request
      <3>4. at[t] = "auth" => session = "new"
        BY <1>0, <2>2, <3>1 DEF Matched
      <3> QED BY <1>1, <3>1, <3>2, <3>3, <3>4 DEF Matched, Exchanges
    <2> QED BY <2>1, <2>2 DEF Typed, TypeOK
  <1>5. \A u \in Thread : u # t => Matched(u)'
    BY <1>1, <1>2 DEF Matched, Using, Exchanges
  <1> QED BY <1>3, <1>4, <1>5 DEF Alone

\* In that regime a request on its way is the one that a thread waits for.
LEMMA Asked ==
    ASSUME Typed, Alone, Counted, ~SlowScan, ~Exited, ServeRequest
    PROVE  \E t \in Thread :
             /\ at[t] \in Exchanges /\ t \in waits /\ Using(t) /\ Matched(t)
             /\ Head(requests) = Request(t) /\ requests' = <<>>
             /\ replies = <<>> /\ Len(replies') = 1
             /\ Head(replies') = replies'[1] /\ DOMAIN replies' = {1}
             /\ \A u \in Thread : u # t => ~Using(u) /\ u \notin waits
  <1>1. link = "up" /\ requests # <<>> /\ requests \in Seq(Message) /\ replies \in Seq(Reply)
    BY ServeTo DEF Typed, TypeOK
  <1>2. waits # {}
    <2> SUFFICES ASSUME waits = {} PROVE FALSE
      OBVIOUS
    <2>1. Waiting = 0
      BY DEF Waiting
    <2>2. Len(requests) \in Nat /\ Len(replies) \in Nat /\ Len(requests) # 0
      BY <1>1, LenProperties, EmptySeq
    <2> QED BY <1>1, <2>1, <2>2 DEF Counted
  <1>3. PICK t \in waits : TRUE
    BY <1>2
  <1>4. t \in Thread /\ at[t] \in Exchanges /\ Using(t)
    BY DEF Typed, TypeOK, Phased, Using
  <1>5. Matched(t) /\ \A u \in Thread : u # t => ~Using(u) /\ u \notin waits
    BY <1>4, OneThread DEF Alone
  <1>6. replies = <<>> /\ Len(requests) = 1
    BY <1>1, <1>4, OneMessage
  <1>7. Head(requests) = Request(t)
    BY <1>1, <1>5, HeadAndTail DEF Matched
  <1>8. Tail(requests) = <<>>
    <2>1. Tail(requests) \in Seq(Message) /\ Len(Tail(requests)) = 0
      BY <1>1, <1>6, HeadAndTail
    <2> QED BY <2>1, EmptySeq
  <1>9. Len(replies') = 1 /\ Head(replies') = replies'[1] /\ DOMAIN replies' = {1}
    <2>1. PICK e : replies' = Append(replies, e)
      BY ServeTo
    <2>2. replies' = <<e>>
      BY <1>6, <2>1
    <2> QED BY <2>2
  <1> QED BY <1>3, <1>4, <1>5, <1>6, <1>7, <1>8, <1>9, ServeTo

LEMMA AloneServe ==
    ASSUME Typed, Alone, Counted, ~SlowScan, ServeRequest
    PROVE  Alone'
  <1>0. MainFirst /\ \A u \in Thread : Matched(u)
    BY DEF Alone
  <1>1. /\ link = "up"
        /\ UNCHANGED <<restore, at, waits, left, authed, ka, fired, link, jobs, scanFor>>
    BY ServeTo
  <1>2. MainFirst'
    BY <1>0, <1>1 DEF MainFirst, Before, Pool
  <1>3. CASE Exited
    BY <1>1, <1>2, <1>3, ThreadsAre DEF Alone, Matched, Typed, Phased, Exited, Exchanges
  <1>4. CASE ~Exited
    <2>1. PICK t \in Thread :
             /\ at[t] \in Exchanges /\ t \in waits /\ Using(t) /\ Matched(t)
             /\ Head(requests) = Request(t) /\ requests' = <<>>
             /\ replies = <<>> /\ Len(replies') = 1
             /\ Head(replies') = replies'[1] /\ DOMAIN replies' = {1}
             /\ \A u \in Thread : u # t => ~Using(u) /\ u \notin waits
      BY <1>4, Asked
    <2>2. PICK ok \in BOOLEAN :
             /\ ~ok => ~Allowed(Head(requests).type) \/ ~(TRUE \in Granted(Head(requests)))
                                                      \/ Head(requests).arg = "typed"
             /\ \E list : replies' = Append(replies,
                                  [type |-> Head(requests).type, ok |-> ok, list |-> list])
      BY ServeTo
    <2>3. replies'[1].type = Request(t).type /\ replies'[1].ok = ok /\ replies' # <<>>
      BY <2>1, <2>2
    <2>4. ASSUME at[t] = "auth" PROVE ok
      <3>1. session = "new"
        BY <1>1, <2>1, <2>4 DEF Matched
      <3>2. Head(requests) = [type |-> "AUTH", arg |-> "known"]
        BY <2>1, <2>4 DEF Request
      <3> DEFINE r == Head(requests)
      <3>3. r.type = "AUTH" /\ r.arg = "known"
        BY <3>2
      <3> HIDE DEF r
      <3>4. Allowed(r.type) /\ TRUE \in Granted(r) /\ r.arg # "typed"
        BY <3>1, <3>3 DEF Allowed, Granted
      <3> QED BY <2>2, <3>4 DEF r
    <2>5. Request(t)' = Request(t)
      BY <1>1 DEF Request
    <2>6. Matched(t)'
      BY <1>1, <2>1, <2>3, <2>4, <2>5 DEF Matched, Exchanges
    <2>7. \A u \in Thread : u # t => Matched(u)'
      BY <1>1, <2>1 DEF Matched, Using, Exchanges
    <2> QED BY <1>2, <2>6, <2>7 DEF Alone
  <1> QED BY <1>3, <1>4

LEMMA AloneRest ==
    ASSUME Typed, Alone, ~SlowScan,
           TimesOut \/ Drop \/ Fire \/ (\E f \in Files : ScanFile(f)) \/ UNCHANGED vars
    PROVE  Alone'
  <1>0. MainFirst /\ \A u \in Thread : Matched(u)
    BY DEF Alone
  <1>1. CASE TimesOut \/ Drop
    <2>1. /\ link' = "down"
          /\ UNCHANGED <<restore, at, waits, left, authed, ka, fired, jobs, scanFor>>
      BY <1>1, LinkTo
    <2> QED BY <1>0, <2>1 DEF Alone, MainFirst, Before, Pool, Matched
  <1>2. CASE Fire
    <2>1. /\ Pool /\ ~Exited /\ ka = 0 /\ ka' = Off
          /\ UNCHANGED <<restore, at, waits, left, authed, link, session, requests, replies, jobs,
                         scanFor>>
      BY <1>2, FireTo
    <2>2. ~Before
      BY <1>0, <2>1 DEF MainFirst
    <2>3. MainFirst'
      BY <1>0, <2>1, <2>2 DEF MainFirst, Before
    <2>4. ASSUME NEW t \in Thread PROVE Matched(t)'
      <3>1. Request(t)' = Request(t)
        BY <2>1 DEF Request
      <3> QED BY <1>0, <2>1, <3>1 DEF Matched
    <2> QED BY <2>3, <2>4 DEF Alone
  <1>3. CASE (\E f \in Files : ScanFile(f)) \/ UNCHANGED vars
    <2>1. UNCHANGED <<restore, at, waits, left, authed, ka, fired, link, session, requests, replies,
                      jobs, scanFor>>
      BY <1>3, ScanTo, Stutters
    <2>2. MainFirst'
      BY <1>0, <2>1 DEF MainFirst, Before, Pool
    <2>3. ASSUME NEW t \in Thread PROVE Matched(t)'
      <3>1. Request(t)' = Request(t)
        BY <2>1 DEF Request
      <3> QED BY <1>0, <2>1, <3>1 DEF Matched
    <2> QED BY <2>2, <2>3 DEF Alone
  <1> QED BY <1>1, <1>2, <1>3

LEMMA AloneTick ==
    ASSUME Typed, Alone, ~SlowScan, Tick
    PROVE  Alone'
  <1>0. MainFirst /\ \A u \in Thread : Matched(u)
    BY DEF Alone
  <1>1. /\ ka' = (IF ka > 0 THEN ka - 1 ELSE ka)
        /\ scanFor' = (IF at["main"] = "scan" /\ scanFor < KEEPALIVE_INT_S
                       THEN scanFor + 1 ELSE scanFor)
        /\ Waits("main")
        /\ at["strand"] = "idle" => jobs = <<>> /\ fired = 0 /\ ~(Pool /\ ka = 0)
        /\ UNCHANGED <<restore, at, waits, left, authed, fired, link, session, requests, replies,
                       jobs>>
    BY TickTo DEF Thread
  <1>2. ka = Off => ka' = Off
    BY <1>1 DEF Off
  <1>3. ASSUME ~SlowScan' PROVE MainFirst'
    <2>1. ~authed' => scanFor' = 0
      BY <1>0, <1>1 DEF MainFirst, Typed, Phased, Pool
    <2>2. ASSUME Before, Pool
          PROVE  /\ ka' # 0
                 /\ at["main"] = "scan" => ka' = KEEPALIVE_INT_S - scanFor'
      <3>1. CASE at["main"] = "scan"
        <4>1. ka = KEEPALIVE_INT_S - scanFor /\ scanFor \in 0..KEEPALIVE_INT_S
              /\ scanFor # KEEPALIVE_INT_S
          BY <1>0, <2>2, <3>1 DEF MainFirst, Typed, TypeOK, SlowScan
        <4>2. scanFor' = scanFor + 1 /\ ka' = ka - 1
          BY <1>1, <3>1, <4>1, LinkAssumption
        <4>3. scanFor' # KEEPALIVE_INT_S
          BY <1>3 DEF SlowScan
        <4> QED BY <4>1, <4>2, <4>3, LinkAssumption
      <3>2. CASE at["main"] # "scan"
        <4>1. at["main"] \in {"prompt", "connect"} \/ "main" \in waits
          BY <1>1, <2>2, <3>2 DEF Waits, Patient, Before, Typed, Phased, Pool, MainPhases
        <4>2. ka = Off
          BY <1>0, <2>2, <4>1 DEF MainFirst
        <4> QED BY <1>2, <3>2, <4>2 DEF Off
      <3> QED BY <3>1, <3>2
    <2> QED BY <1>0, <1>1, <1>2, <2>1, <2>2 DEF MainFirst, Before, Pool
  <1>4. ASSUME NEW t \in Thread PROVE Matched(t)'
    <2>1. Request(t)' = Request(t)
      BY <1>1 DEF Request
    <2> QED BY <1>0, <1>1, <1>2, <2>1 DEF Matched
  <1> QED BY <1>3, <1>4 DEF Alone

\* What never goes back.
LEMMA Onwards ==
    ASSUME FiniteFiles, Typed, [Next]_vars
    PROVE  /\ SlowScan => SlowScan'
           /\ drops' \in Nat /\ drops \in Nat /\ (drops' = drops \/ Drop)
           /\ restore' = restore
           /\ Exited => Exited'
  <1>0. drops \in Nat /\ drops' \in Nat
    BY TypedNext, LinkAssumption DEF Typed, TypeOK
  <1>1. SlowScan => SlowScan'
    <2>1. CASE Tick
      BY <2>1, TickTo, LinkAssumption DEF SlowScan
    <2>2. CASE ~Tick
      <3>1. scanFor' = scanFor
        BY <2>2, Steps, ServeTo, LinkTo, FireTo, ScanTo, WriteTo, LostTo, FailsTo, RefusedTo,
           AnsweredTo, SyncTo, BetweenTo, Stutters DEF FiniteFiles
      <3> QED BY <3>1 DEF SlowScan
    <2> QED BY <2>1, <2>2
  <1>2. drops' = drops \/ Drop
    BY Steps, ServeTo, FireTo, ScanTo, WriteTo, LostTo, FailsTo, RefusedTo, TickTo,
       AnsweredTo, SyncTo, BetweenTo, Stutters DEF FiniteFiles, TimesOut
  <1>3. Drop => drops' = drops + 1
    BY DEF Drop
  <1>4. restore' = restore
    BY Steps, ServeTo, FireTo, ScanTo, WriteTo, LostTo, FailsTo, RefusedTo, TickTo, LinkTo,
       AnsweredTo, SyncTo, BetweenTo, Stutters DEF FiniteFiles
  <1>5. Exited => Exited'
    <2> SUFFICES ASSUME Exited PROVE Exited'
      OBVIOUS
    <2>1. \A t \in Thread : at[t] = "exited"
      BY ThreadsAre DEF Typed, Phased, Exited
    <2>2. /\ ~\E t \in Thread : Lost(t) \/ Fails(t) \/ Refused(t) \/ Answered(t) \/ Sync(t)
          /\ ~\E t \in Thread : Between(t)
      BY <2>1, LostTo, FailsTo, RefusedTo, AnsweredTo, SyncTo, BetweenTo
         DEF FiniteFiles, Exchanges, InHandler
    <2>3. at' = at
      BY <2>2, Steps, ServeTo, FireTo, ScanTo, WriteTo, TickTo, LinkTo, Stutters
    <2> QED BY <2>3 DEF Exited
  <1> QED BY <1>0, <1>1, <1>2, <1>3, <1>4, <1>5

LEMMA AloneNext ==
    ASSUME FiniteFiles, Typed, Alone, Counted, [Next]_vars
    PROVE  Alone'
  <1>1. CASE SlowScan
    BY <1>1, Onwards DEF Alone
  <1>2. CASE ~SlowScan
    BY <1>2, Steps, AloneServe, AloneRest, AloneTick, AloneWrite, AloneExchange, AloneBetween
       DEF FiniteFiles
  <1> QED BY <1>1, <1>2

(***************************************************************************)
(* A thread waits for every message on its way.                            *)
(***************************************************************************)

LEMMA WaitsFor ==
    ASSUME Typed, NEW t \in Thread
    PROVE  /\ Waiting \in Nat
           /\ waits' = waits \ {t} /\ t \in waits => Waiting' = Waiting - 1
           /\ waits' = waits \ {t} /\ t \notin waits => Waiting' = Waiting
           /\ waits' = waits \cup {t} /\ t \notin waits => Waiting' = Waiting + 1
           /\ waits' = waits => Waiting' = Waiting
  <1>1. t = "main" \/ t = "strand"
    BY ThreadsAre
  <1> QED BY <1>1 DEF Waiting

\* The regimes do not come back.
Regime == (~SlowScan \/ Shared) /\ ~Exited

LEMMA RegimeBefore ==
    ASSUME FiniteFiles, Typed, [Next]_vars, Regime'
    PROVE  Regime /\ (SlowScan => ~failed /\ drops = 0)
  <1>1. failed => failed'
    BY Steps, ServeTo, LinkTo, FireTo, ScanTo, WriteTo, LostTo, FailsTo, RefusedTo,
       AnsweredTo, SyncTo, BetweenTo, TickTo, Stutters DEF FiniteFiles
  <1>2. Shared' => ~failed /\ drops = 0
    <2>1. drops' = 0 => drops = 0
      BY Onwards DEF Drop
    <2> QED BY <1>1, <2>1 DEF Shared
  <1> QED BY <1>2, Onwards DEF Regime, Shared

LEMMA CountedNext ==
    ASSUME FiniteFiles, Typed, Alone, Counted, Beside, [Next]_vars
    PROVE  Counted'
  <1> SUFFICES ASSUME Regime', link' = "up"
               PROVE  Len(requests') + Len(replies') = Waiting' /\ (replies' # <<>> => srv' = TIMEOUT)
    BY DEF Counted, Regime
  <1>0. Regime /\ (SlowScan => ~failed /\ drops = 0)
    BY RegimeBefore
  <1>1. link = "up" => /\ Len(requests) + Len(replies) = Waiting
                       /\ replies # <<>> => srv = TIMEOUT
    BY <1>0 DEF Counted, Regime
  <1>2. /\ requests \in Seq(Message) /\ replies \in Seq(Reply) /\ waits \subseteq Thread
        /\ Len(requests) \in Nat /\ Len(replies) \in Nat
    BY LenProperties DEF Typed, TypeOK
  <1>3. CASE ServeRequest
    <2>1. /\ link = "up" /\ requests # <<>> /\ requests' = Tail(requests) /\ srv' = TIMEOUT
          /\ waits' = waits
      BY <1>3, ServeTo
    <2>2. replies' \in Seq(Reply)
      BY <1>3, TypedNext DEF Typed, TypeOK
    <2>3. PICK e : replies' = Append(replies, e)
      BY <1>3, ServeTo
    <2>4. Len(replies') = Len(replies) + 1
      BY <1>2, <2>3
    <2>5. Len(requests') = Len(requests) - 1
      BY <1>2, <2>1, HeadAndTail
    <2>6. Waiting' = Waiting
      BY <2>1 DEF Waiting
    <2> QED BY <1>1, <1>2, <2>1, <2>4, <2>5, <2>6
  <1>4. CASE TimesOut \/ Drop
    BY <1>4, LinkTo
  <1>5. CASE \E t \in Thread : Write(t)
    <2>1. PICK t \in Thread : Write(t)
      BY <1>5
    <2>2. /\ t \notin waits /\ waits' = waits \cup {t} /\ link' = link /\ replies' = replies
          /\ srv' = srv /\ at[t] \in Exchanges
          /\ requests' = (IF link = "up" THEN Append(requests, Request(t)) ELSE requests)
      BY <2>1, WriteTo
    <2>3. Len(requests') = Len(requests) + 1
      BY <1>2, <2>2, RequestIs, Appended
    <2>4. Waiting' = Waiting + 1 /\ Waiting \in Nat
      BY <2>2, WaitsFor
    <2> QED BY <1>1, <1>2, <2>2, <2>3, <2>4
  <1>6. ASSUME NEW t \in Thread, Lost(t) \/ Fails(t)
        PROVE  FALSE
    <2>1. link = "up" /\ at[t] \in Exchanges
      BY <1>6, LostTo, FailsTo
    <2>2. Fails(t) /\ Overlap /\ failed'
      BY <1>6, <2>1, LostTo, FailsTo
    <2>3. ~SlowScan
      BY <2>2, Onwards DEF Regime, Shared
    <2>4. Using(t)
      BY <2>1 DEF Using
    <2> QED BY <2>2, <2>3, <2>4, OneThread
  <1>7. ASSUME NEW t \in Thread, Refused(t) \/ Answered(t) \/ Sync(t)
        PROVE  Len(requests') + Len(replies') = Waiting' /\ (replies' # <<>> => srv' = TIMEOUT)
    <2>1. /\ t \in waits /\ replies # <<>> /\ replies' = Tail(replies)
          /\ srv' = srv /\ requests' = requests /\ link' = link
      BY <1>7, RefusedTo, AnsweredTo, SyncTo DEF FiniteFiles
    <2>2. ~Exits
      BY Gone DEF Regime
    <2>3. waits' = waits \ {t}
      BY <1>7, <2>2, ThreadMoves DEF FiniteFiles
    <2>4. Len(replies') = Len(replies) - 1
      BY <1>2, <2>1, HeadAndTail
    <2>5. Waiting' = Waiting - 1 /\ Waiting \in Nat
      BY <2>1, <2>3, WaitsFor
    <2> QED BY <1>1, <1>2, <2>1, <2>4, <2>5
  <1>8. ASSUME NEW t \in Thread, Between(t)
        PROVE  Len(requests') + Len(replies') = Waiting' /\ (replies' # <<>> => srv' = TIMEOUT)
    <2>1. ~Exits
      BY Gone DEF Regime
    <2>2. CASE Connect(t)
      <3>1. at[t] = "connect" /\ Goes(t, "auth") /\ requests' = <<>> /\ replies' = <<>>
        BY <2>2 DEF Connect
      <3>2. ~SlowScan
        BY <1>0, <3>1, ThreadsAre DEF Regime, Beside
      <3>3. waits \subseteq {t} /\ waits' = waits \ {t}
        BY <3>1, <3>2, OneThread, Moved DEF Using
      <3>4. Waiting' = 0
        BY <3>3 DEF Waiting
      <3>5. Len(requests') = 0 /\ Len(replies') = 0
        BY <3>1, EmptySeq
      <3> QED BY <3>1, <3>4, <3>5
    <2>3. CASE ~Connect(t)
      <3>1. UNCHANGED <<link, requests, replies, srv>>
        BY <1>8, <2>3 DEF Between, Enter, ConnectFails, ScanEnds, Restore, SendKeepAlive, StartJob,
                          Handle, wire
      <3>2. waits' = waits \ {t} /\ t \notin waits
        <4>1. waits' = waits \ {t}
          BY <1>8, <2>1, ThreadMoves DEF FiniteFiles
        <4>2. at[t] = "prompt" \/ at[t] = "connect" \/ at[t] = "scan" \/ at[t] = "hash"
              \/ at[t] = "idle" \/ at[t] = "granted" \/ at[t] = "refused"
          BY <1>8 DEF Between, Enter, Connect, ConnectFails, ScanEnds, Restore, SendKeepAlive,
                      StartJob, Handle
        <4> QED BY <4>1, <4>2 DEF Typed, Phased, Exchanges
      <3>3. Waiting' = Waiting
        BY <3>2, WaitsFor
      <3> QED BY <1>1, <3>1, <3>3
    <2> QED BY <2>2, <2>3
  <1>9. CASE Tick
    <2>1. UNCHANGED <<at, waits, link, requests, replies>> /\ \A t \in Thread : Waits(t)
      BY <1>9, TickTo
    <2>2. Waiting' = Waiting
      BY <2>1 DEF Waiting
    <2>3. replies = <<>>
      <3> SUFFICES ASSUME replies # <<>> PROVE FALSE
        OBVIOUS
      <3>1. Waiting # 0
        BY <1>1, <1>2, <2>1, LenProperties, EmptySeq
      <3>2. PICK t \in Thread : t \in waits
        BY <3>1 DEF Waiting, Thread
      <3>3. at[t] \in Exchanges
        BY <3>2 DEF Typed, Phased
      <3> QED BY <1>0, <2>1, <3>3, Waiter DEF Regime
    <2> QED BY <1>1, <2>1, <2>2, <2>3
  <1>10. CASE Fire \/ (\E f \in Files : ScanFile(f)) \/ UNCHANGED vars
    <2>1. UNCHANGED <<waits, link, srv, requests, replies>>
      BY <1>10, FireTo, ScanTo, Stutters
    <2>2. Waiting' = Waiting
      BY <2>1 DEF Waiting
    <2> QED BY <1>1, <2>1, <2>2
  <1> QED BY <1>3, <1>4, <1>5, <1>6, <1>7, <1>8, <1>9, <1>10, Steps

(***************************************************************************)
(* After a slow scan: KEEP_ALIVEs, and nothing else, beside the main       *)
(* thread.                                                                 *)
(***************************************************************************)

LEMMA BesideNext ==
    ASSUME FiniteFiles, Typed, Alone, Beside, Alive, Whole, [Next]_vars
    PROVE  Beside'
  <1> SUFFICES ASSUME Shared'
               PROVE  /\ link' = "up" /\ Pool'
                      /\ at'["main"] \in {"scan", "list", "watch", "exited"}
                      /\ at'["strand"] \in {"idle", "keepalive", "exited"}
    BY DEF Beside
  <1>0. drops = 0 /\ drops' = 0 /\ ~failed /\ ~failed' /\ IsFiniteSet(Files)
    <2>1. failed => failed'
      BY Steps, ServeTo, LinkTo, FireTo, ScanTo, WriteTo, LostTo, FailsTo, RefusedTo,
         AnsweredTo, SyncTo, BetweenTo, TickTo, Stutters DEF FiniteFiles
    <2> QED BY <2>1, Onwards DEF Shared, Drop, FiniteFiles
  <1>1. CASE Tick /\ ~SlowScan
    <2>1. /\ at["main"] = "scan"
          /\ UNCHANGED <<restore, at, authed, link>>
      BY <1>1, TickTo DEF Shared, SlowScan
    <2>2. at["strand"] = "idle"
      BY <1>1, <2>1 DEF Alone, MainFirst, Before
    <2>3. link = "up"
      BY <1>0, <1>1, <2>1 DEF Whole, Crossed
    <2>4. Pool
      BY <2>1 DEF Typed, Phased
    <2> QED BY <2>1, <2>2, <2>3, <2>4 DEF Pool
  <1>2. CASE ~Tick \/ SlowScan
    <2>0. SlowScan
      <3>1. ~Tick => scanFor' = scanFor
        BY Steps, ServeTo, LinkTo, FireTo, ScanTo, WriteTo, LostTo, FailsTo, RefusedTo,
           AnsweredTo, SyncTo, BetweenTo, Stutters DEF FiniteFiles
      <3> QED BY <1>2, <3>1 DEF Shared, SlowScan
    <2>1. /\ link = "up" /\ Pool
          /\ at["main"] \in {"scan", "list", "watch", "exited"}
          /\ at["strand"] \in {"idle", "keepalive", "exited"}
      BY <1>0, <2>0 DEF Beside, Shared
    <2>2. srv > 0 /\ jobs = <<>>
      BY <1>0, <2>0, <2>1 DEF Alive, Whole, Crossed
    <2>3. CASE ServeRequest \/ Fire \/ Tick \/ (\E f \in Files : ScanFile(f)) \/ UNCHANGED vars
               \/ \E t \in Thread : Write(t)
      <3>1. UNCHANGED <<restore, at, authed, link>>
        BY <2>3, ServeTo, FireTo, TickTo, ScanTo, Stutters, WriteTo
      <3> QED BY <2>1, <3>1 DEF Pool
    <2>4. CASE TimesOut \/ Drop
      <3>1. ~Drop
        BY <1>0 DEF Drop
      <3>2. ~TimesOut
        BY <2>2 DEF TimesOut
      <3> QED BY <2>4, <3>1, <3>2
    <2>5. ASSUME NEW t \in Thread, Lost(t) \/ Fails(t) PROVE FALSE
      BY <1>0, <2>1, <2>5, LostTo, FailsTo
    <2>6. ASSUME NEW t \in Thread, Refused(t) \/ Answered(t) \/ Sync(t)
          PROVE  /\ link' = link /\ Pool'
                 /\ at'["main"] \in {"scan", "list", "watch", "exited"}
                 /\ at'["strand"] \in {"idle", "keepalive", "exited"}
      <3>1. link' = link /\ Pool'
        BY <1>0, <2>1, <2>6, RefusedTo, AnsweredTo, SyncTo DEF Pool
      <3>2. \/ t = "main" /\ at[t] = "list"
            \/ t = "strand" /\ at[t] = "keepalive"
        BY <1>0, <2>1, <2>6, RefusedTo, AnsweredTo, SyncTo, ThreadsAre DEF Exchanges
      <3>3. CASE Exits
        BY <3>1, <3>3, Gone
      <3>4. CASE ~Exits /\ t = "main"
        <4>1. Sync(t)
          BY <2>6, <3>2, <3>4, RefusedTo, AnsweredTo
        <4>2. Goes(t, "watch")
          BY <1>0, <3>4, <4>1, SyncTo
        <4> QED BY <2>1, <3>1, <3>4, <4>2, Moved
      <3>5. CASE ~Exits /\ t = "strand"
        <4>1. Goes(t, "idle")
          BY <1>0, <2>6, <3>2, <3>5, RefusedTo, AnsweredTo, SyncTo
        <4> QED BY <2>1, <3>1, <3>5, <4>1, Moved
      <3> QED BY <3>2, <3>3, <3>4, <3>5
    <2>7. ASSUME NEW t \in Thread, Between(t)
          PROVE  /\ link' = link /\ Pool'
                 /\ at'["main"] \in {"scan", "list", "watch", "exited"}
                 /\ at'["strand"] \in {"idle", "keepalive", "exited"}
      <3>1. /\ link' = link /\ restore' = restore /\ authed' = authed
            /\ \/ t = "main" /\ Goes(t, "list")
               \/ t = "strand" /\ Goes(t, "keepalive")
        BY <2>1, <2>2, <2>7, BetweenTo, ThreadsAre DEF InHandler
      <3>2. CASE t = "main"
        BY <2>1, <3>1, <3>2, Moved DEF Pool
      <3>3. CASE t = "strand"
        BY <2>1, <3>1, <3>3, Moved DEF Pool
      <3> QED BY <3>2, <3>3, ThreadsAre
    <2> QED BY <2>1, <2>3, <2>4, <2>5, <2>6, <2>7, Steps
  <1> QED BY <1>1, <1>2

(***************************************************************************)
(* The client's files and the server's.                                    *)
(***************************************************************************)

\* While the main thread scans and the links are all right, the strand is in no
\* exchange but that of a KEEP_ALIVE, on a link that is up.
LEMMA Scanning ==
    ASSUME Typed, Alone, Beside, Whole, ~Crossed, at["main"] = "scan"
    PROVE  /\ at["strand"] \in {"idle", "keepalive"} /\ ~failed
           /\ SlowScan => drops = 0 /\ link = "up"
           /\ ~SlowScan => at["strand"] = "idle"
  <1>1. drops \in Nat
    BY LinkAssumption DEF Typed, TypeOK
  <1>2. SlowScan => drops = 0
    BY <1>1 DEF Crossed
  <1> QED BY <1>2 DEF Whole, Alone, MainFirst, Before

LEMMA WholeExchange ==
    ASSUME IsFiniteSet(Files), Typed, Alone, Beside, Whole, ~Crossed, NEW t \in Thread,
           Lost(t) \/ Fails(t) \/ Refused(t) \/ Answered(t) \/ Sync(t)
    PROVE  Whole'
  <1>0. /\ stored = Files /\ known \cup toScan = Files /\ jobs = <<>> /\ ~inJob
        /\ Pool /\ at["main"] \notin {"scan", "exited"} => toScan = {}
        /\ ~authed /\ failed => link = "down"
    BY DEF Whole
  <1>1. /\ UNCHANGED <<restore, link, requests, toScan, stored, inJob, drops>>
        /\ authed => authed'
        /\ at[t] \in Exchanges /\ (~Fails(t) => failed' = failed)
    BY LostTo, FailsTo, RefusedTo, AnsweredTo, SyncTo DEF Exchanges
  <1>2. t = "strand" => Pool
    BY <1>1, StrandInPool DEF Exchanges
  <1>3. known' \cup toScan' = Files /\ jobs' = <<>>
    <2>1. CASE Sync(t)
      <3>1. /\ at[t] = "list" /\ Head(replies).list \subseteq Files
            /\ known' = known \cup Head(replies).list
            /\ Head(replies).list \subseteq known => jobs' = jobs
        BY <2>1, SyncTo
      <3>2. Pool /\ at["main"] \notin {"scan", "exited"}
        <4>1. CASE t = "main"
          BY <3>1, <4>1 DEF Typed, Phased
        <4>2. CASE t = "strand"
          BY <1>2, <3>1, <4>2, Scanning DEF Typed, Phased, Exited
        <4> QED BY <4>1, <4>2, ThreadsAre
      <3> QED BY <1>0, <1>1, <3>1, <3>2
    <2>2. CASE ~Sync(t)
      <3>1. known' = known /\ jobs' = jobs
        BY <2>2, LostTo, FailsTo, RefusedTo, AnsweredTo
      <3> QED BY <1>0, <1>1, <3>1
    <2> QED BY <2>1, <2>2
  <1>4. at["main"] = "scan" =>
          /\ t = "strand" /\ at[t] = "keepalive" /\ SlowScan /\ link = "up" /\ ~failed
          /\ ~Overlap
    <2> SUFFICES ASSUME at["main"] = "scan"
                 PROVE  /\ t = "strand" /\ at[t] = "keepalive" /\ SlowScan /\ link = "up" /\ ~failed
                        /\ ~Overlap
      OBVIOUS
    <2>1. t = "strand"
      BY <1>1, ThreadsAre DEF Exchanges
    <2>2. ~Overlap
      BY DEF Overlap, Using, Exchanges, Thread
    <2> QED BY <1>1, <2>1, <2>2, Scanning DEF Exchanges
  <1>5. ~authed' /\ failed' => link' = "down"
    <2>1. CASE Fails(t)
      <3>1. ~authed => ~Using("strand")
        BY StrandInPool DEF Pool, Using, Exchanges
      <3>2. ~authed => ~Overlap
        BY <3>1 DEF Overlap, Thread
      <3> QED BY <1>1, <2>1, <3>2, FailsTo
    <2>2. CASE ~Fails(t)
      BY <1>0, <1>1, <2>2
    <2> QED BY <2>1, <2>2
  <1>6. CASE Exits
    <2>1. at'["main"] = "exited"
      BY <1>6, Gone
    <2> QED BY <1>0, <1>1, <1>3, <1>5, <2>1 DEF Whole
  <1>7. CASE ~Exits /\ t = "strand"
    <2>1. at'["main"] = at["main"]
      BY <1>7, ThreadMoves
    <2>2. at["main"] = "scan" => ~failed' /\ at'["strand"] = "idle"
      <3> SUFFICES ASSUME at["main"] = "scan" PROVE ~failed' /\ at'["strand"] = "idle"
        OBVIOUS
      <3>1. ~Lost(t) /\ ~Fails(t)
        BY <1>4, LostTo, FailsTo
      <3>2. Goes(t, "idle") /\ failed' = failed
        BY <1>4, <1>7, <3>1, RefusedTo, AnsweredTo, SyncTo
      <3> QED BY <1>4, <1>7, <3>2, Moved
    <2>3. Pool' <=> Pool
      BY <1>1, <1>2, <1>7 DEF Pool
    <2>4. at["main"] = "scan" => link' = "up"
      BY <1>1, <1>4
    <2> QED BY <1>0, <1>1, <1>3, <1>5, <2>1, <2>2, <2>3, <2>4 DEF Whole
  <1>8. CASE ~Exits /\ t = "main"
    <2>1. at["main"] \notin {"scan", "exited"}
      BY <1>1, <1>8 DEF Exchanges
    <2>2. at'["main"] = "scan" => Answered(t) /\ at[t] = "login" /\ ~authed
      <3> SUFFICES ASSUME at'["main"] = "scan" PROVE Answered(t) /\ at[t] = "login" /\ ~authed
        OBVIOUS
      <3>1. ~Lost(t)
        BY <1>8, LostTo, Moved
      <3>2. ~Fails(t)
        BY <1>8, FailsMoves
      <3>3. ~Refused(t)
        BY <1>8, RefusedTo, Moved
      <3>4. ~Sync(t)
        BY <1>8, SyncTo, Moved
      <3>5. at[t] \in {"login", "auth"} /\ ~authed
        BY <1>8, <3>1, <3>2, <3>3, <3>4, AnsweredTo, Moved
      <3> QED BY <1>8, <3>1, <3>2, <3>3, <3>4, <3>5 DEF Typed, Phased, Pool
    <2>3. at'["main"] = "scan" =>
            /\ ~failed' /\ (drops' = 0 => link' = "up") /\ at'["strand"] = "idle"
      <3> SUFFICES ASSUME at'["main"] = "scan"
                   PROVE  ~failed' /\ link' = "up" /\ at'["strand"] = "idle"
        OBVIOUS
      <3>1. replies # <<>> /\ failed' = failed /\ link' = link
        BY <2>2, AnsweredTo
      <3>2. link = "up"
        BY <3>1, Reading
      <3>3. at["strand"] = "idle"
        BY <2>1, <2>2 DEF Typed, Phased, Exited, Pool
      <3> QED BY <1>0, <1>8, <2>2, <3>1, <3>2, <3>3, ThreadMoves
    <2>4. Pool' /\ at'["main"] # "scan" => toScan' = {}
      <3> SUFFICES ASSUME Pool', at'["main"] # "scan" PROVE Pool
        BY <1>0, <1>1, <2>1
      <3>1. CASE Answered(t)
        <4>1. at[t] = "login" /\ ~authed => Goes(t, "restore") \/ Goes(t, "scan")
          BY <3>1, AnsweredTo
        <4>2. at[t] = "login" /\ ~authed => restore
          BY <1>8, <3>1, <4>1, AnsweredTo, Moved
        <4> QED BY <1>1, <3>1, <4>2, AnsweredTo DEF Pool
      <3>2. CASE ~Answered(t)
        BY <1>1, <3>2, LostTo, FailsTo, RefusedTo, SyncTo DEF Pool
      <3> QED BY <3>1, <3>2
    <2> QED BY <1>0, <1>1, <1>3, <1>5, <2>3, <2>4 DEF Whole
  <1> QED BY <1>6, <1>7, <1>8, ThreadsAre

LEMMA WholeBetween ==
    ASSUME IsFiniteSet(Files), Typed, Alone, Beside, Whole, ~Crossed, NEW t \in Thread, Between(t)
    PROVE  Whole'
  <1>0. /\ stored = Files /\ known \cup toScan = Files /\ jobs = <<>> /\ ~inJob
        /\ Pool /\ at["main"] \notin {"scan", "exited"} => toScan = {}
        /\ ~authed /\ failed => link = "down"
        /\ \A i \in DOMAIN requests : requests[i].type # "ERASE"
    BY DEF Whole
  <1>1. /\ UNCHANGED <<restore, authed, toScan, stored, drops, failed>>
        /\ at[t] \notin InHandler \cup {"exited"}
    <2>1. at["strand"] \notin InHandler
      BY <1>0 DEF Typed, Phased
    <2> QED BY <2>1, BetweenTo, ThreadsAre DEF InHandler, Typed, Phased, MainPhases
  <1>2. /\ jobs' = jobs /\ known' = known /\ inJob' = inJob
        /\ \/ link' = link /\ requests' = requests
           \/ link' = "up" /\ requests' = <<>> /\ at[t] = "connect"
    BY <1>0, <1>1, BetweenTo
  <1>3. \A i \in DOMAIN requests' : requests'[i].type # "ERASE"
    BY <1>0, <1>2
  <1>4. ~authed' /\ failed' => link' = "down"
    <2>1. at[t] = "connect" => authed
      BY StrandInPool, ThreadsAre DEF Typed, Phased, Pool
    <2> QED BY <1>0, <1>1, <1>2, <2>1
  <1>5. at["main"] = "scan" => /\ ~failed' /\ (drops' = 0 => link' = "up")
                               /\ at["strand"] \in {"idle", "keepalive"}
    <2>1. at["main"] = "scan" => ~failed /\ (drops = 0 => link = "up")
                                 /\ at["strand"] \in {"idle", "keepalive"}
      BY DEF Whole
    <2> QED BY <1>1, <1>2, <2>1
  <1>6. CASE Exits
    <2>1. at'["main"] = "exited"
      BY <1>6, Gone
    <2> QED BY <1>0, <1>1, <1>2, <1>3, <1>4, <2>1 DEF Whole
  <1>7. CASE ~Exits /\ t = "strand"
    <2>1. at'["main"] = at["main"]
      BY <1>7, ThreadMoves
    <2>2. at["main"] = "scan" => at'["strand"] \in {"idle", "keepalive"}
      <3>1. at["main"] = "scan" => Goes(t, "keepalive") \/ Goes(t, "job")
        BY <1>1, <1>5, <1>7, BetweenTo
      <3>2. ~Goes(t, "job")
        <4>1. ASSUME Goes(t, "job") PROVE FALSE
          <5>1. at'["strand"] = "job"
            BY <1>7, <4>1, Moved
          <5>2. jobs' = <<>> /\ ~inJob'
            BY <1>0, <1>2
          <5>3. inJob'
            BY <1>7, <4>1, <5>1, TypedBetween DEF Typed, Phased, InHandler
          <5> QED BY <5>2, <5>3
        <4> QED BY <4>1
      <3> QED BY <1>7, <3>1, <3>2, Moved
    <2> QED BY <1>0, <1>1, <1>2, <1>3, <1>4, <1>5, <2>1, <2>2 DEF Whole, Pool
  <1>8. CASE ~Exits /\ t = "main"
    <2>1. at'["main"] # "scan" /\ (at["main"] = "scan" => toScan = {})
      BY <1>1, <1>8, BetweenTo, Moved
    <2>2. at["main"] # "exited"
      BY <1>1, <1>8
    <2>3. Pool' => toScan' = {}
      BY <1>0, <1>1, <2>1, <2>2 DEF Pool
    <2>4. stored' = Files /\ known' \cup toScan' = Files /\ jobs' = <<>> /\ ~inJob'
      BY <1>0, <1>1, <1>2
    <2> QED BY <1>3, <1>4, <2>1, <2>3, <2>4 DEF Whole
  <1> QED BY <1>6, <1>7, <1>8, ThreadsAre

LEMMA WholeServe ==
    ASSUME Typed, Whole, ~Crossed, ServeRequest
    PROVE  Whole'
  <1>1. /\ requests # <<>> /\ requests' = Tail(requests) /\ requests \in Seq(Message)
        /\ Head(requests).type # "ERASE" => stored' = stored
        /\ UNCHANGED <<restore, at, authed, link, toScan, known, jobs, inJob, drops, failed>>
    BY ServeTo DEF Typed, TypeOK
  <1>2. \A i \in DOMAIN requests : requests[i].type # "ERASE"
    BY DEF Whole
  <1>3. Head(requests).type # "ERASE"
    BY <1>1, <1>2, HeadAndTail
  <1>4. \A i \in DOMAIN requests' : requests'[i].type # "ERASE"
    BY <1>1, <1>2, HeadAndTail
  <1> QED BY <1>1, <1>3, <1>4 DEF Whole, Pool

LEMMA WholeWrite ==
    ASSUME Typed, Whole, ~Crossed, NEW t \in Thread, Write(t)
    PROVE  Whole'
  <1>1. /\ at[t] \in Exchanges /\ requests \in Seq(Message)
        /\ requests' = (IF link = "up" THEN Append(requests, Request(t)) ELSE requests)
        /\ UNCHANGED <<restore, at, authed, link, toScan, known, stored, jobs, inJob, drops, failed>>
    BY WriteTo DEF Typed, TypeOK
  <1>2. \A i \in DOMAIN requests : requests[i].type # "ERASE"
    BY DEF Whole
  <1>3. Request(t) \in Message /\ Request(t).type # "ERASE"
    <2>1. at[t] # "job"
      BY ThreadsAre DEF Whole, Typed, Phased, MainPhases, InHandler
    <2> QED BY <1>1, <2>1, RequestIs
  <1>4. \A i \in DOMAIN requests' : requests'[i].type # "ERASE"
    BY <1>1, <1>2, <1>3, Appended
  <1> QED BY <1>1, <1>4 DEF Whole, Pool

LEMMA WholeNext ==
    ASSUME FiniteFiles, Typed, Alone, Beside, Alive, Whole, [Next]_vars
    PROVE  Whole'
  <1> SUFFICES ASSUME ~Crossed' PROVE Whole'
    BY DEF Whole
  <1>0. ~Crossed /\ IsFiniteSet(Files)
    <2>1. SlowScan /\ drops > 0 => SlowScan' /\ drops' > 0
      BY Onwards DEF Drop
    <2> QED BY <2>1 DEF Crossed, FiniteFiles
  <1>1. CASE TimesOut \/ Drop
    <2>1. /\ link = "up" /\ link' = "down" /\ requests' = <<>>
          /\ UNCHANGED <<restore, at, authed, toScan, known, stored, jobs, inJob, failed>>
      BY <1>1, LinkTo
    <2>2. at["main"] = "scan" => drops' # 0
      <3> SUFFICES ASSUME at["main"] = "scan", drops' = 0 PROVE FALSE
        OBVIOUS
      <3>1. Pool /\ ~failed
        BY <1>0 DEF Typed, Phased, Whole
      <3>2. srv > 0
        BY <1>0, <2>1, <3>1 DEF Alive
      <3>3. Drop
        BY <1>1, <3>2 DEF TimesOut
      <3> QED BY <3>3, Onwards DEF Drop
    <2>3. at["main"] = "scan" => ~failed /\ at["strand"] \in {"idle", "keepalive"}
      BY <1>0 DEF Whole
    <2>4. \A i \in DOMAIN requests' : requests'[i].type # "ERASE"
      BY <2>1
    <2> QED BY <1>0, <2>1, <2>2, <2>3, <2>4 DEF Whole, Pool
  <1>2. CASE \E f \in Files : ScanFile(f)
    <2>1. PICK f \in Files : ScanFile(f)
      BY <1>2
    <2>2. /\ at["main"] = "scan" /\ toScan' = toScan \ {f} /\ known' = known \cup {f}
          /\ UNCHANGED <<restore, at, authed, link, requests, stored, jobs, inJob, drops, failed>>
      BY <2>1, ScanTo
    <2> QED BY <1>0, <2>2 DEF Whole, Pool
  <1>3. CASE Fire \/ Tick \/ UNCHANGED vars
    <2>1. UNCHANGED <<restore, at, authed, link, requests, toScan, known, stored, jobs, inJob,
                      drops, failed>>
      BY <1>3, FireTo, TickTo, Stutters
    <2> QED BY <1>0, <2>1 DEF Whole, Pool
  <1> QED BY <1>0, <1>1, <1>2, <1>3, Steps, WholeServe, WholeWrite, WholeExchange, WholeBetween

(***************************************************************************)
(* The keep-alive timer and the server's.                                  *)
(***************************************************************************)

\* The invariant's regime while nothing has failed.
Fine == ~failed /\ ~Crossed

LEMMA FineIs ==
    ASSUME Typed, Fine
    PROVE  (~SlowScan \/ Shared) /\ (SlowScan => Shared)
  <1>1. drops \in Nat
    BY LinkAssumption DEF Typed, TypeOK
  <1> QED BY <1>1 DEF Fine, Crossed, Shared

LEMMA FineBefore ==
    ASSUME FiniteFiles, Typed, [Next]_vars, Fine'
    PROVE  Fine
  <1>1. failed => failed'
    BY Steps, ServeTo, LinkTo, FireTo, ScanTo, WriteTo, LostTo, FailsTo, RefusedTo,
       AnsweredTo, SyncTo, BetweenTo, TickTo, Stutters DEF FiniteFiles
  <1>2. SlowScan /\ drops > 0 => SlowScan' /\ drops' > 0
    BY Onwards DEF Drop
  <1> QED BY <1>1, <1>2 DEF Fine, Crossed

\* The server has more time left than the client.
InTime ==
    /\ srv > 0
    /\ ka # Off => srv >= ka + (TIMEOUT - KEEPALIVE_INT_S)
    /\ ka = Off /\ ~Exited => Busy

LEMMA FullTime ==
    ASSUME ka \in {Off} \cup 0..KEEPALIVE_INT_S
    PROVE  TIMEOUT > 0 /\ (ka # Off => TIMEOUT >= ka + (TIMEOUT - KEEPALIVE_INT_S))
  BY LinkAssumption DEF Off

\* A reply read in time sets the timer.
LEMMA AliveReads ==
    ASSUME IsFiniteSet(Files), Typed, Alone, Counted, Beside, Alive, Fine, NEW t \in Thread,
           Refused(t) \/ Answered(t) \/ Sync(t), Pool'
    PROVE  InTime' /\ \A u \in Thread : at'[u] \notin {"prompt", "login"}
  <1>1. /\ at[t] \in Exchanges /\ t \in waits /\ replies # <<>> /\ ka' = Arms(t)
        /\ srv' = srv /\ restore' = restore
    BY RefusedTo, AnsweredTo, SyncTo DEF Exchanges
  <1>2. ~Exited /\ link = "up" /\ Head(replies) = replies[1] /\ 1 \in DOMAIN replies
    BY <1>1, Reading, ThreadsAre DEF Typed, Phased, Exited, Exchanges
  <1>3. srv = TIMEOUT
    BY <1>1, <1>2, FineIs DEF Counted
  <1>4. ~Pool => Answered(t) /\ at[t] = "login" /\ ~authed
    BY <1>1, RefusedTo, AnsweredTo, SyncTo DEF Pool
  <1>5. Pool => at[t] # "login" /\ \A u \in Thread : at[u] \notin {"prompt", "login"}
    BY DEF Alive, Fine
  <1>6. ka' = KEEPALIVE_INT_S
    BY <1>1, <1>4, <1>5, AnsweredTo DEF Arms
  <1>7. InTime'
    BY <1>1, <1>3, <1>6, LinkAssumption DEF InTime, Off
  <1>8. Refused(t) => at[t] \notin {"login", "auth"}
    <2> SUFFICES ASSUME Refused(t), at[t] = "auth" PROVE FALSE
      BY <1>4, <1>5, AnsweredTo, RefusedTo DEF Pool
    <2>1. CASE SlowScan
      BY <2>1, FineIs, ThreadsAre DEF Beside
    <2>2. CASE ~SlowScan
      BY <1>1, <1>2, <2>2, RefusedTo DEF Alone, Matched, Fits
    <2> QED BY <2>1, <2>2
  <1>9. at'[t] \notin {"prompt", "login"}
    <2>1. CASE Exits
      BY <2>1, ExitsTo
    <2>2. CASE Refused(t) /\ ~Exits
      BY <1>8, <2>2, RefusedTo, Moved
    <2>3. CASE Answered(t) /\ ~Exits
      BY <2>3, AnsweredTo, Moved
    <2>4. CASE Sync(t) /\ ~Exits
      BY <2>4, SyncTo, Moved
    <2> QED BY <2>1, <2>2, <2>3, <2>4
  <1>10. ASSUME NEW u \in Thread, u # t PROVE at'[u] \notin {"prompt", "login"}
    <2>1. CASE Exits
      BY <2>1, ExitsTo
    <2>2. CASE ~Exits /\ Pool
      BY <1>5, <1>10, <2>2, ThreadMoves
    <2>3. CASE ~Exits /\ ~Pool
      <3>1. t = "main" /\ at["strand"] = "idle"
        BY <1>1, <1>2, <2>3, ThreadsAre DEF Typed, Phased, Exchanges
      <3> QED BY <1>10, <2>3, <3>1, ThreadMoves, ThreadsAre
    <2> QED BY <2>1, <2>2, <2>3
  <1> QED BY <1>7, <1>9, <1>10

LEMMA AliveTick ==
    ASSUME Typed, Alone, Counted, Beside, Alive, Whole, Fine, Pool, link = "up", Tick
    PROVE  InTime'
  <1>1. InTime /\ \A t \in Thread : at[t] \notin {"prompt", "login"}
    BY DEF Alive, InTime, Fine
  <1>2. /\ ka' = (IF ka > 0 THEN ka - 1 ELSE ka) /\ srv' = srv - 1
        /\ \A t \in Thread : Waits(t)
        /\ at["strand"] = "idle" => jobs = <<>> /\ fired = 0 /\ ka # 0
        /\ at' = at /\ fired' = fired
    BY TickTo
  <1>3. "main" \in Thread /\ "strand" \in Thread
    BY DEF Thread
  <1>4. ~Exited
    BY <1>2, <1>3 DEF Waits, Patient, Exited, Typed, Phased, Exchanges
  <1>5. \A t \in Thread : at[t] \notin Exchanges
    BY <1>2, <1>4, FineIs, Waiter
  <1>6. ka # Off
    BY <1>1, <1>2, <1>4, <1>5 DEF InTime, Busy, Typed, TypeOK
  <1>7. at["strand"] = "idle"
    <2>1. at["strand"] # "connect"
      <3>1. CASE SlowScan
        BY <3>1, FineIs DEF Beside
      <3>2. CASE ~SlowScan
        BY <1>3, <3>2 DEF Alone, Matched
      <3> QED BY <3>1, <3>2
    <2>2. at["strand"] \notin InHandler
      BY DEF Whole, Fine, Typed, Phased
    <2> QED BY <1>1, <1>3, <1>4, <1>5, <2>1, <2>2
            DEF Typed, Phased, StrandPhases, InHandler, Exchanges
  <1>8. ka \in 1..KEEPALIVE_INT_S /\ srv \in 0..TIMEOUT
    BY <1>2, <1>6, <1>7 DEF Typed, TypeOK, Off
  <1>9. ka' = ka - 1 /\ srv >= ka + (TIMEOUT - KEEPALIVE_INT_S)
    BY <1>1, <1>2, <1>6, <1>8 DEF InTime
  <1>10. srv' > 0 /\ srv' >= ka' + (TIMEOUT - KEEPALIVE_INT_S) /\ ka' # Off
    BY <1>2, <1>8, <1>9, LinkAssumption DEF Off
  <1> QED BY <1>10 DEF InTime

LEMMA AliveBetween ==
    ASSUME IsFiniteSet(Files), Typed, Alive, Whole, Fine, Pool, NEW t \in Thread, Between(t)
    PROVE  /\ link' = "up" => InTime'
           /\ \A u \in Thread : at'[u] \notin {"prompt", "login"}
  <1>0. /\ jobs = <<>> /\ at[t] \notin InHandler /\ at[t] # "prompt" /\ at[t] # "hash"
        /\ \A u \in Thread : at[u] \notin {"prompt", "login"}
    BY ThreadsAre DEF Whole, Fine, Typed, Phased, MainPhases, StrandPhases, InHandler, Alive, Pool
  <1>1. /\ ka' = ka
        /\ \/ at[t] = "connect" /\ Goes(t, "auth") /\ srv' = TIMEOUT
           \/ /\ Exits \/ Goes(t, "list") \/ Goes(t, "keepalive")
              /\ link' = link /\ srv' = srv
    BY <1>0, BetweenTo
  <1>2. CASE Exits
    <2>1. Exited' /\ \A u \in Thread : at'[u] = "exited"
      BY <1>2, ExitsTo, Gone
    <2>2. ~Goes(t, "auth")
      BY <2>1, Moved
    <2>3. link = "up" => InTime
      BY DEF Alive, InTime, Fine
    <2> QED BY <1>1, <2>1, <2>2, <2>3 DEF InTime
  <1>3. CASE ~Exits
    <2>1. at'[t] \in {"auth", "list", "keepalive"}
      BY <1>1, <1>3, Moved
    <2>2. Busy'
      BY <2>1 DEF Busy, Exchanges
    <2>3. \A u \in Thread : at'[u] \notin {"prompt", "login"}
      BY <1>0, <1>3, <2>1, ThreadMoves
    <2>4. CASE Goes(t, "auth") /\ srv' = TIMEOUT
      <3>1. ka \in {Off} \cup 0..KEEPALIVE_INT_S
        BY DEF Typed, TypeOK
      <3> QED BY <1>1, <2>2, <2>3, <2>4, <3>1, FullTime DEF InTime
    <2>5. CASE link' = link /\ srv' = srv
      <3>1. link = "up" => InTime
        BY DEF Alive, InTime, Fine
      <3> QED BY <1>1, <2>2, <2>3, <2>5, <3>1 DEF InTime
    <2> QED BY <1>1, <1>3, <2>4, <2>5
  <1> QED BY <1>2, <1>3

LEMMA AliveNext ==
    ASSUME FiniteFiles, Typed, Alone, Counted, Beside, Alive, Whole, [Next]_vars
    PROVE  Alive'
  <1> SUFFICES ASSUME Fine', Pool'
               PROVE  /\ link' = "up" => InTime'
                      /\ \A t \in Thread : at'[t] \notin {"prompt", "login"}
    BY DEF Alive, Fine, InTime
  <1>0. Fine /\ IsFiniteSet(Files) /\ ka \in {Off} \cup 0..KEEPALIVE_INT_S
    BY FineBefore DEF FiniteFiles, Typed, TypeOK
  <1>1. ASSUME NEW t \in Thread, Refused(t) \/ Answered(t) \/ Sync(t)
        PROVE  /\ link' = "up" => InTime'
               /\ \A u \in Thread : at'[u] \notin {"prompt", "login"}
    BY <1>0, <1>1, AliveReads
  <1>2. Pool \/ \E t \in Thread : Answered(t)
    <2>1. (\E t \in Thread : Answered(t)) \/ authed' = authed
      BY <1>0, Steps, ServeTo, LinkTo, FireTo, ScanTo, WriteTo, LostTo, FailsTo, RefusedTo,
         SyncTo, BetweenTo, TickTo, Stutters
    <2> QED BY <2>1, Onwards DEF Pool
  <1>3. ASSUME Pool
        PROVE  /\ link = "up" => InTime
               /\ \A t \in Thread : at[t] \notin {"prompt", "login"}
    BY <1>0, <1>3 DEF Alive, Fine, InTime
  <1>4. CASE Pool /\ ServeRequest
    <2>1. UNCHANGED <<at, ka, fired, link>> /\ srv' = TIMEOUT /\ link = "up"
      BY <1>4, ServeTo
    <2> QED BY <1>0, <1>3, <1>4, <2>1, FullTime DEF InTime, Busy, Exited
  <1>5. CASE Pool /\ (TimesOut \/ Drop)
    <2>1. at' = at /\ link' = "down"
      BY <1>5, LinkTo
    <2> QED BY <1>3, <1>5, <2>1
  <1>6. CASE Pool /\ Fire
    <2>1. /\ ka' = Off /\ fired' > 0 /\ ~Exited /\ ka = 0
          /\ UNCHANGED <<at, link, srv>>
      BY <1>6, FireTo
    <2>2. link = "up" => Busy'
      <3> SUFFICES ASSUME link = "up" PROVE Busy'
        OBVIOUS
      <3>1. "strand" \in Thread
        BY DEF Thread
      <3>2. at["strand"] # "connect"
        <4>1. CASE SlowScan
          BY <1>0, <4>1, FineIs DEF Beside
        <4>2. CASE ~SlowScan
          BY <3>1, <4>2 DEF Alone, Matched
        <4> QED BY <4>1, <4>2
      <3>3. at["strand"] \notin InHandler
        BY <1>0 DEF Whole, Fine, Typed, Phased
      <3>4. at["strand"] = "idle" \/ at["strand"] \in Exchanges
        BY <1>3, <1>6, <2>1, <3>1, <3>2, <3>3
           DEF Typed, Phased, StrandPhases, InHandler, Exchanges
      <3> QED BY <2>1, <3>1, <3>4 DEF Busy
    <2> QED BY <1>3, <1>6, <2>1, <2>2 DEF InTime
  <1>7. CASE Pool /\ Tick
    <2>1. at' = at /\ link' = link
      BY <1>7, TickTo
    <2> QED BY <1>0, <1>3, <1>7, <2>1, AliveTick
  <1>8. CASE Pool /\ (UNCHANGED vars \/ \E f \in Files : ScanFile(f))
    <2>1. UNCHANGED <<at, ka, fired, link, srv>>
      BY <1>8, ScanTo, Stutters
    <2> QED BY <1>3, <1>8, <2>1 DEF InTime, Busy, Exited
  <1>9. CASE Pool /\ \E t \in Thread : Write(t)
    <2>1. PICK t \in Thread : Write(t)
      BY <1>9
    <2>2. at[t] \in Exchanges /\ ka' = Off /\ UNCHANGED <<at, link, srv>>
      BY <2>1, WriteTo
    <2>3. Busy'
      BY <2>2 DEF Busy
    <2> QED BY <1>3, <1>9, <2>2, <2>3 DEF InTime
  <1>10. ASSUME Pool, NEW t \in Thread, Lost(t) \/ Fails(t)
         PROVE  link' = "down" /\ \A u \in Thread : at'[u] \notin {"prompt", "login"}
    <2>1. Lost(t)
      BY <1>10, FailsTo DEF Fine
    <2>2. link = "down" /\ link' = link
      BY <2>1, LostTo
    <2>3. CASE Exits
      BY <2>2, <2>3, ExitsTo
    <2>4. CASE ~Exits
      <3>1. at'[t] \notin {"prompt", "login"}
        BY <2>1, <2>4, LostTo, Moved
      <3> QED BY <1>0, <1>3, <1>10, <2>2, <2>4, <3>1, ThreadMoves
    <2> QED BY <2>3, <2>4
  <1>11. ASSUME Pool, NEW t \in Thread, Between(t)
         PROVE  /\ link' = "up" => InTime'
                /\ \A u \in Thread : at'[u] \notin {"prompt", "login"}
    BY <1>0, <1>11, AliveBetween
  <1> QED BY <1>1, <1>2, <1>4, <1>5, <1>6, <1>7, <1>8, <1>9, <1>10, <1>11, Steps

(***************************************************************************)
(* Nothing fails where nothing went wrong.                                 *)
(***************************************************************************)

\* What holds, then, besides.
LEMMA SoundIs ==
    ASSUME Typed, Alone, Counted, Whole, Alive, Unharmed, Sound
    PROVE  /\ Fine /\ MainFirst /\ (\A t \in Thread : Matched(t)) /\ ~Overlap
           /\ at["strand"] \in {"idle", "keepalive", "exited"}
           /\ at["strand"] = "keepalive" => at["main"] = "watch"
           /\ jobs = <<>>
           /\ ~Exited /\ waits = {} => replies = <<>>
           /\ at["main"] \in MainPhases \ {"auth", "connect"}
  <1>1. Fine /\ jobs = <<>> /\ MainFirst /\ \A t \in Thread : Matched(t)
    BY DEF Fine, Crossed, Sound, Unharmed, Whole, Alone
  <1>2. "main" \in Thread /\ "strand" \in Thread
    BY DEF Thread
  <1>3. at["strand"] \in {"idle", "keepalive", "exited"}
    <2>1. at["strand"] \notin InHandler
      BY <1>1 DEF Whole, Fine, Typed, Phased
    <2>2. at["strand"] \notin {"prompt", "login"}
      BY <1>1, <1>2, StrandInPool DEF Alive, Fine
    <2> QED BY <1>2, <2>1, <2>2 DEF Typed, Phased, StrandPhases, InHandler, Unharmed
  <1>4. ~Overlap
    <2> SUFFICES ASSUME Using("main"), Using("strand") PROVE FALSE
      BY <1>2 DEF Overlap
    <2> QED BY <1>2, OneThread DEF Sound
  <1>5. at["strand"] = "keepalive" => at["main"] = "watch"
    BY <1>2, OneThread DEF Sound, Using, Exchanges
  <1>6. ~Exited /\ waits = {} => replies = <<>>
    <2> SUFFICES ASSUME ~Exited, waits = {} PROVE replies = <<>>
      OBVIOUS
    <2>1. Waiting = 0
      BY DEF Waiting
    <2>2. Len(requests) + Len(replies) = 0
      BY <2>1 DEF Counted, Sound, Unharmed
    <2>3. Len(requests) \in Nat /\ Len(replies) \in Nat /\ (Len(replies) = 0 => replies = <<>>)
      BY LenProperties, EmptySeq DEF Typed, TypeOK
    <2> QED BY <2>2, <2>3
  <1>7. at["main"] \in MainPhases \ {"auth", "connect"}
    BY <1>2 DEF Typed, Phased, Unharmed
  <1> QED BY <1>1, <1>3, <1>4, <1>5, <1>6, <1>7

LEMMA SessionServe ==
    ASSUME Typed, Alone, Counted, Whole, Alive, Unharmed, InSession, Sound, ServeRequest
    PROVE  InSession'
  <1>0. at' = at /\ link = "up"
    BY ServeTo
  <1>1. CASE Exited
    BY <1>0, <1>1 DEF InSession, Exited
  <1>2. CASE ~Exited
    <2>1. PICK t \in Thread :
             /\ at[t] \in Exchanges /\ t \in waits /\ Using(t) /\ Matched(t)
             /\ Head(requests) = Request(t) /\ requests' = <<>>
             /\ replies = <<>> /\ Len(replies') = 1
             /\ Head(replies') = replies'[1] /\ DOMAIN replies' = {1}
             /\ \A u \in Thread : u # t => ~Using(u) /\ u \notin waits
      BY <1>2, Asked DEF Sound
    <2> DEFINE r == Head(requests)
    <2>2. PICK ok \in BOOLEAN :
             /\ ~ok => ~Allowed(r.type) \/ ~(TRUE \in Granted(r)) \/ r.arg = "typed"
             /\ session' = CASE ok /\ r.type = "AUTH" -> "auth"
                             [] ok /\ r.type = "LIST" -> "synced"
                             [] OTHER                 -> session
             /\ \E list : replies' = Append(replies, [type |-> r.type, ok |-> ok, list |-> list])
      BY ServeTo
    <2>3. replies'[1].ok = ok /\ replies' # <<>>
      BY <2>1, <2>2
    <2>4. r = Request(t)
      BY <2>1
    <2> HIDE DEF r
    <2>5. CASE t = "strand"
      <3>1. at["strand"] = "keepalive" /\ at["main"] = "watch"
        BY <2>1, <2>5, SoundIs DEF Exchanges
      <3>2. r.type = "KEEP_ALIVE"
        BY <2>4, <2>5, <3>1 DEF Request
      <3>3. session' = session
        BY <2>2, <3>2
      <3> QED BY <1>0, <3>1, <3>3 DEF InSession
    <2>6. CASE t = "main" /\ at["main"] = "login"
      <3>1. session = "new" /\ r.type = "AUTH"
        BY <2>1, <2>4, <2>6 DEF InSession, Request
      <3>2. session' = IF ok THEN "auth" ELSE "new"
        BY <2>2, <3>1
      <3> QED BY <1>0, <2>1, <2>3, <2>6, <3>2 DEF InSession
    <2>7. CASE t = "main" /\ at["main"] \in {"list", "restore"}
      <3>1. session = "auth" /\ r.type = "LIST" /\ r.arg = "none"
        BY <2>1, <2>4, <2>7 DEF InSession, Request
      <3>2. Allowed(r.type) /\ TRUE \in Granted(r)
        BY <3>1 DEF Allowed, Granted
      <3>3. ok /\ session' = "synced"
        BY <2>2, <3>1, <3>2
      <3> QED BY <1>0, <2>1, <2>3, <2>7, <3>3 DEF InSession
    <2>8. CASE t = "main" /\ at["main"] = "retrieve"
      <3>1. session = "synced" /\ r.type = "RETRIEVE" /\ r.arg = "none"
        BY <2>1, <2>4, <2>8 DEF InSession, Request
      <3>2. Allowed(r.type) /\ TRUE \in Granted(r)
        BY <3>1 DEF Allowed, Granted
      <3>3. ok /\ session' = session
        BY <2>2, <3>1, <3>2
      <3> QED BY <1>0, <2>1, <2>3, <2>8, <3>1, <3>3 DEF InSession
    <2> QED BY <2>1, <2>5, <2>6, <2>7, <2>8, SoundIs, ThreadsAre DEF MainPhases, Exchanges
  <1> QED BY <1>1, <1>2

\* The reply a thread reads is the one it waits for, and the last on its way.
LEMMA LastReply ==
    ASSUME Typed, Alone, Counted, Whole, Alive, Unharmed, Sound, NEW t \in Thread,
           t \in waits, replies # <<>>
    PROVE  /\ Head(replies) = replies[1] /\ 1 \in DOMAIN replies /\ Tail(replies) = <<>>
           /\ replies[1].type = Request(t).type
  <1>1. at[t] \in Exchanges /\ Using(t) /\ link = "up"
    BY DEF Typed, Phased, Using, Unharmed
  <1>2. Len(replies) = 1
    BY <1>1, OneMessage DEF Sound
  <1>3. /\ Head(replies) = replies[1] /\ 1 \in DOMAIN replies
        /\ Tail(replies) \in Seq(Reply) /\ Len(Tail(replies)) = 0
    BY <1>2, Reading
  <1>4. Tail(replies) = <<>>
    BY <1>3, EmptySeq
  <1> QED BY <1>1, <1>3, <1>4, SoundIs DEF Matched

LEMMA SoundReads ==
    ASSUME IsFiniteSet(Files), Typed, Alone, Counted, Whole, Alive, Unharmed, InSession, Sound,
           NEW t \in Thread, Refused(t) \/ Answered(t) \/ Sync(t)
    PROVE  Unharmed' /\ InSession'
  <1>1. /\ at[t] \in Exchanges /\ t \in waits /\ replies # <<>> /\ replies' = Tail(replies)
        /\ UNCHANGED <<link, session, failed, restore>>
        /\ (Fits(t, Head(replies)) <=> ~Refused(t))
    BY RefusedTo, AnsweredTo, SyncTo DEF Exchanges
  <1>2. /\ Head(replies) = replies[1] /\ 1 \in DOMAIN replies /\ replies' = <<>>
        /\ replies[1].type = Request(t).type
    BY <1>1, LastReply
  <1>3. link' = "up" /\ ~failed' /\ ~missed
    BY <1>1 DEF Unharmed
  <1>8. at[t] # "retrieve" => ~missed'
    <2>1. CASE Refused(t)
      BY <1>3, <2>1, RefusedTo
    <2>2. CASE Answered(t)
      BY <1>3, <2>2, AnsweredTo
    <2>3. CASE Sync(t)
      BY <1>3, <2>3, SyncTo
    <2> QED BY <2>1, <2>2, <2>3
  <1>4. CASE t = "strand"
    <2>1. at["strand"] = "keepalive" /\ at["main"] = "watch"
      BY <1>1, <1>4, SoundIs DEF Exchanges
    <2>2. Goes(t, "idle")
      <3>1. ~Sync(t)
        BY <1>4, <2>1, SyncTo
      <3>2. CASE Refused(t)
        BY <1>4, <2>1, <3>2, RefusedTo
      <3>3. CASE Answered(t)
        BY <1>4, <2>1, <3>3, AnsweredTo
      <3> QED BY <3>1, <3>2, <3>3
    <2>3. at'["strand"] = "idle" /\ at'["main"] = "watch"
      BY <1>4, <2>1, <2>2, Moved
    <2>4. Unharmed'
      BY <1>3, <1>8, <2>1, <2>3, <1>4, ThreadsAre DEF Unharmed
    <2>5. InSession'
      BY <1>1, <1>2, <2>1, <2>3 DEF InSession
    <2> QED BY <2>4, <2>5
  <1>5. CASE t = "main" /\ Refused(t)
    <2>1. ~replies[1].ok
      BY <1>1, <1>2, <1>5 DEF Fits
    <2>2. at["main"] = "login"
      BY <1>1, <1>2, <1>5, <2>1, SoundIs DEF InSession, MainPhases, Exchanges
    <2>3. session = "new" /\ ~authed
      BY <1>2, <2>1, <2>2 DEF InSession, Unharmed
    <2>4. Exits \/ Goes(t, "prompt")
      BY <1>5, <2>2, RefusedTo
    <2>7. ~missed' /\ ~authed'
      BY <1>5, <1>8, <2>2, <2>3, RefusedTo
    <2>5. at'["main"] \in {"exited", "prompt"} /\ at'["strand"] \in {"exited", at["strand"]}
      BY <1>5, <2>4, Gone, Moved
    <2>6. Unharmed'
      BY <1>3, <2>5, <2>7, SoundIs, ThreadsAre DEF Unharmed
    <2> QED BY <1>1, <2>3, <2>5, <2>6 DEF InSession
  <1>6. CASE t = "main" /\ Answered(t)
    <2>8. Fits(t, Head(replies))
      BY <1>6, AnsweredTo
    <2>1. /\ at["main"] \in {"login", "restore", "retrieve"} /\ missed' = missed
          /\ authed' = (authed \/ at["main"] = "login")
          /\ \/ Goes(t, "restore") /\ at["main"] = "login"
             \/ Goes(t, "scan") /\ at["main"] = "login"
             \/ Goes(t, "hash") /\ at["main"] \in {"restore", "retrieve"}
      BY <1>6, AnsweredTo, SoundIs DEF MainPhases, Exchanges, Unharmed
    <2>2. /\ at'["strand"] = at["strand"]
          /\ \/ at'["main"] \in {"restore", "scan"} /\ at["main"] = "login"
             \/ at'["main"] = "hash" /\ at["main"] \in {"restore", "retrieve"}
      BY <1>6, <2>1, Moved
    <2>3. Unharmed'
      BY <1>3, <2>1, <2>2, ThreadsAre DEF Unharmed
    <2>7. replies[1].ok
      BY <1>2, <2>8 DEF Fits
    <2>4. at["main"] = "login" => session = "auth"
      BY <1>2, <2>7 DEF InSession
    <2>5. at["main"] \in {"restore", "retrieve"} => session = "synced"
      BY <1>1 DEF InSession
    <2>6. InSession'
      BY <1>1, <1>2, <2>2, <2>4, <2>5 DEF InSession
    <2> QED BY <2>3, <2>6
  <1>7. CASE t = "main" /\ Sync(t)
    <2>1. at["main"] = "list" /\ Goes(t, "watch") /\ missed' = missed /\ authed' = authed
      BY <1>7, SyncTo
    <2>2. at'["main"] = "watch" /\ at'["strand"] = at["strand"]
      BY <1>7, <2>1, Moved
    <2>3. Unharmed'
      BY <1>3, <2>1, <2>2, ThreadsAre DEF Unharmed
    <2>4. session = "synced"
      BY <1>1, <2>1 DEF InSession
    <2> QED BY <1>1, <2>2, <2>3, <2>4 DEF InSession
  <1> QED BY <1>4, <1>5, <1>6, <1>7, ThreadsAre

LEMMA SoundBetween ==
    ASSUME IsFiniteSet(Files), Typed, Alone, Counted, Whole, Alive, Unharmed, InSession, Sound,
           NEW t \in Thread, Between(t)
    PROVE  Unharmed' /\ InSession'
  <1>1. at[t] \notin {"connect"} \cup InHandler /\ jobs = <<>>
    BY SoundIs, ThreadsAre DEF Unharmed, MainPhases, InHandler
  <1>2. /\ UNCHANGED <<link, session, replies, failed, missed, authed>>
        /\ \/ at[t] = "prompt" /\ (Goes(t, "login") \/ Exits)
           \/ t = "main" /\ at[t] = "scan" /\ Goes(t, "list")
           \/ t = "main" /\ at[t] = "hash" /\ (Goes(t, "retrieve") \/ Goes(t, "done"))
           \/ t = "strand" /\ at[t] = "idle" /\ Goes(t, "keepalive") /\ fired > 0
    BY <1>1, BetweenTo
  <1>3. CASE t = "main"
    <2>1. /\ at["main"] \in {"prompt", "scan", "hash"} /\ at["main"] \notin Exchanges
          /\ at["strand"] = "idle" /\ ~Exited
      BY <1>2, <1>3, SoundIs DEF MainFirst, Before, Exchanges, Exited
    <2>2. waits = {}
      BY <2>1, ThreadsAre DEF Typed, TypeOK, Phased, Exchanges
    <2>3. replies = <<>>
      BY <2>1, <2>2, SoundIs
    <2>4. /\ \/ at["main"] = "prompt" /\ at'["main"] \in {"login", "exited"}
             \/ at["main"] = "scan" /\ at'["main"] = "list"
             \/ at["main"] = "hash" /\ at'["main"] \in {"retrieve", "done"}
          /\ at'["strand"] \in {"idle", "exited"}
      BY <1>2, <1>3, <2>1, Moved, Gone
    <2>5. Unharmed'
      BY <1>2, <2>4, ThreadsAre DEF Unharmed
    <2>6. InSession'
      BY <1>2, <2>3, <2>4 DEF InSession
    <2> QED BY <2>5, <2>6
  <1>4. CASE t = "strand"
    <2>1. at["strand"] = "idle" /\ Goes(t, "keepalive")
      BY <1>2, <1>4, SoundIs
    <2>2. at'["strand"] = "keepalive" /\ at'["main"] = at["main"]
      BY <1>4, <2>1, Moved
    <2>3. Unharmed'
      BY <1>2, <2>2, ThreadsAre DEF Unharmed
    <2>4. InSession'
      BY <1>2, <2>2 DEF InSession
    <2> QED BY <2>3, <2>4
  <1> QED BY <1>3, <1>4, ThreadsAre

LEMMA BlamelessNext ==
    ASSUME FiniteFiles, Typed, Alone, Counted, Whole, Alive, Blameless, [Next]_vars
    PROVE  Blameless'
  <1> SUFFICES ASSUME Sound' PROVE Unharmed' /\ InSession'
    BY DEF Blameless
  <1>0. Sound /\ Unharmed /\ InSession /\ IsFiniteSet(Files)
    <2>1. cut => cut'
      BY Steps, ServeTo, LinkTo, FireTo, ScanTo, WriteTo, LostTo, FailsTo, RefusedTo,
         AnsweredTo, SyncTo, BetweenTo, TickTo, Stutters DEF FiniteFiles
    <2>2. drops' = 0 => drops = 0
      BY Onwards DEF Drop
    <2> QED BY <2>1, <2>2, Onwards DEF Sound, Blameless, FiniteFiles
  <1>1. CASE ServeRequest
    <2>1. UNCHANGED <<at, link, failed, missed, authed>>
      BY <1>1, ServeTo
    <2> QED BY <1>0, <1>1, <2>1, SessionServe DEF Unharmed
  <1>2. CASE TimesOut \/ Drop
    <2>1. ~Drop
      BY <1>0 DEF Drop, Sound
    <2>2. ~TimesOut
      BY DEF TimesOut, Sound
    <2> QED BY <1>2, <2>1, <2>2
  <1>3. ASSUME NEW t \in Thread, Lost(t) \/ Fails(t) PROVE FALSE
    BY <1>0, <1>3, LostTo, FailsTo, SoundIs DEF Unharmed
  <1>4. CASE Tick \/ Fire \/ (\E f \in Files : ScanFile(f)) \/ (\E t \in Thread : Write(t))
             \/ UNCHANGED vars
    <2>1. UNCHANGED <<at, link, session, replies, failed, missed, authed>>
      BY <1>4, TickTo, FireTo, ScanTo, WriteTo, Stutters
    <2> QED BY <1>0, <2>1 DEF Unharmed, InSession
  <1> QED BY <1>0, <1>1, <1>2, <1>3, <1>4, Steps, SoundReads, SoundBetween

(***************************************************************************)
(* The invariant, and what it says.                                        *)
(***************************************************************************)

LEMMA LinkInit == Init => IInv
  <1> SUFFICES ASSUME Init PROVE IInv
    OBVIOUS
  <1>1. Typed
    BY TypedInit
  <1>2. /\ at["main"] = "prompt" /\ at["strand"] = "idle" /\ ~Exited /\ ~authed /\ ~Pool
        /\ \A t \in Thread : at[t] \notin Exchanges \cup {"connect"}
    BY DEF Init, Thread, Exchanges, Exited, Pool
  <1>3. /\ waits = {} /\ requests = <<>> /\ replies = <<>> /\ jobs = <<>> /\ fired = 0
        /\ DOMAIN requests = {} /\ DOMAIN replies = {}
    BY DEF Init
  <1>4. ~SlowScan
    BY LinkAssumption DEF Init, SlowScan
  <1>5. Alone
    <2>1. MainFirst
      BY <1>2, <1>3 DEF MainFirst, Init
    <2>2. \A t \in Thread : Matched(t)
      BY <1>2, <1>3 DEF Matched, Exchanges
    <2> QED BY <2>1, <2>2 DEF Alone
  <1>6. Counted
    BY <1>3 DEF Counted, Waiting
  <1>7. Beside
    BY <1>4 DEF Beside, Shared
  <1>8. Alive
    BY <1>2 DEF Alive
  <1>9. Whole
    BY <1>2, <1>3 DEF Whole, Init
  <1>10. Unharmed
    BY <1>2, ThreadsAre DEF Unharmed, Init, Exchanges
  <1>11. InSession
    BY <1>2, <1>3 DEF InSession, Init
  <1> QED BY <1>1, <1>5, <1>6, <1>7, <1>8, <1>9, <1>10, <1>11 DEF IInv, Typed, Blameless

LEMMA LinkNext ==
    ASSUME FiniteFiles, IInv, [Next]_vars
    PROVE  IInv'
  <1>1. Typed
    BY DEF IInv, Typed
  <1>2. Typed' /\ Alone' /\ Counted' /\ Beside' /\ Whole' /\ Alive' /\ Blameless'
    BY <1>1, TypedNext, AloneNext, CountedNext, BesideNext, WholeNext, AliveNext, BlamelessNext
       DEF IInv
  <1> QED BY <1>2 DEF IInv, Typed

LEMMA LinkAlways ==
    ASSUME FiniteFiles
    PROVE  Spec => []IInv
  <1>1. IInv /\ [Next]_vars => IInv'
    BY LinkNext
  <1> QED BY <1>1, LinkInit, PTL DEF Spec

\* The two threads use the socket at once only if the scan takes as long as the
\* keep-alive interval; the jobs, the KEEP_ALIVEs and the reconnections of the
\* strand come when the main thread has nothing left to send.
\* (main.cpp, scheduler::sync, connection::schedule_keepalive)
THEOREM SocketHasOneUser ==
    ASSUME FiniteFiles
    PROVE  Spec => []OneUser
  <1>1. IInv => OneUser
    <2> SUFFICES ASSUME IInv, Overlap, ~SlowScan PROVE FALSE
      BY DEF OneUser
    <2>1. Typed /\ Alone
      BY DEF IInv, Typed
    <2>2. "main" \in Thread /\ Using("main")
      BY DEF Overlap, Thread
    <2> QED BY <2>1, <2>2, OneThread
  <1> QED BY <1>1, LinkAlways, PTL

\* However the two intervals relate, as long as the client's is the shorter: the
\* server does not time out a client that backs up and whose exchanges do not fail.
\* (connection::schedule_keepalive, write, read)
THEOREM ServerIsKeptAlive ==
    ASSUME FiniteFiles
    PROVE  Spec => []KeptAlive
  <1>1. IInv => KeptAlive
    <2> SUFFICES ASSUME IInv, Pool, link = "up", srv = 0, ~failed, ~Crossed PROVE FALSE
      BY DEF KeptAlive
    <2>1. srv > 0
      BY DEF IInv, Alive
    <2> QED BY <2>1
  <1> QED BY <1>1, LinkAlways, PTL

\* No file of the watched directory is erased from the backup unless the scan is
\* slow and the link is lost: else no LIST is asked for before the scan has entered
\* every file.
\* (scheduler::sync, reconnect, file_watcher's constructor)
THEOREM ErasureHasCause ==
    ASSUME FiniteFiles
    PROVE  Spec => []ErasedForCause
  <1>1. IInv => ErasedForCause
    BY DEF IInv, Whole, ErasedForCause
  <1> QED BY <1>1, LinkAlways, PTL

\* A client that has logged in neither exits nor leaves a file out of a restore
\* where no link was lost, nobody was timed out and the scan was not slow: every
\* request finds the server's session where its gate lets it through.
\* (scheduler::sync, restore, retrieve, handle_request)
THEOREM GivingUpHasCause ==
    ASSUME FiniteFiles
    PROVE  Spec => []GivesUpForCause
  <1>1. IInv => GivesUpForCause
    <2> SUFFICES ASSUME IInv, (Exited /\ authed) \/ missed, ~(drops > 0), ~cut, ~SlowScan
                 PROVE  FALSE
      BY DEF GivesUpForCause
    <2>1. drops = 0
      BY LinkAssumption DEF IInv, TypeOK
    <2> QED BY <2>1 DEF IInv, Blameless, Sound, Unharmed, Exited
  <1> QED BY <1>1, LinkAlways, PTL
=============================================================================
