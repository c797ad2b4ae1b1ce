---------------------------- MODULE BackupProofs ----------------------------
(***************************************************************************)
(* Theorems about the backup, for every set of files and contents, however *)
(* many threads the client has and however often its user, the link and    *)
(* the processes interfere.                                                *)
(***************************************************************************)
EXTENDS Backup, RequestHandlerProofs, FiniteSetTheorems

\* A directory has finitely many files.
FiniteNames == IsFiniteSet(Names)

(***************************************************************************)
(* Sequences: what SetToSeq returns, and what remains of a sequence from   *)
(* which an element is taken.                                              *)
(***************************************************************************)

LEMMA SetToSeqIsOfSet ==
    ASSUME NEW S, IsFiniteSet(S)
    PROVE  /\ SetToSeq(S) \in Seq(S)
           /\ \A x \in S : \E i \in DOMAIN SetToSeq(S) : SetToSeq(S)[i] = x
           /\ IsInjective(SetToSeq(S))
  <1> DEFINE n == Cardinality(S)
             f == SetToSeq(S)
  <1>1. n \in Nat /\ ExistsBijection(1..n, S)
    BY FS_CardinalityType
  <1>2. \E g \in [1..n -> S] : IsInjective(g)
    BY <1>1 DEF ExistsBijection, Bijection, Injection
  <1>3. f \in [1..n -> S] /\ IsInjective(f)
    BY <1>2 DEF SetToSeq
  <1>4. f \in Seq(S)
    BY <1>1, <1>3, SeqDef
  <1>5. f \in Surjection(1..n, S)
    <2>1. f \in Injection(1..n, S)
      BY <1>3 DEF Injection
    <2>2. Cardinality(1..n) = n
      BY <1>1, FS_Interval
    <2> QED BY <2>1, <2>2, FS_Injection
  <1> QED BY <1>3, <1>4, <1>5 DEF Surjection

\* No two of the lambdas of s, or of its jobs, are of one file.
Distinct(s) == \A i, j \in DOMAIN s : s[i].path = s[j].path => i = j

LEMMA SetToSeqDistinct ==
    ASSUME NEW S, IsFiniteSet(S), \A x, y \in S : x.path = y.path => x = y
    PROVE  Distinct(SetToSeq(S))
  <1>1. SetToSeq(S) \in Seq(S) /\ IsInjective(SetToSeq(S))
    BY SetToSeqIsOfSet
  <1>2. \A i \in DOMAIN SetToSeq(S) : SetToSeq(S)[i] \in S
    BY <1>1, ElementOfSeq, LenProperties
  <1> QED BY <1>1, <1>2 DEF Distinct, IsInjective

LEMMA ConcatDistinct ==
    ASSUME NEW S, NEW s \in Seq(S), NEW t \in Seq(S), Distinct(s), Distinct(t),
           \A i \in DOMAIN s, j \in DOMAIN t : s[i].path # t[j].path
    PROVE  Distinct(s \o t)
  <1> DEFINE c == s \o t
             m == Len(s)
  <1>1. /\ m \in Nat /\ Len(t) \in Nat
        /\ DOMAIN s = 1 .. m /\ DOMAIN t = 1 .. Len(t) /\ DOMAIN c = 1 .. m + Len(t)
        /\ \A i \in DOMAIN c : c[i] = IF i <= m THEN s[i] ELSE t[i - m]
    BY ConcatProperties, LenProperties
  <1>2. \A i \in DOMAIN c : /\ i <= m => i \in DOMAIN s
                           /\ ~(i <= m) => i - m \in DOMAIN t
    BY <1>1
  <1> HIDE DEF c, m
  <1> SUFFICES ASSUME NEW i \in DOMAIN c, NEW j \in DOMAIN c, c[i].path = c[j].path
               PROVE  i = j
    BY DEF Distinct, c
  <1>3. i \in Int /\ j \in Int
    BY <1>1
  <1>4. CASE i <= m /\ j <= m
    BY <1>1, <1>2, <1>4 DEF Distinct
  <1>5. CASE ~(i <= m) /\ ~(j <= m)
    <2>1. i - m = j - m
      BY <1>1, <1>2, <1>5 DEF Distinct
    <2> QED BY <2>1, <1>1, <1>3
  <1>6. CASE i <= m /\ ~(j <= m)
    BY <1>1, <1>2, <1>6
  <1>7. CASE ~(i <= m) /\ j <= m
    BY <1>1, <1>2, <1>7
  <1> QED BY <1>4, <1>5, <1>6, <1>7

LEMMA RemoveAtProperties ==
    ASSUME NEW S, NEW s \in Seq(S), NEW i \in DOMAIN s
    PROVE  /\ RemoveAt(s, i) \in Seq(S)
           /\ Len(RemoveAt(s, i)) = Len(s) - 1
           /\ \A j \in 1 .. Len(s) - 1 :
                RemoveAt(s, i)[j] = IF j < i THEN s[j] ELSE s[j + 1]
  <1>1. Len(s) \in Nat /\ i \in 1 .. Len(s) /\ \A j \in 1 .. Len(s) : s[j] \in S
    BY LenProperties, ElementOfSeq
  <1> DEFINE a == SubSeq(s, 1, i - 1)
             b == SubSeq(s, i + 1, Len(s))
  <1>2. /\ a \in Seq(S) /\ Len(a) = i - 1
        /\ \A j \in 1 .. i - 1 : a[j] = s[j]
    BY <1>1, SubSeqProperties
  <1>3. /\ b \in Seq(S) /\ Len(b) = Len(s) - i
        /\ \A j \in 1 .. Len(s) - i : b[j] = s[i + j]
    BY <1>1, SubSeqProperties
  <1> HIDE DEF a, b
  <1>4. /\ a \o b \in Seq(S)
        /\ Len(a \o b) = Len(s) - 1
        /\ \A j \in 1 .. Len(s) - 1 :
             (a \o b)[j] = IF j <= i - 1 THEN a[j] ELSE b[j - (i - 1)]
    <2>1. Len(a) + Len(b) = Len(s) - 1
      BY <1>1, <1>2, <1>3
    <2>2. /\ a \o b \in Seq(S) /\ Len(a \o b) = Len(a) + Len(b)
          /\ \A j \in 1 .. Len(a) + Len(b) :
               (a \o b)[j] = IF j <= Len(a) THEN a[j] ELSE b[j - Len(a)]
      BY <1>2, <1>3, ConcatProperties
    <2> QED BY <2>1, <2>2, <1>2
  <1>5. RemoveAt(s, i) = a \o b
    BY DEF RemoveAt, a, b
  <1>6. ASSUME NEW j \in 1 .. Len(s) - 1
        PROVE  (a \o b)[j] = IF j < i THEN s[j] ELSE s[j + 1]
    <2>1. CASE j < i
      BY <2>1, <1>1, <1>2, <1>4
    <2>2. CASE ~(j < i)
      <3>1. j - (i - 1) \in 1 .. Len(s) - i /\ i + (j - (i - 1)) = j + 1 /\ ~(j <= i - 1)
        BY <2>2, <1>1
      <3> QED BY <2>2, <3>1, <1>3, <1>4
    <2> QED BY <2>1, <2>2
  <1> QED BY <1>4, <1>5, <1>6

(***************************************************************************)
(* Types.                                                                  *)
(***************************************************************************)

\* How the strand, its jobs and the watcher fit together: a step of a job is
\* taken in a job; what could be opened is one of the client's paths; a digest is
\* there once it is computed.
WellFormed ==
    /\ task.phase \in {"send", "await", "handle", "store"} => task.ofJob
    /\ task.ofJob => strand # <<>>
    /\ task.phase = "store" => task.copy \in CResource
    /\ \A i \in DOMAIN strand : strand[i].len # -1 => strand[i].path \in Paths
    /\ watch # None /\ watch.step # "listed" => watch.digest \in Content

Typed == Safe /\ ClientTypeOK /\ WellFormed

LEMMA HeadJob ==
    ASSUME Typed, strand # <<>>
    PROVE  /\ job \in Job
           /\ job.len # -1 => job.path \in Paths
           /\ Tail(strand) \in Seq(Job)
           /\ \A i \in DOMAIN Tail(strand) :
                i + 1 \in DOMAIN strand /\ Tail(strand)[i] = strand[i + 1]
           /\ \A i \in DOMAIN strand : i # 1 =>
                i - 1 \in DOMAIN Tail(strand) /\ Tail(strand)[i - 1] = strand[i]
  <1>1. strand \in Seq(Job) /\ Len(strand) \in Nat \ {0} /\ DOMAIN strand = 1 .. Len(strand)
    BY EmptySeq, LenProperties DEF Typed, ClientTypeOK
  <1>2. /\ Tail(strand) \in Seq(Job)
        /\ Len(Tail(strand)) = Len(strand) - 1
        /\ \A i \in 1 .. Len(Tail(strand)) : Tail(strand)[i] = strand[i + 1]
    BY <1>1, HeadTailProperties
  <1>3. DOMAIN Tail(strand) = 1 .. Len(strand) - 1
    BY <1>1, <1>2, LenProperties
  <1>4. job = strand[1] /\ job \in Job
    BY <1>1, ElementOfSeq DEF job
  <1> QED BY <1>1, <1>2, <1>3, <1>4 DEF Typed, WellFormed

LEMMA LocalType ==
    ASSUME ClientTypeOK, NEW n \in Names
    PROVE  Local(n) \in {None} \cup Content /\ (Local(n) # None => n \in Paths)
  BY DEF ClientTypeOK, Local

\* What a message carries of the file.
LEMMA PartType ==
    ASSUME Typed, strand # <<>>, Readable
    PROVE  Part \in Content /\ job.path \in Paths
  <1>1. /\ job \in Job /\ (job.len # -1 => job.path \in Paths)
        /\ task.sent \in Nat
    BY HeadJob DEF Typed, ClientTypeOK, Task
  <1>2. Text \in {None} \cup Content
    BY <1>1, LocalType DEF Text, Job, Typed
  <1>3. CASE job.len = 0
    BY <1>1, <1>3 DEF Part, Content
  <1>4. CASE job.len # 0
    <2>1. Text \in Content /\ task.sent < Len(Text) /\ job.len # -1
      BY <1>2, <1>4 DEF Readable
    <2>2. \A i \in task.sent + 1 .. task.sent + 1 : Text[i] \in Data
      BY <1>1, <2>1, ElementOfSeq, LenProperties DEF Content
    <2>3. SubSeq(Text, task.sent + 1, task.sent + 1) \in Seq(Data)
      BY <1>1, <2>2, SubSeqProperties
    <2> QED BY <1>1, <1>4, <2>1, <2>3 DEF Part, Content
  <1> QED BY <1>3, <1>4

\* The server is driven as any client may drive it.
LEMMA ServesJob ==
    ASSUME Typed, strand # <<>>, Serve, job.op # "ERASE" => Readable
    PROVE  AnyRequest(Link)
  <1>1. job \in Job /\ Link \in Conns
    BY HeadJob, ClientAssumption
  <1>2. job.path \in Names /\ job.digest \in Content
    BY <1>1 DEF Job
  <1>3. CASE job.op = "ERASE"
    <2>1. Erase(Link, job.path, job.digest) \/ EraseRefused(Link, job.path, job.digest)
      BY <1>3 DEF Serve
    <2> QED BY <1>2, <2>1 DEF AnyRequest, AnyErase
  <1>4. CASE job.op = "CREATE"
    <2>1. Part \in Content /\ job.path \in Paths
      BY <1>4, PartType
    <2>2. AnyCreate(Link, job.path)
      BY <1>2, <1>4, <2>1 DEF Serve, AnyCreate
    <2> QED BY <2>1, <2>2 DEF AnyRequest
  <1>5. CASE job.op = "UPDATE"
    <2>1. Part \in Content /\ job.path \in Paths
      BY <1>5, PartType
    <2>2. AnyUpdate(Link, job.path)
      BY <1>2, <1>5, <2>1 DEF Serve, AnyUpdate
    <2> QED BY <2>1, <2>2 DEF AnyRequest
  <1> QED BY <1>1, <1>3, <1>4, <1>5 DEF Job

LEMMA ServerSteps ==
    ASSUME Typed, BackupNext
    PROVE  [AnyStep]_vars
  <1> USE ClientAssumption
  <1>1. CASE StrandStep
    <2>1. CASE StartJob \/ ReadFails \/ Receive \/ LinkLost \/ LinkFails \/ StartFails
               \/ Scan \/ SyncLost \/ HandleRead \/ HandleExits \/ HandleStore
      BY <2>1 DEF server, vars, StartJob, ReadFails, Receive, LinkLost, LinkFails, StartFails,
         Scan, SyncLost, HandleRead, HandleExits, HandleStore
    <2>2. CASE Send
      <3>1. strand # <<>>
        BY <2>2 DEF Send, Typed, WellFormed
      <3> QED BY <2>2, <3>1, ServesJob DEF Send, AnyStep
    <2>3. CASE Connect \/ Authenticate \/ Sync
      BY <2>3 DEF Connect, Authenticate, Sync, AnyStep, SessionStep
    <2> QED BY <1>1, <2>1, <2>2, <2>3 DEF StrandStep
  <1>2. CASE PoolStep
    BY <1>2 DEF server, vars, PoolStep, RunLambda
  <1>3. ASSUME NEW n \in Names, WatchMissing(n) PROVE UNCHANGED vars
    BY <1>3 DEF server, vars, WatchMissing
  <1>4. ASSUME NEW p \in Paths, WatchList(p) PROVE UNCHANGED vars
    BY <1>4 DEF server, vars, WatchList
  <1>5. CASE WatchStep
    BY <1>5 DEF server, vars, WatchStep, WatchHash, WatchFind, WatchDecide, WatchThrows
  <1>6. CASE Environment
    <2>1. ASSUME NEW p \in Paths, Unlink(p) PROVE UNCHANGED vars
      BY <2>1 DEF server, vars, Unlink
    <2>2. ASSUME NEW p \in Paths, NEW t \in Texts, Write(p, t) PROVE UNCHANGED vars
      BY <2>2 DEF server, vars, Write
    <2>3. CASE Drop \/ Restart
      BY <2>3 DEF server, vars, Drop, Restart, AnyStep, SessionStep
    <2>4. CASE SendInterrupted
      <3>1. strand # <<>> /\ Readable /\ job.op = "UPDATE"
        BY <2>4 DEF SendInterrupted, Typed, WellFormed
      <3>2. Part \in Content /\ job.path \in Paths /\ job.digest \in Content
        BY <3>1, PartType, HeadJob DEF Job
      <3>3. AnyUpdate(Link, job.path)
        BY <2>4, <3>2 DEF SendInterrupted, AnyUpdate
      <3> QED BY <3>2, <3>3 DEF AnyStep, AnyRequest
    <2> QED BY <1>6, <2>1, <2>2, <2>3, <2>4 DEF Environment
  <1> QED BY <1>1, <1>2, <1>3, <1>4, <1>5, <1>6 DEF BackupNext

\* What the threads and the user leave as it was.
LEMMA WriteType ==
    ASSUME ClientTypeOK, NEW n \in Names, NEW e \in {None} \cup CResource
    PROVE  [dir EXCEPT ![n] = e] \in [Names -> {None} \cup CResource]
  BY DEF ClientTypeOK

LEMMA AppendType ==
    ASSUME NEW S, NEW s \in Seq(S), NEW e \in S
    PROVE  /\ Append(s, e) \in Seq(S)
           /\ Len(Append(s, e)) = Len(s) + 1
           /\ \A i \in DOMAIN s : i \in DOMAIN Append(s, e) /\ Append(s, e)[i] = s[i]
           /\ \A i \in DOMAIN Append(s, e) : i \notin DOMAIN s =>
                i = Len(s) + 1 /\ Append(s, e)[i] = e
           /\ Len(s) + 1 \in DOMAIN Append(s, e) /\ Append(s, e)[Len(s) + 1] = e
  BY AppendProperties, LenProperties

\* What sync() posts: one lambda for each file that differs.
LEMMA SyncPostsType ==
    ASSUME Typed, FiniteNames
    PROVE  /\ SyncPosts \in Seq(Lambda)
           /\ Distinct(SyncPosts)
           /\ \A n \in Names : dir[n] # None /\ dir[n].digest # disk[Me][n] =>
                \E i \in DOMAIN SyncPosts : SyncPosts[i].path = n
           /\ \A n \in Names :
                disk[Me][n] # None /\ (dir[n] = None \/ dir[n].digest # disk[Me][n]) =>
                  \E i \in DOMAIN SyncPosts :
                    SyncPosts[i].path = n /\ SyncPosts[i].op # "CREATE"
           /\ \A i \in DOMAIN SyncPosts : LET l == SyncPosts[i] IN
                /\ l.op = "CREATE" => disk[Me][l.path] = None
                /\ l.op = "ERASE" => dir[l.path] = None
  <1> DEFINE listed == {n \in Names : disk[Me][n] # None}
             known  == {n \in Names : dir[n] # None}
             both   == {m \in listed \cap known : dir[m].digest # disk[Me][m]}
             erase  == {Posted("ERASE", n, disk[Me][n]) : n \in listed \ known}
             update == {Posted("UPDATE", n, dir[n].digest) : n \in both}
             create == {Posted("CREATE", n, dir[n].digest) : n \in known \ listed}
             es == SetToSeq(erase \cup update)
             cs == SetToSeq(create)
  <1>1. IsFiniteSet(listed \ known) /\ IsFiniteSet(both) /\ IsFiniteSet(known \ listed)
    BY FS_Subset DEF FiniteNames
  <1>2. IsFiniteSet(erase) /\ IsFiniteSet(update) /\ IsFiniteSet(create)
    <2>1. [n \in listed \ known |-> Posted("ERASE", n, disk[Me][n])]
            \in Surjection(listed \ known, erase)
      BY DEF Surjection
    <2>2. [n \in both |-> Posted("UPDATE", n, dir[n].digest)] \in Surjection(both, update)
      BY DEF Surjection
    <2>3. [n \in known \ listed |-> Posted("CREATE", n, dir[n].digest)]
            \in Surjection(known \ listed, create)
      BY DEF Surjection
    <2> QED BY <1>1, <2>1, <2>2, <2>3, FS_Surjection
  <1>3. erase \subseteq Lambda /\ update \subseteq Lambda /\ create \subseteq Lambda
    <2>1. \A n \in listed : disk[Me][n] \in Content
      BY ClientAssumption DEF Typed, Safe, TypeOK
    <2>2. \A n \in known : dir[n].digest \in Content
      BY DEF Typed, ClientTypeOK, CResource
    <2> QED BY <2>1, <2>2 DEF Posted, Lambda
  <1>4. SyncPosts = es \o cs
    BY DEF SyncPosts
  <1>5. IsFiniteSet(erase \cup update)
    BY <1>2, FS_Union
  <1>6. /\ es \in Seq(erase \cup update)
        /\ \A x \in erase \cup update : \E i \in DOMAIN es : es[i] = x
    BY <1>5, SetToSeqIsOfSet
  <1>7. /\ cs \in Seq(create)
        /\ \A x \in create : \E i \in DOMAIN cs : cs[i] = x
    BY <1>2, SetToSeqIsOfSet
  <1>8. es \in Seq(Lambda) /\ cs \in Seq(Lambda)
    BY <1>3, <1>6, <1>7, SeqMonotonic
  <1> HIDE DEF es, cs
  <1>c. /\ DOMAIN SyncPosts = 1 .. Len(es) + Len(cs) /\ Len(es) \in Nat /\ Len(cs) \in Nat
        /\ \A i \in DOMAIN SyncPosts :
             SyncPosts[i] = IF i <= Len(es) THEN es[i] ELSE cs[i - Len(es)]
        /\ DOMAIN es = 1 .. Len(es) /\ DOMAIN cs = 1 .. Len(cs)
    BY <1>4, <1>8, ConcatProperties, LenProperties
  <1>e. \A i \in DOMAIN es : i \in DOMAIN SyncPosts /\ SyncPosts[i] = es[i]
    BY <1>c
  <1>f. \A i \in DOMAIN cs :
          Len(es) + i \in DOMAIN SyncPosts /\ SyncPosts[Len(es) + i] = cs[i]
    BY <1>c
  <1>9. ASSUME NEW n \in Names, dir[n] # None, dir[n].digest # disk[Me][n]
        PROVE  \E i \in DOMAIN SyncPosts : SyncPosts[i].path = n
    <2>1. CASE n \in listed
      <3>1. PICK i \in DOMAIN es : es[i] = Posted("UPDATE", n, dir[n].digest)
        BY <1>6, <1>9, <2>1
      <3> QED BY <3>1, <1>e DEF Posted
    <2>2. CASE n \notin listed
      <3>1. PICK i \in DOMAIN cs : cs[i] = Posted("CREATE", n, dir[n].digest)
        BY <1>7, <1>9, <2>2
      <3> QED BY <3>1, <1>f DEF Posted
    <2> QED BY <2>1, <2>2
  <1>10. ASSUME NEW n \in listed, dir[n] = None \/ dir[n].digest # disk[Me][n]
         PROVE  \E i \in DOMAIN SyncPosts :
                  SyncPosts[i].path = n /\ SyncPosts[i].op # "CREATE"
    <2>1. \E x \in erase \cup update : x.path = n /\ x.op # "CREATE"
      <3>1. CASE dir[n] = None
        <4>1. Posted("ERASE", n, disk[Me][n]) \in erase
          BY <3>1
        <4>2. Posted("ERASE", n, disk[Me][n]).path = n
              /\ Posted("ERASE", n, disk[Me][n]).op # "CREATE"
          BY DEF Posted
        <4> HIDE DEF erase, update
        <4> QED BY <4>1, <4>2
      <3>2. CASE dir[n] # None
        <4>1. Posted("UPDATE", n, dir[n].digest) \in update
          BY <1>10, <3>2
        <4>2. Posted("UPDATE", n, dir[n].digest).path = n
              /\ Posted("UPDATE", n, dir[n].digest).op # "CREATE"
          BY DEF Posted
        <4> HIDE DEF erase, update
        <4> QED BY <4>1, <4>2
      <3> QED BY <3>1, <3>2
    <2> HIDE DEF erase, update
    <2> QED BY <2>1, <1>6, <1>e
  <1>11. /\ \A x \in erase : x.op = "ERASE" /\ x.path \in listed \ known
         /\ \A x \in update : x.op = "UPDATE" /\ x.path \in both
         /\ \A x \in create : x.op = "CREATE" /\ x.path \in known \ listed
    BY DEF Posted
  <1>12. /\ \A i \in DOMAIN es : es[i] \in erase \cup update
         /\ \A i \in DOMAIN cs : cs[i] \in create
    BY <1>6, <1>7, ElementOfSeq, LenProperties
  <1>13. Distinct(SyncPosts)
    <2>1. \A x, y \in erase \cup update : x.path = y.path => x = y
      BY DEF Posted
    <2>2. \A x, y \in create : x.path = y.path => x = y
      BY DEF Posted
    <2>3. Distinct(es) /\ Distinct(cs)
      BY <1>2, <1>5, <2>1, <2>2, SetToSeqDistinct DEF es, cs
    <2>4. \A i \in DOMAIN es, j \in DOMAIN cs : es[i].path # cs[j].path
      BY <1>11, <1>12
    <2> QED BY <1>4, <1>8, <2>3, <2>4, ConcatDistinct
  <1>14. ASSUME NEW i \in DOMAIN SyncPosts
         PROVE  SyncPosts[i] \in erase \cup update \cup create
    <2>1. CASE i <= Len(es)
      BY <1>c, <1>12, <2>1
    <2>2. CASE ~(i <= Len(es))
      <3>1. i - Len(es) \in DOMAIN cs
        BY <1>c, <2>2
      <3> QED BY <1>c, <1>12, <2>2, <3>1
    <2> QED BY <2>1, <2>2
  <1>15. SyncPosts \in Seq(Lambda)
    BY <1>4, <1>8, ConcatProperties
  <1> QED BY <1>9, <1>10, <1>11, <1>13, <1>14, <1>15

LEMMA WatcherTyped ==
    ASSUME Typed,
           WatchStep \/ (\E n \in Names : WatchMissing(n)) \/ (\E p \in Paths : WatchList(p))
    PROVE  (ClientTypeOK /\ WellFormed)'
  <1> USE DEF Typed
  <1>1. ASSUME NEW n \in Names, WatchMissing(n) PROVE (ClientTypeOK /\ WellFormed)'
    <2>1. Posted("ERASE", n, dir[n].digest) \in Lambda
      BY <1>1 DEF WatchMissing, Posted, Lambda, ClientTypeOK, CResource
    <2>2. pool' \in Seq(Lambda)
      BY <1>1, <2>1, AppendType DEF WatchMissing, ClientTypeOK
    <2> QED BY <1>1, <2>2 DEF WatchMissing, ClientTypeOK, WellFormed
  <1>2. ASSUME NEW p \in Paths, WatchList(p) PROVE (ClientTypeOK /\ WellFormed)'
    <2>1. watch' \in Watched /\ watch'.step = "listed"
      BY <1>2 DEF WatchList, Watched
    <2> QED BY <1>2, <2>1 DEF WatchList, ClientTypeOK, WellFormed
  <1>3. ASSUME watch # None
        PROVE  /\ watch \in Watched /\ watch.path \in Paths /\ watch.path \in Names
               /\ file[watch.path] \in {None} \cup Content
    BY <1>3, NamesAssumption DEF ClientTypeOK, Watched
  <1>4. CASE WatchHash
    <2>1. watch' = [watch EXCEPT !.step = "hashed", !.digest = file[watch.path]]
          /\ watch # None /\ file[watch.path] # None
      BY <1>4 DEF WatchHash, Watching
    <2>2. watch' \in Watched /\ watch'.digest \in Content
      BY <1>3, <2>1 DEF Watched
    <2> QED BY <1>4, <2>2 DEF WatchHash, ClientTypeOK, WellFormed
  <1>5. CASE WatchFind
    <2>1. watch # None /\ watch.step = "hashed" /\ watch.digest \in Content
      BY <1>5 DEF WatchFind, Watching, WellFormed
    <2>2. CASE dir[watch.path] = None
      <3>1. Posted("CREATE", watch.path, watch.digest) \in Lambda
        BY <1>3, <2>1 DEF Posted, Lambda
      <3>2. pool' \in Seq(Lambda) /\ watch' = None
        BY <1>5, <2>2, <3>1, AppendType DEF WatchFind, ClientTypeOK
      <3> QED BY <1>5, <3>2 DEF WatchFind, ClientTypeOK, WellFormed
    <2>3. CASE dir[watch.path] # None
      <3>1. watch' = [watch EXCEPT !.step = "found"] /\ pool' = pool
        BY <1>5, <2>3 DEF WatchFind
      <3>2. watch' \in Watched /\ watch'.digest \in Content
        BY <1>3, <2>1, <3>1 DEF Watched
      <3> QED BY <1>5, <3>1, <3>2 DEF WatchFind, ClientTypeOK, WellFormed
    <2> QED BY <2>2, <2>3
  <1>6. CASE WatchDecide
    <2> DEFINE due == {Posted(o, watch.path, watch.digest) :
                         o \in Due(dir[watch.path], watch.digest)}
    <2>1. watch # None /\ watch.digest \in Content
      BY <1>6 DEF WatchDecide, Watching, WellFormed
    <2>2. due \subseteq Lambda /\ IsFiniteSet(due)
      <3>1. \/ Due(dir[watch.path], watch.digest) = {}
            \/ \E o \in {"CREATE", "UPDATE"} : Due(dir[watch.path], watch.digest) = {o}
        BY DEF Due
      <3>2. \/ due = {}
            \/ \E o \in {"CREATE", "UPDATE"} : due = {Posted(o, watch.path, watch.digest)}
        BY <3>1
      <3>3. \A o \in {"CREATE", "UPDATE"} : Posted(o, watch.path, watch.digest) \in Lambda
        BY <2>1, <1>3 DEF Posted, Lambda
      <3>4. due \subseteq Lambda
        BY <3>2, <3>3
      <3>5. CASE due = {}
        BY <3>4, <3>5, FS_EmptySet
      <3>6. CASE \E o \in {"CREATE", "UPDATE"} : due = {Posted(o, watch.path, watch.digest)}
        BY <3>4, <3>6, FS_Singleton
      <3> QED BY <3>2, <3>5, <3>6
    <2>3. pool' = pool \o SetToSeq(due) /\ watch' = None
      BY <1>6 DEF WatchDecide
    <2>4. SetToSeq(due) \in Seq(Lambda)
      BY <2>2, SetToSeqIsOfSet, SeqMonotonic
    <2>5. pool' \in Seq(Lambda)
      BY <2>3, <2>4, ConcatProperties DEF ClientTypeOK
    <2> QED BY <1>6, <2>3, <2>5 DEF WatchDecide, ClientTypeOK, WellFormed
  <1>7. CASE WatchThrows
    BY <1>7 DEF WatchThrows, ClientTypeOK, WellFormed
  <1> QED BY <1>1, <1>2, <1>4, <1>5, <1>6, <1>7 DEF WatchStep

LEMMA PoolTyped ==
    ASSUME Typed, NEW i \in DOMAIN pool, RunLambda(i)
    PROVE  (ClientTypeOK /\ WellFormed)'
  <1> DEFINE l == pool[i]
             j == [op |-> l.op, path |-> l.path, digest |-> l.digest,
                   len  |-> IF Local(l.path) = None THEN -1 ELSE Len(Local(l.path)),
                   text |-> None]
  <1>1. l \in Lambda
    BY ElementOfSeq, LenProperties DEF Typed, ClientTypeOK
  <1>2. l.op \in {"CREATE", "UPDATE", "ERASE"} /\ l.path \in Names /\ l.digest \in Content
    BY <1>1 DEF Lambda
  <1>3. Local(l.path) \in {None} \cup Content /\ (Local(l.path) # None => l.path \in Paths)
    BY <1>2, LocalType DEF Typed
  <1>4. j \in Job /\ (j.len # -1 => j.path \in Paths)
    BY <1>2, <1>3, LenProperties DEF Job, Content
  <1>5. Entry("indeterminate", l.op # "CREATE", l.digest) \in CResource
    BY <1>2 DEF Entry, CResource
  <1>6. /\ dir' = [dir EXCEPT ![l.path] = Entry("indeterminate", l.op # "CREATE", l.digest)]
        /\ strand' = Append(strand, j)
        /\ pool' = RemoveAt(pool, i)
        /\ UNCHANGED <<server, file, watch, task, client, budget>>
    BY DEF RunLambda
  <1> HIDE DEF j, l
  <1>7. dir' \in [Names -> {None} \cup CResource]
    BY <1>2, <1>5, <1>6, WriteType DEF Typed
  <1>8. strand' \in Seq(Job) /\ pool' \in Seq(Lambda)
    BY <1>4, <1>6, AppendType, RemoveAtProperties DEF Typed, ClientTypeOK
  <1>9. strand' # <<>>
    BY <1>4, <1>6, AppendProperties, EmptySeq, LenProperties DEF Typed, ClientTypeOK
  <1>10. \A k \in DOMAIN strand' : strand'[k].len # -1 => strand'[k].path \in Paths
    BY <1>4, <1>6, AppendType DEF Typed, ClientTypeOK, WellFormed
  <1> QED BY <1>6, <1>7, <1>8, <1>9, <1>10 DEF Typed, ClientTypeOK, WellFormed

LEMMA StrandTyped ==
    ASSUME Typed, FiniteNames, Safe', StrandStep
    PROVE  (ClientTypeOK /\ WellFormed)'
  <1> USE DEF Typed
  <1>t. task \in Task
    BY DEF ClientTypeOK
  <1>w. task.phase \in {"send", "await", "handle", "store"} => strand # <<>> /\ task.ofJob
    BY DEF WellFormed
  <1>i. Idle \in Task /\ ~Idle.ofJob /\ Idle.phase = "idle"
    BY DEF Idle, Task, Results
  <1>1. CASE StartJob
    <2>1. task' = [Idle EXCEPT !.phase = "send", !.ofJob = TRUE] /\ strand # <<>>
      BY <1>1 DEF StartJob
    <2>2. task' \in Task /\ task'.phase = "send" /\ task'.ofJob
      BY <2>1, <1>i DEF Task
    <2> QED BY <1>1, <2>1, <2>2 DEF StartJob, ClientTypeOK, WellFormed
  <1>2. CASE Send
    <2>1. task' = [task EXCEPT !.phase = "await", !.sent = task.sent + 1]
      BY <1>2 DEF Send
    <2>2. task.sent + 1 \in Nat
      BY <1>t DEF Task
    <2>3. task' \in Task /\ task'.phase = "await" /\ task'.ofJob = task.ofJob
      BY <2>1, <2>2, <1>t DEF Task
    <2> QED BY <1>2, <1>w, <2>3 DEF Send, ClientTypeOK, WellFormed
  <1>3. CASE ReadFails \/ LinkFails
    <2>1. /\ task' = [task EXCEPT !.phase = "handle", !.resp = "LOST"]
          /\ task.phase \in {"send", "await"}
      BY <1>3 DEF ReadFails, LinkFails, Broken
    <2>2. task' \in Task /\ task'.phase = "handle" /\ task'.ofJob = task.ofJob
      BY <2>1, <1>t DEF Task
    <2> QED BY <1>3, <1>w, <2>1, <2>2 DEF ReadFails, LinkFails, ClientTypeOK, WellFormed
  <1>4. CASE Receive
    <2>1. reply[Link] \in Results
      BY ClientAssumption DEF Safe, TypeOK
    <2>2. /\ task' \in Task /\ task'.ofJob = task.ofJob
          /\ task'.phase \in {"send", "handle"}
      BY <1>4, <1>t, <2>1 DEF Receive, Task
    <2> QED BY <1>4, <1>w, <2>2 DEF Receive, ClientTypeOK, WellFormed
  <1>5. CASE LinkLost \/ Connect \/ Authenticate \/ SyncLost
    <2>1. /\ \E ph \in {"connect", "auth", "scan", "list"} : task' = [task EXCEPT !.phase = ph]
          /\ UNCHANGED <<file, dir, watch, pool, strand, client, budget>>
      BY <1>5 DEF LinkLost, Connect, Authenticate, SyncLost
    <2>2. /\ task' \in Task /\ task'.ofJob = task.ofJob
          /\ task'.phase \in {"connect", "auth", "scan", "list"}
      BY <2>1, <1>t DEF Task
    <2> QED BY <2>1, <2>2 DEF ClientTypeOK, WellFormed
  <1>6. CASE StartFails \/ HandleExits
    BY <1>6 DEF StartFails, HandleExits, ClientTypeOK, WellFormed
  <1>7. CASE Scan
    <2>1. \A n \in Names : Local(n) # None =>
            Entry("indeterminate", FALSE, Local(n)) \in CResource
      BY LocalType DEF Entry, CResource
    <2>2. dir' \in [Names -> {None} \cup CResource]
      BY <1>7, <2>1 DEF Scan
    <2>3. /\ task' \in Task /\ task'.ofJob = task.ofJob /\ task'.phase = "list"
      BY <1>7, <1>t DEF Scan, Task
    <2> QED BY <1>7, <2>2, <2>3 DEF Scan, ClientTypeOK, WellFormed
  <1>8. CASE Sync
    <2>1. \A n \in Names : dir[n] # None => Entry("true", TRUE, dir[n].digest) \in CResource
      BY DEF Entry, CResource, ClientTypeOK
    <2>2. dir' \in [Names -> {None} \cup CResource]
      BY <1>8, <2>1 DEF Sync, ClientTypeOK
    <2>3. pool' \in Seq(Lambda)
      BY <1>8, SyncPostsType, ConcatProperties DEF Sync, ClientTypeOK
    <2>4. \/ task' = Idle
          \/ /\ task.ofJob /\ task' \in Task /\ task'.ofJob = task.ofJob
             /\ task'.phase = "handle"
      BY <1>8, <1>t DEF Sync, Task
    <2> QED BY <1>8, <1>i, <2>2, <2>3, <2>4 DEF Sync, ClientTypeOK, WellFormed
  <1>9. CASE HandleRead
    <2>1. task' = [task EXCEPT !.phase = "store", !.copy = dir[job.path]]
          /\ task.phase = "handle" /\ dir[job.path] # None
      BY <1>9 DEF HandleRead
    <2>2. dir[job.path] \in CResource
      BY <1>w, <2>1, HeadJob DEF Job, ClientTypeOK
    <2>3. task' \in Task /\ task'.ofJob = task.ofJob /\ task'.copy \in CResource
      BY <2>1, <2>2, <1>t DEF Task
    <2> QED BY <1>9, <1>w, <2>1, <2>3 DEF HandleRead, ClientTypeOK, WellFormed
  <1>10. CASE HandleStore
    <2>1. task.phase = "store" /\ dir' = [dir EXCEPT ![job.path] = Handled]
          /\ strand' = Tail(strand) /\ task' = Idle
      BY <1>10 DEF HandleStore
    <2>2. Handled \in {None} \cup CResource
      BY <2>1, <1>w, HeadJob DEF Handled, WellFormed, CResource, Job
    <2>3. dir' \in [Names -> {None} \cup CResource]
      BY <2>1, <2>2, <1>w, HeadJob, WriteType DEF Job
    <2>4. /\ strand' \in Seq(Job)
          /\ \A i \in DOMAIN strand' : strand'[i].len # -1 => strand'[i].path \in Paths
      BY <2>1, <1>w, HeadJob DEF WellFormed
    <2> QED BY <1>10, <1>i, <2>1, <2>3, <2>4 DEF HandleStore, ClientTypeOK, WellFormed
  <1> QED BY <1>1, <1>2, <1>3, <1>4, <1>5, <1>6, <1>7, <1>8, <1>9, <1>10 DEF StrandStep

LEMMA EnvironmentTyped ==
    ASSUME Typed, Environment
    PROVE  (ClientTypeOK /\ WellFormed)'
  <1> USE DEF Typed
  <1>t. task \in Task /\ budget \in [edits : Nat, drops : Nat, starts : Nat]
    BY DEF ClientTypeOK
  <1>1. ASSUME NEW p \in Paths, NEW t \in Texts, Write(p, t)
        PROVE  (ClientTypeOK /\ WellFormed)'
    <2>1. file' = [file EXCEPT ![p] = t] /\ budget' = [budget EXCEPT !.edits = @ - 1]
          /\ budget.edits > 0
      BY <1>1 DEF Write, CanEdit
    <2>2. file' \in [Paths -> {None} \cup Content]
      BY <2>1, ClientAssumption DEF ClientTypeOK
    <2>3. budget' \in [edits : Nat, drops : Nat, starts : Nat]
      BY <2>1, <1>t
    <2> QED BY <1>1, <2>2, <2>3 DEF Write, ClientTypeOK, WellFormed
  <1>2. ASSUME NEW p \in Paths, Unlink(p)
        PROVE  (ClientTypeOK /\ WellFormed)'
    <2> DEFINE j(i) == IF strand[i].path = p /\ strand[i].len # -1 /\ strand[i].text = None
                       THEN [strand[i] EXCEPT !.text = file[p]] ELSE strand[i]
    <2>1. /\ file' = [file EXCEPT ![p] = None] /\ budget' = [budget EXCEPT !.edits = @ - 1]
          /\ budget.edits > 0 /\ file[p] # None
          /\ strand' = [i \in DOMAIN strand |-> j(i)]
      BY <1>2 DEF Unlink, CanEdit
    <2>2. file' \in [Paths -> {None} \cup Content] /\ file[p] \in Content
      BY <2>1 DEF ClientTypeOK
    <2>3. budget' \in [edits : Nat, drops : Nat, starts : Nat]
      BY <2>1, <1>t
    <2>4. \A i \in DOMAIN strand : strand[i] \in Job
      BY ElementOfSeq, LenProperties DEF ClientTypeOK
    <2>5. \A i \in DOMAIN strand :
            j(i) \in Job /\ j(i).path = strand[i].path /\ j(i).len = strand[i].len
      BY <2>2, <2>4 DEF Job
    <2> HIDE DEF j
    <2>6. DOMAIN strand = 1 .. Len(strand) /\ Len(strand) \in Nat
      BY LenProperties DEF ClientTypeOK
    <2>7. strand' \in Seq(Job) /\ DOMAIN strand' = DOMAIN strand
      BY <2>1, <2>5, <2>6, SeqDef
    <2>8. strand # <<>> => strand' # <<>>
      BY <2>6, <2>7, EmptySeq, LenProperties DEF ClientTypeOK
    <2>9. \A i \in DOMAIN strand' : strand'[i].len # -1 => strand'[i].path \in Paths
      BY <2>1, <2>5, <2>7 DEF WellFormed
    <2> QED BY <1>2, <2>2, <2>3, <2>7, <2>8, <2>9 DEF Unlink, ClientTypeOK, WellFormed
  <1>3. CASE Drop
    <2>1. budget' \in [edits : Nat, drops : Nat, starts : Nat]
      BY <1>3, <1>t DEF Drop
    <2> QED BY <1>3, <2>1 DEF Drop, ClientTypeOK, WellFormed
  <1>4. CASE SendInterrupted
    <2>1. budget' \in [edits : Nat, drops : Nat, starts : Nat]
      BY <1>4, <1>t DEF SendInterrupted
    <2>2. task' \in Task /\ task'.phase = "await" /\ task'.ofJob = task.ofJob
          /\ task.phase = "send"
      <3>1. task.sent + 1 \in Nat
        BY <1>t DEF Task
      <3>2. task' = [task EXCEPT !.phase = "await", !.sent = task.sent + 1]
        BY <1>4 DEF SendInterrupted
      <3> QED BY <1>4, <3>1, <3>2, <1>t DEF SendInterrupted, Task
    <2> QED BY <1>4, <2>1, <2>2 DEF SendInterrupted, ClientTypeOK, WellFormed
  <1>5. CASE Restart
    <2>1. budget' \in [edits : Nat, drops : Nat, starts : Nat]
      BY <1>5, <1>t DEF Restart
    <2>2. task' \in Task /\ task'.phase = "connect" /\ ~task'.ofJob
      BY <1>5 DEF Restart, Task, Idle, Results
    <2>3. /\ file' = file /\ dir' = [n \in Names |-> None] /\ watch' = None
          /\ pool' = <<>> /\ strand' = <<>> /\ client' = "login"
      BY <1>5 DEF Restart
    <2> QED BY <2>1, <2>2, <2>3, EmptySeq DEF ClientTypeOK, WellFormed
  <1> QED BY <1>1, <1>2, <1>3, <1>4, <1>5 DEF Environment

LEMMA TypedStep ==
    ASSUME FiniteNames
    PROVE  Typed /\ [BackupNext]_allVars => Typed'
  <1> SUFFICES ASSUME Typed, [BackupNext]_allVars PROVE Typed'
    OBVIOUS
  <1>1. CASE UNCHANGED allVars
    BY <1>1 DEF allVars, cvars, vars, Typed, Safe, TypeOK, StreamOnDisk, ClientTypeOK,
                WellFormed
  <1>2. CASE BackupNext
    <2>1. Safe'
      BY <1>2, ServerSteps, StepSafe DEF Typed
    <2>2. (ClientTypeOK /\ WellFormed)'
      BY <1>2, <2>1, StrandTyped, PoolTyped, WatcherTyped, EnvironmentTyped
         DEF BackupNext, PoolStep
    <2> QED BY <2>1, <2>2 DEF Typed
  <1> QED BY <1>1, <1>2

LEMMA TypedInit == ClientInit => Typed
  <1> SUFFICES ASSUME ClientInit PROVE Typed
    OBVIOUS
  <1>1. Safe
    BY InitSafe DEF ClientInit
  <1>2. task \in Task /\ task.phase = "connect" /\ ~task.ofJob
    BY DEF ClientInit, Idle, Task, Results
  <1>3. ClientTypeOK
    BY <1>2, ClientAssumption, EmptySeq DEF ClientInit, ClientTypeOK
  <1> QED BY <1>1, <1>2, <1>3 DEF Typed, WellFormed, ClientInit

LEMMA TypedAlways ==
    ASSUME FiniteNames
    PROVE  BackupSpec => []Typed
  <1>1. Typed /\ [BackupNext]_allVars => Typed'
    BY TypedStep
  <1> QED BY <1>1, TypedInit, PTL DEF BackupSpec

\* The client's state keeps its type, however its threads interleave and whatever
\* the user, the link and the two processes do.
THEOREM ClientTypeCorrect ==
    ASSUME FiniteNames
    PROVE  BackupSpec => []ClientTypeOK
  <1>1. Typed => ClientTypeOK
    BY DEF Typed
  <1> QED BY <1>1, TypedAlways, PTL

(***************************************************************************)
(* What the steps do to pool and strand.                                   *)
(***************************************************************************)

LEMMA UnlinkKeeps ==
    ASSUME Typed, NEW p \in Paths, Unlink(p)
    PROVE  /\ DOMAIN strand' = DOMAIN strand
           /\ \A i \in DOMAIN strand :
                /\ strand'[i].op = strand[i].op /\ strand'[i].path = strand[i].path
                /\ strand'[i].digest = strand[i].digest /\ strand'[i].len = strand[i].len
           /\ strand = <<>> => strand' = <<>>
           /\ strand # <<>> =>
                /\ strand' # <<>>
                /\ job'.op = job.op /\ job'.path = job.path /\ job'.digest = job.digest
                /\ job'.len = job.len
  <1>1. strand' = [i \in DOMAIN strand |->
               IF strand[i].path = p /\ strand[i].len # -1 /\ strand[i].text = None
               THEN [strand[i] EXCEPT !.text = file[p]] ELSE strand[i]]
    BY DEF Unlink
  <1>2. strand \in Seq(Job) /\ strand' \in Seq(Job)
    BY EnvironmentTyped DEF Typed, ClientTypeOK, Environment
  <1>3. \A i \in DOMAIN strand : strand[i] \in Job
    BY <1>2, ElementOfSeq, LenProperties
  <1>4. \A i \in DOMAIN strand :
          /\ strand'[i].op = strand[i].op /\ strand'[i].path = strand[i].path
          /\ strand'[i].digest = strand[i].digest /\ strand'[i].len = strand[i].len
    BY <1>1, <1>3 DEF Job
  <1>5. strand = <<>> => strand' = <<>>
    BY <1>1, <1>2, EmptySeq, LenProperties
  <1>6. ASSUME strand # <<>>
        PROVE  strand' # <<>> /\ job = strand[1] /\ job' = strand'[1] /\ 1 \in DOMAIN strand
    <2>1. strand' # <<>>
      BY <1>1, <1>2, <1>6, EmptySeq, LenProperties
    <2> QED BY <1>2, <1>6, <2>1, EmptySeq, LenProperties DEF job
  <1> QED BY <1>1, <1>4, <1>5, <1>6

\* A lambda becomes the last job of the strand and rewrites its file's entry; the
\* other lambdas are left, in their order.
LEMMA RunLambdaEffect ==
    ASSUME Typed, NEW i \in DOMAIN pool, RunLambda(i)
    PROVE  LET l == pool[i] IN
           /\ l \in Lambda
           /\ dir' = [dir EXCEPT ![l.path] =
                        Entry("indeterminate", l.op # "CREATE", l.digest)]
           /\ \A k \in DOMAIN strand : k \in DOMAIN strand' /\ strand'[k] = strand[k]
           /\ \A k \in DOMAIN strand' : k \notin DOMAIN strand =>
                /\ k = Len(strand) + 1
                /\ strand'[k].op = l.op /\ strand'[k].path = l.path
                /\ strand'[k].digest = l.digest
           /\ Len(strand) + 1 \in DOMAIN strand' /\ strand'[Len(strand) + 1].path = l.path
           /\ strand # <<>> => strand' # <<>> /\ Head(strand') = Head(strand)
           /\ \A k \in DOMAIN pool' :
                LET m == IF k < i THEN k ELSE k + 1
                IN  m \in DOMAIN pool /\ m # i /\ pool'[k] = pool[m]
           /\ \A m \in DOMAIN pool : m # i =>
                \E k \in DOMAIN pool' : pool'[k] = pool[m]
           /\ UNCHANGED <<server, file, watch, task, client, budget>>
  <1> DEFINE l == pool[i]
             j == [op |-> l.op, path |-> l.path, digest |-> l.digest,
                   len  |-> IF Local(l.path) = None THEN -1 ELSE Len(Local(l.path)),
                   text |-> None]
  <1>1. pool \in Seq(Lambda) /\ strand \in Seq(Job) /\ strand' \in Seq(Job)
    BY PoolTyped DEF Typed, ClientTypeOK
  <1>2. /\ dir' = [dir EXCEPT ![l.path] =
                     Entry("indeterminate", l.op # "CREATE", l.digest)]
        /\ pool' = RemoveAt(pool, i)
        /\ strand' = Append(strand, j)
        /\ UNCHANGED <<server, file, watch, task, client, budget>>
    BY DEF RunLambda
  <1>3. l \in Lambda
    BY <1>1, ElementOfSeq, LenProperties
  <1>4. /\ DOMAIN strand = 1 .. Len(strand) /\ Len(strand) \in Nat
        /\ DOMAIN strand' = 1 .. Len(strand) + 1
        /\ \A k \in 1 .. Len(strand) : strand'[k] = strand[k]
        /\ strand'[Len(strand) + 1] = j
    BY <1>1, <1>2, LenProperties
  <1>5. j.op = l.op /\ j.path = l.path /\ j.digest = l.digest
    OBVIOUS
  <1> HIDE DEF j
  <1>6. /\ \A k \in DOMAIN strand : k \in DOMAIN strand' /\ strand'[k] = strand[k]
        /\ \A k \in DOMAIN strand' : k \notin DOMAIN strand =>
             k = Len(strand) + 1 /\ strand'[k] = j
        /\ Len(strand) + 1 \in DOMAIN strand' /\ strand'[Len(strand) + 1].path = l.path
    BY <1>4, <1>5
  <1>7. strand # <<>> => strand' # <<>> /\ Head(strand') = Head(strand)
    <2>1. ASSUME strand # <<>> PROVE 1 \in DOMAIN strand /\ Head(strand) = strand[1]
      BY <1>1, <2>1, EmptySeq, LenProperties
    <2>2. strand' # <<>> /\ Head(strand') = strand'[1]
      BY <1>1, <1>4, EmptySeq, LenProperties
    <2> QED BY <2>1, <2>2, <1>6
  <1>8. /\ DOMAIN pool = 1 .. Len(pool) /\ Len(pool) \in Nat /\ i \in 1 .. Len(pool)
        /\ DOMAIN pool' = 1 .. Len(pool) - 1
        /\ \A k \in 1 .. Len(pool) - 1 :
             pool'[k] = IF k < i THEN pool[k] ELSE pool[k + 1]
    BY <1>1, <1>2, RemoveAtProperties, LenProperties
  <1>9. \A k \in DOMAIN pool' :
          LET m == IF k < i THEN k ELSE k + 1
          IN  m \in DOMAIN pool /\ m # i /\ pool'[k] = pool[m]
    BY <1>8
  <1>10. ASSUME NEW m \in DOMAIN pool, m # i
         PROVE  \E k \in DOMAIN pool' : pool'[k] = pool[m]
    <2>1. CASE m < i
      <3>1. m \in DOMAIN pool' /\ pool'[m] = pool[m]
        BY <1>8, <1>10, <2>1
      <3> QED BY <3>1
    <2>2. CASE ~(m < i)
      <3>1. m - 1 \in DOMAIN pool' /\ ~(m - 1 < i) /\ (m - 1) + 1 = m
        BY <1>8, <1>10, <2>2
      <3>2. pool'[m - 1] = pool[m]
        BY <1>8, <3>1
      <3> QED BY <3>1, <3>2
    <2> QED BY <2>1, <2>2
  <1> HIDE DEF l
  <1>11. /\ \A k \in DOMAIN strand' : k \notin DOMAIN strand =>
              /\ k = Len(strand) + 1
              /\ strand'[k].op = l.op /\ strand'[k].path = l.path
              /\ strand'[k].digest = l.digest
    BY <1>5, <1>6
  <1> QED BY <1>2, <1>3, <1>6, <1>7, <1>9, <1>10, <1>11 DEF l

\* The head of the strand is its first job, and each job is one.
LEMMA StrandType ==
    ASSUME Typed
    PROVE  /\ strand \in Seq(Job) /\ DOMAIN strand = 1 .. Len(strand) /\ Len(strand) \in Nat
           /\ \A i \in DOMAIN strand : strand[i] \in Job
           /\ strand # <<>> <=> 1 \in DOMAIN strand
           /\ strand # <<>> => job = strand[1]
  <1>1. strand \in Seq(Job)
    BY DEF Typed, ClientTypeOK
  <1>2. DOMAIN strand = 1 .. Len(strand) /\ Len(strand) \in Nat
    BY <1>1, LenProperties
  <1>3. strand # <<>> <=> Len(strand) # 0
    BY <1>1, EmptySeq
  <1> QED BY <1>1, <1>2, <1>3, ElementOfSeq DEF job

(***************************************************************************)
(* No entry is left indeterminate with nothing to settle it.               *)
(***************************************************************************)

\* The steps that neither make an entry indeterminate nor take a lambda or a job
\* out of its queue.
LEMMA PendingStays ==
    ASSUME NoOrphan, client' \in {client, "exited"}, dir' = dir,
           \A i \in DOMAIN pool : i \in DOMAIN pool' /\ pool'[i].path = pool[i].path,
           \A i \in DOMAIN strand : i \in DOMAIN strand' /\ strand'[i].path = strand[i].path
    PROVE  NoOrphan'
  BY DEF NoOrphan, Waiting, Pending

LEMMA StrandNoOrphan ==
    ASSUME Typed, FiniteNames, NoOrphan, StrandStep
    PROVE  NoOrphan'
  <1>1. CASE StartJob \/ Send \/ ReadFails \/ Receive \/ LinkLost \/ LinkFails
             \/ Connect \/ Authenticate \/ StartFails \/ SyncLost \/ HandleRead
             \/ HandleExits
    <2>1. client' \in {client, "exited"} /\ UNCHANGED <<dir, pool, strand>>
      BY <1>1 DEF StartJob, Send, ReadFails, Receive, LinkLost, LinkFails, Connect,
         Authenticate, StartFails, SyncLost, HandleRead, HandleExits
    <2> QED BY <2>1, PendingStays
  <1>2. CASE Scan
    BY <1>2 DEF Scan, NoOrphan
  <1>3. CASE Sync
    <2> SUFFICES ASSUME NEW n \in Names, Waiting(n)' PROVE Pending(n)'
      BY DEF NoOrphan
    <2>1. dir[n] # None /\ dir[n].digest # disk[Me][n]
      BY <1>3 DEF Sync, Waiting, Entry
    <2>2. PICK i \in DOMAIN SyncPosts : SyncPosts[i].path = n
      BY <2>1, SyncPostsType
    <2>3. pool' = pool \o SyncPosts /\ SyncPosts \in Seq(Lambda) /\ pool \in Seq(Lambda)
      BY <1>3, SyncPostsType DEF Sync, Typed, ClientTypeOK
    <2>4. Len(pool) + i \in DOMAIN pool' /\ pool'[Len(pool) + i] = SyncPosts[i]
      BY <2>2, <2>3, ConcatProperties, LenProperties
    <2> QED BY <2>2, <2>4 DEF Pending
  <1>4. CASE HandleStore
    <2>1. /\ strand # <<>> /\ task.copy \in CResource
          /\ dir' = [dir EXCEPT ![job.path] = Handled]
          /\ strand' = Tail(strand) /\ pool' = pool /\ client' = client
      BY <1>4 DEF HandleStore, Typed, WellFormed
    <2>2. Handled = None \/ Handled.synced # "indeterminate"
      BY <2>1, HeadJob DEF Handled, Job, CResource
    <2>3. job.path \in Names
      BY <2>1, HeadJob DEF Job
    <2>4. \A n \in Names : n = job.path => ~Waiting(n)'
      BY <2>1, <2>2, <2>3 DEF Waiting, Typed, ClientTypeOK
    <2>5. ASSUME NEW n \in Names, n # job.path, Pending(n) PROVE Pending(n)'
      <3>1. CASE \E i \in DOMAIN pool : pool[i].path = n
        BY <2>1, <3>1 DEF Pending
      <3>2. ASSUME NEW i \in DOMAIN strand, strand[i].path = n PROVE Pending(n)'
        <4>1. i # 1
          BY <2>1, <2>5, <3>2 DEF job
        <4> QED BY <4>1, <2>1, <3>2, HeadJob DEF Pending
      <3> QED BY <2>5, <3>1, <3>2 DEF Pending
    <2>6. \A n \in Names : n # job.path => Waiting(n)' = Waiting(n)
      BY <2>1, <2>3 DEF Waiting, Typed, ClientTypeOK
    <2> QED BY <2>1, <2>4, <2>5, <2>6 DEF NoOrphan
  <1> QED BY <1>1, <1>2, <1>3, <1>4 DEF StrandStep

LEMMA PoolNoOrphan ==
    ASSUME Typed, NoOrphan, NEW i \in DOMAIN pool, RunLambda(i)
    PROVE  NoOrphan'
  <1> DEFINE l == pool[i]
  <1>1. /\ \A n \in Names : n # l.path => dir'[n] = dir[n]
        /\ \A k \in DOMAIN strand : k \in DOMAIN strand' /\ strand'[k] = strand[k]
        /\ Len(strand) + 1 \in DOMAIN strand' /\ strand'[Len(strand) + 1].path = l.path
        /\ \A m \in DOMAIN pool : m # i => \E k \in DOMAIN pool' : pool'[k] = pool[m]
        /\ client' = client
    BY RunLambdaEffect DEF Typed, ClientTypeOK
  <1> SUFFICES ASSUME NEW n \in Names, client = "watching", Waiting(n)'
               PROVE  Pending(n)'
    BY <1>1 DEF NoOrphan
  <1>2. CASE n = l.path
    BY <1>1, <1>2 DEF Pending
  <1>3. CASE n # l.path
    <2>1. Pending(n)
      BY <1>1, <1>3 DEF NoOrphan, Waiting
    <2> QED BY <1>1, <1>3, <2>1 DEF Pending
  <1> QED BY <1>2, <1>3

LEMMA OthersNoOrphan ==
    ASSUME Typed, NoOrphan,
           WatchStep \/ (\E n \in Names : WatchMissing(n))
           \/ (\E p \in Paths : WatchList(p)) \/ Environment
    PROVE  NoOrphan'
  <1>1. pool \in Seq(Lambda)
    BY DEF Typed, ClientTypeOK
  <1>2. CASE WatchStep \/ (\E n \in Names : WatchMissing(n))
    <2>1. client' \in {client, "exited"} /\ UNCHANGED <<dir, strand>>
      BY <1>2 DEF WatchStep, WatchMissing, WatchHash, WatchFind, WatchDecide, WatchThrows
    <2>2. \/ pool' = pool
          \/ \E l : pool' = Append(pool, l)
          \/ \E s \in Seq(Lambda) : pool' = pool \o s
      <3>1. CASE WatchDecide
        <4>1. pool' \in Seq(Lambda)
          BY <3>1, WatcherTyped DEF WatchStep, ClientTypeOK
        <4>2. Due(dir[watch.path], watch.digest) \subseteq {"CREATE", "UPDATE"}
          BY DEF Due
        <4> DEFINE due == {Posted(o, watch.path, watch.digest) :
                             o \in Due(dir[watch.path], watch.digest)}
        <4>3. watch # None /\ watch \in Watched /\ watch.digest \in Content
          BY <3>1 DEF WatchDecide, Watching, Typed, WellFormed, ClientTypeOK
        <4>4. due \subseteq Lambda
          BY <4>2, <4>3, NamesAssumption DEF Posted, Lambda, Watched
        <4>5. IsFiniteSet(due)
          <5>1. \/ Due(dir[watch.path], watch.digest) = {}
                \/ \E o : Due(dir[watch.path], watch.digest) = {o}
            BY DEF Due
          <5>2. due = {} \/ \E x : due = {x}
            BY <5>1
          <5>3. CASE due = {}
            BY <5>3, FS_EmptySet
          <5>4. CASE \E x : due = {x}
            BY <5>4, FS_Singleton
          <5> QED BY <5>2, <5>3, <5>4
        <4>6. SetToSeq(due) \in Seq(Lambda) /\ pool' = pool \o SetToSeq(due)
          BY <3>1, <4>4, <4>5, SetToSeqIsOfSet, SeqMonotonic DEF WatchDecide
        <4> QED BY <4>6
      <3>2. CASE WatchHash \/ WatchThrows
        BY <3>2 DEF WatchHash, WatchThrows
      <3>3. CASE WatchFind
        BY <3>3 DEF WatchFind
      <3>4. CASE \E n \in Names : WatchMissing(n)
        BY <3>4 DEF WatchMissing
      <3> QED BY <1>2, <3>1, <3>2, <3>3, <3>4 DEF WatchStep
    <2>3. \A i \in DOMAIN pool : i \in DOMAIN pool' /\ pool'[i] = pool[i]
      BY <1>1, <2>2, LenProperties, ConcatProperties
    <2> QED BY <2>1, <2>3, PendingStays
  <1>3. CASE (\E p \in Paths : WatchList(p)) \/ Drop \/ SendInterrupted
             \/ \E p \in Paths, t \in Texts : Write(p, t)
    <2>1. client' = client /\ UNCHANGED <<dir, pool, strand>>
      BY <1>3 DEF WatchList, Drop, SendInterrupted, Write
    <2> QED BY <2>1, PendingStays
  <1>4. ASSUME NEW p \in Paths, Unlink(p) PROVE NoOrphan'
    <2>1. client' = client /\ UNCHANGED <<dir, pool>>
      BY <1>4 DEF Unlink
    <2> QED BY <1>4, <2>1, UnlinkKeeps, PendingStays
  <1>5. CASE Restart
    BY <1>5 DEF Restart, NoOrphan
  <1> QED BY <1>2, <1>3, <1>4, <1>5 DEF Environment

\* However the link falls and the threads interleave, an entry that is
\* indeterminate in a running client has a lambda or a job whose handler will
\* settle it: the watcher, which leaves such entries alone, is not needed.
THEOREM NothingIsOrphaned ==
    ASSUME FiniteNames
    PROVE  BackupSpec => []NoOrphan
  <1>1. ClientInit => NoOrphan
    BY DEF ClientInit, NoOrphan
  <1>2. ASSUME Typed, NoOrphan, [BackupNext]_allVars PROVE NoOrphan'
    <2>1. CASE UNCHANGED allVars
      BY <1>2, <2>1, PendingStays DEF allVars, cvars
    <2>2. CASE BackupNext
      BY <1>2, <2>2, StrandNoOrphan, PoolNoOrphan, OthersNoOrphan DEF BackupNext, PoolStep
    <2> QED BY <1>2, <2>1, <2>2
  <1> QED BY <1>1, <1>2, TypedAlways, PTL DEF BackupSpec

(***************************************************************************)
(* A client whose link holds.  Of lambdas and jobs there is then at most   *)
(* one for a file, and a job's handler finds the entry its lambda made.    *)
(* The hypotheses are those without which two jobs of one file do meet:    *)
(* after a reconnection SYNC posts again what is on the strand already, and*)
(* a watcher that looks before the lambdas of its last look have run posts *)
(* again what they are to do.                                              *)
(***************************************************************************)

\* The link is never lost, and a thread of the pool is free for what the watcher
\* posts while the strand has another.
Steady == MaxDrops = 0 /\ Prompt /\ Threads > 1

\* Where the strand is while the client starts, and the session it then has.
Linked ==
    /\ budget.drops = 0
    /\ task.phase \in {"auth", "scan", "list"} => conn[Link].open
    /\ task.phase \in {"scan", "list"} => conn[Link].id = Me
    /\ task.phase = "list" => client # "login"
    /\ client \in {"login", "starting"} => pool = <<>> /\ strand = <<>> /\ watch = None
    /\ client = "watching" => /\ Ready(Link) /\ conn[Link].id = Me
                              /\ task.phase \in {"idle", "send", "await", "handle", "store"}

\* The entry of a job's file is as the job's lambda left it.
Marked(j) ==
    /\ dir[j.path] # None
    /\ dir[j.path] = Entry("indeterminate", j.op # "CREATE", j.digest)

Orderly ==
    /\ watch # None => pool = <<>>
    /\ Distinct(pool) /\ Distinct(strand)
    /\ \A i \in DOMAIN pool, j \in DOMAIN strand : pool[i].path # strand[j].path
    /\ \A j \in DOMAIN strand : Marked(strand[j])
    /\ task.phase = "store" => task.copy = dir[job.path]

LEMMA ServeKeepsConn == Serve => conn' = conn
  BY DEF Serve, Erase, EraseRefused, CreateLast, CreateChunk, CreateRefused,
     CreateBadStream, BadStream, UpdateLast, UpdateChunk, UpdateNotExist, AlreadyUpdated,
     UpdateBadStream, Refuse

\* A job is run by a client that watches, over a link that holds; and a client that
\* starts has no job.
LEMMA JobIsLinked ==
    ASSUME Typed, Linked, strand # <<>>, client # "exited"
    PROVE  client = "watching" /\ Ready(Link) /\ conn[Link].open
  BY DEF Typed, ClientTypeOK, Linked, Ready, Authed

LEMMA LinkedStep ==
    ASSUME Typed, Linked, BackupNext
    PROVE  Linked'
  <1> USE ClientAssumption
  <1>c. client \in {"login", "starting", "watching", "exited"}
    BY DEF Typed, ClientTypeOK
  <1>w. task.phase \in {"send", "await", "handle", "store"} => strand # <<>>
    BY DEF Typed, WellFormed
  <1>t. task \in Task /\ conn \in [Conns -> Session]
    BY DEF Typed, ClientTypeOK, Safe, TypeOK
  <1>1. ASSUME client # "exited",
               StartJob \/ Send \/ ReadFails \/ Receive \/ HandleRead \/ HandleStore
        PROVE  Linked'
    <2>1. strand # <<>>
      BY <1>1, <1>w DEF StartJob, Send, ReadFails, Receive, HandleRead, HandleStore
    <2>2. client = "watching"
      BY <1>1, <2>1, JobIsLinked
    <2>3. conn' = conn
      BY <1>1, ServeKeepsConn
         DEF StartJob, Send, ReadFails, Receive, HandleRead, HandleStore, server
    <2>4. client' = client /\ budget' = budget
      BY <1>1 DEF StartJob, Send, ReadFails, Receive, HandleRead, HandleStore
    <2>5. task'.phase \in {"idle", "send", "await", "handle", "store"}
      <3>1. CASE StartJob \/ HandleStore
        <4>1. Idle \in Task /\ Idle.phase = "idle"
          BY DEF Idle, Task, Results
        <4>2. CASE StartJob
          BY <4>1, <4>2 DEF StartJob, Task
        <4> QED BY <3>1, <4>1, <4>2 DEF HandleStore
      <3>2. CASE Send \/ ReadFails \/ Receive \/ HandleRead
        BY <1>t, <3>2 DEF Send, ReadFails, Receive, HandleRead, Task
      <3> QED BY <1>1, <3>1, <3>2
    <2> QED BY <2>2, <2>3, <2>4, <2>5 DEF Linked, Ready, Authed
  <1>2. ASSUME client # "exited", LinkLost \/ LinkFails \/ StartFails \/ SyncLost
        PROVE  FALSE
    <2>1. CASE LinkLost \/ LinkFails
      BY <1>2, <1>w, <2>1, JobIsLinked DEF LinkLost, LinkFails, Broken, Linked, Ready, Authed
    <2>2. CASE StartFails \/ SyncLost
      BY <2>2 DEF StartFails, SyncLost, Linked
    <2> QED BY <1>2, <2>1, <2>2
  <1>3. CASE HandleExits
    BY <1>3 DEF HandleExits, server, Linked
  <1>4. ASSUME client # "exited", Connect \/ Authenticate \/ Scan PROVE Linked'
    <2>1. client \in {"login", "starting"}
      BY <1>4, <1>c DEF Connect, Authenticate, Scan, Linked
    <2>2. /\ client' \in {"login", "starting"}
          /\ UNCHANGED <<watch, pool, strand, budget>>
      BY <1>4, <2>1 DEF Connect, Authenticate, Scan
    <2>3. conn'[Link].open
      <3>1. CASE Connect
        BY <1>t, <3>1 DEF Connect, Accept
      <3>2. CASE Authenticate
        BY <1>t, <3>2 DEF Authenticate, Auth, Session
      <3>3. CASE Scan
        BY <3>3 DEF Scan, Linked, server
      <3> QED BY <1>4, <3>1, <3>2, <3>3
    <2>4. task'.phase \in {"scan", "list"} => conn'[Link].id = Me
      <3>1. CASE Connect
        BY <1>t, <3>1 DEF Connect, Task
      <3>2. CASE Authenticate
        BY <1>t, <3>2 DEF Authenticate, Auth, Session
      <3>3. CASE Scan
        BY <3>3 DEF Scan, Linked, server
      <3> QED BY <1>4, <3>1, <3>2, <3>3
    <2>5. task'.phase = "list" => client' # "login"
      BY <1>t, <1>4 DEF Connect, Authenticate, Scan, Task
    <2> QED BY <2>1, <2>2, <2>3, <2>4, <2>5 DEF Linked
  <1>5. ASSUME client # "exited", Sync PROVE Linked'
    <2>1. client \in {"login", "starting"} /\ task.phase = "list"
      BY <1>5, <1>c DEF Sync, Linked
    <2>2. ~task.ofJob
      BY <2>1 DEF Linked, Typed, WellFormed
    <2>3. task'.phase = "idle" /\ client' = "watching" /\ budget' = budget
      BY <1>5, <2>2 DEF Sync, Idle
    <2>4. conn'[Link].open /\ conn'[Link].auth /\ conn'[Link].synced /\ conn'[Link].id = Me
      BY <1>5, <2>1 DEF Sync, List, Authed, Linked, Typed, Safe, TypeOK, Session
    <2> QED BY <2>3, <2>4 DEF Linked, Ready, Authed
  <1>6. ASSUME PoolStep \/ WatchStep \/ (\E n \in Names : WatchMissing(n))
               \/ (\E p \in Paths : WatchList(p))
        PROVE  Linked'
    <2>1. conn' = conn /\ task' = task /\ budget' = budget
      BY <1>6 DEF PoolStep, RunLambda, WatchStep, WatchHash, WatchFind, WatchDecide,
                  WatchThrows, WatchMissing, WatchList, server
    <2>2. client = "watching" /\ client' \in {"watching", "exited"}
      <3>1. CASE PoolStep
        <4>1. pool # <<>> /\ client # "exited"
          BY <3>1, EmptySeq, LenProperties DEF PoolStep, RunLambda, Typed, ClientTypeOK
        <4> QED BY <3>1, <4>1, <1>c DEF PoolStep, RunLambda, Linked
      <3>2. CASE WatchStep \/ (\E n \in Names : WatchMissing(n))
                 \/ (\E p \in Paths : WatchList(p))
        BY <3>2 DEF WatchStep, WatchHash, WatchFind, WatchDecide, WatchThrows, Watching,
                    WatchMissing, WatchList, CanLook
      <3> QED BY <1>6, <3>1, <3>2
    <2> QED BY <2>1, <2>2 DEF Linked, Ready, Authed
  <1>7. ASSUME NEW p \in Paths, Unlink(p) PROVE Linked'
    <2>1. /\ conn' = conn /\ UNCHANGED <<watch, pool, task, client>>
          /\ budget'.drops = budget.drops
      BY <1>7 DEF Unlink, server, Typed, ClientTypeOK
    <2> QED BY <1>7, <2>1, UnlinkKeeps DEF Linked, Ready, Authed
  <1>8. ASSUME NEW p \in Paths, NEW t \in Texts, Write(p, t) PROVE Linked'
    <2>1. /\ conn' = conn /\ UNCHANGED <<watch, pool, strand, task, client>>
          /\ budget'.drops = budget.drops
      BY <1>8 DEF Write, server, Typed, ClientTypeOK
    <2> QED BY <2>1 DEF Linked, Ready, Authed
  <1>9. CASE Drop \/ SendInterrupted
    BY <1>9 DEF Drop, SendInterrupted, Linked
  <1>10. CASE Restart
    <2>1. /\ budget'.drops = budget.drops /\ task'.phase = "connect" /\ client' = "login"
          /\ pool' = <<>> /\ strand' = <<>> /\ watch' = None
      BY <1>10 DEF Restart, Idle, Typed, ClientTypeOK
    <2> QED BY <2>1 DEF Linked
  <1> QED BY <1>1, <1>2, <1>3, <1>4, <1>5, <1>6, <1>7, <1>8, <1>9, <1>10
          DEF BackupNext, StrandStep, PoolStep, Environment

\* The watcher's step, in a client whose pool has run what was posted before.
LEMMA WatchPosts ==
    ASSUME Typed, Steady, Linked, Orderly,
           WatchStep \/ (\E n \in Names : WatchMissing(n)) \/ (\E p \in Paths : WatchList(p))
    PROVE  /\ client = "watching" /\ pool = <<>>
           /\ UNCHANGED <<server, file, dir, strand, task, budget>>
           /\ watch' # None => pool' = <<>>
           /\ Distinct(pool')
           /\ \A i \in DOMAIN pool' : LET l == pool'[i] IN
                /\ l.path \in Names
                /\ dir[l.path] = None \/ dir[l.path].synced # "indeterminate"
                /\ l.op = "CREATE" => dir[l.path] = None \/ ~dir[l.path].exist
                /\ l.op = "ERASE" => Local(l.path) = None
  <1>e. DOMAIN <<>> = {}
    OBVIOUS
  <1>l. CanLook => pool = <<>>
    BY ClientAssumption DEF CanLook, Steady, FreeThreads
  <1> DEFINE Fit(l) == /\ l.path \in Names
                       /\ dir[l.path] = None \/ dir[l.path].synced # "indeterminate"
                       /\ l.op = "CREATE" => dir[l.path] = None \/ ~dir[l.path].exist
                       /\ l.op = "ERASE" => Local(l.path) = None
  <1>1. ASSUME NEW l, pool = <<>>, Fit(l), pool' = Append(pool, l)
        PROVE  Distinct(pool') /\ \A i \in DOMAIN pool' : Fit(pool'[i])
    <2>1. DOMAIN pool' = {1} /\ pool'[1] = l
      BY <1>1
    <2> QED BY <2>1, <1>1 DEF Distinct
  <1>2. ASSUME NEW n \in Names, WatchMissing(n)
        PROVE  /\ pool = <<>> /\ watch' = None
               /\ Distinct(pool') /\ \A i \in DOMAIN pool' : Fit(pool'[i])
    <2> DEFINE l == Posted("ERASE", n, dir[n].digest)
    <2>1. pool = <<>> /\ pool' = Append(pool, l) /\ watch' = None
      BY <1>2, <1>l DEF WatchMissing, CanLook
    <2>2. Fit(l)
      BY <1>2 DEF WatchMissing, Posted
    <2> HIDE DEF l, Fit
    <2> QED BY <2>1, <2>2, <1>1
  <1>3. ASSUME NEW p \in Paths, WatchList(p)
        PROVE  pool = <<>> /\ pool' = <<>>
    BY <1>3, <1>l DEF WatchList
  <1>4. CASE WatchHash \/ WatchThrows
    BY <1>4 DEF WatchHash, WatchThrows, Watching, Orderly
  <1>5. ASSUME watch # None PROVE watch.path \in Names
    BY <1>5, NamesAssumption DEF Typed, ClientTypeOK, Watched
  <1>6. ASSUME WatchFind, dir[watch.path] = None
        PROVE  /\ pool = <<>> /\ watch' = None
               /\ Distinct(pool') /\ \A i \in DOMAIN pool' : Fit(pool'[i])
    <2> DEFINE l == Posted("CREATE", watch.path, watch.digest)
    <2>1. pool = <<>> /\ pool' = Append(pool, l) /\ watch' = None
      BY <1>6 DEF WatchFind, Watching, Orderly
    <2>2. Fit(l)
      BY <1>5, <1>6 DEF WatchFind, Watching, Posted
    <2> HIDE DEF l, Fit
    <2> QED BY <2>1, <2>2, <1>1
  <1>7. ASSUME WatchFind, dir[watch.path] # None PROVE pool = <<>> /\ pool' = pool
    BY <1>7 DEF WatchFind, Watching, Orderly
  <1>8. ASSUME WatchDecide
        PROVE  /\ pool = <<>> /\ watch' = None
               /\ Distinct(pool') /\ \A i \in DOMAIN pool' : Fit(pool'[i])
    <2> DEFINE e   == dir[watch.path]
               due == {Posted(o, watch.path, watch.digest) : o \in Due(e, watch.digest)}
    <2>1. /\ pool = <<>> /\ watch # None /\ watch' = None /\ e # None
          /\ pool' = pool \o SetToSeq(due)
      BY <1>8 DEF WatchDecide, Watching, Orderly
    <2>2. \/ Due(e, watch.digest) = {}
          \/ /\ e.synced # "indeterminate"
             /\ \/ Due(e, watch.digest) = {"UPDATE"}
                \/ Due(e, watch.digest) = {"CREATE"} /\ ~e.exist
      BY DEF Due
    <2>3. \A l \in due : Fit(l)
      BY <1>5, <2>1, <2>2 DEF Posted
    <2>4. \A l, m \in due : l = m
      BY <2>2
    <2>5. IsFiniteSet(due)
      <3>1. due = {} \/ \E l : due = {l}
        BY <2>2
      <3>2. CASE due = {}
        BY <3>2, FS_EmptySet
      <3>3. CASE \E l : due = {l}
        BY <3>3, FS_Singleton
      <3> QED BY <3>1, <3>2, <3>3
    <2> HIDE DEF due, Fit
    <2>6. SetToSeq(due) \in Seq(due) /\ Distinct(SetToSeq(due))
      BY <2>4, <2>5, SetToSeqIsOfSet, SetToSeqDistinct
    <2>7. pool' = SetToSeq(due)
      BY <2>1, <2>6
    <2> QED BY <2>1, <2>3, <2>6, <2>7, ElementOfSeq, LenProperties
  <1>9. \A i \in DOMAIN <<>> : Fit(<<>>[i])
    BY <1>e
  <1>10. Distinct(<<>>)
    BY <1>e DEF Distinct
  <1>11. client = "watching" /\ UNCHANGED <<server, file, dir, strand, task, budget>>
    BY DEF WatchStep, WatchHash, WatchFind, WatchDecide, WatchThrows, Watching,
           WatchMissing, WatchList, CanLook
  <1> HIDE DEF Fit
  <1>12. /\ pool = <<>>
         /\ watch' # None => pool' = <<>>
         /\ Distinct(pool') /\ \A i \in DOMAIN pool' : Fit(pool'[i])
    <2>1. CASE WatchThrows \/ WatchHash
      <3>1. pool' = pool
        BY <2>1 DEF WatchThrows, WatchHash
      <3> QED BY <2>1, <3>1, <1>4, <1>9, <1>10
    <2>2. CASE WatchFind
      BY <2>2, <1>6, <1>7, <1>9, <1>10
    <2>3. CASE WatchDecide
      BY <2>3, <1>8
    <2>4. CASE \E n \in Names : WatchMissing(n)
      BY <2>4, <1>2
    <2>5. CASE \E p \in Paths : WatchList(p)
      BY <2>5, <1>3, <1>9, <1>10
    <2> QED BY <2>1, <2>2, <2>3, <2>4, <2>5 DEF WatchStep
  <1> QED BY <1>11, <1>12 DEF Fit

LEMMA OrderlyFrame ==
    ASSUME Orderly, UNCHANGED <<dir, watch, pool, strand>>,
           task'.phase = "store" => task' = task
    PROVE  Orderly'
  BY DEF Orderly, Distinct, Marked, job

LEMMA StrandOrderly ==
    ASSUME Typed, FiniteNames, Linked, Orderly, StrandStep
    PROVE  Orderly'
  <1>t. task \in Task /\ dir \in [Names -> {None} \cup CResource]
    BY DEF Typed, ClientTypeOK
  <1>w. task.phase \in {"send", "await", "handle", "store"} => strand # <<>>
    BY DEF Typed, WellFormed
  <1>e. DOMAIN <<>> = {}
    OBVIOUS
  <1>s. task.phase \in {"scan", "list"} =>
          client \in {"login", "starting"} /\ pool = <<>> /\ strand = <<>> /\ watch = None
    BY DEF StrandStep, Linked, Typed, ClientTypeOK
  <1>1. CASE StartJob
    <2>1. task'.phase = "send"
      BY <1>1 DEF StartJob, Idle
    <2> QED BY <1>1, <2>1, OrderlyFrame DEF StartJob
  <1>2. CASE Send \/ ReadFails \/ Receive \/ LinkLost \/ LinkFails \/ Connect
             \/ Authenticate \/ SyncLost
    <2>1. task'.phase # "store"
      BY <1>t, <1>2 DEF Send, ReadFails, Receive, LinkLost, LinkFails, Connect,
                        Authenticate, SyncLost, Task
    <2> QED BY <1>2, <2>1, OrderlyFrame DEF Send, ReadFails, Receive, LinkLost, LinkFails,
            Connect, Authenticate, SyncLost
  <1>3. CASE StartFails \/ HandleExits
    BY <1>3, OrderlyFrame DEF StartFails, HandleExits
  <1>4. CASE Scan
    <2>1. pool' = <<>> /\ strand' = <<>> /\ watch' = None /\ task'.phase = "list"
      BY <1>s, <1>t, <1>4 DEF Scan, Task
    <2> QED BY <1>e, <2>1 DEF Orderly, Distinct
  <1>5. CASE Sync
    <2>1. pool = <<>> /\ strand' = <<>> /\ watch' = None /\ pool' = pool \o SyncPosts
      BY <1>s, <1>5 DEF Sync
    <2>2. task'.phase # "store"
      BY <1>t, <1>5 DEF Sync, Idle, Task
    <2>3. SyncPosts \in Seq(Lambda) /\ Distinct(SyncPosts)
      BY SyncPostsType
    <2>4. pool' = SyncPosts
      BY <2>1, <2>3
    <2> QED BY <1>e, <2>1, <2>2, <2>3, <2>4 DEF Orderly, Distinct
  <1>6. CASE HandleRead
    <2>1. task'.copy = dir[job.path] /\ UNCHANGED <<dir, watch, pool, strand>>
      BY <1>t, <1>6 DEF HandleRead, Task
    <2>2. job' = job
      BY <2>1 DEF job
    <2> QED BY <2>1, <2>2 DEF Orderly, Distinct, Marked
  <1>7. CASE HandleStore
    <2>1. /\ strand # <<>> /\ UNCHANGED <<watch, pool>> /\ strand' = Tail(strand)
          /\ dir' = [dir EXCEPT ![job.path] = Handled] /\ task' = Idle
      BY <1>7, <1>w DEF HandleStore
    <2>2. \A i \in DOMAIN strand' : i + 1 \in DOMAIN strand /\ strand'[i] = strand[i + 1]
      BY <2>1, HeadJob
    <2>3. /\ DOMAIN strand = 1 .. Len(strand) /\ Len(strand) \in Nat /\ 1 \in DOMAIN strand
          /\ job = strand[1]
      BY <2>1, StrandType
    <2>4. \A i \in DOMAIN strand' : i \in Int
      <3>1. strand' \in Seq(Job)
        BY <2>1, HeadJob
      <3> QED BY <3>1, LenProperties
    <2>5. Distinct(strand')
      <3> SUFFICES ASSUME NEW i \in DOMAIN strand', NEW j \in DOMAIN strand',
                          strand'[i].path = strand'[j].path
                   PROVE  i = j
        BY DEF Distinct
      <3>1. i + 1 = j + 1
        BY <2>2 DEF Orderly, Distinct
      <3> QED BY <3>1, <2>4
    <2>6. ASSUME NEW i \in DOMAIN strand' PROVE Marked(strand[i])'
      <3>1. i + 1 # 1
        <4>1. i \in 1 .. Len(strand')
          <5>1. strand' \in Seq(Job)
            BY <2>1, HeadJob
          <5> QED BY <5>1, LenProperties
        <4> QED BY <4>1
      <3>2. strand[i + 1].path # job.path
        BY <2>2, <2>3, <2>6, <3>1 DEF Orderly, Distinct
      <3>3. dir'[strand'[i].path] = dir[strand[i + 1].path]
        BY <1>t, <2>1, <2>2, <2>6, <3>2
      <3>4. Marked(strand[i + 1])
        BY <2>2, <2>6 DEF Orderly
      <3> QED BY <2>2, <2>6, <3>3, <3>4 DEF Marked
    <2>7. task'.phase # "store"
      BY <2>1 DEF Idle
    <2>8. \A i \in DOMAIN pool', j \in DOMAIN strand' : pool'[i].path # strand'[j].path
      BY <2>1, <2>2 DEF Orderly
    <2>9. watch' # None => pool' = <<>>
      BY <2>1 DEF Orderly
    <2>10. Distinct(pool')
      BY <2>1 DEF Orderly
    <2> QED BY <2>5, <2>6, <2>7, <2>8, <2>9, <2>10 DEF Orderly, Distinct
  <1> QED BY <1>1, <1>2, <1>3, <1>4, <1>5, <1>6, <1>7 DEF StrandStep

LEMMA PoolOrderly ==
    ASSUME Typed, Orderly, NEW i \in DOMAIN pool, RunLambda(i)
    PROVE  Orderly'
  <1> DEFINE l == pool[i]
             m(k) == IF k < i THEN k ELSE k + 1
  <1>1. /\ l \in Lambda /\ l.path \in Names
        /\ dir' = [dir EXCEPT ![l.path] =
                     Entry("indeterminate", l.op # "CREATE", l.digest)]
        /\ \A k \in DOMAIN strand' : k \notin DOMAIN strand =>
             /\ k = Len(strand) + 1
             /\ strand'[k].op = l.op /\ strand'[k].path = l.path
             /\ strand'[k].digest = l.digest
        /\ \A k \in DOMAIN pool' :
             m(k) \in DOMAIN pool /\ m(k) # i /\ pool'[k] = pool[m(k)]
        /\ UNCHANGED <<watch, task>>
    BY RunLambdaEffect DEF Lambda
  <1>2. \A k \in DOMAIN strand : k \in DOMAIN strand' /\ strand'[k] = strand[k]
    BY RunLambdaEffect
  <1>3. \A k \in DOMAIN strand : strand[k].path # l.path
    BY DEF Orderly
  <1>4. \A k \in DOMAIN pool' : pool'[k].path # l.path
    BY <1>1 DEF Orderly, Distinct
  <1>i. i \in Int /\ \A k \in DOMAIN pool' : k \in Int
    <2>1. pool \in Seq(Lambda) /\ pool' \in Seq(Lambda)
      BY PoolTyped DEF Typed, ClientTypeOK
    <2> QED BY <2>1, LenProperties
  <1> HIDE DEF l
  <1>5. Distinct(pool')
    <2> SUFFICES ASSUME NEW j \in DOMAIN pool', NEW k \in DOMAIN pool',
                        pool'[j].path = pool'[k].path
                 PROVE  j = k
      BY DEF Distinct
    <2>1. m(j) = m(k)
      BY <1>1 DEF Orderly, Distinct
    <2> QED BY <1>i, <2>1
  <1> HIDE DEF m
  <1>6. Distinct(strand')
    <2> SUFFICES ASSUME NEW j \in DOMAIN strand', NEW k \in DOMAIN strand',
                        strand'[j].path = strand'[k].path
                 PROVE  j = k
      BY DEF Distinct
    <2>1. CASE j \in DOMAIN strand /\ k \in DOMAIN strand
      BY <1>2, <2>1 DEF Orderly, Distinct
    <2>2. CASE j \notin DOMAIN strand /\ k \notin DOMAIN strand
      BY <1>1, <2>2
    <2>3. CASE j \in DOMAIN strand /\ k \notin DOMAIN strand
      BY <1>1, <1>2, <1>3, <2>3
    <2>4. CASE j \notin DOMAIN strand /\ k \in DOMAIN strand
      BY <1>1, <1>2, <1>3, <2>4
    <2> QED BY <2>1, <2>2, <2>3, <2>4
  <1>7. \A j \in DOMAIN pool', k \in DOMAIN strand' : pool'[j].path # strand'[k].path
    BY <1>1, <1>2, <1>4 DEF Orderly
  <1>8. ASSUME NEW k \in DOMAIN strand' PROVE Marked(strand[k])'
    <2>1. CASE k \in DOMAIN strand
      <3>1. strand'[k] = strand[k] /\ strand[k].path # l.path
        BY <1>2, <1>3, <2>1
      <3>2. dir'[strand[k].path] = dir[strand[k].path]
        BY <1>1, <3>1 DEF Typed, ClientTypeOK
      <3>3. Marked(strand[k])
        BY <2>1 DEF Orderly
      <3> QED BY <3>1, <3>2, <3>3 DEF Marked
    <2>2. CASE k \notin DOMAIN strand
      <3>1. /\ strand'[k].op = l.op /\ strand'[k].path = l.path
            /\ strand'[k].digest = l.digest
        BY <1>1, <2>2
      <3>2. dir'[l.path] = Entry("indeterminate", l.op # "CREATE", l.digest)
        BY <1>1 DEF Typed, ClientTypeOK
      <3>3. dir'[l.path] # None
        <4>1. l.digest \in Content
          BY <1>1 DEF Lambda
        <4>2. Entry("indeterminate", l.op # "CREATE", l.digest) \in CResource
          BY <4>1 DEF Entry, CResource
        <4> QED BY <3>2, <4>2, CResourceAssumption
      <3> QED BY <3>1, <3>2, <3>3 DEF Marked
    <2> QED BY <2>1, <2>2
  <1>9. task'.phase = "store" => task'.copy = dir'[job'.path]
    <2> SUFFICES ASSUME task'.phase = "store" PROVE task'.copy = dir'[job'.path]
      OBVIOUS
    <2>1. task.phase = "store" /\ task.copy = dir[job.path] /\ strand # <<>>
      BY <1>1 DEF Orderly, Typed, WellFormed
    <2>2. job' = job /\ job.path # l.path
      <3>1. Head(strand') = Head(strand)
        BY <2>1, RunLambdaEffect
      <3>2. 1 \in DOMAIN strand /\ job = strand[1]
        BY <2>1, StrandType
      <3> QED BY <3>1, <3>2, <1>3 DEF job
    <2> QED BY <1>1, <2>1, <2>2 DEF Typed, ClientTypeOK
  <1>10. watch' # None => pool' = <<>>
    <2>1. pool # <<>>
      OBVIOUS
    <2> QED BY <1>1, <2>1 DEF Orderly
  <1> QED BY <1>5, <1>6, <1>7, <1>8, <1>9, <1>10 DEF Orderly, Distinct

LEMMA OrderlyStep ==
    ASSUME Typed, FiniteNames, Steady, Linked, Orderly, BackupNext
    PROVE  Orderly'
  <1>e. DOMAIN <<>> = {}
    OBVIOUS
  <1>1. CASE WatchStep \/ (\E n \in Names : WatchMissing(n))
             \/ (\E p \in Paths : WatchList(p))
    <2>1. /\ UNCHANGED <<dir, strand, task>>
          /\ watch' # None => pool' = <<>>
          /\ Distinct(pool')
          /\ \A i \in DOMAIN pool' :
               dir[pool'[i].path] = None \/ dir[pool'[i].path].synced # "indeterminate"
      BY <1>1, WatchPosts
    <2>2. \A j \in DOMAIN strand :
            /\ dir[strand[j].path] # None
            /\ dir[strand[j].path].synced = "indeterminate"
      <3> TAKE j \in DOMAIN strand
      <3>1. Marked(strand[j])
        BY DEF Orderly
      <3> QED BY <3>1 DEF Marked, Entry
    <2>3. job' = job
      BY <2>1 DEF job
    <2>4. \A i \in DOMAIN pool', j \in DOMAIN strand' : pool'[i].path # strand'[j].path
      BY <2>1, <2>2
    <2> QED BY <2>1, <2>3, <2>4 DEF Orderly, Distinct, Marked
  <1>2. CASE (\E p \in Paths, t \in Texts : Write(p, t)) \/ Drop
    BY <1>2, OrderlyFrame DEF Write, Drop
  <1>3. CASE SendInterrupted
    BY <1>3 DEF SendInterrupted, Linked
  <1>4. ASSUME NEW p \in Paths, Unlink(p) PROVE Orderly'
    <2>1. /\ DOMAIN strand' = DOMAIN strand
          /\ \A i \in DOMAIN strand :
               /\ strand'[i].op = strand[i].op /\ strand'[i].path = strand[i].path
               /\ strand'[i].digest = strand[i].digest
          /\ strand # <<>> => job'.path = job.path
          /\ UNCHANGED <<dir, watch, pool, task>>
      BY <1>4, UnlinkKeeps DEF Unlink
    <2>2. task.phase = "store" => strand # <<>>
      BY DEF Typed, WellFormed
    <2>3. Distinct(strand')
      BY <2>1 DEF Orderly, Distinct
    <2>4. \A j \in DOMAIN strand' : Marked(strand[j])'
      BY <2>1 DEF Orderly, Marked
    <2>5. \A i \in DOMAIN pool', j \in DOMAIN strand' : pool'[i].path # strand'[j].path
      BY <2>1 DEF Orderly
    <2>6. Distinct(pool')
      BY <2>1 DEF Orderly
    <2>7. (watch' # None => pool' = <<>>) /\ (task'.phase = "store" => task'.copy = dir'[job'.path])
      BY <2>1, <2>2 DEF Orderly
    <2> QED BY <2>3, <2>4, <2>5, <2>6, <2>7 DEF Orderly, Distinct
  <1>5. CASE Restart
    <2>1. pool' = <<>> /\ strand' = <<>> /\ watch' = None /\ task'.phase = "connect"
      BY <1>5 DEF Restart, Idle
    <2> QED BY <1>e, <2>1 DEF Orderly, Distinct
  <1> QED BY <1>1, <1>2, <1>3, <1>4, <1>5, StrandOrderly, PoolOrderly
          DEF BackupNext, PoolStep, Environment

LEMMA OrderlyInit ==
    ASSUME Steady
    PROVE  ClientInit => Linked /\ Orderly
  <1> SUFFICES ASSUME ClientInit PROVE Linked /\ Orderly
    OBVIOUS
  <1>1. DOMAIN <<>> = {}
    OBVIOUS
  <1>2. task.phase = "connect"
    BY DEF ClientInit, Idle
  <1> QED BY <1>1, <1>2 DEF ClientInit, Steady, Linked, Orderly, Distinct

LEMMA OrderlyAlways ==
    ASSUME FiniteNames, Steady
    PROVE  BackupSpec => [](Linked /\ Orderly)
  <1>1. ClientInit => Linked /\ Orderly
    BY OrderlyInit
  <1>2. ASSUME Typed, Linked /\ Orderly, [BackupNext]_allVars
        PROVE  (Linked /\ Orderly)'
    <2>1. CASE UNCHANGED allVars
      BY <1>2, <2>1, OrderlyFrame DEF allVars, cvars, vars, Linked, Ready, Authed
    <2>2. CASE BackupNext
      BY <1>2, <2>2, LinkedStep, OrderlyStep
    <2> QED BY <1>2, <2>1, <2>2
  <1> QED BY <1>1, <1>2, TypedAlways, PTL DEF BackupSpec

\* The handler of a response finds the entry its lambda wrote, and does not end
\* the process: the jobs of the strand and the lambdas of the pool are of
\* different files, and each job's entry is left alone until its handler runs.
THEOREM HandlersFind ==
    ASSUME FiniteNames, Steady
    PROVE  BackupSpec => []HandlerFinds
  <1>1. ASSUME Typed, Orderly PROVE HandlerFinds
    <2> SUFFICES ASSUME task.phase = "handle" PROVE dir[job.path] # None
      BY DEF HandlerFinds
    <2>1. strand # <<>>
      BY <1>1 DEF Typed, WellFormed
    <2>2. Marked(job)
      BY <1>1, <2>1, StrandType DEF Orderly
    <2> QED BY <2>2 DEF Marked
  <1> QED BY <1>1, OrderlyAlways, TypedAlways, PTL

(***************************************************************************)
(* What the client knows of the server's view.                             *)
(***************************************************************************)

\* The response to the last message of the job, once there is one.
Final   == \/ task.phase = "await" /\ (job.op = "ERASE" \/ task.sent >= job.len)
           \/ task.phase \in {"handle", "store"}
Outcome == IF task.phase = "await" THEN reply[Link] ELSE task.resp

\* A request that was accepted has done what it asked for.
Effected ==
    Final /\ Outcome \in Accepted(job.op) =>
        IF job.op = "ERASE" THEN view[Link][job.path] = None
        ELSE /\ Tells(view[Link][job.path])
             /\ view[Link][job.path].digest = job.digest

\* A file the server vouches for is one the client has as existing there, or is
\* about to: so a CREATE is not refused with ALREADY_EXIST.
Known(n) ==
    IsSynced(view[Link][n]) =>
        \/ dir[n] # None /\ dir[n].exist
        \/ \E i \in DOMAIN pool : pool[i].path = n /\ pool[i].op # "CREATE"
        \/ Final /\ n = job.path /\ job.op = "CREATE" /\ Outcome = "OK"

\* A synced entry nothing is pending for has the digest of the server's view.
Agreed(p) ==
    Synced(p) /\ ~Pending(p) =>
        Tells(view[Link][p]) /\ view[Link][p].digest = dir[p].digest

Informed ==
    client = "watching" =>
        /\ Effected
        /\ \A n \in Names : Known(n)
        /\ \A i \in DOMAIN pool : pool[i].op = "CREATE" =>
             ~IsSynced(view[Link][pool[i].path])
        /\ \A p \in Paths : Agreed(p)

\* An MD5 digest is not the word TEMP.
TempIsNoDigest == TempDigest \notin Content

\* What a request does to the view of its file, and to that of no other, told by
\* the answer.
LEMMA ServeView ==
    ASSUME Typed, strand # <<>>, Serve
    PROVE  LET v  == view[Link][job.path]
               w  == view'[Link][job.path]
               ok == reply'[Link] = "OK"
           IN  /\ \A n \in Names : n # job.path => view'[Link][n] = view[Link][n]
               /\ job.op = "CREATE" =>
                    /\ reply'[Link] = "ALREADY_EXIST" => IsSynced(v)
                    /\ ok /\ IsLastPart => w = [synced |-> TRUE, digest |-> job.digest]
                    /\ IsSynced(w) => IsSynced(v) \/ (ok /\ IsLastPart)
               /\ job.op = "UPDATE" =>
                    /\ reply'[Link] = "ALREADY_UPDATED" => w = v /\ Matches(v, job.digest)
                    /\ ok /\ IsLastPart => w = [synced |-> TRUE, digest |-> job.digest]
               /\ job.op = "ERASE" => (ok => w = None)
  <1> DEFINE v  == view[Link][job.path]
             w  == view'[Link][job.path]
             ok == reply'[Link] = "OK"
             Others == \A n \in Names : n # job.path => view'[Link][n] = view[Link][n]
             Set(e) == view' = [view EXCEPT ![Link][job.path] = e]
  <1>1. /\ Link \in Conns /\ job \in Job /\ job.path \in Names
        /\ view \in [Conns -> [Names -> {None} \cup Resource]]
        /\ view[Link] \in [Names -> {None} \cup Resource]
        /\ reply \in [Conns -> Results]
    BY ClientAssumption, HeadJob DEF Job, Typed, Safe, TypeOK
  <1>2. ASSUME NEW r, Answer(Link, r) PROVE reply'[Link] = r
    BY <1>1, <1>2 DEF Answer
  <1>3. ASSUME NEW e, Set(e) PROVE Others /\ w = e
    BY <1>1, <1>3
  <1>4. view' = view => Others /\ w = v
    OBVIOUS
  <1>5. CASE job.op = "ERASE"
    <2>1. CASE Erase(Link, job.path, job.digest)
      <3>1. Set(None) /\ Answer(Link, "OK")
        BY <2>1 DEF Erase
      <3> QED BY <1>3, <1>5, <3>1
    <2>2. CASE EraseRefused(Link, job.path, job.digest)
      <3>1. view' = view /\ Answer(Link, "ERASE_NO_MATCH")
        BY <2>2 DEF EraseRefused, Refuse
      <3> QED BY <1>2, <1>4, <1>5, <3>1
    <2> QED BY <1>5, <2>1, <2>2 DEF Serve
  <1>6. CASE job.op = "CREATE"
    <2> DEFINE e == [synced |-> TRUE, digest |-> job.digest]
    <2>1. CASE IsLastPart /\ CreateLast(Link, job.path, job.digest, Part, FALSE)
      <3>1. \/ Set(e) /\ Answer(Link, "OK")
            \/ Set(None) /\ Answer(Link, "CREATE_NO_MATCH")
        BY <2>1 DEF CreateLast
      <3>2. ~IsSynced(None)
        BY DEF IsSynced
      <3> HIDE DEF Set, e
      <3> QED BY <1>2, <1>3, <1>6, <2>1, <3>1, <3>2 DEF e
    <2>2. CASE ~IsLastPart /\ CreateChunk(Link, job.path, Part, FALSE)
      <3> DEFINE t == [synced |-> FALSE, digest |-> TempDigest]
      <3>1. (Set(t) \/ view' = view) /\ Answer(Link, "OK")
        BY <2>2 DEF CreateChunk
      <3>2. ~IsSynced(t)
        BY DEF IsSynced
      <3> HIDE DEF Set, t
      <3> QED BY <1>2, <1>3, <1>4, <1>6, <2>2, <3>1, <3>2
    <2>3. CASE CreateRefused(Link, job.path)
      <3>1. view' = view /\ Answer(Link, "ALREADY_EXIST") /\ IsSynced(v)
        BY <2>3 DEF CreateRefused, Refuse
      <3> QED BY <1>2, <1>4, <1>6, <3>1
    <2>4. CASE CreateBadStream(Link, job.path)
      <3>1. view' = view /\ Answer(Link, "CREATE_FAILED")
        BY <2>4 DEF CreateBadStream, BadStream
      <3> QED BY <1>2, <1>4, <1>6, <3>1
    <2> QED BY <1>6, <2>1, <2>2, <2>3, <2>4 DEF Serve
  <1>7. CASE job.op = "UPDATE"
    <2> DEFINE e == [synced |-> TRUE, digest |-> job.digest]
    <2>1. CASE IsLastPart /\ UpdateLast(Link, job.path, job.digest, Part, FALSE)
      <3>1. \/ Set(e) /\ Answer(Link, "OK")
            \/ Set(None) /\ Answer(Link, "UPDATE_NO_MATCH")
        BY <2>1 DEF UpdateLast
      <3> HIDE DEF Set, e
      <3> QED BY <1>2, <1>3, <1>7, <3>1 DEF e
    <2>2. CASE ~IsLastPart /\ UpdateChunk(Link, job.path, job.digest, Part, FALSE)
      <3>1. Answer(Link, "OK")
        BY <2>2 DEF UpdateChunk
      <3>2. Others
        BY <1>1, <2>2 DEF UpdateChunk
      <3> QED BY <1>2, <1>7, <2>2, <3>1, <3>2
    <2>3. CASE UpdateNotExist(Link, job.path)
      <3>1. view' = view /\ Answer(Link, "NOT_EXIST")
        BY <2>3 DEF UpdateNotExist, Refuse
      <3> QED BY <1>2, <1>4, <1>7, <3>1
    <2>4. CASE AlreadyUpdated(Link, job.path, job.digest)
      <3>1. view' = view /\ Answer(Link, "ALREADY_UPDATED") /\ Matches(v, job.digest)
        BY <2>4 DEF AlreadyUpdated, Refuse
      <3> QED BY <1>2, <1>4, <1>7, <3>1
    <2>5. CASE UpdateBadStream(Link, job.path, job.digest)
      <3>1. view' = view /\ Answer(Link, "UPDATE_FAILED")
        BY <2>5 DEF UpdateBadStream, BadStream
      <3> QED BY <1>2, <1>4, <1>7, <3>1
    <2> QED BY <1>7, <2>1, <2>2, <2>3, <2>4, <2>5 DEF Serve
  <1> QED BY <1>1, <1>5, <1>6, <1>7 DEF Job

\* The steps that leave the entries, the queues and the view, and change what is
\* known of the answer only to a failure.
LEMMA InformedFrame ==
    ASSUME Informed, client = "watching", UNCHANGED <<dir, pool, view>>,
           DOMAIN strand' = DOMAIN strand,
           \A i \in DOMAIN strand : strand'[i].path = strand[i].path,
           Final => /\ Final' /\ Outcome' = Outcome
                    /\ job'.op = job.op /\ job'.path = job.path /\ job'.digest = job.digest,
           Final' => Final \/ Outcome' \notin Accepted(job'.op)
    PROVE  Informed'
  <1>1. Effected'
    BY DEF Informed, Effected
  <1>2. \A n \in Names : Known(n)'
    BY DEF Informed, Known
  <1>3. \A p \in Paths : Agreed(p)'
    BY DEF Informed, Agreed, Synced, Pending
  <1>4. \A i \in DOMAIN pool' : pool'[i].op = "CREATE" => ~IsSynced(view'[Link][pool'[i].path])
    BY DEF Informed
  <1> QED BY <1>1, <1>2, <1>3, <1>4 DEF Informed

LEMMA SyncInformed ==
    ASSUME Typed, FiniteNames, Linked, client # "exited", Sync
    PROVE  Informed'
  <1> DEFINE w == view'[Link]
  <1>1. /\ client \in {"login", "starting"} /\ task.phase = "list"
        /\ pool = <<>> /\ strand = <<>>
    BY DEF Sync, Linked, Typed, ClientTypeOK
  <1>2. task' = Idle /\ pool' = pool \o SyncPosts
    BY <1>1 DEF Sync, Typed, WellFormed
  <1>3. ~Final'
    BY <1>2 DEF Idle, Final
  <1>4. SyncPosts \in Seq(Lambda) /\ pool' = SyncPosts
    BY <1>1, <1>2, SyncPostsType
  <1>5. /\ Link \in Conns /\ conn[Link].id = Me /\ w = Listed(Me)
    BY <1>1, ClientAssumption DEF Sync, List, Linked, Typed, Safe, TypeOK
  <1>6. \A n \in Names : IF disk[Me][n] = None THEN w[n] = None
                         ELSE w[n] = [synced |-> TRUE, digest |-> disk[Me][n]]
    BY <1>5 DEF Listed
  <1>7. \A n \in Names : IsSynced(w[n]) => disk[Me][n] # None
    BY <1>6 DEF IsSynced
  <1>8. \A n \in Names :
          dir'[n] = IF dir[n] # None /\ dir[n].digest = disk[Me][n]
                    THEN Entry("true", TRUE, dir[n].digest) ELSE dir[n]
    BY DEF Sync
  <1> HIDE DEF w
  <1>9. ASSUME NEW n \in Names, IsSynced(w[n])
        PROVE  \/ dir'[n] # None /\ dir'[n].exist
               \/ \E i \in DOMAIN pool' : pool'[i].path = n /\ pool'[i].op # "CREATE"
    <2>1. CASE dir[n] = None \/ dir[n].digest # disk[Me][n]
      BY <1>4, <1>7, <1>9, <2>1, SyncPostsType
    <2>2. CASE dir[n] # None /\ dir[n].digest = disk[Me][n]
      <3>1. dir[n].digest \in Content
        BY <2>2 DEF Typed, ClientTypeOK, CResource
      <3>2. Entry("true", TRUE, dir[n].digest) \in CResource
        BY <3>1 DEF Entry, CResource
      <3>3. dir'[n] = Entry("true", TRUE, dir[n].digest)
        BY <1>8, <2>2
      <3>4. dir'[n].exist
        BY <3>3 DEF Entry
      <3> QED BY <3>2, <3>3, <3>4, CResourceAssumption
    <2> QED BY <2>1, <2>2
  <1>10. \A n \in Names : Known(n)'
    BY <1>9 DEF Known, w
  <1>11. ASSUME NEW i \in DOMAIN pool', pool'[i].op = "CREATE"
         PROVE  ~IsSynced(view'[Link][pool'[i].path])
    <2>1. pool'[i] \in Lambda
      BY <1>4, <1>11, ElementOfSeq, LenProperties
    <2>2. pool'[i].path \in Names /\ disk[Me][pool'[i].path] = None
      BY <1>4, <1>11, <2>1, SyncPostsType DEF Lambda
    <2> QED BY <1>7, <2>2 DEF w
  <1>12. ASSUME NEW p \in Paths, Synced(p)', ~Pending(p)'
         PROVE  Tells(view'[Link][p]) /\ view'[Link][p].digest = dir'[p].digest
    <2>1. p \in Names
      BY NamesAssumption
    <2>2. dir'[p] # None /\ ~\E i \in DOMAIN pool' : pool'[i].path = p
      BY <1>12 DEF Synced, Pending
    <2>3. dir[p] # None /\ dir[p].digest = disk[Me][p]
      BY <1>4, <1>8, <2>1, <2>2, SyncPostsType
    <2>4. dir'[p].digest = dir[p].digest /\ disk[Me][p] # None
      <3>1. dir[p].digest \in Content
        BY <2>1, <2>3 DEF Typed, ClientTypeOK, CResource
      <3>2. dir'[p] = Entry("true", TRUE, dir[p].digest)
        BY <1>8, <2>1, <2>3
      <3>3. dir'[p].digest = dir[p].digest
        BY <3>2 DEF Entry
      <3> QED BY <2>3, <3>1, <3>3, ContentAssumption
    <2>5. w[p] = [synced |-> TRUE, digest |-> disk[Me][p]] /\ w[p] # None
      <3>1. disk[Me][p] \in Content
        BY <2>1, <2>4, ClientAssumption DEF Typed, Safe, TypeOK
      <3>2. [synced |-> TRUE, digest |-> disk[Me][p]] \in Resource
        BY <3>1 DEF Resource
      <3> QED BY <1>6, <2>1, <2>4, <3>2, EntryAssumption
    <2> QED BY <2>3, <2>4, <2>5 DEF Tells, w
  <1>13. \A p \in Paths : Agreed(p)'
    BY <1>12 DEF Agreed
  <1> QED BY <1>3, <1>10, <1>11, <1>13 DEF Informed, Effected

LEMMA SendInformed ==
    ASSUME Typed, TempIsNoDigest, Orderly, Informed, client = "watching", Send
    PROVE  Informed'
  <1> DEFINE p == job.path
  <1>1. /\ strand # <<>> /\ task.phase = "send" /\ Serve
        /\ UNCHANGED <<dir, pool, strand, client>>
        /\ task'.phase = "await" /\ task'.sent = task.sent + 1
    BY DEF Send, Typed, WellFormed, ClientTypeOK, Task
  <1>2. job' = job
    BY <1>1 DEF job
  <1>3. job \in Job /\ p \in Names /\ Marked(job)
    BY <1>1, HeadJob, StrandType DEF Job, Orderly
  <1>4. ~Final
    BY <1>1 DEF Final
  <1>5. /\ Outcome' = reply'[Link]
        /\ Final' <=> job.op = "ERASE" \/ IsLastPart
    BY <1>1, <1>2 DEF Outcome, Final, IsLastPart
  <1>6. job.op = "CREATE" => ~IsSynced(view[Link][p])
    <2> SUFFICES ASSUME job.op = "CREATE" PROVE ~IsSynced(view[Link][p])
      OBVIOUS
    <2>1. ~dir[p].exist
      <3>1. dir[p] = Entry("indeterminate", FALSE, job.digest)
        BY <1>3 DEF Marked
      <3> QED BY <3>1 DEF Entry
    <2>2. \A i \in DOMAIN pool : pool[i].path # p
      BY <1>1, StrandType DEF Orderly
    <2>3. Known(p)
      BY <1>3 DEF Informed
    <2> QED BY <1>4, <2>1, <2>2, <2>3 DEF Known
  <1>7. job.digest \in Content /\ TempDigest # job.digest
    BY <1>3 DEF Job, TempIsNoDigest
  <1>8. ASSUME view'[Link][p] = [synced |-> TRUE, digest |-> job.digest]
        PROVE  Tells(view'[Link][p]) /\ view'[Link][p].digest = job.digest
    <2>1. [synced |-> TRUE, digest |-> job.digest] \in Resource
      BY <1>7 DEF Resource
    <2>2. view'[Link][p] # None
      BY <1>8, <2>1, EntryAssumption
    <2> QED BY <1>8, <2>2 DEF Tells
  <1>9. Effected'
    <2> SUFFICES ASSUME Final', reply'[Link] \in Accepted(job.op)
                 PROVE  IF job.op = "ERASE" THEN view'[Link][p] = None
                        ELSE /\ Tells(view'[Link][p])
                             /\ view'[Link][p].digest = job.digest
      BY <1>2, <1>5 DEF Effected
    <2>1. CASE job.op = "ERASE"
      BY <1>1, <2>1, ServeView DEF Accepted
    <2>2. CASE job.op = "CREATE"
      <3>1. reply'[Link] = "OK" /\ IsLastPart
        BY <1>1, <1>5, <1>6, <2>2, ServeView DEF Accepted
      <3> QED BY <1>1, <1>8, <2>2, <3>1, ServeView
    <2>3. CASE job.op = "UPDATE"
      <3>1. CASE reply'[Link] = "OK"
        <4>1. IsLastPart
          BY <1>5, <2>3
        <4> QED BY <1>1, <1>8, <2>3, <3>1, <4>1, ServeView
      <3>2. CASE reply'[Link] = "ALREADY_UPDATED"
        <4>1. Matches(view'[Link][p], job.digest)
          BY <1>1, <2>3, <3>2, ServeView
        <4> QED BY <1>7, <2>3, <4>1 DEF Matches, Tells
      <3> QED BY <2>3, <3>1, <3>2 DEF Accepted
    <2> QED BY <1>3, <2>1, <2>2, <2>3 DEF Job
  <1>10. ASSUME NEW n \in Names, IsSynced(view'[Link][n])
         PROVE  \/ dir[n] # None /\ dir[n].exist
                \/ \E i \in DOMAIN pool : pool[i].path = n /\ pool[i].op # "CREATE"
                \/ Final' /\ n = p /\ job.op = "CREATE" /\ reply'[Link] = "OK"
    <2>1. CASE n # p
      <3>1. view'[Link][n] = view[Link][n]
        BY <1>1, <2>1, ServeView
      <3> QED BY <1>4, <1>10, <3>1 DEF Informed, Known
    <2>2. CASE n = p /\ job.op = "CREATE"
      BY <1>1, <1>5, <1>6, <1>10, <2>2, ServeView
    <2>3. CASE n = p /\ job.op # "CREATE"
      <3>1. dir[p] # None /\ dir[p] = Entry("indeterminate", TRUE, job.digest)
        BY <1>3, <2>3 DEF Marked
      <3>2. dir[p].exist
        BY <3>1 DEF Entry
      <3> QED BY <2>3, <3>1, <3>2
    <2> QED BY <2>1, <2>2, <2>3
  <1>11. \A n \in Names : Known(n)'
    BY <1>1, <1>2, <1>5, <1>10 DEF Known
  <1>12. \A i \in DOMAIN pool' : pool'[i].op = "CREATE" => ~IsSynced(view'[Link][pool'[i].path])
    <2> SUFFICES ASSUME NEW i \in DOMAIN pool, pool[i].op = "CREATE"
                 PROVE  ~IsSynced(view'[Link][pool[i].path])
      BY <1>1
    <2>1. pool[i].path # p /\ pool[i].path \in Names
      <3>1. pool[i] \in Lambda
        BY ElementOfSeq, LenProperties DEF Typed, ClientTypeOK
      <3> QED BY <1>1, <3>1, StrandType DEF Orderly, Lambda
    <2>2. view'[Link][pool[i].path] = view[Link][pool[i].path]
      BY <1>1, <2>1, ServeView
    <2> QED BY <2>2 DEF Informed
  <1>13. ASSUME NEW q \in Paths PROVE Agreed(q)'
    <2>1. (Synced(q)' <=> Synced(q)) /\ (Pending(q)' <=> Pending(q))
      BY <1>1 DEF Synced, Pending
    <2>2. Pending(p)
      BY <1>1, StrandType DEF Pending
    <2>3. q # p => view'[Link][q] = view[Link][q]
      BY <1>1, ServeView, NamesAssumption
    <2> QED BY <1>1, <2>1, <2>2, <2>3 DEF Informed, Agreed
  <1> QED BY <1>1, <1>9, <1>11, <1>12, <1>13 DEF Informed

LEMMA StoreInformed ==
    ASSUME Typed, Orderly, Informed, client = "watching", HandleStore
    PROVE  Informed'
  <1> DEFINE p == job.path
  <1>1. /\ strand # <<>> /\ task.phase = "store" /\ task.copy \in CResource
        /\ UNCHANGED <<pool, view, client>> /\ strand' = Tail(strand)
        /\ dir' = [dir EXCEPT ![p] = Handled] /\ task' = Idle
    BY DEF HandleStore, server, Typed, WellFormed
  <1>2. /\ job \in Job /\ p \in Names /\ Marked(job)
        /\ job = strand[1] /\ 1 \in DOMAIN strand
    BY <1>1, HeadJob, StrandType DEF Job, Orderly
  <1>3. Final /\ Outcome = task.resp /\ ~Final'
    BY <1>1 DEF Final, Outcome, Idle
  <1>4. task.copy = Entry("indeterminate", job.op # "CREATE", job.digest)
    BY <1>1, <1>2 DEF Orderly, Marked
  <1>5. \A i \in DOMAIN pool : pool[i].path # p
    BY <1>2 DEF Orderly
  <1>6. /\ dir'[p] = Handled
        /\ \A n \in Names : n # p => dir'[n] = dir[n]
    BY <1>1, <1>2 DEF Typed, ClientTypeOK
  <1> HIDE DEF p
  <1>7. ASSUME IsSynced(view[Link][p]) PROVE Handled # None /\ Handled.exist
    <2>1. CASE task.resp \in Accepted(job.op)
      <3>1. job.op # "ERASE"
        BY <1>3, <1>7, <2>1 DEF Informed, Effected, IsSynced, p
      <3>2. CASE job.op = "CREATE"
        <4>1. Handled = [task.copy EXCEPT !.synced = "true", !.exist = TRUE]
          BY <2>1, <3>2 DEF Handled
        <4>2. Handled \in CResource /\ Handled.exist
          BY <1>1, <4>1 DEF CResource
        <4> QED BY <4>2, CResourceAssumption
      <3>3. CASE job.op = "UPDATE"
        <4>1. Handled = [task.copy EXCEPT !.synced = "true"] /\ task.copy.exist
          <5>1. task.copy = Entry("indeterminate", TRUE, job.digest)
            BY <1>4, <3>3
          <5>2. task.copy.exist
            BY <5>1 DEF Entry
          <5> QED BY <2>1, <3>3, <5>2 DEF Handled
        <4>2. Handled \in CResource /\ Handled.exist
          BY <1>1, <4>1 DEF CResource
        <4> QED BY <4>2, CResourceAssumption
      <3> QED BY <1>2, <3>1, <3>2, <3>3 DEF Job
    <2>2. CASE task.resp \notin Accepted(job.op)
      <3>1. Handled = [task.copy EXCEPT !.synced = "false"]
        BY <2>2 DEF Handled
      <3>2. job.op # "CREATE"
        <4>1. Known(p)
          BY <1>2 DEF Informed, p
        <4>2. ASSUME job.op = "CREATE" PROVE FALSE
          <5>1. dir[p] = Entry("indeterminate", FALSE, job.digest)
            BY <1>2, <4>2 DEF Marked, p
          <5>2. ~dir[p].exist
            BY <5>1 DEF Entry
          <5>3. task.resp # "OK"
            BY <2>2, <4>2 DEF Accepted
          <5> QED BY <1>3, <1>5, <1>7, <4>1, <5>2, <5>3 DEF Known
        <4> QED BY <4>2
      <3>3. task.copy.exist
        <4>1. task.copy = Entry("indeterminate", TRUE, job.digest)
          BY <1>4, <3>2
        <4> QED BY <4>1 DEF Entry
      <3>4. Handled \in CResource /\ Handled.exist
        BY <1>1, <3>1, <3>3 DEF CResource
      <3> QED BY <3>4, CResourceAssumption
    <2> QED BY <2>1, <2>2
  <1>8. ASSUME NEW n \in Names, IsSynced(view[Link][n])
        PROVE  \/ dir'[n] # None /\ dir'[n].exist
               \/ \E i \in DOMAIN pool : pool[i].path = n /\ pool[i].op # "CREATE"
    <2>1. CASE n = p
      BY <1>6, <1>7, <1>8, <2>1
    <2>2. CASE n # p
      BY <1>6, <1>8, <2>2 DEF Informed, Known, p
    <2> QED BY <2>1, <2>2
  <1>9. \A n \in Names : Known(n)'
    BY <1>1, <1>8 DEF Known
  <1>10. ASSUME NEW q \in Paths, Synced(q)', ~Pending(q)'
         PROVE  Tells(view[Link][q]) /\ view[Link][q].digest = dir'[q].digest
    <2>1. q \in Names
      BY NamesAssumption
    <2>2. CASE q = p
      <3>1. Handled # None /\ Handled.synced = "true"
        BY <1>6, <1>10, <2>2 DEF Synced
      <3>2. /\ task.resp \in Accepted(job.op) /\ job.op # "ERASE"
            /\ Handled.digest = job.digest
        BY <1>1, <1>2, <1>4, <3>1 DEF Handled, Job, CResource, Entry
      <3> QED BY <1>3, <1>6, <2>2, <3>2 DEF Informed, Effected, p
    <2>3. CASE q # p
      <3>1. Synced(q)
        BY <1>6, <1>10, <2>1, <2>3 DEF Synced
      <3>2. ~Pending(q)
        <4>1. \A i \in DOMAIN pool : pool[i].path # q
          BY <1>1, <1>10 DEF Pending
        <4>2. \A i \in DOMAIN strand : strand[i].path # q
          <5> SUFFICES ASSUME NEW i \in DOMAIN strand, strand[i].path = q PROVE FALSE
            OBVIOUS
          <5>1. i # 1
            BY <1>2, <2>3 DEF p
          <5> QED BY <1>1, <1>10, <5>1, HeadJob DEF Pending
        <4> QED BY <4>1, <4>2 DEF Pending
      <3> QED BY <1>6, <2>1, <2>3, <3>1, <3>2 DEF Informed, Agreed
    <2> QED BY <2>2, <2>3
  <1>11. \A q \in Paths : Agreed(q)'
    BY <1>1, <1>10 DEF Agreed
  <1>12. \A i \in DOMAIN pool' : pool'[i].op = "CREATE" => ~IsSynced(view'[Link][pool'[i].path])
    BY <1>1 DEF Informed
  <1> QED BY <1>3, <1>9, <1>11, <1>12 DEF Informed, Effected

LEMMA PoolInformed ==
    ASSUME Typed, Orderly, Informed, client = "watching", NEW i \in DOMAIN pool, RunLambda(i)
    PROVE  Informed'
  <1> DEFINE l == pool[i]
             e == Entry("indeterminate", l.op # "CREATE", l.digest)
  <1>1. /\ l \in Lambda /\ l.path \in Names
        /\ dir' = [dir EXCEPT ![l.path] = e]
        /\ Len(strand) + 1 \in DOMAIN strand' /\ strand'[Len(strand) + 1].path = l.path
        /\ \A k \in DOMAIN pool' : \E m \in DOMAIN pool : m # i /\ pool'[k] = pool[m]
        /\ \A m \in DOMAIN pool : m # i => \E k \in DOMAIN pool' : pool'[k] = pool[m]
        /\ UNCHANGED <<view, reply, task, client>>
    BY RunLambdaEffect DEF Lambda, server
  <1>2. \A k \in DOMAIN strand : k \in DOMAIN strand' /\ strand'[k] = strand[k]
    BY RunLambdaEffect
  <1>3. /\ \A m \in DOMAIN pool : m # i => pool[m].path # l.path
        /\ \A k \in DOMAIN strand : strand[k].path # l.path
    BY DEF Orderly, Distinct
  <1>4. e \in CResource /\ e.synced = "indeterminate"
    <2>1. l.digest \in Content
      BY <1>1 DEF Lambda
    <2>2. e \in CResource
      BY <2>1 DEF Entry, CResource
    <2> QED BY <2>2 DEF Entry
  <1>5. l.op # "CREATE" => e.exist
    BY DEF Entry
  <1>6. /\ dir'[l.path] = e
        /\ \A n \in Names : n # l.path => dir'[n] = dir[n]
    BY <1>1 DEF Typed, ClientTypeOK
  <1> HIDE DEF e
  <1>7. Final => strand # <<>>
    BY DEF Final, Typed, WellFormed
  <1>8. Final => job' = job /\ job.path # l.path
    <2> SUFFICES ASSUME Final PROVE job' = job /\ job.path # l.path
      OBVIOUS
    <2>1. Head(strand') = Head(strand)
      BY <1>7, RunLambdaEffect
    <2>2. 1 \in DOMAIN strand /\ job = strand[1]
      BY <1>7, StrandType
    <2> QED BY <1>3, <2>1, <2>2 DEF job
  <1>9. /\ Final => Final'
        /\ Outcome' = Outcome
    BY <1>1, <1>8 DEF Final, Outcome
  <1>10. Final' => Final
    <2>1. CASE strand = <<>>
      <3>1. task.phase \notin {"await", "handle", "store"}
        BY <2>1 DEF Typed, WellFormed
      <3> QED BY <1>1, <3>1 DEF Final
    <2>2. CASE strand # <<>>
      <3>1. job' = job
        BY <2>2, RunLambdaEffect DEF job
      <3> QED BY <1>1, <3>1 DEF Final
    <2> QED BY <2>1, <2>2
  <1>11. Effected'
    BY <1>1, <1>8, <1>9, <1>10 DEF Informed, Effected
  <1>12. ASSUME NEW n \in Names, IsSynced(view[Link][n])
         PROVE  \/ dir'[n] # None /\ dir'[n].exist
                \/ \E k \in DOMAIN pool' : pool'[k].path = n /\ pool'[k].op # "CREATE"
                \/ Final /\ n = job.path /\ job.op = "CREATE" /\ Outcome = "OK"
    <2>1. CASE n = l.path
      <3>1. l.op # "CREATE"
        BY <1>12, <2>1 DEF Informed
      <3> QED BY <1>4, <1>5, <1>6, <2>1, <3>1, CResourceAssumption
    <2>2. CASE n # l.path
      <3>1. Known(n)
        BY DEF Informed
      <3> QED BY <1>1, <1>6, <1>12, <2>2, <3>1 DEF Known
    <2> QED BY <2>1, <2>2
  <1>13. \A n \in Names : Known(n)'
    BY <1>1, <1>8, <1>9, <1>12 DEF Known
  <1>14. \A k \in DOMAIN pool' : pool'[k].op = "CREATE" => ~IsSynced(view'[Link][pool'[k].path])
    BY <1>1 DEF Informed
  <1>15. ASSUME NEW q \in Paths, Synced(q)', ~Pending(q)'
         PROVE  Tells(view[Link][q]) /\ view[Link][q].digest = dir'[q].digest
    <2>1. q \in Names /\ q # l.path
      BY <1>1, <1>15, NamesAssumption DEF Pending
    <2>2. Synced(q)
      BY <1>6, <1>15, <2>1 DEF Synced
    <2>3. ~Pending(q)
      BY <1>1, <1>2, <1>15, <2>1 DEF Pending
    <2> QED BY <1>6, <2>1, <2>2, <2>3 DEF Informed, Agreed
  <1>16. \A q \in Paths : Agreed(q)'
    BY <1>1, <1>15 DEF Agreed
  <1> QED BY <1>11, <1>13, <1>14, <1>16 DEF Informed

LEMMA WatcherInformed ==
    ASSUME Typed, Steady, Linked, Orderly, Informed,
           WatchStep \/ (\E n \in Names : WatchMissing(n)) \/ (\E p \in Paths : WatchList(p))
    PROVE  Informed'
  <1>1. /\ client = "watching" /\ pool = <<>>
        /\ UNCHANGED <<view, reply, dir, strand, task>>
        /\ \A i \in DOMAIN pool' :
             /\ pool'[i].path \in Names
             /\ \/ dir[pool'[i].path] = None
                \/ dir[pool'[i].path].synced # "indeterminate"
             /\ pool'[i].op = "CREATE" =>
                  dir[pool'[i].path] = None \/ ~dir[pool'[i].path].exist
    BY WatchPosts DEF server
  <1>e. DOMAIN pool = {}
    BY <1>1
  <1>2. (Final' <=> Final) /\ Outcome' = Outcome /\ job' = job
    BY <1>1 DEF Final, Outcome, job
  <1>3. Effected'
    BY <1>1, <1>2 DEF Informed, Effected
  <1>4. \A n \in Names : Known(n)'
    BY <1>1, <1>2, <1>e DEF Informed, Known
  <1>5. ASSUME NEW i \in DOMAIN pool', pool'[i].op = "CREATE"
        PROVE  ~IsSynced(view[Link][pool'[i].path])
    <2>1. Known(pool'[i].path)
      BY <1>1 DEF Informed
    <2>2. Final => /\ dir[job.path] # None /\ dir[job.path].synced = "indeterminate"
      <3> SUFFICES ASSUME Final
                   PROVE  dir[job.path] # None /\ dir[job.path].synced = "indeterminate"
        OBVIOUS
      <3>1. strand # <<>>
        BY DEF Final, Typed, WellFormed
      <3>2. Marked(job)
        BY <3>1, StrandType DEF Orderly
      <3> QED BY <3>2 DEF Marked, Entry
    <2> QED BY <1>1, <1>5, <1>e, <2>1, <2>2 DEF Known
  <1>6. ASSUME NEW q \in Paths PROVE Agreed(q)'
    BY <1>1, <1>e DEF Informed, Agreed, Synced, Pending
  <1> QED BY <1>1, <1>3, <1>4, <1>5, <1>6 DEF Informed

LEMMA InformedStep ==
    ASSUME Typed, FiniteNames, Steady, TempIsNoDigest, Linked, Orderly, Informed, BackupNext
    PROVE  Informed'
  <1> SUFFICES ASSUME client' = "watching" PROVE Informed'
    BY DEF Informed
  <1>t. task \in Task
    BY DEF Typed, ClientTypeOK
  <1>w. task.phase \in {"send", "await", "handle", "store"} => strand # <<>>
    BY DEF Typed, WellFormed
  <1>1. ASSUME client # "exited", Sync PROVE Informed'
    BY <1>1, SyncInformed
  <1>2. ASSUME client # "exited", StrandStep, ~Sync PROVE client = "watching"
    <2>1. client' # client => Scan \/ StartFails \/ HandleExits
      BY <1>2 DEF StrandStep, StartJob, Send, ReadFails, Receive, LinkLost, LinkFails, Connect,
         Authenticate, SyncLost, HandleRead, HandleStore
    <2> QED BY <2>1 DEF Scan, StartFails, HandleExits
  <1>3. ASSUME client # "exited", client = "watching",
               LinkLost \/ LinkFails \/ Connect \/ Authenticate \/ StartFails \/ SyncLost \/ Scan
        PROVE  FALSE
    BY <1>3 DEF LinkLost, LinkFails, Broken, Connect, Authenticate, StartFails, SyncLost, Scan,
       Linked, Ready, Authed
  <1>4. CASE HandleExits
    BY <1>4 DEF HandleExits
  <1>5. ASSUME client = "watching", StartJob \/ ReadFails \/ Receive \/ HandleRead PROVE Informed'
    <2>1. UNCHANGED <<dir, pool, strand, view, reply>> /\ strand # <<>>
      BY <1>5, <1>w DEF StartJob, ReadFails, Receive, HandleRead, server
    <2>2. job' = job /\ job \in Job
      BY <2>1, HeadJob DEF job
    <2>3. Final => Final' /\ Outcome' = Outcome
      <3>1. CASE StartJob \/ ReadFails
        BY <3>1 DEF StartJob, ReadFails, Final
      <3>2. CASE Receive
        <4> SUFFICES ASSUME Final PROVE Final' /\ Outcome' = Outcome
          OBVIOUS
        <4>1. task.phase = "await" /\ ~(job.op # "ERASE" /\ task.sent < job.len)
          BY <1>t, <2>2, <3>2 DEF Receive, Final, Task, Job
        <4>2. task' = [task EXCEPT !.phase = "handle", !.resp = reply[Link]]
          BY <3>2, <4>1 DEF Receive
        <4>3. task'.phase = "handle" /\ task'.resp = reply[Link]
          BY <1>t, <4>2 DEF Task
        <4> QED BY <4>1, <4>3 DEF Final, Outcome
      <3>3. CASE HandleRead
        BY <1>t, <2>1, <2>2, <3>3 DEF HandleRead, Final, Outcome, Task
      <3> QED BY <1>5, <3>1, <3>2, <3>3
    <2>4. Final' => Final \/ Outcome' \notin Accepted(job'.op)
      <3>1. CASE StartJob
        <4>1. task'.phase = "send"
          BY <3>1 DEF StartJob, Idle
        <4> QED BY <4>1 DEF Final
      <3>2. CASE ReadFails
        <4>1. task'.phase = "handle" /\ task'.resp = "LOST"
          BY <1>t, <3>2 DEF ReadFails, Task
        <4> QED BY <2>2, <4>1 DEF Outcome, Accepted, Job
      <3>3. CASE Receive
        BY <1>t, <2>2, <3>3 DEF Receive, Final, Task, Job
      <3>4. CASE HandleRead
        BY <3>4 DEF HandleRead, Final
      <3> QED BY <1>5, <3>1, <3>2, <3>3, <3>4
    <2> QED BY <1>5, <2>1, <2>2, <2>3, <2>4, InformedFrame
  <1>6. CASE StrandStep
    <2>1. client # "exited"
      BY <1>6 DEF StrandStep
    <2> QED BY <1>1, <1>2, <1>3, <1>4, <1>5, <1>6, <2>1, SendInformed, StoreInformed
            DEF StrandStep
  <1>7. ASSUME NEW i \in DOMAIN pool, RunLambda(i) PROVE Informed'
    BY <1>7, PoolInformed DEF RunLambda
  <1>8. CASE \E p \in Paths, t \in Texts : Write(p, t)
    <2>1. UNCHANGED <<dir, pool, strand, view, reply, task, client>>
      BY <1>8 DEF Write, server
    <2>2. job' = job /\ (Final' <=> Final) /\ Outcome' = Outcome
      BY <2>1 DEF job, Final, Outcome
    <2> QED BY <2>1, <2>2, InformedFrame
  <1>9. ASSUME NEW p \in Paths, Unlink(p) PROVE Informed'
    <2>1. UNCHANGED <<dir, pool, view, reply, task, client>>
      BY <1>9 DEF Unlink, server
    <2>2. task.phase \in {"await", "handle", "store"} =>
            /\ job'.op = job.op /\ job'.path = job.path /\ job'.digest = job.digest
            /\ job'.len = job.len
      BY <1>9, <1>w, UnlinkKeeps
    <2>3. (Final' <=> Final) /\ Outcome' = Outcome
      BY <2>1, <2>2 DEF Final, Outcome
    <2>4. Final => job'.op = job.op /\ job'.path = job.path /\ job'.digest = job.digest
      BY <2>2 DEF Final
    <2> QED BY <1>9, <2>1, <2>3, <2>4, UnlinkKeeps, InformedFrame
  <1>10. CASE Drop \/ SendInterrupted
    BY <1>10 DEF Drop, SendInterrupted, Linked
  <1>11. CASE Restart
    BY <1>11 DEF Restart
  <1> QED BY <1>6, <1>7, <1>8, <1>9, <1>10, <1>11, WatcherInformed
          DEF BackupNext, PoolStep, Environment

LEMMA ServerAlways ==
    ASSUME FiniteNames, OneSession, TempsApart
    PROVE  BackupSpec => []Sound
  <1>1. ClientInit => NoStreamLeak /\ Sound
    BY InitSound DEF ClientInit, Init, NoStreamLeak
  <1>2. ASSUME Typed, NoStreamLeak /\ Sound, [BackupNext]_allVars
        PROVE  (NoStreamLeak /\ Sound)'
    <2>1. [AnyStep]_vars
      BY <1>2, ServerSteps DEF allVars, vars
    <2> QED BY <1>2, <2>1, StepNoLeak, StepSound DEF Typed, Safe
  <1> QED BY <1>1, <1>2, TypedAlways, PTL DEF BackupSpec

\* What the client has as synced, with nothing pending for it, is on the server
\* with the digest of the client's entry, whatever the user does to files while
\* they are hashed and sent, and whatever becomes of the uploads.  The client
\* never looks at the server's disk: an accepted answer has to mean what it says
\* (Effected), which an ALREADY_EXIST to a CREATE would not, and which therefore
\* has to be out of reach (Known); and the server's view has to be true (Sound).
THEOREM SyncedFilesAreStored ==
    ASSUME FiniteNames, Steady, OneSession, TempsApart, TempIsNoDigest
    PROVE  BackupSpec => []SyncedIsStored
  <1>1. ClientInit => Informed
    BY DEF ClientInit, Informed
  <1>2. ASSUME Typed, Linked /\ Orderly, Informed, [BackupNext]_allVars PROVE Informed'
    <2>1. CASE UNCHANGED allVars
      <3>1. UNCHANGED <<dir, pool, strand, view, reply, task, client>> /\ job' = job
        BY <2>1 DEF allVars, cvars, vars, job
      <3>2. (Final' <=> Final) /\ Outcome' = Outcome
        BY <3>1 DEF Final, Outcome
      <3>3. CASE client = "watching"
        BY <1>2, <3>1, <3>2, <3>3, InformedFrame
      <3>4. CASE client # "watching"
        BY <3>1, <3>4 DEF Informed
      <3> QED BY <3>3, <3>4
    <2>2. CASE BackupNext
      BY <1>2, <2>2, InformedStep
    <2> QED BY <1>2, <2>1, <2>2
  <1>3. ASSUME Linked, Informed, Sound PROVE SyncedIsStored
    <2> SUFFICES ASSUME NEW p \in Paths, client = "watching", Synced(p), ~Pending(p)
                 PROVE  disk[Me][p] = dir[p].digest
      BY DEF SyncedIsStored
    <2>1. Tells(view[Link][p]) /\ view[Link][p].digest = dir[p].digest
      BY <1>3 DEF Informed, Agreed
    <2>2. Ready(Link) /\ conn[Link].id = Me /\ Link \in Conns
      BY <1>3, ClientAssumption DEF Linked
    <2> QED BY <1>3, <2>1, <2>2 DEF Sound, SessionSound, EntrySound
  <1> QED BY <1>1, <1>2, <1>3, OrderlyAlways, TypedAlways, ServerAlways, PTL DEF BackupSpec

(***************************************************************************)
(* A user who leaves alone the file the client is at.                      *)
(***************************************************************************)

Quiet ==
    /\ client # "exited"
    /\ client = "starting" => \A n \in Names : dir[n] = None => Local(n) = None
    /\ \A i \in DOMAIN pool : pool[i].op = "ERASE" => Local(pool[i].path) = None
    /\ \A i \in DOMAIN strand : strand[i].op = "ERASE" => Local(strand[i].path) = None
    /\ watch # None => file[watch.path] # None
    /\ watch # None /\ watch.step = "found" => dir[watch.path] # None

LEMMA QuietFrame ==
    ASSUME Quiet, UNCHANGED <<file, dir, watch, pool, strand, client>>
    PROVE  Quiet'
  BY DEF Quiet, Local

LEMMA StrandQuiet ==
    ASSUME Typed, FiniteNames, Linked, Orderly, Quiet, StrandStep
    PROVE  Quiet'
  <1>t. dir \in [Names -> {None} \cup CResource] /\ file \in [Paths -> {None} \cup Content]
    BY DEF Typed, ClientTypeOK
  <1>w. task.phase \in {"send", "await", "handle", "store"} => strand # <<>>
    BY DEF Typed, WellFormed
  <1>e. DOMAIN <<>> = {}
    OBVIOUS
  <1>s. task.phase \in {"scan", "list"} =>
          client \in {"login", "starting"} /\ pool = <<>> /\ strand = <<>> /\ watch = None
    BY DEF StrandStep, Linked, Typed, ClientTypeOK
  <1>1. CASE StartJob \/ Send \/ ReadFails \/ Receive \/ LinkLost \/ LinkFails \/ Connect
             \/ Authenticate \/ SyncLost \/ HandleRead
    BY <1>1, QuietFrame DEF StartJob, Send, ReadFails, Receive, LinkLost, LinkFails, Connect,
       Authenticate, SyncLost, HandleRead
  <1>2. CASE StartFails
    BY <1>2 DEF StartFails, Linked
  <1>3. CASE HandleExits
    <2>1. strand # <<>> /\ dir[job.path] = None
      BY <1>3, <1>w DEF HandleExits
    <2>2. Marked(job)
      BY <2>1, StrandType DEF Orderly
    <2> QED BY <2>1, <2>2 DEF Marked
  <1>4. CASE Scan
    <2>1. pool' = <<>> /\ strand' = <<>> /\ watch' = None /\ client' = "starting" /\ file' = file
      BY <1>s, <1>4 DEF Scan
    <2>2. ASSUME NEW n \in Names, Local(n) # None PROVE dir'[n] # None
      <3>1. Local(n) \in Content
        BY <2>2, LocalType DEF Typed
      <3>2. Entry("indeterminate", FALSE, Local(n)) \in CResource
        BY <3>1 DEF Entry, CResource
      <3> QED BY <1>4, <2>2, <3>2, CResourceAssumption DEF Scan
    <2> QED BY <1>e, <2>1, <2>2 DEF Quiet, Local
  <1>5. CASE Sync
    <2>1. /\ client = "starting" /\ pool = <<>> /\ strand' = <<>> /\ watch' = None
          /\ pool' = pool \o SyncPosts /\ client' = "watching" /\ file' = file
      BY <1>s, <1>5 DEF Sync, Linked
    <2>2. /\ SyncPosts \in Seq(Lambda)
          /\ \A i \in DOMAIN SyncPosts : SyncPosts[i].op = "ERASE" => dir[SyncPosts[i].path] = None
      BY SyncPostsType
    <2>3. \A i \in DOMAIN SyncPosts : SyncPosts[i].path \in Names
      <3>1. \A i \in DOMAIN SyncPosts : SyncPosts[i] \in Lambda
        BY <2>2, ElementOfSeq, LenProperties
      <3> QED BY <3>1 DEF Lambda
    <2>4. pool' = SyncPosts
      BY <2>1, <2>2
    <2> QED BY <1>e, <2>1, <2>2, <2>3, <2>4 DEF Quiet, Local
  <1>6. CASE HandleStore
    <2>1. /\ strand # <<>> /\ UNCHANGED <<file, watch, pool, client>> /\ strand' = Tail(strand)
          /\ dir' = [dir EXCEPT ![job.path] = Handled] /\ task.copy \in CResource
      BY <1>6 DEF HandleStore, Typed, WellFormed
    <2>2. \A i \in DOMAIN strand' : i + 1 \in DOMAIN strand /\ strand'[i] = strand[i + 1]
      BY <2>1, HeadJob
    <2>3. client = "watching"
      BY <2>1, JobIsLinked DEF StrandStep
    <2>4. job \in Job
      BY <2>1, HeadJob
    <2>5. ASSUME watch # None, watch.step = "found" PROVE dir'[watch.path] # None
      <3>1. watch.path \in Paths /\ watch.path \in Names /\ Local(watch.path) # None
        BY <2>5, NamesAssumption DEF Quiet, Local, Typed, ClientTypeOK, Watched
      <3>2. CASE watch.path # job.path
        BY <1>t, <2>1, <2>5, <3>1, <3>2 DEF Quiet
      <3>3. CASE watch.path = job.path
        <4>1. job.op # "ERASE"
          BY <2>1, <3>1, <3>3, StrandType DEF Quiet
        <4>2. Handled \in CResource
          BY <2>1, <2>4, <4>1 DEF Handled, Job, CResource
        <4> QED BY <1>t, <2>1, <3>1, <3>3, <4>2, CResourceAssumption
      <3> QED BY <3>2, <3>3
    <2> QED BY <2>1, <2>2, <2>3, <2>5 DEF Quiet, Local
  <1> QED BY <1>1, <1>2, <1>3, <1>4, <1>5, <1>6 DEF StrandStep

LEMMA QuietStep ==
    ASSUME Typed, FiniteNames, Steady, EditsApart, Linked, Orderly, Quiet, BackupNext
    PROVE  Quiet'
  <1>t. dir \in [Names -> {None} \cup CResource] /\ file \in [Paths -> {None} \cup Content]
    BY DEF Typed, ClientTypeOK
  <1>e. DOMAIN <<>> = {}
    OBVIOUS
  <1>1. ASSUME NEW i \in DOMAIN pool, RunLambda(i) PROVE Quiet'
    <2> DEFINE l == pool[i]
               e == Entry("indeterminate", l.op # "CREATE", l.digest)
    <2>1. /\ l \in Lambda /\ l.path \in Names
          /\ dir' = [dir EXCEPT ![l.path] = e]
          /\ \A k \in DOMAIN strand' : k \notin DOMAIN strand =>
               strand'[k].op = l.op /\ strand'[k].path = l.path
          /\ \A k \in DOMAIN pool' : \E m \in DOMAIN pool : pool'[k] = pool[m]
          /\ UNCHANGED <<file, watch, client>>
      BY <1>1, RunLambdaEffect DEF Lambda
    <2>2. \A k \in DOMAIN strand : k \in DOMAIN strand' /\ strand'[k] = strand[k]
      BY <1>1, RunLambdaEffect
    <2>3. e # None
      <3>1. l.digest \in Content
        BY <2>1 DEF Lambda
      <3>2. e \in CResource
        BY <3>1 DEF Entry, CResource
      <3> QED BY <3>2, CResourceAssumption
    <2>4. client # "starting"
      BY <1>e DEF Linked
    <2> HIDE DEF e
    <2>5. \A n \in Names : dir[n] # None => dir'[n] # None
      BY <1>t, <2>1, <2>3
    <2>6. watch # None => watch.path \in Names
      BY NamesAssumption DEF Typed, ClientTypeOK, Watched
    <2>7. l.op = "ERASE" => Local(l.path) = None
      BY DEF Quiet
    <2> HIDE DEF l
    <2>8. \A k \in DOMAIN strand' : strand'[k].op = "ERASE" => Local(strand'[k].path) = None
      BY <2>1, <2>2, <2>7 DEF Quiet, Local
    <2>9. \A k \in DOMAIN pool' : pool'[k].op = "ERASE" => Local(pool'[k].path) = None
      BY <2>1 DEF Quiet
    <2> QED BY <2>1, <2>4, <2>5, <2>6, <2>8, <2>9 DEF Quiet, Local
  <1>2. CASE WatchStep \/ (\E n \in Names : WatchMissing(n))
             \/ (\E p \in Paths : WatchList(p))
    <2>1. /\ client = "watching" /\ UNCHANGED <<file, dir, strand>>
          /\ \A i \in DOMAIN pool' : pool'[i].op = "ERASE" => Local(pool'[i].path) = None
      BY <1>2, WatchPosts
    <2>2. ~WatchThrows
      BY DEF WatchThrows, Watching, Quiet
    <2>3. client' = client
      BY <1>2, <2>2 DEF WatchStep, WatchHash, WatchFind, WatchDecide, WatchMissing, WatchList
    <2>4. watch' # None => /\ file[watch'.path] # None
                           /\ watch'.step = "found" => dir[watch'.path] # None
      <3>t. watch # None => watch \in Watched
        BY DEF Typed, ClientTypeOK
      <3>1. CASE WatchHash
        <4>1. /\ watch # None /\ file[watch.path] # None
              /\ watch' = [watch EXCEPT !.step = "hashed", !.digest = file[watch.path]]
          BY <3>1 DEF WatchHash, Watching
        <4>2. watch'.path = watch.path /\ watch'.step = "hashed"
          BY <3>t, <4>1 DEF Watched
        <4> QED BY <4>1, <4>2
      <3>2. CASE WatchFind
        <4>1. watch # None /\ file[watch.path] # None
          BY <3>2 DEF WatchFind, Watching, Quiet
        <4>2. \/ watch' = None
              \/ watch' = [watch EXCEPT !.step = "found"] /\ dir[watch.path] # None
          BY <3>2 DEF WatchFind
        <4> QED BY <3>t, <4>1, <4>2 DEF Watched
      <3>3. CASE WatchDecide \/ (\E n \in Names : WatchMissing(n))
        BY <3>3 DEF WatchDecide, WatchMissing, CanLook
      <3>4. CASE \E p \in Paths : WatchList(p)
        BY <3>4 DEF WatchList
      <3> QED BY <1>2, <2>2, <3>1, <3>2, <3>3, <3>4 DEF WatchStep
    <2> QED BY <2>1, <2>3, <2>4 DEF Quiet, Local
  <1>3. CASE (\E p \in Paths, t \in Texts : Write(p, t)) \/ (\E p \in Paths : Unlink(p))
    <2>1. PICK p \in Paths : Unlink(p) \/ \E t \in Texts : Write(p, t)
      BY <1>3
    <2>2. /\ client # "starting" /\ ~Pending(p) /\ (watch # None => watch.path # p)
          /\ UNCHANGED <<dir, watch, pool, client>>
      BY <2>1 DEF Write, Unlink, CanEdit, ClientAt
    <2>3. /\ DOMAIN strand' = DOMAIN strand
          /\ \A i \in DOMAIN strand :
               strand'[i].op = strand[i].op /\ strand'[i].path = strand[i].path
      BY <2>1, UnlinkKeeps DEF Write
    <2>4. \A n \in Paths : n # p => file'[n] = file[n]
      BY <1>t, <2>1 DEF Write, Unlink
    <2>5. watch # None => watch.path \in Paths /\ file'[watch.path] = file[watch.path]
      BY <2>2, <2>4 DEF Typed, ClientTypeOK, Watched
    <2>6. \A i \in DOMAIN pool : pool[i].path # p
      BY <2>2 DEF Pending
    <2>7. \A i \in DOMAIN strand : strand[i].path # p
      BY <2>2 DEF Pending
    <2>8. \A i \in DOMAIN pool' : pool'[i].op = "ERASE" => Local(pool[i].path)' = None
      BY <2>2, <2>4, <2>6 DEF Quiet, Local
    <2>9. \A i \in DOMAIN strand' : strand'[i].op = "ERASE" => Local(strand[i].path)' = None
      BY <2>3, <2>4, <2>7 DEF Quiet, Local
    <2> QED BY <2>2, <2>5, <2>8, <2>9 DEF Quiet, Local
  <1>4. CASE Drop \/ SendInterrupted
    BY <1>4 DEF Drop, SendInterrupted, Linked
  <1>5. CASE Restart
    <2>1. pool' = <<>> /\ strand' = <<>> /\ watch' = None /\ client' = "login"
      BY <1>5 DEF Restart
    <2> QED BY <1>e, <2>1 DEF Quiet
  <1> QED BY <1>1, <1>2, <1>3, <1>4, <1>5, StrandQuiet DEF BackupNext, PoolStep, Environment

\* The process does not end while its user leaves alone the file it is at, whatever
\* becomes of the others meanwhile: the watcher finds the file it lists and the entry
\* it looked up, and each handler its entry.
THEOREM QuietClientStaysUp ==
    ASSUME FiniteNames, Steady, EditsApart
    PROVE  BackupSpec => []StaysUp
  <1>1. ClientInit => Quiet
    BY DEF ClientInit, Quiet
  <1>2. ASSUME Typed, Linked /\ Orderly, Quiet, [BackupNext]_allVars PROVE Quiet'
    <2>1. CASE UNCHANGED allVars
      BY <1>2, <2>1, QuietFrame DEF allVars, cvars
    <2>2. CASE BackupNext
      BY <1>2, <2>2, QuietStep
    <2> QED BY <1>2, <2>1, <2>2
  <1>3. Quiet => StaysUp
    BY DEF Quiet, StaysUp
  <1> QED BY <1>1, <1>2, <1>3, OrderlyAlways, TypedAlways, PTL DEF BackupSpec
=============================================================================
