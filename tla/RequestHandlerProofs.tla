------------------------ MODULE RequestHandlerProofs ------------------------
(***************************************************************************)
(* Theorems about the server, for every set of connections, users, names,  *)
(* contents and digests.                                                   *)
(***************************************************************************)
EXTENDS RequestHandler, SequenceTheorems, TLAPS

(***************************************************************************)
(* Requests of any content and any digest, of which the steps of Next are  *)
(* those with Pieces and Digests.                                          *)
(***************************************************************************)

AnyCreate(c, p) ==
    \/ CreateRefused(c, p)
    \/ CreateDirsFailed(c, p)
    \/ CreateBadStream(c, p)
    \/ \E data \in Content, fault \in BOOLEAN :
         \/ CreateChunk(c, p, data, fault)
         \/ \E d \in Content : CreateLast(c, p, d, data, fault)

AnyUpdate(c, p) ==
    \/ UpdateNotExist(c, p)
    \/ \E d \in Content :
         \/ AlreadyUpdated(c, p, d)
         \/ UpdateBadStream(c, p, d)
         \/ \E data \in Content, fault \in BOOLEAN :
              \/ UpdateChunk(c, p, d, data, fault)
              \/ UpdateLast(c, p, d, data, fault)
         \/ \E data \in Content : UpdateInterrupted(c, p, d, data)

AnyErase(c, n) ==
    \E d \in Content :
      \/ EraseRefused(c, n, d)
      \/ EraseFailed(c, n, d)
      \/ Erase(c, n, d)

AnyRequest(c) ==
    \/ \E p \in Paths : AnyCreate(c, p) \/ AnyUpdate(c, p)
    \/ \E n \in Names : AnyErase(c, n) \/ Retrieve(c, n)

AnyStep == Crash \/ \E c \in Conns : SessionStep(c) \/ AnyRequest(c)

LEMMA NextIsAnyStep == Next => AnyStep
  <1> SUFFICES ASSUME Next PROVE AnyStep
    OBVIOUS
  <1>1. ASSUME NEW c \in Conns, NEW p \in Paths, CreateStep(c, p) PROVE AnyCreate(c, p)
    BY <1>1, ContentAssumption DEF CreateStep, AnyCreate, FaultChoice
  <1>2. ASSUME NEW c \in Conns, NEW p \in Paths, UpdateStep(c, p) PROVE AnyUpdate(c, p)
    BY <1>2, ContentAssumption DEF UpdateStep, AnyUpdate, FaultChoice
  <1>3. ASSUME NEW c \in Conns, NEW n \in Names, EraseStep(c, n) PROVE AnyErase(c, n)
    BY <1>3, ContentAssumption DEF EraseStep, AnyErase
  <1> QED BY <1>1, <1>2, <1>3 DEF Next, AnyStep, AnyRequest

(***************************************************************************)
(* Updates of one entry of a view, and of the files of one user, keep      *)
(* their types.                                                            *)
(***************************************************************************)

LEMMA EntryType ==
    ASSUME TypeOK, NEW c \in Conns, NEW n \in Names, NEW e \in {None} \cup Resource
    PROVE  [view EXCEPT ![c][n] = e] \in [Conns -> [Names -> {None} \cup Resource]]
  <1>1. view \in [Conns -> [Names -> {None} \cup Resource]]
    BY DEF TypeOK
  <1>2. [view[c] EXCEPT ![n] = e] \in [Names -> {None} \cup Resource]
    BY <1>1
  <1> QED BY <1>1, <1>2

LEMMA FilesType ==
    ASSUME TypeOK, NEW u \in Users, NEW files \in [Names -> {None} \cup Content]
    PROVE  [disk EXCEPT ![u] = files] \in [Users -> [Names -> {None} \cup Content]]
  BY DEF TypeOK

(***************************************************************************)
(* What a call of get_stream and a write do to a user's files.             *)
(***************************************************************************)

\* get_stream returns the stream in the map or a new one on the name asked.
LEMMA GetStreamType ==
    ASSUME TypeOK, NEW u \in Users, NEW n \in Names
    PROVE  GetStream(u, n) \in Stream
  BY DEF GetStream, IsFirst, TypeOK, Stream

\* A write through a usable stream appends to one file, that of the stream,
\* and may create the file asked for; all others stay as they were.
LEMMA WriteEffect ==
    ASSUME TypeOK, StreamOnDisk,
           NEW u \in Users, NEW n \in Names, NEW data \in Content,
           GetStream(u, n).good
    PROVE  /\ Written(u, n, data) \in [Names -> {None} \cup Content]
           /\ GetStream(u, n).linked =>
                Written(u, n, data)[GetStream(u, n).name] # None
           /\ \A m \in Names : m # n /\ m # GetStream(u, n).name =>
                Written(u, n, data)[m] = disk[u][m]
           /\ \A m \in Names : disk[u][m] # None =>
                /\ Written(u, n, data)[m] # None
                /\ m # GetStream(u, n).name => Written(u, n, data)[m] = disk[u][m]
           /\ n \notin Unopenable => Written(u, n, data)[n] # None
  <1> DEFINE s == GetStream(u, n)
             f == Touched(u, n)
  <1>1. s \in Stream
    BY GetStreamType
  <1>2. disk[u] \in [Names -> {None} \cup Content]
    BY DEF TypeOK
  <1>3. <<>> \in Content
    BY DEF Content
  <1>4. /\ f \in [Names -> {None} \cup Content]
        /\ \A m \in Names : m # n => f[m] = disk[u][m]
        /\ \A m \in Names : disk[u][m] # None => f[m] = disk[u][m]
        /\ n \notin Unopenable => f[n] # None
    BY <1>2, <1>3, ContentAssumption DEF Touched
  <1>5. s.linked => f[s.name] \in Content
    <2>1. CASE IsFirst(u)
      BY <2>1, <1>4 DEF GetStream
    <2>2. CASE ~IsFirst(u)
      <3>1. s = streams[u] /\ streams[u] # None
        BY <2>2 DEF GetStream, IsFirst
      <3>2. s.linked => disk[u][s.name] # None
        BY <3>1 DEF StreamOnDisk
      <3> QED BY <3>2, <1>1, <1>4 DEF Stream
    <2> QED BY <2>1, <2>2
  <1>6. CASE s.linked
    <2>1. f[s.name] \o data \in Content
      BY <1>5, <1>6 DEF Content
    <2>2. Written(u, n, data) = [f EXCEPT ![s.name] = f[s.name] \o data]
      BY <1>6 DEF Written
    <2>3. s.name \in Names
      BY <1>1 DEF Stream
    <2> HIDE DEF s, f
    <2>4. Written(u, n, data) \in [Names -> {None} \cup Content]
      BY <2>1, <2>2, <1>4
    <2>5. Written(u, n, data)[s.name] # None
      BY <2>1, <2>2, <2>3, <1>4, ContentAssumption
    <2>6. \A m \in Names : m # s.name => Written(u, n, data)[m] = f[m]
      BY <2>2, <1>4
    <2> QED BY <2>4, <2>5, <2>6, <1>4 DEF s
  <1>7. CASE ~s.linked
    <2>1. Written(u, n, data) = f
      BY <1>7 DEF Written
    <2> QED BY <2>1, <1>4, <1>7
  <1> QED BY <1>6, <1>7

\* A failed write is a write of nothing.
LEMMA KeptType ==
    ASSUME NEW data \in Content, NEW fault \in BOOLEAN
    PROVE  Kept(data, fault) \in Content
  BY DEF Kept, Content

(***************************************************************************)
(* Type correctness, which needs StreamOnDisk: appending to what is not a  *)
(* file would be no content.                                               *)
(***************************************************************************)

Safe == TypeOK /\ StreamOnDisk

\* A request that is answered with nothing done.
LEMMA RefuseSafe ==
    ASSUME Safe, NEW c \in Conns, NEW r \in Results, Refuse(c, r)
    PROVE  Safe'
  BY DEF Safe, TypeOK, StreamOnDisk, Refuse, Answer

LEMMA EndedType ==
    ASSUME Ended, disk' \in [Users -> [Names -> {None} \cup Content]]
    PROVE  Safe'
  BY DEF Ended, Safe, TypeOK, StreamOnDisk, Closed, EmptyView, Session, Results

LEMMA SessionSafe ==
    ASSUME Safe, NEW c \in Conns, SessionStep(c)
    PROVE  Safe'
  <1>1. ASSUME Accept(c) PROVE Safe'
    <2>1. \A a, s \in Uninit :
            [open |-> TRUE, id |-> NoUser, auth |-> a, synced |-> s] \in Session
      BY SessionAssumption DEF Session
    <2> QED BY <1>1, <2>1 DEF Accept, Safe, TypeOK, StreamOnDisk, Answer, EmptyView,
                              Results
  <1>2. ASSUME Shutdown(c) PROVE Safe'
    BY <1>2 DEF Shutdown, Safe, TypeOK, StreamOnDisk, Answer, EmptyView, Closed,
                Session, Results
  <1>3. ASSUME NEW u \in Users, Auth(c, u) PROVE Safe'
    BY <1>3 DEF Auth, Safe, TypeOK, StreamOnDisk, Answer, EmptyView, Session, Results
  <1>4. ASSUME AuthFailed(c) \/ Rejected(c) \/ KeepAlive(c) PROVE Safe'
    BY <1>4, RefuseSafe DEF AuthFailed, Rejected, KeepAlive, Results
  <1>5. ASSUME List(c) PROVE Safe'
    <2>1. conn[c].id \in Users
      BY <1>5 DEF List, Authed
    <2>2. Listed(conn[c].id) \in [Names -> {None} \cup Resource]
      BY <2>1 DEF Listed, Resource, Safe, TypeOK
    <2>3. [conn EXCEPT ![c].synced = TRUE] \in [Conns -> Session]
      BY DEF Safe, TypeOK, Session
    <2> QED BY <1>5, <2>2, <2>3 DEF List, Safe, TypeOK, StreamOnDisk, Answer, Results
  <1>6. ASSUME ListFailed(c) PROVE Safe'
    BY <1>6 DEF ListFailed, Safe, TypeOK, StreamOnDisk, Answer, EmptyView, Results
  <1> QED BY <1>1, <1>2, <1>3, <1>4, <1>5, <1>6 DEF SessionStep

\* What get_stream did to a map and a disk whose stream turned out bad.
LEMMA BadStreamSafe ==
    ASSUME Safe, NEW c \in Conns, NEW n \in Names, NEW r \in Results,
           conn[c].id \in Users, BadStream(c, n, r)
    PROVE  Safe'
  <1> DEFINE u == conn[c].id
  <1>1. GetStream(u, n) \in Stream /\ ~GetStream(u, n).good
    BY GetStreamType DEF BadStream, Safe
  <1>2. /\ Touched(u, n) \in [Names -> {None} \cup Content]
        /\ \A m \in Names : disk[u][m] # None => Touched(u, n)[m] # None
    BY ContentAssumption DEF Touched, Safe, TypeOK, Content
  <1>3. /\ disk' = [disk EXCEPT ![u] = Touched(u, n)]
        /\ streams' = [streams EXCEPT ![u] = GetStream(u, n)]
        /\ reply' = [reply EXCEPT ![c] = r]
        /\ UNCHANGED <<conn, view>>
    BY DEF BadStream, Answer
  <1>4. TypeOK'
    BY <1>1, <1>2, <1>3 DEF Safe, TypeOK
  <1>5. StreamOnDisk'
    BY <1>1, <1>2, <1>3 DEF Safe, TypeOK, StreamOnDisk, Stream
  <1> QED BY <1>4, <1>5 DEF Safe

LEMMA CreateSafe ==
    ASSUME Safe, NEW c \in Conns, NEW p \in Paths, AnyCreate(c, p)
    PROVE  Safe'
  <1> DEFINE u == conn[c].id
  <1>p. p \in Names
    BY NamesAssumption
  <1>1. ASSUME CreateRefused(c, p) \/ CreateDirsFailed(c, p) PROVE Safe'
    BY <1>1, RefuseSafe DEF CreateRefused, CreateDirsFailed, Results
  <1>2. ASSUME CreateBadStream(c, p) PROVE Safe'
    BY <1>2, <1>p, BadStreamSafe DEF CreateBadStream, Ready, Authed, Results
  <1>3. ASSUME NEW data \in Content, NEW fault \in BOOLEAN,
               CreateChunk(c, p, data, fault)
        PROVE  Safe'
    <2> DEFINE files == Written(u, p, Kept(data, fault))
               s     == GetStream(u, p)
               e     == [synced |-> FALSE, digest |-> TempDigest]
    <2>1. u \in Users /\ s.good /\ s \in Stream
      BY <1>3, <1>p, GetStreamType DEF CreateChunk, Ready, Authed, Safe
    <2>2. /\ files \in [Names -> {None} \cup Content]
          /\ s.linked => files[s.name] # None
      BY <2>1, <1>p, WriteEffect, KeptType DEF Safe
    <2>3. /\ disk' = [disk EXCEPT ![u] = files]
          /\ streams' = [streams EXCEPT ![u] = [s EXCEPT !.good = ~fault]]
          /\ view' = view \/ view' = [view EXCEPT ![c][p] = e]
          /\ reply' = [reply EXCEPT ![c] = "OK"]
          /\ conn' = conn
      BY <1>3 DEF CreateChunk, Answer
    <2>4. [s EXCEPT !.good = ~fault] \in Stream
      BY <2>1 DEF Stream
    <2>5. e \in Resource
      BY DEF Resource
    <2> HIDE DEF files, e
    <2>6. view' \in [Conns -> [Names -> {None} \cup Resource]]
      <3>1. [view EXCEPT ![c][p] = e] \in [Conns -> [Names -> {None} \cup Resource]]
        BY <2>5, <1>p, EntryType DEF Safe
      <3> QED BY <2>3, <3>1 DEF Safe, TypeOK
    <2>7. TypeOK'
      BY <2>1, <2>2, <2>3, <2>4, <2>6 DEF Safe, TypeOK, Results
    <2>8. StreamOnDisk'
      BY <2>1, <2>2, <2>3 DEF Safe, TypeOK, StreamOnDisk, Stream
    <2> QED BY <2>7, <2>8 DEF Safe
  <1>4. ASSUME NEW d \in Content, NEW data \in Content, NEW fault \in BOOLEAN,
               CreateLast(c, p, d, data, fault)
        PROVE  Safe'
    <2> DEFINE files == Written(u, p, Kept(data, fault))
               e     == [synced |-> TRUE, digest |-> d]
    <2>1. u \in Users /\ GetStream(u, p).good
      BY <1>4 DEF CreateLast, Ready, Authed
    <2>2. files \in [Names -> {None} \cup Content]
      BY <2>1, <1>p, WriteEffect, KeptType DEF Safe
    <2>3. /\ streams' = [streams EXCEPT ![u] = None]
          /\ \/ disk' = [disk EXCEPT ![u] = files]
             \/ disk' = [disk EXCEPT ![u] = [files EXCEPT ![p] = None]]
          /\ view' = [view EXCEPT ![c][p] = e] \/ view' = [view EXCEPT ![c][p] = None]
          /\ \E r \in Results : reply' = [reply EXCEPT ![c] = r]
          /\ conn' = conn
      BY <1>4 DEF CreateLast, Answer, Results
    <2>4. e \in Resource
      BY ContentAssumption DEF Resource
    <2> HIDE DEF files, e
    <2>5. view' \in [Conns -> [Names -> {None} \cup Resource]]
      <3>1. /\ [view EXCEPT ![c][p] = e] \in [Conns -> [Names -> {None} \cup Resource]]
            /\ [view EXCEPT ![c][p] = None] \in [Conns -> [Names -> {None} \cup Resource]]
        BY <2>4, <1>p, EntryType DEF Safe
      <3> QED BY <2>3, <3>1
    <2>6. disk' \in [Users -> [Names -> {None} \cup Content]]
      <3>1. [files EXCEPT ![p] = None] \in [Names -> {None} \cup Content]
        BY <2>2
      <3> QED BY <2>1, <2>2, <2>3, <3>1, FilesType DEF Safe, TypeOK
    <2>7. TypeOK'
      BY <2>1, <2>3, <2>5, <2>6 DEF Safe, TypeOK
    <2>8. StreamOnDisk'
      BY <2>1, <2>3 DEF Safe, TypeOK, StreamOnDisk
    <2> QED BY <2>7, <2>8 DEF Safe
  <1> QED BY <1>1, <1>2, <1>3, <1>4 DEF AnyCreate

LEMMA TempName == \A p \in Paths : p \in Names /\ Temp[p] \in Names
  BY NamesAssumption

LEMMA UpdateSafe ==
    ASSUME Safe, NEW c \in Conns, NEW p \in Paths, AnyUpdate(c, p)
    PROVE  Safe'
  <1> DEFINE u == conn[c].id
             n == Temp[p]
  <1>p. p \in Names /\ n \in Names
    BY TempName
  <1>1. ASSUME NEW d \in Content, AlreadyUpdated(c, p, d) PROVE Safe'
    BY <1>1, RefuseSafe DEF AlreadyUpdated, Results
  <1>2. ASSUME UpdateNotExist(c, p) PROVE Safe'
    BY <1>2, RefuseSafe DEF UpdateNotExist, Results
  <1>3. ASSUME NEW d \in Content, UpdateBadStream(c, p, d) PROVE Safe'
    BY <1>3, <1>p, BadStreamSafe DEF UpdateBadStream, Updating, Ready, Authed, Results
  <1>4. ASSUME NEW d \in Content, NEW data \in Content, NEW fault \in BOOLEAN,
               UpdateChunk(c, p, d, data, fault)
        PROVE  Safe'
    <2> DEFINE files == Written(u, n, Kept(data, fault))
               s     == GetStream(u, n)
               e     == [view[c][p] EXCEPT !.synced = FALSE]
    <2>1. u \in Users /\ s.good /\ s \in Stream /\ view[c][p] # None
      BY <1>4, <1>p, GetStreamType DEF UpdateChunk, Updating, Ready, Authed, Safe
    <2>2. /\ files \in [Names -> {None} \cup Content]
          /\ s.linked => files[s.name] # None
      BY <2>1, <1>p, WriteEffect, KeptType DEF Safe
    <2>3. /\ disk' = [disk EXCEPT ![u] = files]
          /\ streams' = [streams EXCEPT ![u] = s]
          /\ view' = view \/ view' = [view EXCEPT ![c][p] = e]
          /\ reply' = [reply EXCEPT ![c] = "OK"]
          /\ conn' = conn
      BY <1>4 DEF UpdateChunk, Answer
    <2>4. e \in Resource
      <3>1. view[c] \in [Names -> {None} \cup Resource]
        BY DEF Safe, TypeOK
      <3>2. view[c][p] \in Resource
        BY <2>1, <1>p, <3>1
      <3> QED BY <3>2 DEF Resource
    <2> HIDE DEF files, e
    <2>5. view' \in [Conns -> [Names -> {None} \cup Resource]]
      <3>1. [view EXCEPT ![c][p] = e] \in [Conns -> [Names -> {None} \cup Resource]]
        BY <2>4, <1>p, EntryType DEF Safe
      <3>2. CASE view' = view
        BY <3>2 DEF Safe, TypeOK
      <3>3. CASE view' = [view EXCEPT ![c][p] = e]
        BY <3>1, <3>3
      <3> QED BY <2>3, <3>2, <3>3
    <2>6. TypeOK'
      BY <2>1, <2>2, <2>3, <2>5 DEF Safe, TypeOK, Results
    <2>7. StreamOnDisk'
      BY <2>1, <2>2, <2>3 DEF Safe, TypeOK, StreamOnDisk, Stream
    <2> QED BY <2>6, <2>7 DEF Safe
  <1>5. ASSUME NEW d \in Content, NEW data \in Content, NEW fault \in BOOLEAN,
               UpdateLast(c, p, d, data, fault)
        PROVE  Safe'
    <2> DEFINE files == Written(u, n, Kept(data, fault))
               moved == [files EXCEPT ![p] = files[n], ![n] = None]
               gone  == [files EXCEPT ![p] = None, ![n] = None]
               e     == [synced |-> TRUE, digest |-> d]
    <2>1. u \in Users /\ GetStream(u, n).good
      BY <1>5 DEF UpdateLast, Updating, Ready, Authed
    <2>2. files \in [Names -> {None} \cup Content]
      BY <2>1, <1>p, WriteEffect, KeptType DEF Safe
    <2>3. /\ streams' = [streams EXCEPT ![u] = None]
          /\ \/ disk' = [disk EXCEPT ![u] = moved]
             \/ disk' = [disk EXCEPT ![u] = gone]
          /\ view' = [view EXCEPT ![c][p] = e] \/ view' = [view EXCEPT ![c][p] = None]
          /\ \E r \in Results : reply' = [reply EXCEPT ![c] = r]
          /\ conn' = conn
      BY <1>5 DEF UpdateLast, Answer, Results
    <2>4. e \in Resource
      BY ContentAssumption DEF Resource
    <2> HIDE DEF files, e
    <2>5. view' \in [Conns -> [Names -> {None} \cup Resource]]
      <3>1. /\ [view EXCEPT ![c][p] = e] \in [Conns -> [Names -> {None} \cup Resource]]
            /\ [view EXCEPT ![c][p] = None] \in [Conns -> [Names -> {None} \cup Resource]]
        BY <2>4, <1>p, EntryType DEF Safe
      <3> QED BY <2>3, <3>1
    <2>6. disk' \in [Users -> [Names -> {None} \cup Content]]
      <3>1. /\ moved \in [Names -> {None} \cup Content]
            /\ gone \in [Names -> {None} \cup Content]
        BY <2>2, <1>p
      <3> HIDE DEF moved, gone
      <3> QED BY <2>1, <2>3, <3>1, FilesType DEF Safe
    <2>7. TypeOK'
      BY <2>1, <2>3, <2>5, <2>6 DEF Safe, TypeOK
    <2>8. StreamOnDisk'
      BY <2>1, <2>3 DEF Safe, TypeOK, StreamOnDisk
    <2> QED BY <2>7, <2>8 DEF Safe
  <1>6. ASSUME NEW d \in Content, NEW data \in Content, UpdateInterrupted(c, p, d, data)
        PROVE  Safe'
    <2> DEFINE files == Written(u, n, data)
    <2>1. u \in Users /\ GetStream(u, n).good
      BY <1>6 DEF UpdateInterrupted, Updating, Ready, Authed
    <2>2. files \in [Names -> {None} \cup Content]
      BY <2>1, <1>p, WriteEffect, ContentAssumption DEF Safe
    <2>3. disk' = [disk EXCEPT ![u] = [files EXCEPT ![p] = None]] /\ Ended
      BY <1>6 DEF UpdateInterrupted
    <2> HIDE DEF files
    <2>4. [files EXCEPT ![p] = None] \in [Names -> {None} \cup Content]
      BY <2>2
    <2> QED BY <2>1, <2>3, <2>4, FilesType, EndedType DEF Safe
  <1> QED BY <1>1, <1>2, <1>3, <1>4, <1>5, <1>6 DEF AnyUpdate

LEMMA EraseSafe ==
    ASSUME Safe, NEW c \in Conns, NEW n \in Names, AnyErase(c, n) \/ Retrieve(c, n)
    PROVE  Safe'
  <1> DEFINE u == conn[c].id
  <1>1. ASSUME NEW d \in Content, EraseRefused(c, n, d) \/ EraseFailed(c, n, d)
        PROVE  Safe'
    BY <1>1, RefuseSafe DEF EraseRefused, EraseFailed, Results
  <1>2. ASSUME Retrieve(c, n) PROVE Safe'
    BY <1>2, RefuseSafe DEF Retrieve, Results
  <1>3. ASSUME NEW d \in Content, Erase(c, n, d) PROVE Safe'
    <2>1. u \in Users
      BY <1>3 DEF Erase, Ready, Authed
    <2>2. /\ disk' = [disk EXCEPT ![u][n] = None]
          /\ view' = [view EXCEPT ![c][n] = None]
          /\ reply' = [reply EXCEPT ![c] = "OK"]
          /\ conn' = conn
      BY <1>3 DEF Erase, Answer
    <2>3. /\ disk[u] \in [Names -> {None} \cup Content]
          /\ [disk[u] EXCEPT ![n] = None] \in [Names -> {None} \cup Content]
      BY <2>1 DEF Safe, TypeOK
    <2>4. disk' \in [Users -> [Names -> {None} \cup Content]]
      BY <2>1, <2>2, <2>3 DEF Safe, TypeOK
    <2>5. view' \in [Conns -> [Names -> {None} \cup Resource]]
      BY <2>2, EntryType DEF Safe
    <2>6. CASE ~IsFirst(u) /\ streams[u].name = n
      <3>1. streams' = [streams EXCEPT ![u].linked = FALSE]
        BY <1>3, <2>6 DEF Erase
      <3>2. streams[u] \in Stream
        BY <2>1, <2>6 DEF IsFirst, Safe, TypeOK
      <3>3. [streams[u] EXCEPT !.linked = FALSE] \in Stream
        BY <3>2 DEF Stream
      <3>4. TypeOK'
        BY <2>1, <2>2, <2>4, <2>5, <3>1, <3>3 DEF Safe, TypeOK, Results
      <3>5. StreamOnDisk'
        BY <2>1, <2>2, <3>1, <3>2 DEF Safe, TypeOK, StreamOnDisk, Stream
      <3> QED BY <3>4, <3>5 DEF Safe
    <2>7. CASE IsFirst(u) \/ streams[u].name # n
      <3>1. streams' = streams
        BY <1>3, <2>7 DEF Erase
      <3>2. TypeOK'
        BY <2>2, <2>4, <2>5, <3>1 DEF Safe, TypeOK, Results
      <3>3. StreamOnDisk'
        BY <2>1, <2>2, <2>3, <2>7, <3>1 DEF Safe, TypeOK, StreamOnDisk, IsFirst
      <3> QED BY <3>2, <3>3 DEF Safe
    <2> QED BY <2>6, <2>7
  <1> QED BY <1>1, <1>2, <1>3 DEF AnyErase

LEMMA CrashSafe ==
    ASSUME Safe, Crash
    PROVE  Safe'
  <1>1. PICK k \in 0..MaxLen :
          disk' = [u \in Users |->
                     IF Unflushed(u) /\ k < Len(disk[u][streams[u].name])
                     THEN [disk[u] EXCEPT ![streams[u].name] = SubSeq(@, 1, k)]
                     ELSE disk[u]]
    BY DEF Crash
  <1>2. ASSUME NEW u \in Users PROVE disk'[u] \in [Names -> {None} \cup Content]
    <2>1. disk[u] \in [Names -> {None} \cup Content]
      BY DEF Safe, TypeOK
    <2>2. CASE Unflushed(u) /\ k < Len(disk[u][streams[u].name])
      <3>1. streams[u].name \in Names /\ disk[u][streams[u].name] \in Content
        BY <2>2, <2>1 DEF Unflushed, Safe, TypeOK, Stream, StreamOnDisk
      <3>2. SubSeq(disk[u][streams[u].name], 1, k) \in Content
        BY <3>1, <2>2, SessionAssumption, SubSeqProperties DEF Content
      <3> QED BY <1>1, <2>1, <2>2, <3>1, <3>2
    <2>3. CASE ~(Unflushed(u) /\ k < Len(disk[u][streams[u].name]))
      BY <1>1, <2>1, <2>3
    <2> QED BY <2>2, <2>3
  <1>3. disk' \in [Users -> [Names -> {None} \cup Content]]
    BY <1>1, <1>2
  <1> QED BY <1>3, EndedType DEF Crash

LEMMA InitSafe == Init => Safe
  BY DEF Init, Safe, TypeOK, StreamOnDisk, Closed, EmptyView, Session, Results

LEMMA StepSafe == Safe /\ [AnyStep]_vars => Safe'
  <1> SUFFICES ASSUME Safe, [AnyStep]_vars PROVE Safe'
    OBVIOUS
  <1>1. CASE UNCHANGED vars
    BY <1>1 DEF vars, Safe, TypeOK, StreamOnDisk
  <1>2. CASE AnyStep
    BY <1>2, SessionSafe, CreateSafe, UpdateSafe, EraseSafe, CrashSafe DEF AnyStep, AnyRequest
  <1> QED BY <1>1, <1>2

LEMMA NextSafe == Safe /\ [Next]_vars => Safe'
  BY StepSafe, NextIsAnyStep

LEMMA SafeAlways == Spec => []Safe
  BY InitSafe, NextSafe, PTL DEF Spec

\* Every variable keeps its type, whatever the clients send and whenever the
\* process ends.
THEOREM TypeCorrect == Spec => []TypeOK
  BY SafeAlways, PTL DEF Safe

\* No usable stream has lost its file: neither ERASE nor the removal of a
\* mismatching upload leaves a stream in the map that appends to nothing.
THEOREM StreamsHaveFiles == Spec => []StreamOnDisk
  BY SafeAlways, PTL DEF Safe

(***************************************************************************)
(* A request is served inside its session: it touches the files, the       *)
(* stream and the view of the connection it came on, and no connection's   *)
(* phase.                                                                  *)
(***************************************************************************)

LEMMA ServeFrame ==
    ASSUME TypeOK, NEW c \in Conns, AnyRequest(c), ~Ended
    PROVE  /\ Ready(c)
           /\ conn' = conn
           /\ \A u \in Users : u # conn[c].id =>
                disk'[u] = disk[u] /\ streams'[u] = streams[u]
           /\ \A e \in Conns : e # c => view'[e] = view[e]
  <1> DEFINE Frame == /\ Ready(c)
                      /\ conn' = conn
                      /\ \A u \in Users : u # conn[c].id =>
                           disk'[u] = disk[u] /\ streams'[u] = streams[u]
                      /\ \A e \in Conns : e # c => view'[e] = view[e]
  <1>t. /\ DOMAIN disk = Users /\ DOMAIN streams = Users /\ DOMAIN view = Conns
    BY DEF TypeOK
  <1>1. ASSUME NEW p \in Paths, AnyCreate(c, p) PROVE Frame
    BY <1>1, <1>t DEF AnyCreate, CreateRefused, CreateDirsFailed, CreateBadStream,
       CreateChunk, CreateLast, BadStream, Refuse
  <1>2. ASSUME NEW p \in Paths, AnyUpdate(c, p) PROVE Frame
    BY <1>2, <1>t DEF AnyUpdate, UpdateNotExist, AlreadyUpdated, UpdateBadStream,
       UpdateChunk, UpdateLast, UpdateInterrupted, Updating, BadStream, Refuse
  <1>3. ASSUME NEW n \in Names, AnyErase(c, n) \/ Retrieve(c, n) PROVE Frame
    BY <1>3, <1>t DEF AnyErase, EraseRefused, EraseFailed, Erase, Retrieve, Refuse
  <1> QED BY <1>1, <1>2, <1>3 DEF AnyRequest

(***************************************************************************)
(* No stream outlives its sessions.                                        *)
(***************************************************************************)

LEMMA StepNoLeak == TypeOK /\ NoStreamLeak /\ [AnyStep]_vars => NoStreamLeak'
  <1> SUFFICES ASSUME TypeOK, NoStreamLeak, [AnyStep]_vars PROVE NoStreamLeak'
    OBVIOUS
  <1>1. CASE UNCHANGED vars
    BY <1>1 DEF vars, NoStreamLeak, Ready, Authed
  <1>2. CASE Crash \/ Ended
    BY <1>2 DEF Crash, Ended, NoStreamLeak
  <1>3. ASSUME NEW c \in Conns, AnyRequest(c), ~Ended PROVE NoStreamLeak'
    <2>1. /\ Ready(c)
          /\ conn' = conn
          /\ \A u \in Users : u # conn[c].id => streams'[u] = streams[u]
      BY <1>3, ServeFrame
    <2>2. \A e \in Conns : Ready(e)' <=> Ready(e)
      BY <2>1 DEF Ready, Authed
    <2> QED BY <2>1, <2>2 DEF NoStreamLeak
  <1>4. ASSUME NEW c \in Conns, SessionStep(c) PROVE NoStreamLeak'
    <2>1. ASSUME Accept(c) \/ (\E u \in Users : Auth(c, u)) PROVE NoStreamLeak'
      <3>1. ~Ready(c) /\ streams' = streams
        BY <2>1 DEF Accept, Auth, Ready, Authed
      <3>2. \A e \in Conns : e # c => conn'[e] = conn[e]
        BY <2>1 DEF Accept, Auth, TypeOK
      <3> QED BY <3>1, <3>2 DEF NoStreamLeak, Ready, Authed
    <2>2. ASSUME Shutdown(c) PROVE NoStreamLeak'
      <3>1. \A u \in Users : streams'[u] # None =>
              u # conn[c].id /\ streams'[u] = streams[u]
        BY <2>2 DEF Shutdown
      <3>2. \A e \in Conns : e # c => conn'[e] = conn[e]
        BY <2>2 DEF Shutdown, TypeOK
      <3> QED BY <3>1, <3>2 DEF NoStreamLeak, Ready, Authed
    <2>3. ASSUME List(c) PROVE NoStreamLeak'
      <3>1. streams' = streams /\ conn' = [conn EXCEPT ![c].synced = TRUE]
        BY <2>3 DEF List
      <3>2. \A e \in Conns : /\ conn'[e].open = conn[e].open
                            /\ conn'[e].auth = conn[e].auth
                            /\ conn'[e].id = conn[e].id
                            /\ conn[e].synced => conn'[e].synced
        BY <3>1 DEF TypeOK, Session
      <3> QED BY <3>1, <3>2 DEF NoStreamLeak, Ready, Authed
    <2>4. ASSUME AuthFailed(c) \/ Rejected(c) \/ KeepAlive(c) \/ ListFailed(c)
          PROVE  NoStreamLeak'
      BY <2>4 DEF AuthFailed, Rejected, KeepAlive, ListFailed, Refuse, NoStreamLeak,
                  Ready, Authed
    <2> QED BY <1>4, <2>1, <2>2, <2>3, <2>4 DEF SessionStep
  <1> QED BY <1>1, <1>2, <1>3, <1>4 DEF AnyStep

\* While a user has an open stream, one of the user's connections is past its
\* LIST, however connections come, go and share the user.
THEOREM StreamsDoNotLeak == Spec => []NoStreamLeak
  <1>1. Init => NoStreamLeak
    BY DEF Init, NoStreamLeak
  <1>2. TypeOK /\ NoStreamLeak /\ [Next]_vars => NoStreamLeak'
    BY StepNoLeak, NextIsAnyStep
  <1> QED BY <1>1, <1>2, TypeCorrect, PTL DEF Spec

(***************************************************************************)
(* The view is sound when a user has one session at a time and no client   *)
(* path is the temp name of another.  The invariant that carries ViewSound *)
(* is NotSyncedWhileWritten: the one file an append can reach behind the   *)
(* back of the request that causes it is that of the open stream.  A LIST, *)
(* which marks everything synced, needs NoStreamLeak: no stream is open    *)
(* when the user's only session has not listed yet.                        *)
(***************************************************************************)

OneSession == ~SharedLogin
TempsApart == \A p, q \in Paths : Temp[p] # q

Exclusive ==
    \A c, e \in Conns : conn[c].id \in Users /\ conn[c].id = conn[e].id => c = e

\* An entry that tells the digest of a file: one a CREATE has begun tells none, one
\* an UPDATE has begun that of the file it is to replace.
Tells(e) == e # None /\ (e.synced \/ e.digest # TempDigest)

\* ViewSound and NotSyncedWhileWritten, for the entry of q in session c, and the
\* truth of the digests that ALREADY_UPDATED is answered from.
EntrySound(c, q) ==
    LET s == streams[conn[c].id]
    IN  /\ Tells(view[c][q]) =>
             /\ disk[conn[c].id][q] = view[c][q].digest
             /\ s # None /\ s.good => s.name # q
        /\ IsSynced(view[c][q]) /\ s # None => s.name # q

SessionSound(c) == Ready(c) => \A q \in Paths : EntrySound(c, q)

Sound == Exclusive /\ \A c \in Conns : SessionSound(c)

LEMMA SoundImplies == TypeOK /\ Sound => ViewSound /\ NotSyncedWhileWritten
  BY DEF Sound, SessionSound, EntrySound, Tells, IsSynced, ViewSound, NotSyncedWhileWritten

\* What ALREADY_UPDATED is answered from: an entry's digest, once it is one, is
\* that of the file, also while an upload that is to replace the file is under
\* way or was given up half-way.  (class s_resource, handle_update)
DigestTrue ==
    \A c \in Conns, p \in Paths :
        Ready(c) /\ Tells(view[c][p]) => disk[conn[c].id][p] = view[c][p].digest

\* What an upload through get_stream(u, n) finds: the entry of q, if it tells
\* anything, is not of the file written to.
LEMMA UploadSpares ==
    ASSUME Safe, NEW c \in Conns, conn[c].id \in Users, NEW q \in Paths, NEW n \in Names,
           EntrySound(c, q), Tells(view[c][q]),
           q = n => ~IsSynced(view[c][q])
    PROVE  LET u == conn[c].id
               s == GetStream(u, n)
           IN  /\ disk[u][q] = view[c][q].digest
               /\ q = n => disk[u][q] # None
               /\ q # n \/ ~IsFirst(u) => (s.good => s.name # q)
               /\ IsSynced(view[c][q]) => s.name # q
               /\ streams[u] # None /\ streams[u].good => streams[u].name # q
  <1>1. view[c][q] \in {None} \cup Resource
    BY TempName DEF Safe, TypeOK
  <1>2. view[c][q] # None /\ view[c][q].digest \in {TempDigest} \cup Content
    BY <1>1 DEF Tells, Resource
  <1>3. q = n => view[c][q].digest \in Content
    BY <1>2 DEF Tells, IsSynced
  <1> QED BY <1>3, ContentAssumption DEF EntrySound, GetStream, IsFirst

LEMMA CreateSound ==
    ASSUME Safe, NEW c \in Conns, NEW p \in Paths, AnyCreate(c, p),
           SessionSound(c), NEW q \in Paths
    PROVE  EntrySound(c, q)'
  <1> DEFINE u == conn[c].id
             s == GetStream(u, p)
  <1>p. p \in Names /\ q \in Names
    BY TempName
  <1>2. ASSUME CreateRefused(c, p) \/ CreateDirsFailed(c, p) PROVE EntrySound(c, q)'
    <2>1. EntrySound(c, q)
      BY <1>2 DEF CreateRefused, CreateDirsFailed, SessionSound
    <2> QED BY <1>2, <2>1 DEF CreateRefused, CreateDirsFailed, Refuse, EntrySound
  <1>3. ASSUME u \in Users, EntrySound(c, q), Tells(view[c][q]), ~IsSynced(view[c][p])
        PROVE  /\ disk[u][q] = view[c][q].digest
               /\ q = p => disk[u][q] # None
               /\ q # p \/ ~IsFirst(u) => (s.good => s.name # q)
               /\ IsSynced(view[c][q]) => s.name # q
    BY <1>3, <1>p, UploadSpares
  <1>4. ASSUME CreateBadStream(c, p) PROVE EntrySound(c, q)'
    <2>1. /\ u \in Users /\ EntrySound(c, q) /\ ~IsSynced(view[c][p])
          /\ disk' = [disk EXCEPT ![u] = Touched(u, p)]
          /\ streams' = [streams EXCEPT ![u] = s]
          /\ conn' = conn /\ view' = view
      BY <1>4 DEF CreateBadStream, BadStream, Ready, Authed, SessionSound
    <2>2. disk'[u] = Touched(u, p) /\ streams'[u] = s
      BY <2>1 DEF Safe, TypeOK
    <2>3. q # p \/ disk[u][q] # None => Touched(u, p)[q] = disk[u][q]
      BY <2>1, <1>p DEF Touched, Safe, TypeOK
    <2>4. ~s.good
      BY <1>4 DEF CreateBadStream, BadStream
    <2>5. IsSynced(view[c][q]) => Tells(view[c][q])
      BY DEF IsSynced, Tells
    <2> QED BY <2>1, <2>2, <2>3, <2>4, <2>5, <1>3 DEF EntrySound
  <1>5. ASSUME NEW data \in Content, NEW fault \in BOOLEAN,
               CreateChunk(c, p, data, fault)
        PROVE  EntrySound(c, q)'
    <2> DEFINE files == Written(u, p, Kept(data, fault))
               e     == [synced |-> FALSE, digest |-> TempDigest]
    <2>1. /\ u \in Users /\ EntrySound(c, q) /\ ~IsSynced(view[c][p]) /\ s.good
          /\ disk' = [disk EXCEPT ![u] = files]
          /\ streams' = [streams EXCEPT ![u] = [s EXCEPT !.good = ~fault]]
          /\ (~IsFirst(u) /\ view' = view) \/ view' = [view EXCEPT ![c][p] = e]
          /\ conn' = conn
      BY <1>5 DEF CreateChunk, Ready, Authed, SessionSound
    <2>2. (q # p \/ disk[u][q] # None) /\ q # s.name => files[q] = disk[u][q]
      BY <2>1, <1>p, WriteEffect, KeptType DEF Safe
    <2> HIDE DEF files
    <2>3. disk'[u] = files /\ streams'[u].name = s.name
      <3>1. s \in Stream
        BY <2>1, <1>p, GetStreamType DEF Safe
      <3> QED BY <2>1, <3>1 DEF Safe, TypeOK, Stream
    <2>4. Tells(view'[c][q]) => view'[c][q] = view[c][q] /\ (q # p \/ ~IsFirst(u))
      <3>1. CASE ~IsFirst(u) /\ view' = view
        BY <3>1
      <3>2. CASE view' = [view EXCEPT ![c][p] = e]
        <4>1. q # p => view'[c][q] = view[c][q]
          BY <3>2, <1>p DEF Safe, TypeOK
        <4>2. view'[c][p] = e
          BY <3>2, <1>p DEF Safe, TypeOK
        <4> QED BY <4>1, <4>2 DEF Tells
      <3> QED BY <2>1, <3>1, <3>2
    <2>5. IsSynced(view'[c][q]) => Tells(view'[c][q])
      BY DEF IsSynced, Tells
    <2> QED BY <2>1, <2>2, <2>3, <2>4, <2>5, <1>3 DEF EntrySound
  <1>6. ASSUME NEW d \in Content, NEW data \in Content, NEW fault \in BOOLEAN,
               CreateLast(c, p, d, data, fault)
        PROVE  EntrySound(c, q)'
    <2> DEFINE files == Written(u, p, Kept(data, fault))
               e     == [synced |-> TRUE, digest |-> d]
    <2>1. /\ u \in Users /\ EntrySound(c, q) /\ ~IsSynced(view[c][p]) /\ s.good
          /\ streams' = [streams EXCEPT ![u] = None]
          /\ conn' = conn
      BY <1>6 DEF CreateLast, Ready, Authed, SessionSound
    <2>2. \/ /\ files[p] = d
             /\ disk' = [disk EXCEPT ![u] = files]
             /\ view' = [view EXCEPT ![c][p] = e]
          \/ /\ disk' = [disk EXCEPT ![u] = [files EXCEPT ![p] = None]]
             /\ view' = [view EXCEPT ![c][p] = None]
      BY <1>6 DEF CreateLast
    <2>3. /\ q # p /\ q # s.name => files[q] = disk[u][q]
          /\ files \in [Names -> {None} \cup Content]
      BY <2>1, <1>p, WriteEffect, KeptType DEF Safe
    <2> HIDE DEF files, e
    <2>4. streams'[u] = None
      BY <2>1 DEF Safe, TypeOK
    <2>5. ASSUME files[p] = d, disk' = [disk EXCEPT ![u] = files],
                 view' = [view EXCEPT ![c][p] = e]
          PROVE  EntrySound(c, q)'
      <3>1. /\ disk'[u] = files /\ view'[c][p] = e
            /\ q # p => view'[c][q] = view[c][q]
        <4>1. disk'[u] = files
          BY <2>1, <2>5 DEF Safe, TypeOK
        <4>2. view'[c][p] = e
          BY <2>5, <1>p DEF Safe, TypeOK
        <4>3. q # p => view'[c][q] = view[c][q]
          BY <2>5, <1>p DEF Safe, TypeOK
        <4> QED BY <4>1, <4>2, <4>3
      <3>2. CASE q = p
        BY <2>1, <2>4, <2>5, <3>1, <3>2 DEF EntrySound, e
      <3>3. CASE q # p
        BY <2>1, <2>3, <2>4, <3>1, <3>3, <1>3 DEF EntrySound
      <3> QED BY <3>2, <3>3
    <2>6. ASSUME disk' = [disk EXCEPT ![u] = [files EXCEPT ![p] = None]],
                 view' = [view EXCEPT ![c][p] = None]
          PROVE  EntrySound(c, q)'
      <3>1. /\ disk'[u] = [files EXCEPT ![p] = None] /\ view'[c][p] = None
            /\ q # p => view'[c][q] = view[c][q]
        <4>1. disk'[u] = [files EXCEPT ![p] = None]
          BY <2>1, <2>6 DEF Safe, TypeOK
        <4>2. view'[c][p] = None
          BY <2>6, <1>p DEF Safe, TypeOK
        <4>3. q # p => view'[c][q] = view[c][q]
          BY <2>6, <1>p DEF Safe, TypeOK
        <4> QED BY <4>1, <4>2, <4>3
      <3>2. CASE q = p
        BY <3>1, <3>2 DEF EntrySound, IsSynced, Tells
      <3>3. CASE q # p
        <4>1. disk'[u][q] = files[q]
          BY <2>3, <3>1, <3>3, <1>p
        <4> QED BY <2>1, <2>3, <2>4, <3>1, <3>3, <4>1, <1>3 DEF EntrySound
      <3> QED BY <3>2, <3>3
    <2> QED BY <2>2, <2>5, <2>6
  <1> QED BY <1>2, <1>4, <1>5, <1>6 DEF AnyCreate

LEMMA UpdateSound ==
    ASSUME Safe, TempsApart, NEW c \in Conns, NEW p \in Paths, AnyUpdate(c, p),
           ~Ended, SessionSound(c), NEW q \in Paths
    PROVE  EntrySound(c, q)'
  <1> DEFINE u == conn[c].id
             n == Temp[p]
             s == GetStream(u, n)
  <1>p. p \in Names /\ n \in Names /\ q \in Names /\ n # q /\ n # p
    BY TempName DEF TempsApart
  <1>1. ASSUME UpdateNotExist(c, p) \/ (\E d \in Content : AlreadyUpdated(c, p, d))
        PROVE  EntrySound(c, q)'
    <2>1. EntrySound(c, q)
      BY <1>1 DEF UpdateNotExist, AlreadyUpdated, SessionSound
    <2> QED BY <1>1, <2>1 DEF UpdateNotExist, AlreadyUpdated, Refuse, EntrySound
  <1>2. ASSUME u \in Users, EntrySound(c, q), Tells(view[c][q])
        PROVE  /\ disk[u][q] = view[c][q].digest
               /\ s.good => s.name # q
               /\ IsSynced(view[c][q]) => s.name # q
    BY <1>2, <1>p, UploadSpares
  <1>s. \A e : IsSynced(e) => Tells(e)
    BY DEF IsSynced, Tells
  <1>3. ASSUME NEW d \in Content, UpdateBadStream(c, p, d) PROVE EntrySound(c, q)'
    <2>1. /\ u \in Users /\ EntrySound(c, q)
          /\ disk' = [disk EXCEPT ![u] = Touched(u, n)]
          /\ streams' = [streams EXCEPT ![u] = s]
          /\ conn' = conn /\ view' = view
      BY <1>3 DEF UpdateBadStream, Updating, BadStream, Ready, Authed, SessionSound
    <2>2. disk'[u] = Touched(u, n) /\ streams'[u] = s
      BY <2>1 DEF Safe, TypeOK
    <2>3. Touched(u, n)[q] = disk[u][q]
      BY <2>1, <1>p DEF Touched, Safe, TypeOK
    <2> QED BY <2>1, <2>2, <2>3, <1>2, <1>s DEF EntrySound
  <1>4. ASSUME NEW d \in Content, NEW data \in Content, NEW fault \in BOOLEAN,
               UpdateChunk(c, p, d, data, fault)
        PROVE  EntrySound(c, q)'
    <2> DEFINE files == Written(u, n, Kept(data, fault))
               e     == [view[c][p] EXCEPT !.synced = FALSE]
    <2>1. /\ u \in Users /\ EntrySound(c, q) /\ s.good /\ view[c][p] # None
          /\ disk' = [disk EXCEPT ![u] = files]
          /\ streams' = [streams EXCEPT ![u] = s]
          /\ view' = view \/ view' = [view EXCEPT ![c][p] = e]
          /\ conn' = conn
      BY <1>4 DEF UpdateChunk, Updating, Ready, Authed, SessionSound
    <2>2. q # s.name => files[q] = disk[u][q]
      BY <2>1, <1>p, WriteEffect, KeptType DEF Safe
    <2>3. e.synced = FALSE /\ e.digest = view[c][p].digest
      <3>1. view[c] \in [Names -> {None} \cup Resource]
        BY DEF Safe, TypeOK
      <3> QED BY <2>1, <1>p, <3>1 DEF Resource
    <2> HIDE DEF files, e
    <2>4. disk'[u] = files /\ streams'[u] = s
      BY <2>1 DEF Safe, TypeOK
    <2>5. Tells(view'[c][q]) =>
            /\ Tells(view[c][q])
            /\ view'[c][q].digest = view[c][q].digest
            /\ IsSynced(view'[c][q]) => IsSynced(view[c][q])
      <3>1. CASE view' = view
        BY <3>1
      <3>2. CASE view' = [view EXCEPT ![c][p] = e]
        <4>1. q # p => view'[c][q] = view[c][q]
          BY <3>2, <1>p DEF Safe, TypeOK
        <4>2. view'[c][p] = e
          BY <3>2, <1>p DEF Safe, TypeOK
        <4> QED BY <4>1, <4>2, <2>1, <2>3 DEF IsSynced, Tells
      <3> QED BY <2>1, <3>1, <3>2
    <2> QED BY <2>1, <2>2, <2>4, <2>5, <1>2, <1>s DEF EntrySound
  <1>5. ASSUME NEW d \in Content, NEW data \in Content, NEW fault \in BOOLEAN,
               UpdateLast(c, p, d, data, fault)
        PROVE  EntrySound(c, q)'
    <2> DEFINE files == Written(u, n, Kept(data, fault))
               moved == [files EXCEPT ![p] = files[n], ![n] = None]
               gone  == [files EXCEPT ![p] = None, ![n] = None]
               e     == [synced |-> TRUE, digest |-> d]
    <2>1. /\ u \in Users /\ EntrySound(c, q) /\ s.good
          /\ streams' = [streams EXCEPT ![u] = None]
          /\ conn' = conn
      BY <1>5 DEF UpdateLast, Updating, Ready, Authed, SessionSound
    <2>2. \/ /\ files[n] = d
             /\ disk' = [disk EXCEPT ![u] = moved]
             /\ view' = [view EXCEPT ![c][p] = e]
          \/ /\ disk' = [disk EXCEPT ![u] = gone]
             /\ view' = [view EXCEPT ![c][p] = None]
      BY <1>5 DEF UpdateLast
    <2>3. /\ q # s.name => files[q] = disk[u][q]
          /\ files \in [Names -> {None} \cup Content]
      BY <2>1, <1>p, WriteEffect, KeptType DEF Safe
    <2> HIDE DEF files
    <2>4. streams'[u] = None
      BY <2>1 DEF Safe, TypeOK
    <2>5. /\ moved[p] = files[n]
          /\ q # p => moved[q] = files[q] /\ gone[q] = files[q]
      BY <2>3, <1>p
    <2> HIDE DEF moved, gone, e
    <2>6. ASSUME files[n] = d, disk' = [disk EXCEPT ![u] = moved],
                 view' = [view EXCEPT ![c][p] = e]
          PROVE  EntrySound(c, q)'
      <3>1. disk'[u] = moved
        BY <2>1, <2>6 DEF Safe, TypeOK
      <3>2. view'[c][p] = e
        BY <2>6, <1>p DEF Safe, TypeOK
      <3>3. q # p => view'[c][q] = view[c][q]
        BY <2>6, <1>p DEF Safe, TypeOK
      <3>4. CASE q = p
        BY <2>1, <2>4, <2>5, <2>6, <3>1, <3>2, <3>4 DEF EntrySound, e
      <3>5. CASE q # p
        BY <2>1, <2>3, <2>4, <2>5, <3>1, <3>3, <3>5, <1>2, <1>s DEF EntrySound
      <3> QED BY <3>4, <3>5
    <2>7. ASSUME disk' = [disk EXCEPT ![u] = gone], view' = [view EXCEPT ![c][p] = None]
          PROVE  EntrySound(c, q)'
      <3>1. disk'[u] = gone
        BY <2>1, <2>7 DEF Safe, TypeOK
      <3>2. view'[c][p] = None
        BY <2>7, <1>p DEF Safe, TypeOK
      <3>3. q # p => view'[c][q] = view[c][q]
        BY <2>7, <1>p DEF Safe, TypeOK
      <3>4. CASE q = p
        BY <3>2, <3>4 DEF EntrySound, IsSynced, Tells
      <3>5. CASE q # p
        BY <2>1, <2>3, <2>4, <2>5, <3>1, <3>3, <3>5, <1>2, <1>s DEF EntrySound
      <3> QED BY <3>4, <3>5
    <2> QED BY <2>2, <2>6, <2>7
  <1>6. ASSUME NEW d \in Content, NEW data \in Content, UpdateInterrupted(c, p, d, data)
        PROVE  FALSE
    BY <1>6 DEF UpdateInterrupted
  <1> QED BY <1>1, <1>3, <1>4, <1>5, <1>6 DEF AnyUpdate

LEMMA EraseSound ==
    ASSUME Safe, NEW c \in Conns, NEW n \in Names, AnyErase(c, n) \/ Retrieve(c, n),
           SessionSound(c), NEW q \in Paths
    PROVE  EntrySound(c, q)'
  <1> DEFINE u == conn[c].id
  <1>p. q \in Names
    BY TempName
  <1>1. u \in Users /\ EntrySound(c, q)
    BY DEF AnyErase, EraseRefused, EraseFailed, Erase, Retrieve, Ready, Authed,
           SessionSound
  <1>2. ASSUME NEW d \in Content, EraseRefused(c, n, d) \/ EraseFailed(c, n, d)
        PROVE  EntrySound(c, q)'
    BY <1>1, <1>2 DEF EraseRefused, EraseFailed, Refuse, EntrySound
  <1>3. ASSUME Retrieve(c, n) PROVE EntrySound(c, q)'
    BY <1>1, <1>3 DEF Retrieve, Refuse, EntrySound
  <1>4. ASSUME NEW d \in Content, Erase(c, n, d) PROVE EntrySound(c, q)'
    <2>1. /\ disk' = [disk EXCEPT ![u][n] = None]
          /\ view' = [view EXCEPT ![c][n] = None]
          /\ conn' = conn
      BY <1>4 DEF Erase
    <2>2. view'[c][n] = None
      BY <2>1 DEF Safe, TypeOK
    <2>3. q # n => view'[c][q] = view[c][q]
      BY <2>1, <1>p DEF Safe, TypeOK
    <2>4. q # n => disk'[u][q] = disk[u][q]
      BY <2>1, <1>1, <1>p DEF Safe, TypeOK
    <2>5. \/ streams'[u] = streams[u]
          \/ /\ ~IsFirst(u)
             /\ streams'[u].name = streams[u].name /\ streams'[u].good = streams[u].good
      <3>1. CASE ~IsFirst(u) /\ streams[u].name = n
        <4>1. streams' = [streams EXCEPT ![u].linked = FALSE]
          BY <1>4, <3>1 DEF Erase
        <4>2. streams[u] \in Stream
          BY <1>1, <3>1 DEF IsFirst, Safe, TypeOK
        <4> QED BY <1>1, <3>1, <4>1, <4>2 DEF Safe, TypeOK, Stream
      <3>2. CASE IsFirst(u) \/ streams[u].name # n
        BY <1>4, <3>2 DEF Erase
      <3> QED BY <3>1, <3>2
    <2>6. CASE q = n
      BY <2>2, <2>6 DEF EntrySound, IsSynced, Tells
    <2>7. CASE q # n
      BY <1>1, <2>1, <2>3, <2>4, <2>5, <2>7 DEF EntrySound, IsFirst
    <2> QED BY <2>6, <2>7
  <1> QED BY <1>2, <1>3, <1>4 DEF AnyErase

LEMMA ServeSound ==
    ASSUME Safe, TempsApart, Sound, NEW c \in Conns, AnyRequest(c), ~Ended
    PROVE  Sound'
  <1>1. /\ Ready(c)
        /\ conn' = conn
        /\ \A u \in Users : u # conn[c].id =>
             disk'[u] = disk[u] /\ streams'[u] = streams[u]
        /\ \A e \in Conns : e # c => view'[e] = view[e]
    BY ServeFrame DEF Safe
  <1>2. Exclusive'
    BY <1>1 DEF Sound, Exclusive
  <1>3. SessionSound(c)'
    BY CreateSound, UpdateSound, EraseSound DEF AnyRequest, Sound, SessionSound
  <1>4. ASSUME NEW e \in Conns, e # c PROVE SessionSound(e)'
    <2>1. Ready(e)' => Ready(e) /\ conn[e].id \in Users /\ conn[e].id # conn[c].id
      BY <1>1, <1>4 DEF Ready, Authed, Sound, Exclusive
    <2> QED BY <1>1, <1>4, <2>1 DEF Sound, SessionSound, EntrySound
  <1> QED BY <1>2, <1>3, <1>4 DEF Sound

\* A step that leaves disk and streams, and every session but c, as they are.
LEMMA OthersSound ==
    ASSUME Sound, NEW c \in Conns, UNCHANGED disk,
           \A u \in Users : streams'[u] = streams[u] \/ streams'[u] = None,
           \A e \in Conns : e # c => conn'[e] = conn[e] /\ view'[e] = view[e]
    PROVE  \A e \in Conns : e # c => SessionSound(e)'
  BY DEF Sound, SessionSound, EntrySound, Ready, Authed

LEMMA SessionStepSound ==
    ASSUME Safe, NoStreamLeak, OneSession, Sound, NEW c \in Conns, SessionStep(c)
    PROVE  Sound'
  <1>1. ASSUME Accept(c) \/ Shutdown(c) PROVE Sound'
    <2>1. /\ disk' = disk
          /\ \A u \in Users : streams'[u] = streams[u] \/ streams'[u] = None
          /\ \A e \in Conns : e # c => conn'[e] = conn[e] /\ view'[e] = view[e]
          /\ conn'[c].id = NoUser
      BY <1>1 DEF Accept, Shutdown, Closed, Safe, TypeOK
    <2>2. \A e \in Conns : e # c => SessionSound(e)'
      BY <2>1, OthersSound
    <2>3. SessionSound(c)'
      BY <2>1, SessionAssumption DEF SessionSound, Ready, Authed
    <2>4. Exclusive'
      BY <2>1, SessionAssumption DEF Sound, Exclusive
    <2> QED BY <2>2, <2>3, <2>4 DEF Sound
  <1>2. ASSUME NEW u \in Users, Auth(c, u) PROVE Sound'
    <2>1. /\ disk' = disk /\ streams' = streams
          /\ \A e \in Conns : e # c => conn'[e] = conn[e] /\ view'[e] = view[e]
          /\ view'[c] = EmptyView
          /\ conn'[c].id = u
          /\ \A e \in Conns : conn[e].id # u
      BY <1>2 DEF Auth, OneSession, Safe, TypeOK, Session
    <2>2. \A e \in Conns : e # c => SessionSound(e)'
      BY <2>1, OthersSound
    <2>3. SessionSound(c)'
      BY <2>1, TempName DEF SessionSound, EntrySound, IsSynced, Tells, EmptyView
    <2>4. Exclusive'
      BY <2>1 DEF Sound, Exclusive
    <2> QED BY <2>2, <2>3, <2>4 DEF Sound
  <1>3. ASSUME List(c) PROVE Sound'
    <2> DEFINE u == conn[c].id
    <2>1. /\ disk' = disk /\ streams' = streams
          /\ \A e \in Conns : e # c => conn'[e] = conn[e] /\ view'[e] = view[e]
          /\ view'[c] = Listed(u)
          /\ conn'[c].id = u /\ u \in Users /\ ~conn[c].synced
      BY <1>3 DEF List, Authed, Safe, TypeOK, Session
    <2>2. \A e \in Conns : e # c => SessionSound(e)'
      BY <2>1, OthersSound
    <2>3. streams[u] = None
      BY <2>1 DEF NoStreamLeak, Ready, Sound, Exclusive
    <2>4. SessionSound(c)'
      BY <2>1, <2>3, TempName DEF SessionSound, EntrySound, IsSynced, Tells, Listed
    <2>5. Exclusive'
      BY <2>1 DEF Sound, Exclusive
    <2> QED BY <2>2, <2>4, <2>5 DEF Sound
  <1>4. ASSUME ListFailed(c) PROVE Sound'
    <2>1. /\ disk' = disk /\ streams' = streams /\ conn' = conn
          /\ \A e \in Conns : e # c => view'[e] = view[e]
          /\ view'[c] = EmptyView
      BY <1>4 DEF ListFailed, Safe, TypeOK
    <2>2. \A e \in Conns : e # c => SessionSound(e)'
      BY <2>1, OthersSound
    <2>3. SessionSound(c)'
      BY <2>1, TempName DEF SessionSound, EntrySound, IsSynced, Tells, EmptyView
    <2> QED BY <2>1, <2>2, <2>3 DEF Sound, Exclusive
  <1>5. ASSUME AuthFailed(c) \/ Rejected(c) \/ KeepAlive(c) PROVE Sound'
    BY <1>5 DEF AuthFailed, Rejected, KeepAlive, Refuse, Sound, Exclusive, SessionSound,
                EntrySound, Ready, Authed
  <1> QED BY <1>1, <1>2, <1>3, <1>4, <1>5 DEF SessionStep

LEMMA StepSound ==
    ASSUME OneSession, TempsApart
    PROVE  Safe /\ NoStreamLeak /\ Sound /\ [AnyStep]_vars => Sound'
  <1> SUFFICES ASSUME Safe, NoStreamLeak, Sound, [AnyStep]_vars PROVE Sound'
    OBVIOUS
  <1>1. CASE UNCHANGED vars
    BY <1>1 DEF vars, Sound, Exclusive, SessionSound, EntrySound, Ready, Authed
  <1>2. CASE Ended
    BY <1>2, SessionAssumption DEF Ended, Closed, Sound, Exclusive, SessionSound, Ready,
                                   Authed
  <1>3. ASSUME NEW c \in Conns, SessionStep(c) PROVE Sound'
    BY <1>3, SessionStepSound
  <1>4. ASSUME NEW c \in Conns, AnyRequest(c), ~Ended PROVE Sound'
    BY <1>4, ServeSound
  <1> QED BY <1>1, <1>2, <1>3, <1>4 DEF Crash, AnyStep

LEMMA InitSound == Init => Sound
  BY SessionAssumption DEF Init, Closed, Sound, Exclusive, SessionSound, Ready, Authed

LEMMA SoundAlways ==
    ASSUME OneSession, TempsApart
    PROVE  Spec => []Sound
  <1>1. Safe /\ NoStreamLeak /\ Sound /\ [Next]_vars => Sound'
    BY StepSound, NextIsAnyStep
  <1> QED BY <1>1, InitSound, SafeAlways, StreamsDoNotLeak, PTL DEF Spec

\* With one session per user at a time, and no client path that is another's
\* temp name, what the view calls synced is what the disk holds: a CREATE
\* refused with ALREADY_EXIST concerns a file that is there, with the digest the
\* server reported or accepted.
THEOREM ViewIsSound ==
    ASSUME OneSession, TempsApart
    PROVE  Spec => []ViewSound
  BY SoundAlways, SoundImplies, TypeCorrect, PTL

\* Under the same conditions a file being written to is vouched for by no
\* session.
THEOREM WritesAreUnsynced ==
    ASSUME OneSession, TempsApart
    PROVE  Spec => []NotSyncedWhileWritten
  BY SoundAlways, SoundImplies, TypeCorrect, PTL

\* And a request answered ALREADY_UPDATED concerns a file that has the digest
\* asked for, whatever uploads were begun and abandoned before.
THEOREM DigestsAreTrue ==
    ASSUME OneSession, TempsApart
    PROVE  Spec => []DigestTrue
  <1>1. Sound => DigestTrue
    BY DEF Sound, SessionSound, EntrySound, DigestTrue
  <1> QED BY <1>1, SoundAlways, PTL
=============================================================================
