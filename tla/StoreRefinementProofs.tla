----------------------- MODULE StoreRefinementProofs -----------------------
(***************************************************************************)
(* RequestHandler implements BackupStore, for every set of connections,    *)
(* users, names, contents and digests, under the assumptions of            *)
(* ViewIsSound.  The invariant Sound does the work: what a session vouches *)
(* for is not the file of the open stream, which is the only file a        *)
(* request can change without being sent for it.                           *)
(***************************************************************************)
EXTENDS StoreRefinement, RequestHandlerProofs

(***************************************************************************)
(* What a write does to files that are not vouched for: they grow.         *)
(***************************************************************************)

LEMMA AppendGrows ==
    ASSUME NEW old \in Content, NEW data \in Content
    PROVE  Store!Grown(old, old \o data)
  <1>1. old \o data \in Content /\ Len(old) <= Len(old \o data)
    BY DEF Content
  <1>2. SubSeq(old, 1, Len(old)) = SubSeq(old \o data, 1, Len(old))
    <2>1. Len(old) \in Nat /\ (Len(old) = 0 => old = <<>>)
      BY DEF Content
    <2>2. CASE Len(old) = 0
      BY <2>2, SubSeqEmpty
    <2>3. CASE Len(old) # 0
      <3>1. 1 \in 1..Len(old) /\ Len(old) \in 1..Len(old)
        BY <2>1, <2>3
      <3> QED BY <3>1, SubSeqOfConcat1 DEF Content
    <2> QED BY <2>2, <2>3
  <1> QED BY <1>1, <1>2, ContentAssumption DEF Store!Grown, Store!IsPrefix

LEMMA TouchGrows ==
    ASSUME TypeOK, NEW u \in Users, NEW n \in Names, NEW m \in Names
    PROVE  Store!Grown(disk[u][m], Touched(u, n)[m])
  <1>1. disk[u] \in [Names -> {None} \cup Content] /\ <<>> \in Content
    BY DEF TypeOK, Content
  <1> QED BY <1>1 DEF Touched, Store!Grown

LEMMA WriteGrows ==
    ASSUME Safe, NEW u \in Users, NEW n \in Names, NEW m \in Names,
           NEW data \in Content, GetStream(u, n).good
    PROVE  Store!Grown(disk[u][m], Written(u, n, data)[m])
  <1> DEFINE s == GetStream(u, n)
             f == Touched(u, n)
  <1>1. s \in Stream
    BY GetStreamType DEF Safe
  <1>2. /\ f \in [Names -> {None} \cup Content]
        /\ Store!Grown(disk[u][m], f[m])
        /\ disk[u][m] # None => f[m] = disk[u][m]
        /\ disk[u][m] \in {None} \cup Content
    <2>1. disk[u] \in [Names -> {None} \cup Content] /\ <<>> \in Content
      BY DEF Safe, TypeOK, Content
    <2> QED BY <2>1, TouchGrows DEF Safe, Touched
  <1>3. CASE s.linked /\ m = s.name
    <2>1. Written(u, n, data)[m] = f[m] \o data
      BY <1>1, <1>2, <1>3 DEF Written, Stream
    <2>2. Written(u, n, data)[m] \in Content
      BY <1>3, <1>1, WriteEffect DEF Safe, Stream
    <2>3. CASE disk[u][m] = None
      BY <2>2, <2>3 DEF Store!Grown
    <2>4. CASE disk[u][m] # None
      BY <2>1, <2>4, <1>2, AppendGrows
    <2> QED BY <2>3, <2>4
  <1>4. CASE ~(s.linked /\ m = s.name)
    <2>1. Written(u, n, data)[m] = f[m]
      BY <1>1, <1>2, <1>4 DEF Written, Stream
    <2> QED BY <2>1, <1>2
  <1> QED BY <1>3, <1>4

\* A write made for one name leaves another path of the session as it is, or
\* the session does not vouch for that path and it grows: what the open stream
\* is on is not vouched for.
LEMMA Behind ==
    ASSUME Safe, NEW c \in Conns, Ready(c), SessionSound(c),
           NEW n \in Names, NEW data \in Content, GetStream(conn[c].id, n).good,
           NEW q \in Paths, q # n
    PROVE  \/ Written(conn[c].id, n, data)[q] = disk[conn[c].id][q]
           \/ /\ Vouched(c, q) = None
              /\ Store!Grown(disk[conn[c].id][q], Written(conn[c].id, n, data)[q])
  <1> DEFINE u == conn[c].id
  <1>1. u \in Users /\ q \in Names /\ EntrySound(c, q)
    BY TempName DEF Ready, Authed, SessionSound
  <1>2. CASE IsSynced(view[c][q])
    <2>1. q # GetStream(u, n).name
      BY <1>1, <1>2 DEF EntrySound, Tells, IsSynced, GetStream, IsFirst
    <2> QED BY <1>1, <2>1, WriteEffect DEF Safe
  <1>3. CASE ~IsSynced(view[c][q])
    BY <1>1, <1>3, WriteGrows DEF Vouched
  <1> QED BY <1>2, <1>3

(***************************************************************************)
(* How the abstract variables follow the detailed ones.                    *)
(***************************************************************************)

LEMMA StoredMaps ==
    ASSUME UNCHANGED disk
    PROVE  Stored' = Stored
  BY DEF Stored

\* A step of the session of c alone.
LEMMA SessionMaps ==
    ASSUME NEW c \in Conns,
           \A e \in Conns : e # c => conn'[e] = conn[e] /\ view'[e] = view[e]
    PROVE  /\ Who' = [Who EXCEPT ![c] = Who'[c]]
           /\ Promise' = [Promise EXCEPT ![c] = Promise'[c]]
  <1>1. \A e \in Conns : e # c => Who'[e] = Who[e]
    BY DEF Who, Ready, Authed
  <1>2. \A e \in Conns : e # c => Promise'[e] = Promise[e]
    BY DEF Promise, Vouched, Ready, Authed
  <1>3. /\ Who = [e \in Conns |-> Who[e]] /\ Who' = [e \in Conns |-> Who'[e]]
        /\ Promise = [e \in Conns |-> Promise[e]]
        /\ Promise' = [e \in Conns |-> Promise'[e]]
    BY DEF Who, Promise
  <1> HIDE DEF Who, Promise
  <1> QED BY <1>1, <1>2, <1>3

\* One entry of the view changes, and no session.
LEMMA EntryMaps ==
    ASSUME TypeOK, NEW c \in Conns, Ready(c), conn' = conn,
           NEW n \in Names, NEW e \in {None} \cup Resource,
           view' = [view EXCEPT ![c][n] = e]
    PROVE  /\ Who' = Who
           /\ n \in Paths => Promise' = [Promise EXCEPT ![c][n] =
                IF IsSynced(e) THEN e.digest ELSE None]
           /\ n \notin Paths => Promise' = Promise
  <1>1. \A d \in Conns : Ready(d)' <=> Ready(d)
    BY DEF Ready, Authed
  <1>2. Who' = Who
    BY <1>1 DEF Who
  <1>3. /\ view'[c][n] = e
        /\ \A d \in Conns, q \in Names : <<d, q>> # <<c, n>> =>
             view'[d][q] = view[d][q]
    BY DEF TypeOK
  <1>4. /\ n \in Paths => Promise'[c][n] = IF IsSynced(e) THEN e.digest ELSE None
        /\ \A d \in Conns, q \in Paths : <<d, q>> # <<c, n>> =>
             Promise'[d][q] = Promise[d][q]
    BY <1>1, <1>3, TempName DEF Promise, Vouched
  <1>5. /\ Promise = [d \in Conns |-> [q \in Paths |-> Promise[d][q]]]
        /\ Promise' = [d \in Conns |-> [q \in Paths |-> Promise'[d][q]]]
    BY DEF Promise
  <1> DEFINE v == IF IsSynced(e) THEN e.digest ELSE None
  <1> HIDE DEF Promise, v
  <1>6. ASSUME n \in Paths PROVE Promise' = [Promise EXCEPT ![c][n] = v]
    BY <1>4, <1>5, <1>6 DEF v
  <1>7. ASSUME n \notin Paths PROVE Promise' = Promise
    BY <1>4, <1>5, <1>7
  <1> QED BY <1>2, <1>6, <1>7 DEF v

\* Neither sessions nor views change.
LEMMA QuietMaps ==
    ASSUME UNCHANGED <<conn, view>>
    PROVE  /\ Who' = Who /\ Promise' = Promise
           /\ \A c \in Conns, p \in Paths : Vouched(c, p) = None =>
                Promise = [Promise EXCEPT ![c][p] = None]
  <1>1. Who' = Who /\ Promise' = Promise
    BY DEF Who, Promise, Vouched, Ready, Authed
  <1>2. ASSUME NEW c \in Conns, NEW p \in Paths, Vouched(c, p) = None
        PROVE  Promise = [Promise EXCEPT ![c][p] = None]
    BY <1>2 DEF Promise
  <1> QED BY <1>1, <1>2

\* A request made for name n leaves the other paths as they are, or lets those
\* grow that its session does not vouch for.
Spares(c, n, files) ==
    \A q \in Paths : q # n =>
      \/ files[q] = disk[conn[c].id][q]
      \/ Vouched(c, q) = None /\ Store!Grown(disk[conn[c].id][q], files[q])

\* What a request about path p does to the files of its user, as the abstract
\* store sees it.
LEMMA FilesMap ==
    ASSUME TypeOK, NEW c \in Conns, Ready(c), NEW p \in Names, NEW files,
           disk' = [disk EXCEPT ![conn[c].id] = files],
           Spares(c, p, files)
    PROVE  /\ Store!Elsewhere(c, p)
           /\ Who[c] = conn[c].id /\ Who[c] # NoUser
           /\ p \in Paths => /\ Stored[Who[c]][p] = disk[conn[c].id][p]
                             /\ Stored'[Who[c]][p] = files[p]
                             /\ Promise[c][p] = Vouched(c, p)
  <1>1. /\ conn[c].id \in Users
        /\ Who[c] = conn[c].id /\ Who[c] # NoUser
    BY SessionAssumption DEF Who, Ready, Authed
  <1>2. \A v \in Users, q \in Paths :
          /\ Stored[v][q] = disk[v][q]
          /\ Stored'[v][q] = IF v = conn[c].id THEN files[q] ELSE disk[v][q]
    BY DEF Stored, TypeOK
  <1>3. \A q \in Paths : Promise[c][q] = Vouched(c, q)
    BY DEF Promise
  <1>4. Store!Elsewhere(c, p)
    BY <1>1, <1>2, <1>3 DEF Spares, Store!Elsewhere, Store!Grown
  <1> QED BY <1>1, <1>2, <1>3, <1>4

(***************************************************************************)
(* Every step of the server is one of the store, or changes nothing the    *)
(* store knows of.                                                         *)
(***************************************************************************)

StoreStep == [Store!Next]_Store!vars

LEMMA RefuseMaps ==
    ASSUME NEW c, NEW r, Refuse(c, r)
    PROVE  StoreStep
  BY StoredMaps, QuietMaps DEF Refuse, StoreStep, Store!vars

\* A request that stores a part of an upload of p, which nobody vouches for
\* afterwards.
LEMMA UploadMaps ==
    ASSUME TypeOK, NEW c \in Conns, Ready(c), NEW p \in Paths, NEW files,
           disk' = [disk EXCEPT ![conn[c].id] = files],
           Spares(c, p, files),
           IF Vouched(c, p) = None THEN Store!Grown(disk[conn[c].id][p], files[p])
                                   ELSE files[p] = disk[conn[c].id][p],
           Who' = Who, Promise' = [Promise EXCEPT ![c][p] = None]
    PROVE  StoreStep
  <1>1. /\ Store!Elsewhere(c, p) /\ Who[c] # NoUser
        /\ Stored[Who[c]][p] = disk[conn[c].id][p]
        /\ Stored'[Who[c]][p] = files[p]
        /\ Promise[c][p] = Vouched(c, p)
    BY FilesMap, TempName
  <1>2. Store!Upload(c, p)
    BY <1>1 DEF Store!Upload, Store!Promises
  <1> QED BY <1>2 DEF StoreStep, Store!Next

\* A request that leaves p right, with the digest the client sent.
LEMMA CommitMaps ==
    ASSUME TypeOK, NEW c \in Conns, Ready(c), conn' = conn, NEW p \in Paths, NEW files,
           NEW d \in Content, files[p] = d,
           disk' = [disk EXCEPT ![conn[c].id] = files],
           view' = [view EXCEPT ![c][p] = [synced |-> TRUE, digest |-> d]],
           Spares(c, p, files)
    PROVE  StoreStep
  <1> DEFINE e == [synced |-> TRUE, digest |-> d]
  <1>1. e \in Resource /\ IsSynced(e) /\ e.digest = d /\ d \in Content
    <2>1. d \in Content
      BY ContentAssumption
    <2>2. e \in Resource /\ e.synced /\ e.digest = d
      BY <2>1 DEF Resource
    <2> QED BY <2>1, <2>2, EntryAssumption DEF IsSynced
  <1>2. Who' = Who /\ Promise' = [Promise EXCEPT ![c][p] = d]
    <2> HIDE DEF e
    <2>1. view' = [view EXCEPT ![c][p] = e]
      BY DEF e
    <2>2. /\ Who' = Who
          /\ Promise' = [Promise EXCEPT ![c][p] =
                           IF IsSynced(e) THEN e.digest ELSE None]
      BY <1>1, <2>1, EntryMaps, TempName
    <2>3. (IF IsSynced(e) THEN e.digest ELSE None) = d
      BY <1>1
    <2> QED BY <2>2, <2>3
  <1>3. /\ Store!Elsewhere(c, p) /\ Who[c] # NoUser
        /\ Stored'[Who[c]][p] = files[p]
    BY FilesMap, TempName
  <1>4. Store!Commit(c, p)
    BY <1>1, <1>2, <1>3 DEF Store!Commit, Store!Promises
  <1> QED BY <1>4 DEF StoreStep, Store!Next

\* A request that removes p.
LEMMA DeleteMaps ==
    ASSUME TypeOK, NEW c \in Conns, Ready(c), conn' = conn, NEW p \in Paths, NEW files,
           files[p] = None,
           disk' = [disk EXCEPT ![conn[c].id] = files],
           view' = [view EXCEPT ![c][p] = None],
           Spares(c, p, files)
    PROVE  StoreStep
  <1>1. Who' = Who /\ Promise' = [Promise EXCEPT ![c][p] = None]
    BY EntryMaps, TempName DEF IsSynced
  <1>2. /\ Store!Elsewhere(c, p) /\ Who[c] # NoUser
        /\ Stored'[Who[c]][p] = files[p]
    BY FilesMap, TempName
  <1>3. Store!Delete(c, p)
    BY <1>1, <1>2 DEF Store!Delete, Store!Promises
  <1> QED BY <1>3 DEF StoreStep, Store!Next

\* CREATE: a chunk of an upload, or its end.
LEMMA CreateMaps ==
    ASSUME Safe, NEW c \in Conns, SessionSound(c), NEW p \in Paths, AnyCreate(c, p)
    PROVE  StoreStep
  <1> DEFINE u == conn[c].id
  <1>p. p \in Names
    BY TempName
  <1>1. ASSUME CreateRefused(c, p) \/ CreateDirsFailed(c, p) PROVE StoreStep
    BY <1>1, RefuseMaps DEF CreateRefused, CreateDirsFailed
  <1>2. ASSUME CreateBadStream(c, p) PROVE StoreStep
    <2>1. /\ Ready(c) /\ Vouched(c, p) = None
          /\ disk' = [disk EXCEPT ![u] = Touched(u, p)]
          /\ UNCHANGED <<conn, view>>
      BY <1>2 DEF CreateBadStream, BadStream, Vouched
    <2>2. Spares(c, p, Touched(u, p))
      BY <1>p, <2>1, TempName DEF Spares, Touched, Safe, TypeOK, Ready, Authed
    <2>4. Store!Grown(disk[u][p], Touched(u, p)[p])
      BY <1>p, <2>1, TouchGrows DEF Safe, Ready, Authed
    <2>3. Who' = Who /\ Promise' = [Promise EXCEPT ![c][p] = None]
      BY <2>1, QuietMaps
    <2> QED BY <2>1, <2>2, <2>3, <2>4, UploadMaps DEF Safe
  <1>3. ASSUME NEW data \in Content, NEW fault \in BOOLEAN,
               CreateChunk(c, p, data, fault)
        PROVE  StoreStep
    <2> DEFINE files == Written(u, p, Kept(data, fault))
               e     == [synced |-> FALSE, digest |-> TempDigest]
    <2>1. /\ Ready(c) /\ Vouched(c, p) = None /\ GetStream(u, p).good
          /\ disk' = [disk EXCEPT ![u] = files]
          /\ view' = view \/ view' = [view EXCEPT ![c][p] = e]
          /\ conn' = conn
      BY <1>3 DEF CreateChunk, Vouched
    <2>2. Spares(c, p, files)
      BY <1>p, <2>1, Behind, KeptType DEF Spares
    <2>4. Store!Grown(disk[u][p], files[p])
      BY <1>p, <2>1, WriteGrows, KeptType DEF Ready, Authed
    <2> HIDE DEF files
    <2>3. Who' = Who /\ Promise' = [Promise EXCEPT ![c][p] = None]
      <3>1. CASE view' = view
        BY <2>1, <3>1, QuietMaps
      <3>2. CASE view' = [view EXCEPT ![c][p] = e]
        <4>1. ~IsSynced(e) /\ e \in Resource
          BY DEF IsSynced, Resource
        <4> HIDE DEF e
        <4> QED BY <1>p, <2>1, <3>2, <4>1, EntryMaps DEF Safe
      <3> QED BY <2>1, <3>1, <3>2
    <2> QED BY <2>1, <2>2, <2>3, <2>4, UploadMaps DEF Safe
  <1>4. ASSUME NEW d \in Content, NEW data \in Content, NEW fault \in BOOLEAN,
               CreateLast(c, p, d, data, fault)
        PROVE  StoreStep
    <2> DEFINE files == Written(u, p, Kept(data, fault))
               gone  == [files EXCEPT ![p] = None]
               e     == [synced |-> TRUE, digest |-> d]
    <2>1. /\ Ready(c) /\ GetStream(u, p).good
          /\ conn' = conn
      BY <1>4 DEF CreateLast
    <2>2. \/ /\ files[p] = d
             /\ disk' = [disk EXCEPT ![u] = files]
             /\ view' = [view EXCEPT ![c][p] = e]
          \/ /\ disk' = [disk EXCEPT ![u] = gone]
             /\ view' = [view EXCEPT ![c][p] = None]
      BY <1>4 DEF CreateLast
    <2>3. Spares(c, p, files)
      BY <1>p, <2>1, Behind, KeptType DEF Spares
    <2>4. files \in [Names -> {None} \cup Content]
      BY <1>p, <2>1, WriteEffect, KeptType DEF Safe, Ready, Authed
    <2> HIDE DEF files
    <2>8. gone[p] = None /\ Spares(c, p, gone)
      BY <1>p, <2>3, <2>4, TempName DEF Spares
    <2>6. CASE /\ files[p] = d
               /\ disk' = [disk EXCEPT ![u] = files]
               /\ view' = [view EXCEPT ![c][p] = e]
      BY <2>1, <2>3, <2>6, CommitMaps DEF Safe
    <2>7. CASE /\ disk' = [disk EXCEPT ![u] = gone]
               /\ view' = [view EXCEPT ![c][p] = None]
      BY <2>1, <2>8, <2>7, DeleteMaps DEF Safe
    <2> QED BY <2>2, <2>6, <2>7
  <1> QED BY <1>1, <1>2, <1>3, <1>4 DEF AnyCreate

\* The end of the process.
LEMMA EndedMaps ==
    ASSUME Ended
    PROVE  /\ Who' = [c \in Conns |-> NoUser]
           /\ Promise' = [c \in Conns |-> Store!NoPromise]
  <1>1. \A c \in Conns : ~Ready(c)'
    BY DEF Ended, Closed, Ready, Authed
  <1> QED BY <1>1 DEF Who, Promise, Vouched, Store!NoPromise

\* The process ends in a request that has removed p.
LEMMA LossMaps ==
    ASSUME TypeOK, NEW c \in Conns, Ready(c), NEW p \in Paths, NEW files,
           files[p] = None,
           disk' = [disk EXCEPT ![conn[c].id] = files],
           Spares(c, p, files), Ended
    PROVE  StoreStep
  <1>1. /\ Store!Elsewhere(c, p) /\ Who[c] # NoUser
        /\ Stored'[Who[c]][p] = files[p]
    BY FilesMap, TempName
  <1>2. Store!Crash
    BY <1>1, EndedMaps DEF Store!Crash
  <1> QED BY <1>2 DEF StoreStep, Store!Next

\* handle_update dies between remove and rename.
LEMMA InterruptedMaps ==
    ASSUME Safe, TempsApart, NEW c \in Conns, SessionSound(c), NEW p \in Paths,
           NEW d \in Content, NEW data \in Content, UpdateInterrupted(c, p, d, data)
    PROVE  StoreStep
  <1> DEFINE u     == conn[c].id
             n     == Temp[p]
             files == Written(u, n, data)
             gone  == [files EXCEPT ![p] = None]
  <1>p. p \in Names /\ n \in Names /\ \A q \in Paths : q \in Names /\ n # q
    BY TempName DEF TempsApart
  <1>1. /\ Ready(c) /\ u \in Users /\ GetStream(u, n).good /\ Ended
        /\ disk' = [disk EXCEPT ![u] = gone]
        /\ data \in Content
    BY ContentAssumption DEF UpdateInterrupted, Updating, Ready, Authed
  <1>2. files \in [Names -> {None} \cup Content] /\ Spares(c, p, files)
    BY <1>p, <1>1, WriteEffect, Behind DEF Spares, Safe
  <1> HIDE DEF files
  <1>3. gone[p] = None /\ Spares(c, p, gone)
    BY <1>p, <1>2 DEF Spares
  <1> HIDE DEF gone
  <1> QED BY <1>1, <1>3, LossMaps DEF Safe

\* UPDATE: the upload goes to the temp file, which the store does not know of,
\* unless the user's stream is still on another path.
LEMMA UpdateMaps ==
    ASSUME Safe, TempsApart, NEW c \in Conns, SessionSound(c), NEW p \in Paths,
           AnyUpdate(c, p)
    PROVE  StoreStep
  <1> DEFINE u == conn[c].id
             n == Temp[p]
             s == GetStream(u, n)
  <1>p. p \in Names /\ n \in Names /\ n # p /\ \A q \in Paths : q \in Names /\ n # q
    BY TempName DEF TempsApart
  <1>1. ASSUME UpdateNotExist(c, p) \/ (\E d \in Content : AlreadyUpdated(c, p, d))
        PROVE  StoreStep
    BY <1>1, RefuseMaps DEF UpdateNotExist, AlreadyUpdated
  <1>2. ASSUME NEW d \in Content, UpdateBadStream(c, p, d) PROVE StoreStep
    <2>1. /\ u \in Users
          /\ disk' = [disk EXCEPT ![u] = Touched(u, n)]
          /\ UNCHANGED <<conn, view>>
      BY <1>2 DEF UpdateBadStream, Updating, BadStream, Ready, Authed
    <2>2. \A q \in Paths : Touched(u, n)[q] = disk[u][q]
      BY <1>p, <2>1 DEF Touched, Safe, TypeOK
    <2>3. Stored' = Stored
      BY <2>1, <2>2 DEF Stored, Safe, TypeOK
    <2> QED BY <2>1, <2>3, QuietMaps DEF StoreStep, Store!vars
  <1>3. ASSUME NEW d \in Content, NEW data \in Content, NEW fault \in BOOLEAN,
               UpdateChunk(c, p, d, data, fault)
        PROVE  StoreStep
    <2> DEFINE files == Written(u, n, Kept(data, fault))
               e     == [view[c][p] EXCEPT !.synced = FALSE]
    <2>1. /\ Ready(c) /\ u \in Users /\ s.good /\ view[c][p] # None
          /\ disk' = [disk EXCEPT ![u] = files]
          /\ view' = IF IsFirst(u) THEN [view EXCEPT ![c][p] = e] ELSE view
          /\ conn' = conn
      BY <1>3 DEF UpdateChunk, Updating, Ready, Authed
    <2>2. \A q \in Paths :
            \/ files[q] = disk[u][q]
            \/ Vouched(c, q) = None /\ Store!Grown(disk[u][q], files[q])
      BY <1>p, <2>1, Behind, KeptType
    <2>3. \A q \in Paths : q # s.name => files[q] = disk[u][q]
      BY <1>p, <2>1, WriteEffect, KeptType DEF Safe
    <2>4. e \in {None} \cup Resource /\ ~IsSynced(e)
      <3>1. view[c] \in [Names -> {None} \cup Resource]
        BY DEF Safe, TypeOK
      <3> QED BY <1>p, <2>1, <3>1 DEF Resource, IsSynced
    <2> HIDE DEF files, e
    <2>5. \A q \in Paths : Spares(c, q, files)
      BY <2>2 DEF Spares
    <2>6. CASE IsFirst(u)
      <3>1. \A q \in Paths : files[q] = disk[u][q]
        BY <1>p, <2>3, <2>6 DEF GetStream
      <3>2. Who' = Who /\ Promise' = [Promise EXCEPT ![c][p] = None]
        BY <1>p, <2>1, <2>4, <2>6, EntryMaps DEF Safe
      <3> QED BY <2>1, <2>5, <3>1, <3>2, UploadMaps DEF Safe, Store!Grown
    <2>7. CASE ~IsFirst(u) /\ s.name \notin Paths
      <3>1. Stored' = Stored
        BY <2>1, <2>3, <2>7 DEF Stored, Safe, TypeOK
      <3> QED BY <2>1, <2>7, <3>1, QuietMaps DEF StoreStep, Store!vars
    <2>8. CASE ~IsFirst(u) /\ s.name \in Paths
      <3> DEFINE m == s.name
      <3>1. Vouched(c, m) = None
        BY <2>1, <2>8 DEF SessionSound, EntrySound, Tells, IsSynced, GetStream, IsFirst, Vouched
      <3>2. Store!Grown(disk[u][m], files[m])
        BY <2>2, <2>8 DEF Store!Grown
      <3>3. Who' = Who /\ Promise' = [Promise EXCEPT ![c][m] = None]
        BY <2>1, <2>8, <3>1, QuietMaps
      <3> QED BY <2>1, <2>5, <2>8, <3>1, <3>2, <3>3, UploadMaps DEF Safe
    <2> QED BY <2>6, <2>7, <2>8
  <1>4. ASSUME NEW d \in Content, NEW data \in Content, NEW fault \in BOOLEAN,
               UpdateLast(c, p, d, data, fault)
        PROVE  StoreStep
    <2> DEFINE files == Written(u, n, Kept(data, fault))
               moved == [files EXCEPT ![p] = files[n], ![n] = None]
               gone  == [files EXCEPT ![p] = None, ![n] = None]
               e     == [synced |-> TRUE, digest |-> d]
    <2>1. /\ Ready(c) /\ s.good
          /\ conn' = conn
      BY <1>4 DEF UpdateLast, Updating
    <2>2. \/ /\ files[n] = d
             /\ disk' = [disk EXCEPT ![u] = moved]
             /\ view' = [view EXCEPT ![c][p] = e]
          \/ /\ disk' = [disk EXCEPT ![u] = gone]
             /\ view' = [view EXCEPT ![c][p] = None]
      BY <1>4 DEF UpdateLast
    <2>3. Spares(c, p, files)
      BY <1>p, <2>1, Behind, KeptType DEF Spares
    <2>4. files \in [Names -> {None} \cup Content]
      BY <1>p, <2>1, WriteEffect, KeptType DEF Safe, Ready, Authed
    <2> HIDE DEF files
    <2>5. /\ moved[p] = files[n] /\ Spares(c, p, moved)
          /\ gone[p] = None /\ Spares(c, p, gone)
      BY <1>p, <2>3, <2>4 DEF Spares
    <2> HIDE DEF moved, gone
    <2>6. CASE /\ files[n] = d
               /\ disk' = [disk EXCEPT ![u] = moved]
               /\ view' = [view EXCEPT ![c][p] = e]
      BY <2>1, <2>5, <2>6, CommitMaps DEF Safe
    <2>7. CASE /\ disk' = [disk EXCEPT ![u] = gone]
               /\ view' = [view EXCEPT ![c][p] = None]
      BY <2>1, <2>5, <2>7, DeleteMaps DEF Safe
    <2> QED BY <2>2, <2>6, <2>7
  <1>5. ASSUME NEW d \in Content, NEW data \in Content, UpdateInterrupted(c, p, d, data)
        PROVE  StoreStep
    BY <1>5, InterruptedMaps
  <1> QED BY <1>1, <1>2, <1>3, <1>4, <1>5 DEF AnyUpdate

\* ERASE and RETRIEVE.
LEMMA EraseMaps ==
    ASSUME Safe, NEW c \in Conns, NEW n \in Names, AnyErase(c, n) \/ Retrieve(c, n)
    PROVE  StoreStep
  <1> DEFINE u == conn[c].id
  <1>1. ASSUME Retrieve(c, n) PROVE StoreStep
    BY <1>1, RefuseMaps DEF Retrieve
  <1>2. ASSUME NEW d \in Content, EraseRefused(c, n, d) \/ EraseFailed(c, n, d)
        PROVE  StoreStep
    BY <1>2, RefuseMaps DEF EraseRefused, EraseFailed
  <1>3. ASSUME NEW d \in Content, Erase(c, n, d) PROVE StoreStep
    <2> DEFINE files == [disk[u] EXCEPT ![n] = None]
    <2>1. /\ Ready(c) /\ u \in Users /\ conn' = conn
          /\ disk' = [disk EXCEPT ![u] = files]
          /\ view' = [view EXCEPT ![c][n] = None]
      BY <1>3 DEF Erase, Ready, Authed, Safe, TypeOK
    <2>2. /\ files[n] = None
          /\ \A q \in Names : q # n => files[q] = disk[u][q]
      BY <2>1 DEF Safe, TypeOK
    <2> HIDE DEF files
    <2>3. CASE n \in Paths
      <3>1. Spares(c, n, files)
        BY <2>2, TempName DEF Spares
      <3> QED BY <2>1, <2>2, <2>3, <3>1, DeleteMaps DEF Safe
    <2>4. CASE n \notin Paths
      <3>1. Stored' = Stored
        BY <2>1, <2>2, <2>4, TempName DEF Stored, Safe, TypeOK
      <3>2. Who' = Who /\ Promise' = Promise
        BY <2>1, <2>4, EntryMaps DEF Safe
      <3> QED BY <3>1, <3>2 DEF StoreStep, Store!vars
    <2> QED BY <2>3, <2>4
  <1> QED BY <1>1, <1>2, <1>3 DEF AnyErase

\* Connections, logins and LIST.  A user's second session cannot begin, nor can
\* the first before its LIST.
LEMMA SessionStepMaps ==
    ASSUME Safe, OneSession, Sound, NEW c \in Conns, SessionStep(c)
    PROVE  StoreStep
  <1>1. ASSUME AuthFailed(c) \/ Rejected(c) \/ KeepAlive(c) PROVE StoreStep
    BY <1>1, RefuseMaps DEF AuthFailed, Rejected, KeepAlive
  <1>2. ASSUME UNCHANGED disk,
               \A e \in Conns : e # c => conn'[e] = conn[e] /\ view'[e] = view[e],
               ~Ready(c), ~Ready(c)'
        PROVE  StoreStep
    <2>1. /\ Who' = [Who EXCEPT ![c] = Who'[c]]
          /\ Promise' = [Promise EXCEPT ![c] = Promise'[c]]
      BY <1>2, SessionMaps
    <2>2. Who'[c] = Who[c]
      BY <1>2 DEF Who
    <2>3. Promise'[c] = Promise[c]
      BY <1>2 DEF Promise, Vouched
    <2>4. Who' = Who
      BY <2>1, <2>2 DEF Who
    <2>5. Promise' = Promise
      BY <2>1, <2>3 DEF Promise
    <2> QED BY <1>2, <2>4, <2>5, StoredMaps DEF StoreStep, Store!vars
  <1>3. ASSUME NEW u \in Users, UNCHANGED disk,
               \A e \in Conns : e # c => conn'[e] = conn[e] /\ view'[e] = view[e],
               ~Ready(c), Ready(c)', conn'[c].id = u,
               \A e \in Conns : Ready(e) => conn[e].id # u,
               \A p \in Paths : IsSynced(view'[c][p]) => view'[c][p].digest = disk[u][p]
        PROVE  StoreStep
    <2>1. /\ Who' = [Who EXCEPT ![c] = Who'[c]]
          /\ Promise' = [Promise EXCEPT ![c] = Promise'[c]]
      BY <1>3, SessionMaps
    <2>2. Who[c] = NoUser /\ Who'[c] = u /\ \A e \in Conns : Who[e] # u
      BY <1>3, SessionAssumption DEF Who
    <2> DEFINE listed == {p \in Paths : IsSynced(view'[c][p])}
    <2>3. Promise'[c] = [p \in Paths |-> IF p \in listed THEN Stored[u][p] ELSE None]
      BY <1>3 DEF Promise, Vouched, Stored
    <2>5. listed \in SUBSET Paths
      OBVIOUS
    <2> HIDE DEF listed
    <2>6. Promise' = [Promise EXCEPT ![c] =
                        [p \in Paths |-> IF p \in listed THEN Stored[u][p] ELSE None]]
      BY <2>1, <2>3
    <2>4. Store!Open(c, u)
      BY <1>3, <2>1, <2>2, <2>5, <2>6, StoredMaps DEF Store!Open
    <2> QED BY <2>4 DEF StoreStep, Store!Next
  <1>4. CASE Accept(c)
    <2>1. /\ UNCHANGED disk /\ ~Ready(c)
          /\ \A e \in Conns : e # c => conn'[e] = conn[e] /\ view'[e] = view[e]
          /\ conn'[c].id = NoUser
      BY <1>4 DEF Accept, Safe, TypeOK, Ready, Authed
    <2>2. ~Ready(c)'
      BY <2>1, SessionAssumption DEF Ready, Authed
    <2> QED BY <1>2, <2>1, <2>2
  <1>5. CASE Shutdown(c)
    <2>1. /\ UNCHANGED disk
          /\ \A e \in Conns : e # c => conn'[e] = conn[e] /\ view'[e] = view[e]
          /\ ~Ready(c)'
      BY <1>5 DEF Shutdown, Closed, Safe, TypeOK, Ready, Authed
    <2>2. CASE ~Ready(c)
      BY <1>2, <2>1, <2>2
    <2>3. CASE Ready(c)
      <3>1. /\ Who' = [Who EXCEPT ![c] = Who'[c]]
            /\ Promise' = [Promise EXCEPT ![c] = Promise'[c]]
        BY <2>1, SessionMaps
      <3>2. Who[c] # NoUser /\ Who'[c] = NoUser
        BY <2>1, <2>3, SessionAssumption DEF Who, Ready, Authed
      <3>3. Promise'[c] = Store!NoPromise
        BY <2>1 DEF Promise, Vouched, Store!NoPromise
      <3>4. Store!Close(c)
        BY <2>1, <3>1, <3>2, <3>3, StoredMaps DEF Store!Close
      <3> QED BY <3>4 DEF StoreStep, Store!Next
    <2> QED BY <2>2, <2>3
  <1>6. ASSUME NEW u \in Users, Auth(c, u) PROVE StoreStep
    <2>1. /\ UNCHANGED disk /\ ~Ready(c)
          /\ \A e \in Conns : e # c => conn'[e] = conn[e] /\ view'[e] = view[e]
          /\ conn'[c].id = u /\ view'[c] = EmptyView
          /\ \A e \in Conns : conn[e].id # u
      BY <1>6 DEF Auth, OneSession, Safe, TypeOK, Session, Ready, Authed
    <2>2. \A p \in Paths : ~IsSynced(view'[c][p])
      BY <2>1, TempName DEF EmptyView, IsSynced
    <2>3. CASE Ready(c)'
      BY <1>3, <2>1, <2>2, <2>3
    <2>4. CASE ~Ready(c)'
      BY <1>2, <2>1, <2>4
    <2> QED BY <2>3, <2>4
  <1>7. CASE List(c)
    <2> DEFINE u == conn[c].id
    <2>1. /\ UNCHANGED disk /\ ~Ready(c) /\ u \in Users
          /\ \A e \in Conns : e # c => conn'[e] = conn[e] /\ view'[e] = view[e]
          /\ conn'[c].id = u /\ view'[c] = Listed(u) /\ Ready(c)'
      BY <1>7 DEF List, Safe, TypeOK, Session, Ready, Authed
    <2>2. \A e \in Conns : Ready(e) => conn[e].id # u
      BY <2>1 DEF Sound, Exclusive, Ready
    <2>3. \A p \in Paths : IsSynced(view'[c][p]) => view'[c][p].digest = disk[u][p]
      BY <2>1, TempName DEF Listed, IsSynced
    <2> QED BY <1>3, <2>1, <2>2, <2>3
  <1>8. CASE ListFailed(c)
    <2>1. /\ UNCHANGED disk /\ conn' = conn /\ ~Ready(c)
          /\ \A e \in Conns : e # c => conn'[e] = conn[e] /\ view'[e] = view[e]
      BY <1>8 DEF ListFailed, Safe, TypeOK, Ready
    <2>2. ~Ready(c)'
      BY <2>1 DEF Ready, Authed
    <2> QED BY <1>2, <2>1, <2>2
  <1> QED BY <1>1, <1>4, <1>5, <1>6, <1>7, <1>8 DEF SessionStep

\* Only temp files lose what was not flushed.
LEMMA CrashMaps ==
    ASSUME TypeOK, TempsApart, Crash
    PROVE  StoreStep
  <1>1. \A u \in Users, q \in Paths : disk'[u][q] = disk[u][q]
    <2> SUFFICES ASSUME NEW u \in Users, NEW q \in Paths PROVE disk'[u][q] = disk[u][q]
      OBVIOUS
    <2>1. PICK k \in 0..MaxLen :
            disk' = [v \in Users |->
                      IF Unflushed(v) /\ k < Len(disk[v][streams[v].name])
                      THEN [disk[v] EXCEPT ![streams[v].name] = SubSeq(@, 1, k)]
                      ELSE disk[v]]
      BY DEF Crash
    <2>2. Unflushed(u) => streams[u].name # q
      BY DEF Unflushed, TempsApart
    <2> QED BY <2>1, <2>2, TempName DEF TypeOK
  <1>2. Stored' = Stored
    BY <1>1 DEF Stored
  <1>3. Store!Crash
    BY <1>2, EndedMaps DEF Crash, Store!Crash
  <1> QED BY <1>3 DEF StoreStep, Store!Next

LEMMA NextMaps ==
    ASSUME OneSession, TempsApart
    PROVE  Safe /\ Sound /\ [Next]_vars => StoreStep
  <1> SUFFICES ASSUME Safe, Sound, [Next]_vars PROVE StoreStep
    OBVIOUS
  <1>1. CASE UNCHANGED vars
    BY <1>1, StoredMaps, QuietMaps DEF vars, StoreStep, Store!vars
  <1>2. CASE Crash
    BY <1>2, CrashMaps DEF Safe
  <1>3. ASSUME NEW c \in Conns, SessionStep(c) PROVE StoreStep
    BY <1>3, SessionStepMaps
  <1>4. ASSUME NEW c \in Conns, AnyRequest(c) PROVE StoreStep
    BY <1>4, CreateMaps, UpdateMaps, EraseMaps DEF AnyRequest, Sound
  <1> QED BY <1>1, <1>2, <1>3, <1>4, NextIsAnyStep DEF AnyStep

LEMMA InitMaps == Init => Store!Init
  <1> SUFFICES ASSUME Init PROVE Store!Init
    OBVIOUS
  <1>1. \A c \in Conns : ~Ready(c)
    BY DEF Init, Closed, Ready, Authed
  <1>2. Stored = [u \in Users |-> [p \in Paths |-> None]]
    BY TempName DEF Init, Stored
  <1>3. Who = [c \in Conns |-> NoUser] /\ Promise = [c \in Conns |-> Store!NoPromise]
    BY <1>1 DEF Who, Promise, Vouched, Store!NoPromise
  <1> QED BY <1>2, <1>3 DEF Store!Init

\* With one session per user at a time, and no client path that is another's
\* temp name, the server is the store of BackupStore: no request, in whatever
\* order the client sends them and whatever stream it leaves open, and no end of
\* the process changes a file a session vouches for, but for the path a request
\* is about and the one replacement a crash interrupts.
THEOREM StoreImplemented ==
    ASSUME OneSession, TempsApart
    PROVE  Spec => ImplementsStore
  <1>1. Safe /\ Sound /\ [Next]_vars => [Store!Next]_Store!vars
    BY NextMaps DEF StoreStep
  <1> QED BY <1>1, InitMaps, SafeAlways, SoundAlways, PTL
          DEF Spec, ImplementsStore, Store!Spec
=============================================================================
