------------------------- MODULE BackupStoreProofs -------------------------
(***************************************************************************)
(* What BackupStore promises is what it keeps.                             *)
(***************************************************************************)
EXTENDS BackupStore, TLAPS

Apart == None \notin Content /\ NoUser \notin Users

\* A user has one session at a time, which is why no other one can change a
\* file behind a promise.
OnePerUser ==
    \A c, e \in Conns : who[c] # NoUser /\ who[c] = who[e] => c = e

Inv ==
    /\ who \in [Conns -> Users \cup {NoUser}]
    /\ DOMAIN promise = Conns
    /\ \A c \in Conns : DOMAIN promise[c] = Paths
    /\ OnePerUser
    /\ Kept

\* The promise of one path changes.
LEMMA PromisesEffect ==
    ASSUME Inv, NEW c \in Conns, NEW p \in Paths, NEW content, Promises(c, p, content)
    PROVE  /\ DOMAIN promise' = Conns
           /\ \A e \in Conns : DOMAIN promise'[e] = Paths
           /\ promise'[c][p] = content
           /\ \A e \in Conns, q \in Paths : <<e, q>> # <<c, p>> =>
                promise'[e][q] = promise[e][q]
  BY DEF Inv, Promises

\* A request of a session about one path leaves the others' promises kept.
LEMMA ElsewhereKept ==
    ASSUME Inv, NEW c \in Conns, NEW p \in Paths, NEW content,
           who[c] # NoUser, Elsewhere(c, p), UNCHANGED who, Promises(c, p, content),
           content # None => stored'[who[c]][p] = content
    PROVE  Inv'
  <1>1. /\ DOMAIN promise' = Conns
        /\ \A e \in Conns : DOMAIN promise'[e] = Paths
        /\ promise'[c][p] = content
        /\ \A e \in Conns, q \in Paths : <<e, q>> # <<c, p>> =>
             promise'[e][q] = promise[e][q]
    BY PromisesEffect
  <1>2. ASSUME NEW e \in Conns, NEW q \in Paths, who[e] # NoUser, promise'[e][q] # None
        PROVE  stored'[who[e]][q] = promise'[e][q]
    <2>1. CASE <<e, q>> = <<c, p>>
      BY <1>1, <1>2, <2>1
    <2>2. CASE <<e, q>> # <<c, p>>
      <3>1. stored[who[e]][q] = promise[e][q] /\ promise[e][q] # None
        BY <1>1, <1>2, <2>2 DEF Inv, Kept
      <3>2. who[e] \in Users /\ <<who[e], q>> # <<who[c], p>>
        BY <1>2, <2>2 DEF Inv, OnePerUser
      <3>3. ~(who[e] = who[c] /\ promise[c][q] = None)
        BY <1>2, <3>1 DEF Inv, OnePerUser
      <3>4. stored'[who[e]][q] = stored[who[e]][q]
        BY <3>2, <3>3 DEF Elsewhere
      <3> QED BY <1>1, <2>2, <3>1, <3>4
    <2> QED BY <2>1, <2>2
  <1> QED BY <1>1, <1>2 DEF Inv, OnePerUser, Kept

LEMMA NextKept ==
    ASSUME Apart
    PROVE  Inv /\ [Next]_vars => Inv'
  <1> SUFFICES ASSUME Inv, [Next]_vars PROVE Inv'
    OBVIOUS
  <1>1. CASE UNCHANGED vars
    BY <1>1 DEF vars, Inv, OnePerUser, Kept
  <1>2. CASE Crash
    BY <1>2 DEF Crash, NoPromise, Inv, OnePerUser, Kept
  <1>3. ASSUME NEW c \in Conns, NEW u \in Users, Open(c, u) PROVE Inv'
    <2>1. /\ who' = [who EXCEPT ![c] = u] /\ stored' = stored
          /\ \A e \in Conns : who[e] # u
          /\ who[c] = NoUser
      BY <1>3 DEF Open
    <2>2. PICK listed \in SUBSET Paths :
            promise' = [promise EXCEPT ![c] =
                          [p \in Paths |-> IF p \in listed THEN stored[u][p] ELSE None]]
      BY <1>3 DEF Open
    <2>3. /\ DOMAIN promise' = Conns
          /\ promise'[c] = [p \in Paths |-> IF p \in listed THEN stored[u][p] ELSE None]
          /\ \A e \in Conns : e # c => promise'[e] = promise[e]
      BY <2>2 DEF Inv
    <2>4. who' \in [Conns -> Users \cup {NoUser}] /\ OnePerUser'
      BY <2>1, <1>3 DEF Inv, OnePerUser
    <2>5. Kept'
      BY <2>1, <2>3 DEF Inv, Kept
    <2>6. \A e \in Conns : DOMAIN promise'[e] = Paths
      BY <2>3 DEF Inv
    <2> QED BY <2>3, <2>4, <2>5, <2>6 DEF Inv
  <1>4. ASSUME NEW c \in Conns, Close(c) PROVE Inv'
    BY <1>4 DEF Close, NoPromise, Inv, OnePerUser, Kept
  <1>5. ASSUME NEW c \in Conns, NEW p \in Paths, Upload(c, p) \/ Delete(c, p)
        PROVE  Inv'
    BY <1>5, ElsewhereKept DEF Upload, Delete
  <1>6. ASSUME NEW c \in Conns, NEW p \in Paths, Commit(c, p) PROVE Inv'
    BY <1>6, ElsewhereKept DEF Commit
  <1> QED BY <1>1, <1>2, <1>3, <1>4, <1>5, <1>6 DEF Next

\* A file a session vouches for is there with the content it vouches for,
\* whatever uploads, deletions and ends of the process come between: what a
\* client is told not to send again need not be sent again.
THEOREM PromisesKept ==
    ASSUME Apart
    PROVE  Spec => []Kept
  <1>1. Init => Inv
    BY DEF Init, NoPromise, Inv, OnePerUser, Kept
  <1>2. Inv /\ [Next]_vars => Inv'
    BY NextKept
  <1>3. Inv => Kept
    BY DEF Inv
  <1> QED BY <1>1, <1>2, <1>3, PTL DEF Spec
=============================================================================
