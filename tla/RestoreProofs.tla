--------------------------- MODULE RestoreProofs ---------------------------
(***************************************************************************)
(* Theorems about a restore, for every set of files, connections and       *)
(* contents, whatever the server's other clients do meanwhile.             *)
(***************************************************************************)
EXTENDS Restore, RequestHandlerProofs

(***************************************************************************)
(* The server is driven as RequestHandler allows, and so what is proved of *)
(* it holds here.                                                          *)
(***************************************************************************)

LEMMA ServerSteps ==
    ASSUME ClientTypeOK, RestoreNext
    PROVE  [Next]_vars
  <1>1. CASE Connect \/ LogIn \/ GetList \/ NoList \/ CutOff
    BY <1>1, RestoreAssumption DEF Connect, LogIn, GetList, NoList, CutOff, Next,
       SessionStep
  <1>2. CASE ServeRetrieve
    <2>1. Retrieve(Me, cur) /\ cur \in Names
      BY <1>2 DEF ServeRetrieve, ClientTypeOK
    <2> QED BY <2>1, RestoreAssumption DEF Next
  <1>3. CASE ServeMissing
    BY <1>3 DEF ServeMissing, Next
  <1>4. ASSUME NEW n \in Names, Skip(n) \/ Take(n) \/ RemoveFails(n)
        PROVE  UNCHANGED vars
    BY <1>4 DEF Skip, Take, RemoveFails
  <1>5. ASSUME NEW fault, StoreFile(fault) PROVE UNCHANGED vars
    BY <1>5 DEF StoreFile
  <1>6. CASE Unanswered \/ StoreFails \/ Verify \/ HashThrows \/ Done
    BY <1>6 DEF Unanswered, StoreFails, Verify, HashThrows, Done
  <1>7. CASE Others
    <2>1. ASSUME NEW c \in Conns, NEW n \in Names, EraseStep(c, n) PROVE Next
      BY <2>1 DEF Next
    <2>2. ASSUME NEW c \in Conns, NEW p \in Paths, CreateStep(c, p) \/ UpdateStep(c, p)
          PROVE  Next
      BY <2>2 DEF Next
    <2>3. ASSUME NEW c \in Conns, SessionStep(c) PROVE Next
      BY <2>3 DEF Next
    <2>4. CASE Crash
      BY <2>4 DEF Next
    <2> QED BY <1>7, <2>1, <2>2, <2>3, <2>4 DEF Others, OthersConns
  <1> QED BY <1>1, <1>2, <1>3, <1>4, <1>5, <1>6, <1>7 DEF RestoreNext, Retrieving

(***************************************************************************)
(* Types.                                                                  *)
(***************************************************************************)

LEMMA ClientTypeStep ==
    ASSUME Safe, ClientTypeOK, RestoreNext
    PROVE  ClientTypeOK'
  <1> USE DEF Phases, Outcomes, Files
  <1>1. CASE Connect \/ LogIn \/ NoList
    BY <1>1 DEF Connect, LogIn, NoList, Exits, ClientTypeOK
  <1>2. CASE GetList
    <2>1. disk[User] \in Files
      BY RestoreAssumption DEF Safe, TypeOK
    <2> QED BY <1>2, <2>1 DEF GetList, ClientTypeOK
  <1>3. ASSUME NEW n \in Names, Skip(n) PROVE ClientTypeOK'
    BY <1>3 DEF Skip, Says, ClientTypeOK
  <1>4. ASSUME NEW n \in Names, Take(n) PROVE ClientTypeOK'
    BY <1>4 DEF Take, ClientTypeOK
  <1>5. ASSUME NEW n \in Names, RemoveFails(n) PROVE ClientTypeOK'
    BY <1>5 DEF RemoveFails, Says, ClientTypeOK
  <1>6. CASE ServeRetrieve
    <2>1. at = "ask" /\ cur \in Names /\ disk[User][cur] \in {None} \cup Content
      BY <1>6, RestoreAssumption DEF ServeRetrieve, ClientTypeOK, Safe, TypeOK
    <2> QED BY <1>6, <2>1 DEF ServeRetrieve, ClientTypeOK
  <1>7. CASE Unanswered
    BY <1>7 DEF Unanswered, Says, ClientTypeOK
  <1>8. ASSUME NEW fault \in BOOLEAN, StoreFile(fault) PROVE ClientTypeOK'
    <2>1. Kept(response, fault) \in {None} \cup Content
      BY DEF Kept, Content, ClientTypeOK
    <2> QED BY <1>8, <2>1 DEF StoreFile, ClientTypeOK
  <1>9. CASE StoreFails
    BY <1>9 DEF StoreFails, Says, ClientTypeOK
  <1>10. CASE Verify
    BY <1>10 DEF Verify, Says, ClientTypeOK
  <1>11. CASE HashThrows
    BY <1>11 DEF HashThrows, Exits, ClientTypeOK
  <1>12. CASE Done
    BY <1>12 DEF Done, ClientTypeOK
  <1>13. CASE ServeMissing \/ CutOff \/ Others
    BY <1>13 DEF ServeMissing, CutOff, Others, Hinders, client, ClientTypeOK
  <1> QED BY <1>1, <1>2, <1>3, <1>4, <1>5, <1>6, <1>7, <1>8, <1>9, <1>10, <1>11,
             <1>12, <1>13 DEF RestoreNext, Retrieving

Typed == Safe /\ ClientTypeOK

LEMMA TypedStep ==
    Typed /\ [RestoreNext]_allVars => Typed'
  <1> SUFFICES ASSUME Typed, [RestoreNext]_allVars PROVE Typed'
    OBVIOUS
  <1>1. CASE RestoreNext
    BY <1>1, ServerSteps, NextSafe, ClientTypeStep DEF Typed
  <1>2. CASE UNCHANGED allVars
    <2>1. UNCHANGED vars
      BY <1>2 DEF allVars
    <2>2. Safe'
      BY <2>1, NextSafe DEF Typed
    <2>3. ClientTypeOK'
      BY <1>2 DEF allVars, client, Typed, ClientTypeOK
    <2> QED BY <2>2, <2>3 DEF Typed
  <1> QED BY <1>1, <1>2

LEMMA InitTyped == RestoreInit => Typed
  BY InitSafe, RestoreAssumption DEF RestoreInit, Typed, ClientTypeOK, Phases, Outcomes,
     Files, NoFiles

LEMMA TypedAlways == RestoreSpec => []Typed
  BY InitTyped, TypedStep, PTL DEF RestoreSpec

\* The client's state is what its declarations say, and a file is under way
\* exactly when one is being retrieved.
THEOREM RestoreTyped == RestoreSpec => []ClientTypeOK
  <1>1. Typed => ClientTypeOK
    BY DEF Typed
  <1> QED BY <1>1, TypedAlways, PTL

(***************************************************************************)
(* What the client says of a file is so, and no part of a file stays.  The *)
(* file under way is the only one that is neither what it was nor what was *)
(* listed, and only until it is verified or the process ends at it;        *)
(* nothing is said of it, nor of a file the loop has not come to.          *)
(***************************************************************************)

UnderWay == at \in {"ask", "reply", "verify"}

Whole(n) == local[n] \in {None, original[n], listed[n]}

Honest ==
    /\ at \in {"start", "login", "list"} => local = original
    /\ \A n \in Names :
         Whole(n) \/ (at \in {"verify", "exited"} /\ n = cur /\ outcome[n] = "none")
    /\ UnderWay => cur \notin todo /\ outcome[cur] = "none"
    /\ at \in {"start", "login", "list"} => \A n \in Names : outcome[n] = "none"
    /\ \A n \in Names : outcome[n] # "none" => n \notin todo
    /\ \A n \in Names : outcome[n] \in {"done", "skipped"} => local[n] = listed[n]

LEMMA HonestImplies == Honest => SaidIsThere
  BY DEF Honest, SaidIsThere

LEMMA HonestStep ==
    ASSUME Typed, Honest, RestoreNext
    PROVE  Honest'
  <1> USE DEF Typed, ClientTypeOK, Phases, Outcomes, Files
  <1>1. CASE Connect \/ LogIn
    BY <1>1 DEF Connect, LogIn, Honest, Whole, UnderWay
  <1>2. CASE NoList
    BY <1>2 DEF NoList, Exits, Honest, Whole, UnderWay
  <1>3. CASE GetList
    BY <1>3 DEF GetList, Honest, Whole, UnderWay
  <1>4. ASSUME NEW n \in Names, Skip(n) PROVE Honest'
    BY <1>4 DEF Skip, Says, Honest, Whole, UnderWay
  <1>5. ASSUME NEW n \in Names, Take(n) PROVE Honest'
    BY <1>5 DEF Take, Honest, Whole, UnderWay
  <1>6. ASSUME NEW n \in Names, RemoveFails(n) PROVE Honest'
    BY <1>6 DEF RemoveFails, Says, Honest, Whole, UnderWay
  <1>7. CASE ServeRetrieve
    BY <1>7 DEF ServeRetrieve, Honest, Whole, UnderWay
  <1>8. CASE Unanswered
    BY <1>8 DEF Unanswered, Says, Honest, Whole, UnderWay
  <1>9. ASSUME NEW fault \in BOOLEAN, StoreFile(fault) PROVE Honest'
    BY <1>9 DEF StoreFile, Honest, Whole, UnderWay
  <1>10. CASE StoreFails
    BY <1>10 DEF StoreFails, Says, Honest, Whole, UnderWay
  <1>11. CASE Verify
    BY <1>11 DEF Verify, Says, Honest, Whole, UnderWay
  <1>12. CASE HashThrows
    BY <1>12 DEF HashThrows, Exits, Honest, Whole, UnderWay
  <1>13. CASE Done
    BY <1>13 DEF Done, Honest, Whole, UnderWay
  <1>14. CASE ServeMissing \/ CutOff \/ Others
    <2>1. UNCHANGED client
      BY <1>14 DEF ServeMissing, CutOff, Others
    <2> QED BY <2>1 DEF client, Honest, Whole, UnderWay
  <1> QED BY <1>1, <1>2, <1>3, <1>4, <1>5, <1>6, <1>7, <1>8, <1>9, <1>10, <1>11,
             <1>12, <1>13, <1>14 DEF RestoreNext, Retrieving

LEMMA HonestAlways == RestoreSpec => []Honest
  <1>1. RestoreInit => Honest
    BY DEF RestoreInit, Honest, Whole, UnderWay
  <1>2. Typed /\ Honest /\ [RestoreNext]_allVars => Honest'
    <2> SUFFICES ASSUME Typed, Honest, UNCHANGED allVars PROVE Honest'
      BY HonestStep
    <2> QED BY DEF allVars, client, Honest, Whole, UnderWay
  <1> QED BY <1>1, <1>2, TypedAlways, PTL DEF RestoreSpec

\* What it calls done or skipped is there as it was listed, from then on.
THEOREM WordsAreTrue == RestoreSpec => []SaidIsThere
  BY HonestAlways, HonestImplies, PTL

(***************************************************************************)
(* What fails has a cause.  A file nothing has gone wrong with is still    *)
(* what was listed, on the server, in the reply and in what was written.   *)
(***************************************************************************)

Caused ==
    /\ at \in {"start", "login", "list"} => hindered = {}
    /\ \A n \in Names : n \notin hindered =>
         /\ outcome[n] # "failed"
         /\ Busy => Up /\ disk[User][n] = listed[n]
         /\ at = "reply" /\ n = cur => response = listed[n]
         /\ at = "verify" /\ n = cur => local[n] = listed[n]
         /\ at = "exited" => Whole(n)

LEMMA CausedStep ==
    ASSUME Typed, Honest, Caused, RestoreNext
    PROVE  Caused'
  <1> USE DEF Typed, ClientTypeOK, Phases, Outcomes, Files
  <1>1. CASE Connect \/ LogIn
    BY <1>1 DEF Connect, LogIn, Caused, Busy
  <1>2. CASE NoList
    BY <1>2 DEF NoList, Exits, Honest, Whole, Caused, Busy
  <1>3. CASE GetList
    <2>1. /\ at = "list" /\ at' = "next" /\ hindered = {} /\ hindered' = {}
          /\ outcome' = outcome /\ listed' = disk[User] /\ disk' = disk
          /\ conn'[Me].open
      <3>1. List(Me)
        BY <1>3 DEF GetList
      <3>2. conn'[Me].open
        BY <3>1, RestoreAssumption DEF List, Authed, Safe, TypeOK, Session
      <3> QED BY <1>3, <3>1, <3>2 DEF GetList, List, Caused
    <2> QED BY <2>1 DEF Caused, Busy, Up, Whole
  <1>4. ASSUME NEW n \in Names, Skip(n) PROVE Caused'
    BY <1>4 DEF Skip, Says, vars, Caused, Busy, Up, Whole
  <1>5. ASSUME NEW n \in Names, Take(n) PROVE Caused'
    BY <1>5 DEF Take, vars, Caused, Busy, Up, Whole
  <1>6. ASSUME NEW n \in Names, RemoveFails(n) PROVE Caused'
    BY <1>6 DEF RemoveFails, Says, vars, Caused, Busy, Up, Whole
  <1>7. CASE ServeRetrieve
    BY <1>7 DEF ServeRetrieve, Retrieve, Refuse, Caused, Busy, Up, Whole
  <1>8. CASE Unanswered
    BY <1>8 DEF Unanswered, Says, vars, Caused, Busy, Up, Whole
  <1>9. ASSUME NEW fault \in BOOLEAN, StoreFile(fault) PROVE Caused'
    BY <1>9 DEF StoreFile, Kept, vars, Caused, Busy, Up, Whole
  <1>10. CASE StoreFails
    BY <1>10 DEF StoreFails, Says, vars, Caused, Busy, Up, Whole
  <1>11. CASE Verify
    BY <1>11 DEF Verify, Says, vars, Caused, Busy, Up, Whole
  <1>12. CASE HashThrows
    BY <1>12 DEF HashThrows, Exits, Honest, Whole, Caused, Busy
  <1>13. CASE Done
    BY <1>13 DEF Done, Caused, Busy
  <1>14. CASE ServeMissing \/ CutOff \/ Others
    <2>1. UNCHANGED client /\ Hinders
      BY <1>14 DEF ServeMissing, CutOff, Others
    <2> QED BY <2>1 DEF client, Hinders, Caused, Busy, Up, Whole
  <1> QED BY <1>1, <1>2, <1>3, <1>4, <1>5, <1>6, <1>7, <1>8, <1>9, <1>10, <1>11,
             <1>12, <1>13, <1>14 DEF RestoreNext, Retrieving

LEMMA CausedAlways == RestoreSpec => []Caused
  <1>1. RestoreInit => Caused
    BY DEF RestoreInit, Caused, Busy
  <1>2. Typed /\ Honest /\ Caused /\ [RestoreNext]_allVars => Caused'
    <2> SUFFICES ASSUME Typed, Caused, UNCHANGED allVars PROVE Caused'
      BY CausedStep
    <2> QED BY DEF allVars, client, vars, Caused, Busy, Up, Whole
  <1> QED BY <1>1, <1>2, TypedAlways, HonestAlways, PTL DEF RestoreSpec

\* A file is given up only after the connection was lost, the client's disk
\* failed, or somebody changed that very file on the server after the LIST.
THEOREM FailuresHaveCause == RestoreSpec => []FailsForCause
  <1>1. Caused => FailsForCause
    BY DEF Caused, FailsForCause
  <1> QED BY <1>1, CausedAlways, PTL

\* In every state, that of a process that has ended included, a file is the one
\* there was, the listed one or not there, but for the one just written: until it is
\* verified, and for good where the process ends at it because it cannot be hashed or
\* removed.  Then something had gone wrong with that file, and nothing was said of it.
THEOREM NothingTorn == RestoreSpec => []NoTornFile
  <1>1. ASSUME Typed, Honest, Caused PROVE NoTornFile
    <2> SUFFICES ASSUME NEW n \in Names, ~Whole(n), ~(at = "verify" /\ n = cur)
                 PROVE  LeftAtExit(n)
      BY DEF NoTornFile, Whole
    <2>1. at = "exited" /\ n = cur
      BY <1>1 DEF Honest
    <2>2. outcome[n] = "none"
      BY <1>1, <2>1 DEF Honest
    <2>3. n \in hindered
      BY <1>1, <2>1 DEF Caused, Whole
    <2> QED BY <2>1, <2>2, <2>3 DEF LeftAtExit
  <1> QED BY <1>1, TypedAlways, HonestAlways, CausedAlways, PTL
=============================================================================
