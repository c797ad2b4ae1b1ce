------------------------------ MODULE Restore ------------------------------
(***************************************************************************)
(* A client that restores, on its connection to the server of              *)
(* RequestHandler, which other clients of the user may be using: login,    *)
(* one LIST, and scheduler::retrieve of every name in it.                  *)
(*                                                                         *)
(* A file's digest is its content (see RequestHandler), so the list is     *)
(* what the user's files were at the LIST.  Prompts and the time things    *)
(* take are in ClientLink; nobody else changes the directory meanwhile.  A *)
(* restore that is killed leaves files that another one starts from, and   *)
(* it may start from any.                                                  *)
(*                                                                         *)
(* Operators that no other one uses (VerifyKeeps and the like) are faulty  *)
(* variants of the one that follows them: PROJECT.json names them, with    *)
(* the property each of them breaks.                                       *)
(***************************************************************************)
EXTENDS RequestHandler

CONSTANTS
    Me,           \* the connection of the client that restores
    User,         \* the user it logs in as
    Before,       \* the files there can be in its directory when it starts
    ClientFaults  \* may removing and writing a file of the client fail?

ASSUME RestoreAssumption ==
    /\ Me \in Conns /\ User \in Users
    /\ Before \subseteq [Names -> {None} \cup Content]
    /\ ClientFaults \in BOOLEAN

VARIABLES
    local,     \* local[n]: the content of file n of the client, or None
    at,        \* what the client is doing
    cur,       \* the file it is retrieving, or None
    todo,      \* the names of the list it has not come to
    listed,    \* the list, by name
    response,  \* the content the reply to RETRIEVE carries
    outcome,   \* outcome[n]: what the client has said of n
    original,  \* the files of the client when it started
    hindered   \* the names something has gone wrong with since the LIST: the
               \* connection lost, the client's disk, another session's request

client  == <<local, at, cur, todo, listed, response, outcome, original>>
allVars == <<vars, client, hindered>>

Phases   == {"start", "login", "list", "next", "ask", "reply", "verify",
             "ended", "exited"}
Outcomes == {"none", "skipped", "done", "failed"}
Files    == [Names -> {None} \cup Content]

ClientTypeOK ==
    /\ local \in Files /\ original \in Files /\ listed \in Files
    /\ at \in Phases
    /\ at \in {"ask", "reply", "verify"} => cur \in Names
    /\ at = "exited" => cur \in Names \cup {None}
    /\ at \notin {"ask", "reply", "verify", "exited"} => cur = None
    /\ todo \subseteq Names /\ hindered \subseteq Names
    /\ response \in {None} \cup Content
    /\ outcome \in [Names -> Outcomes]

NoFiles == [n \in Names |-> None]

RestoreInit ==
    /\ Init
    /\ local \in Before /\ original = local
    /\ at = "start" /\ cur = None /\ todo = {}
    /\ listed = NoFiles /\ response = None
    /\ outcome = [n \in Names |-> "none"]
    /\ hindered = {}

Up == conn[Me].open

\* Between the reply to LIST and the last file.
Busy == at \in {"next", "ask", "reply", "verify"}

\* What a step of the server hinders.
Hinders ==
    hindered' = IF ~Busy THEN hindered
                ELSE IF ~conn'[Me].open THEN Names
                ELSE hindered \cup {n \in Names : disk'[User][n] # listed[n]}

Exits == at' = "exited"

SaysOnly(n, result) ==
    /\ outcome' = [outcome EXCEPT ![n] = result]
    /\ at' = "next"
    /\ UNCHANGED cur

Says(n, result) ==
    /\ outcome' = [outcome EXCEPT ![n] = result]
    /\ at' = "next"
    /\ cur' = None

(***************************************************************************)
(* main and scheduler::restore: connect, log in, list.                     *)
(***************************************************************************)

Connect ==
    /\ at = "start"
    /\ Accept(Me)
    /\ at' = "login"
    /\ UNCHANGED <<local, cur, todo, listed, response, outcome, original, hindered>>

LogIn ==
    /\ at = "login"
    /\ Auth(Me, User)
    /\ at' = "list"
    /\ UNCHANGED <<local, cur, todo, listed, response, outcome, original, hindered>>

GetList ==
    /\ at = "list"
    /\ List(Me)
    /\ listed' = disk[User]
    /\ todo' = {n \in Names : disk[User][n] # None}
    /\ at' = "next"
    /\ UNCHANGED <<local, cur, response, outcome, original, hindered>>

\* The reply to AUTH or LIST does not come, or is an error.
NoList ==
    /\ at \in {"login", "list"}
    /\ \/ ~Up /\ UNCHANGED vars
       \/ AuthFailed(Me)
       \/ ListFailed(Me)
    /\ Exits
    /\ UNCHANGED <<local, cur, todo, listed, response, outcome, original, hindered>>

(***************************************************************************)
(* scheduler::retrieve.                                                    *)
(***************************************************************************)

SkipExisting(n) ==
    /\ at = "next" /\ n \in todo
    /\ local[n] # None
    /\ todo' = todo \ {n}
    /\ Says(n, "skipped")
    /\ UNCHANGED <<vars, local, listed, response, original, hindered>>

Skip(n) ==
    /\ at = "next" /\ n \in todo
    /\ local[n] = listed[n]
    /\ todo' = todo \ {n}
    /\ Says(n, "skipped")
    /\ UNCHANGED <<vars, local, listed, response, original, hindered>>

\* The file that is there is another one: it is removed, before the server is
\* asked.
Take(n) ==
    /\ at = "next" /\ n \in todo
    /\ local[n] # listed[n]
    /\ todo' = todo \ {n}
    /\ local' = [local EXCEPT ![n] = None]
    /\ cur' = n
    /\ at' = "ask"
    /\ UNCHANGED <<vars, listed, response, outcome, original, hindered>>

RemoveFails(n) ==
    /\ at = "next" /\ n \in todo /\ ClientFaults
    /\ local[n] \notin {None, listed[n]}
    /\ todo' = todo \ {n}
    /\ hindered' = hindered \cup {n}
    /\ Says(n, "failed")
    /\ UNCHANGED <<vars, local, listed, response, original>>

ServeRetrieveFirst ==
    /\ at = "ask"
    /\ Retrieve(Me, cur)
    /\ response' = <<>>
    /\ at' = "reply"
    /\ UNCHANGED <<local, cur, todo, listed, outcome, original, hindered>>

\* The request is served while the connection stands.
ServeRetrieve ==
    /\ at = "ask"
    /\ Retrieve(Me, cur)
    /\ response' = disk[User][cur]
    /\ at' = "reply"
    /\ UNCHANGED <<local, cur, todo, listed, outcome, original, hindered>>

\* The file is gone: back() of an empty queue ends the server.
ServeMissing ==
    /\ at = "ask" /\ Up
    /\ disk[User][cur] = None
    /\ Crash
    /\ UNCHANGED client
    /\ Hinders

UnansweredRetries ==
    /\ at \in {"ask", "reply"}
    /\ ~Up
    /\ response' = None
    /\ at' = "ask"
    /\ UNCHANGED <<vars, local, cur, todo, listed, outcome, original, hindered>>

\* The link is down, and the file is given up.
Unanswered ==
    /\ at \in {"ask", "reply"}
    /\ ~Up
    /\ response' = None
    /\ Says(cur, "failed")
    /\ UNCHANGED <<vars, local, todo, listed, original, hindered>>

\* The file is created, written and closed; what a full disk leaves out, nobody
\* tells.
StoreFile(fault) ==
    /\ at = "reply"
    /\ local' = [local EXCEPT ![cur] = Kept(response, fault)]
    /\ hindered' = IF fault THEN hindered \cup {cur} ELSE hindered
    /\ response' = None
    /\ at' = "verify"
    /\ UNCHANGED <<vars, cur, todo, listed, outcome, original>>

\* Its directory cannot be made, or the file cannot be opened.
StoreFails ==
    /\ at = "reply" /\ ClientFaults
    /\ response' = None
    /\ hindered' = hindered \cup {cur}
    /\ Says(cur, "failed")
    /\ UNCHANGED <<vars, local, todo, listed, original>>

VerifyKeeps ==
    /\ at = "verify"
    /\ Says(cur, IF local[cur] = listed[cur] THEN "done" ELSE "failed")
    /\ UNCHANGED <<vars, local, todo, listed, response, original, hindered>>

Verify ==
    /\ at = "verify"
    /\ IF local[cur] = listed[cur]
       THEN Says(cur, "done") /\ UNCHANGED local
       ELSE Says(cur, "failed") /\ local' = [local EXCEPT ![cur] = None]
    /\ UNCHANGED <<vars, todo, listed, response, original, hindered>>

\* A file that is there cannot be hashed, the directory of a new one can neither be
\* made nor be cleared of it, or a wrong one cannot be removed: the process ends
\* where it is, with what it has written still there.
HashThrows ==
    /\ ClientFaults
    /\ \/ at = "next" /\ \E n \in todo : local[n] # None
       \/ at \in {"reply", "verify"}
    /\ Exits
    /\ UNCHANGED <<vars, local, cur, todo, listed, response, outcome, original,
                   hindered>>

Done ==
    /\ at = "next" /\ todo = {}
    /\ at' = "ended"
    /\ UNCHANGED <<vars, local, cur, todo, listed, response, outcome, original,
                   hindered>>

(***************************************************************************)
(* The server and its other clients.                                       *)
(***************************************************************************)

\* The server shuts the connection down: the link is lost, or the client is
\* silent for too long, or gone.
CutOff ==
    /\ Shutdown(Me)
    /\ UNCHANGED client
    /\ Hinders

\* A connection is anybody's until the client has it.
OthersConns == IF at = "start" THEN Conns ELSE Conns \ {Me}

Others ==
    /\ \/ \E c \in OthersConns :
            \/ SessionStep(c)
            \/ \E p \in Paths : CreateStep(c, p) \/ UpdateStep(c, p)
            \/ \E n \in Names : EraseStep(c, n)
       \/ Crash
    /\ UNCHANGED client
    /\ Hinders

Retrieving ==
    \/ \E n \in Names : Skip(n) \/ Take(n) \/ RemoveFails(n)
    \/ ServeRetrieve \/ ServeMissing \/ Unanswered
    \/ \E fault \in IF ClientFaults THEN BOOLEAN ELSE {FALSE} : StoreFile(fault)
    \/ StoreFails \/ Verify \/ HashThrows \/ Done

RestoreNext ==
    \/ Connect \/ LogIn \/ GetList \/ NoList
    \/ Retrieving
    \/ CutOff \/ Others

RestoreSpec == RestoreInit /\ [][RestoreNext]_allVars

\* The loop of restore() is one thread's, and a server that is up serves.
FairRestore == RestoreSpec /\ WF_allVars(Retrieving)
-----------------------------------------------------------------------------
(***************************************************************************)
(* Properties.                                                             *)
(***************************************************************************)

\* A wrong file was written and the process ended at it, before a word of it was
\* said: its digest could not be computed, or it could not be removed.  It was
\* wrong because the disk, the link or another session had interfered.
LeftAtExit(n) ==
    at = "exited" /\ n = cur /\ n \in hindered /\ outcome[n] = "none"

\* In every state of a restore a file is the one there was, the listed one, or not
\* there, whatever the server, its other clients or the disk do, but for one: the
\* file just written and not verified yet, which stays as it is only when the
\* process ends right there (LeftAtExit).  (the digest compared after writing)
NoTornFile ==
    \A n \in Names :
        \/ local[n] \in {None, original[n], listed[n]}
        \/ at = "verify" /\ n = cur
        \/ LeftAtExit(n)

\* What the client calls done, or skipped, is there, as it was listed.
\* (scheduler::retrieve)
SaidIsThere ==
    \A n \in Names : outcome[n] \in {"done", "skipped"} => local[n] = listed[n]

\* A listed file is given up only because the connection was lost, the client's
\* disk failed, or another session touched the file after the LIST.
\* (scheduler::retrieve, handle_retrieve)
FailsForCause ==
    \A n \in Names : outcome[n] = "failed" => n \in hindered

\* A restore ends with a word on every file of the list, or the client exits.
\* (scheduler::restore)
RestoreEnds ==
    at = "next" ~> \/ at = "ended" /\ \A n \in Names : listed[n] = None \/ outcome[n] # "none"
                   \/ at = "exited"
=============================================================================
