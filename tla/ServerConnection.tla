-------------------------- MODULE ServerConnection --------------------------
(***************************************************************************)
(* One connection of the server: class connection of server/core, from its *)
(* handshake to its shutdown, with the queue of replies it writes          *)
(* (communication/message_queue) and the client that reads them            *)
(* (connection::read of client/core).                                      *)
(*                                                                         *)
(* The connection always has an operation of the socket under way; its     *)
(* completion is a handler queued on the strand, which runs handlers one   *)
(* at a time in their order.  The timeout timer queues its handler there   *)
(* too.  cancel() and expires_after() stop a timer that runs, but not a    *)
(* handler that is queued already.                                         *)
(*                                                                         *)
(* What a request does to files is the subject of RequestHandler; here it  *)
(* is the replies it leaves.  A message is the sequence of its TLVs.       *)
(*                                                                         *)
(* Operators that no other one uses (AddTLVOver and the like) are faulty   *)
(* variants of the one that follows them: PROJECT.json names them,         *)
(* with the property each of them breaks.                                  *)
(***************************************************************************)
EXTENDS Integers, SequencesExt

CONSTANTS
    CHUNK_SIZE,  \* the size a reply is split at, 64 KiB in the code
    Signs,       \* the lengths of the signs of files
    MaxItems,    \* bounds of the model: the files of a LIST,
    MaxParts,    \* the messages of a file that is retrieved,
    MaxRequests  \* and the requests of the client

ASSUME ConnectionAssumption ==
    /\ CHUNK_SIZE \in Nat /\ Signs \subseteq Nat
    /\ MaxItems \in Nat /\ MaxParts \in Nat /\ MaxRequests \in Nat

VARIABLES
    ops,        \* the operations under way on the socket
    ready,      \* the handlers queued on the strand
    armed,      \* is the timeout timer running?
    timed_out,  \* timed_out
    shut,       \* has shutdown() been called?
    replies,    \* replies_
    msg,        \* msg_, the message being written
    up,         \* is the server process running?
    client,     \* the client: what it is doing, and the requests it may still make
    request,    \* the request it has sent, until it is handled, or "none"
    wire,       \* the messages it has not read
    got,        \* the TLVs it has read of the present reply
    owed        \* the TLVs the handler of the request has put into that reply

cvars == <<client, request, wire, got>>
svars == <<ops, ready, armed, timed_out, shut, replies, msg, up, owed>>
vars  == <<svars, cvars>>

\* The operations, by their completion: more and last are the two ways the
\* writing of a message may go on.
Ops == {"handshake", "header", "payload", "size", "more", "last"}

Handler == [op : Ops \cup {"timer"}, ok : BOOLEAN]

Requests == {"LIST", "RETRIEVE", "COMMAND"}

(***************************************************************************)
(* The queue of replies.                                                   *)
(***************************************************************************)

TLV(type, length) == [type |-> type, length |-> length]

\* The message type, and a tag and two bytes of length before every value.
SizeOf(m) ==
    LET size[n \in 0..Len(m)] == IF n = 0 THEN 1 ELSE size[n - 1] + 3 + m[n].length
    IN  size[Len(m)]

\* An empty message; there is none in the queue of a RETRIEVE.
NewQueue == << <<>> >>

AddTLVOver(q, t) ==
    IF SizeOf(Last(q)) + 3 + t.length <= CHUNK_SIZE
    THEN [q EXCEPT ![Len(q)] = Append(@, t)]
    ELSE [q EXCEPT ![Len(q)] = <<t>>]

AddTLVUncounted(q, t) ==
    IF SizeOf(Last(q)) + t.length <= CHUNK_SIZE
    THEN [q EXCEPT ![Len(q)] = Append(@, t)]
    ELSE Append(q, <<t>>)

AddTLV(q, t) ==
    IF SizeOf(Last(q)) + 3 + t.length <= CHUNK_SIZE
    THEN [q EXCEPT ![Len(q)] = Append(@, t)]
    ELSE Append(q, <<t>>)

\* The queue to which the TLVs have been added, one after the other.
Queued(tlvs) ==
    LET queue[n \in 0..Len(tlvs)] ==
            IF n = 0 THEN NewQueue ELSE AddTLV(queue[n - 1], tlvs[n])
    IN  queue[Len(tlvs)]

\* What close_response adds.
Closing(type, length) == <<TLV(type, length), TLV("END", 0)>>

\* The codes of errors have one or three digits.
Errors == {Closing("ERROR", n) : n \in {1, 3}}

Items == {[i \in DOMAIN s |-> TLV("ITEM", s[i])] : s \in BoundedSeq(Signs, MaxItems)}

\* The TLVs the handlers of request_handler add to a reply: the signs of a LIST, or
\* the one a CREATE, an UPDATE or an ERASE came with, and the result.
Answers(kind) ==
    {s \o t : s \in {i \in Items : kind = "LIST" \/ Len(i) <= 1},
              t \in Errors \cup {Closing("OK", 0)}}

\* The messages of a file; the content of one stands for its place.
FilePart(i, n) ==
    LET part == <<TLV("ITEM", 0), TLV("CONTENT", i)>>
    IN  IF i = n THEN Append(part, TLV("END", 0)) ELSE part

File(n) == [i \in 1..n |-> FilePart(i, n)]

TypeOK ==
    /\ ops \subseteq Ops
    /\ ready \in Seq(Handler)
    /\ armed \in BOOLEAN /\ timed_out \in BOOLEAN /\ shut \in BOOLEAN /\ up \in BOOLEAN
    /\ client \in [phase : {"idle", "reading", "closed", "gone"}, left : Nat]
    /\ request \in Requests \cup {"none"}
    /\ \A i \in DOMAIN replies : SizeOf(replies[i]) <= CHUNK_SIZE

-----------------------------------------------------------------------------
Init ==
    /\ ops = {"handshake"}
    /\ ready = <<>>
    /\ armed = TRUE
    /\ timed_out = FALSE /\ shut = FALSE
    /\ replies = <<>> /\ msg = <<>>
    /\ up = TRUE
    /\ client = [phase |-> "idle", left |-> MaxRequests]
    /\ request = "none"
    /\ wire = <<>> /\ got = <<>> /\ owed = <<>>

(***************************************************************************)
(* The socket and the clock.                                               *)
(***************************************************************************)

Here == client.phase \in {"idle", "reading"}

\* A read completes when there is something to read, a write at any time.
Completes(o) ==
    /\ up /\ o \in ops /\ ~shut
    /\ o \in {"header", "payload"} => request # "none"
    /\ o = "handshake" => Here
    /\ ops' = ops \ {o}
    /\ ready' = Append(ready, [op |-> o, ok |-> TRUE])
    /\ wire' = IF o \in {"more", "last"} THEN Append(wire, msg) ELSE wire
    /\ UNCHANGED <<armed, timed_out, shut, replies, msg, up, owed, client, request, got>>

\* It fails on a socket that was shut down or whose other end is closed, and on
\* one whose other end is gone it may.
Fails(o) ==
    /\ up /\ o \in ops
    /\ shut \/ ~Here
    /\ ops' = ops \ {o}
    /\ ready' = Append(ready, [op |-> o, ok |-> FALSE])
    /\ UNCHANGED <<armed, timed_out, shut, replies, msg, up, owed, cvars>>

Expires ==
    /\ up /\ armed
    /\ armed' = FALSE
    /\ ready' = Append(ready, [op |-> "timer", ok |-> TRUE])
    /\ UNCHANGED <<ops, timed_out, shut, replies, msg, up, owed, cvars>>

(***************************************************************************)
(* The handlers.                                                           *)
(***************************************************************************)

Run(o, ok) == up /\ ready # <<>> /\ Head(ready) = [op |-> o, ok |-> ok] /\ ready' = Tail(ready)

\* if (this->timed_out) return;
Returns ==
    /\ timed_out
    /\ \E o \in Ops, ok \in BOOLEAN : Run(o, ok)
    /\ UNCHANGED <<ops, armed, timed_out, shut, replies, msg, up, owed, cvars>>

Succeeds(o) == ~timed_out /\ Run(o, TRUE)

Shutdown ==
    /\ shut' = TRUE
    /\ armed' = FALSE

\* Every handler of an operation that failed ends the connection.
ShutsDown ==
    /\ ~timed_out
    /\ \E o \in Ops : Run(o, FALSE)
    /\ Shutdown
    /\ UNCHANGED <<ops, timed_out, replies, msg, up, owed, cvars>>

\* The operations and their handlers hold the connection, the timer does not.
Held == ops # {} \/ \E i \in DOMAIN ready : ready[i].op # "timer"

TimesOutOpen ==
    /\ Run("timer", TRUE)
    /\ Held
    /\ timed_out' = TRUE
    /\ UNCHANGED <<ops, armed, shut, replies, msg, up, owed, cvars>>

TimesOut ==
    /\ Run("timer", TRUE)
    /\ Held
    /\ timed_out' = TRUE
    /\ Shutdown
    /\ UNCHANGED <<ops, replies, msg, up, owed, cvars>>

\* The handler of a timer that was queued when the connection was freed.
TimesOutFreed ==
    /\ Run("timer", TRUE)
    /\ ~Held
    /\ up' \in BOOLEAN
    /\ UNCHANGED <<ops, armed, timed_out, shut, replies, msg, owed, cvars>>

ReadRequestUntimed ==
    /\ Succeeds("handshake") \/ Succeeds("last")
    /\ ops' = ops \cup {"header"}
    /\ UNCHANGED <<armed, timed_out, shut, replies, msg, up, owed, cvars>>

\* After the handshake, or after the last message of a reply (handle_completion).
ReadRequest ==
    /\ Succeeds("handshake") \/ Succeeds("last")
    /\ armed' = TRUE
    /\ ops' = ops \cup {"header"}
    /\ UNCHANGED <<timed_out, shut, replies, msg, up, owed, cvars>>

ReadPayload ==
    /\ Succeeds("header")
    /\ armed' = TRUE
    /\ ops' = ops \cup {"payload"}
    /\ UNCHANGED <<timed_out, shut, replies, msg, up, owed, cvars>>

\* What the handlers of requests leave in the queue; a RETRIEVE that fails is
\* RetrieveFails.
Replies(kind) ==
    \/ /\ kind = "RETRIEVE"
       /\ \E n \in 1..MaxParts : replies' = File(n) /\ owed' = FlattenSeq(File(n))
    \/ /\ kind \in {"LIST", "COMMAND"}
       /\ \E tlvs \in Answers(kind) :
              replies' = Queued(tlvs) /\ owed' = tlvs

HandleRequestLate ==
    /\ Run("payload", TRUE)
    /\ armed' = FALSE
    /\ Replies(request)
    /\ request' = "none"
    /\ ops' = ops \cup {"size"}
    /\ UNCHANGED <<timed_out, shut, msg, up, client, wire, got>>

HandleRequestPipelined ==
    /\ Succeeds("payload")
    /\ armed' = TRUE
    /\ Replies(request)
    /\ request' = "none"
    /\ ops' = ops \cup {"size", "header"}
    /\ UNCHANGED <<timed_out, shut, msg, up, client, wire, got>>

\* The request is handled, and write_response writes the size of the first reply.
HandleRequest ==
    /\ Succeeds("payload")
    /\ armed' = FALSE
    /\ Replies(request)
    /\ request' = "none"
    /\ ops' = ops \cup {"size"}
    /\ UNCHANGED <<timed_out, shut, msg, up, client, wire, got>>

\* An error of a RETRIEVE is added to the last message of an empty queue.
RetrieveFails ==
    /\ Succeeds("payload")
    /\ request = "RETRIEVE"
    /\ up' = FALSE
    /\ UNCHANGED <<ops, armed, timed_out, shut, replies, msg, owed, cvars>>

WriteMessage ==
    /\ Succeeds("size")
    /\ msg' = Head(replies)
    /\ replies' = Tail(replies)
    /\ ops' = ops \cup {IF Tail(replies) = <<>> THEN "last" ELSE "more"}
    /\ UNCHANGED <<armed, timed_out, shut, up, owed, cvars>>

WriteResponse ==
    /\ Succeeds("more")
    /\ ops' = ops \cup {"size"}
    /\ UNCHANGED <<armed, timed_out, shut, replies, msg, up, owed, cvars>>

(***************************************************************************)
(* The client.                                                             *)
(***************************************************************************)

Asks(kind) ==
    /\ client.phase = "idle" /\ client.left > 0
    /\ client' = [phase |-> "reading", left |-> client.left - 1]
    /\ request' = kind
    /\ got' = <<>>
    /\ UNCHANGED <<svars, wire>>

HasEND(tlvs) == \E i \in DOMAIN tlvs : tlvs[i].type = "END"

\* read() looks for an END among all the TLVs it has, the first message or not.
Reads ==
    /\ client.phase = "reading" /\ wire # <<>>
    /\ got' = got \o Head(wire)
    /\ wire' = Tail(wire)
    /\ client' = [client EXCEPT !.phase = IF HasEND(got') THEN "idle" ELSE "reading"]
    /\ UNCHANGED <<svars, request>>

\* It meets the end of the connection.
Loses ==
    /\ Here /\ wire = <<>>
    /\ shut \/ ~up
    /\ client' = [client EXCEPT !.phase = "closed"]
    /\ UNCHANGED <<svars, request, wire, got>>

\* It closes the connection, or is cut off without a word.
Leaves ==
    /\ Here
    /\ \E phase \in {"closed", "gone"} : client' = [client EXCEPT !.phase = phase]
    /\ UNCHANGED <<svars, request, wire, got>>

(***************************************************************************)
(* The specification.                                                      *)
(***************************************************************************)

Strand ==
    \/ Returns \/ ShutsDown \/ TimesOut \/ TimesOutFreed
    \/ ReadRequest \/ ReadPayload \/ HandleRequest \/ RetrieveFails
    \/ WriteMessage \/ WriteResponse

Next ==
    \/ Strand
    \/ \E o \in Ops : Completes(o) \/ Fails(o)
    \/ Expires
    \/ \E kind \in Requests : Asks(kind)
    \/ Reads \/ Loses \/ Leaves

Spec == Init /\ [][Next]_vars

\* The threads of the server run what is queued, a socket does what it can, 60
\* seconds go by, and a client that waits for a reply reads it.  Of a client that
\* is gone the server's socket need never know.
FairSpec ==
    /\ Spec
    /\ WF_vars(Strand) /\ WF_vars(Expires) /\ WF_vars(Reads) /\ WF_vars(Loses)
    /\ \A o \in Ops : /\ WF_vars(Completes(o))
                      /\ WF_vars(Fails(o) /\ client.phase # "gone")
-----------------------------------------------------------------------------
(***************************************************************************)
(* Properties.                                                             *)
(***************************************************************************)

\* One operation at a time: no read is under way beside a write, and no handler
\* runs beside an operation that uses what it changes (buffer_, msg_, replies_).
\* (class connection: each handler starts the next operation)
OneOperation ==
    \A o \in ops :
        ops = {o} /\ \A i \in DOMAIN ready : ready[i].op = "timer"

\* No request is handled for a session that was shut down: it would open again
\* the stream that shutdown() has erased, and nobody would erase it.
\* (connection::handle_request, the tests of timed_out)
NothingAfterShutdown == [][request # "none" /\ request' = "none" => ~shut]_vars

\* A client that has read a reply has read all of it, in its order, and nothing
\* is left for its next request, however the reply was split.
\* (message_queue::add_TLV, connection::write_response, connection::read)
ReplyIsWhole == client.phase = "idle" => got = owed /\ wire = <<>>

\* A client that waits for a reply gets it or finds the connection closed.
\* (connection::write_response, shutdown, connection::read)
WaitEnds == client.phase = "reading" ~> client.phase # "reading"

\* A client cut off without a word is detected.  (connection::schedule_timeout)
SilentIsShut == client.phase = "gone" ~> shut \/ ~up
=============================================================================
