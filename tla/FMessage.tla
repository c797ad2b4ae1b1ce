------------------------------ MODULE FMessage ------------------------------
(***************************************************************************)
(* How one file becomes a train of messages: class f_message of            *)
(* shared/communication, driven by the loop of the client's                *)
(* connection::async_post, and the test by which the server takes a        *)
(* message for the last of its train (tlv_view::verify_end).               *)
(*                                                                         *)
(* The file is its length, which others may change under the open stream,  *)
(* and the offsets at which its bytes happen to spell an END tag.  The     *)
(* lengths are those of the code, with the size of a message and of        *)
(* size_t as parameters.                                                   *)
(*                                                                         *)
(* Operators that no other one uses (InitUnsigned and the like) are faulty *)
(* variants of the one that follows them: PROJECT.json names them,         *)
(* with the property each of them breaks.                                  *)
(***************************************************************************)
EXTENDS Integers

CONSTANTS
    CHUNK_SIZE,  \* the size of a message, 64 KiB in the code
    HeaderSize,  \* header_size_: the message type and the ITEM of the sign
    SizeMod,     \* 2^w for the width w of size_t
    MaxSize      \* bound of the model: the length of a file

\* The tag and the length of a TLV; the END tag is one with no value.
TLVHeader == 3

\* What a message that is not the last carries.
Payload == CHUNK_SIZE - HeaderSize - TLVHeader

ASSUME SizeAssumption ==
    /\ CHUNK_SIZE \in Nat /\ HeaderSize \in Nat
    /\ SizeMod \in Nat /\ MaxSize \in Nat
    /\ CHUNK_SIZE - HeaderSize >= 9
    /\ MaxSize + CHUNK_SIZE < SizeMod

VARIABLES
    file,       \* the length of the file, -1 when it cannot be opened
    opened,     \* that length when the f_message was built
    marks,      \* the offsets at which the bytes 03 00 00 end in the file
    remaining,  \* remaining_
    completed,  \* completed_
    failed,     \* next_chunk has thrown, and the loop around it has ended
    sent,       \* the bytes of the file sent so far
    chunks,     \* the messages sent so far
    frame,      \* the size of the last of them
    ended,      \* whether the server took the last of them for the end
    touched     \* whether anyone has changed the file since it was opened

vars == <<file, opened, marks, remaining, completed, failed, sent, chunks,
          frame, ended, touched>>

Sizes == -1..MaxSize

\* Two occurrences of the bytes 03 00 00 do not overlap.
Marks(len) == {m \in SUBSET (3..len) : \A i, j \in m : i < j => i + 3 <= j}

TypeOK ==
    /\ file \in Sizes
    /\ opened \in Sizes
    /\ \A i \in marks : i \in Nat
    /\ remaining \in 0..(SizeMod - 1)
    /\ completed \in BOOLEAN
    /\ failed \in BOOLEAN
    /\ sent \in Nat
    /\ chunks \in Nat
    /\ frame \in Nat
    /\ ended \in BOOLEAN
    /\ touched \in BOOLEAN

InitUnsigned ==
    /\ file \in Sizes
    /\ opened = file
    /\ marks \in Marks(file)
    /\ remaining = file
    /\ completed = FALSE /\ failed = FALSE
    /\ sent = 0 /\ chunks = 0 /\ frame = 0
    /\ ended = FALSE /\ touched = FALSE

\* The constructor: tellg() on a stream that did not open is -1, and
\* remaining_ is a size_t.
Init ==
    /\ file \in Sizes
    /\ opened = file
    /\ marks \in Marks(file)
    /\ remaining = file % SizeMod
    /\ completed = FALSE /\ failed = FALSE
    /\ sent = 0 /\ chunks = 0 /\ frame = 0
    /\ ended = FALSE /\ touched = FALSE

Running == ~completed /\ ~failed

IsLastNoEnd == ~(remaining > CHUNK_SIZE - HeaderSize - TLVHeader)

IsLastOffByOne == ~(remaining > CHUNK_SIZE - HeaderSize - TLVHeader - TLVHeader - 1)

IsLast == ~(remaining > CHUNK_SIZE - HeaderSize - TLVHeader - TLVHeader)

ToReadAvailable == IF IsLast THEN file - sent ELSE Payload

ToRead == IF IsLast THEN remaining ELSE Payload

\* ifs_.read delivers what it was asked for.
CanRead == file # -1 /\ sent + ToRead <= file

\* verify_end looks at the last three bytes of the message: the END tag of the
\* last one, the end of the content of another.
VerifyEnd == IsLast \/ (sent + ToRead) \in marks

\* remaining_ is a size_t: when the file has grown, more than remaining_ bytes
\* can be read and the subtraction wraps round.
NextChunk ==
    /\ Running
    /\ CanRead
    /\ completed' = IsLast
    /\ remaining' = (remaining - ToRead) % SizeMod
    /\ sent' = sent + ToRead
    /\ chunks' = chunks + 1
    /\ frame' = IF IsLast THEN HeaderSize + TLVHeader + remaining + TLVHeader
                          ELSE CHUNK_SIZE
    /\ ended' = VerifyEnd
    /\ UNCHANGED <<file, opened, marks, failed, touched>>

UnexpectedEOFIgnored ==
    /\ Running
    /\ ~CanRead
    /\ completed' = IsLast
    /\ UNCHANGED <<file, opened, marks, remaining, failed, sent, chunks, frame, ended,
                   touched>>

UnexpectedEOF ==
    /\ Running
    /\ ~CanRead
    /\ completed' = IsLast
    /\ failed' = TRUE
    /\ UNCHANGED <<file, opened, marks, remaining, sent, chunks, frame, ended, touched>>

\* Another process truncates or extends the file.
Edit ==
    /\ Running /\ file # -1
    /\ file' \in 0..MaxSize
    /\ touched' = TRUE
    /\ UNCHANGED <<opened, marks, remaining, completed, failed, sent, chunks,
                   frame, ended>>

Next == NextChunk \/ UnexpectedEOF \/ Edit

Spec == Init /\ [][Next]_vars

\* The loop of async_post runs on its thread until next_chunk is false or
\* throws.
FairSpec == Spec /\ WF_vars(NextChunk \/ UnexpectedEOF)
-----------------------------------------------------------------------------
(***************************************************************************)
(* Properties.                                                             *)
(***************************************************************************)

\* A train that completed carries as many bytes as the file had when it was
\* opened: truncated or extended in between, the file is sent at that length or
\* the sending fails, and a remaining_ that wrapped round never comes back.
\* (f_message::next_chunk)
CompleteIsWhole == completed /\ ~failed => sent = opened

\* A message fits the buffer the server reads it into, which has CHUNK_SIZE
\* bytes, and a last message leaves room for its END tag.
\* (f_message::next_chunk, connection::read_request of the server)
FrameFits == frame <= CHUNK_SIZE

\* A file nobody touches fails in one case only: when its full messages leave
\* one or two bytes less than another, which is too much for a last message and
\* too little for a full one; next_chunk then throws, of a file that is whole.  (the two bounds of f_message::next_chunk)
FailsOnlyInGap ==
    failed /\ opened # -1 /\ ~touched =>
        opened - chunks * Payload \in {Payload - 2, Payload - 1}

\* The sending of a file ends, one way or the other.
\* (the loop of connection::async_post)
Terminates == <>~Running

\* "return true if the END TLV tag is present, false otherwise": the server
\* takes a message for the end of a file when it is.
EndIsEnd == ended => completed
=============================================================================
