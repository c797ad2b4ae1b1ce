--------------------------- MODULE FMessageProofs ---------------------------
(***************************************************************************)
(* Theorems about f_message, for every message size, sign and file length. *)
(***************************************************************************)
EXTENDS FMessage, TLAPS

\* sent and remaining_ make up the length the file was opened at, until
\* remaining_ wraps round; then it stays too large for a last message.
Balance ==
    \/ /\ opened # -1
       /\ sent + remaining = opened
    \/ /\ ~completed
       /\ sent + remaining = opened + SizeMod

\* Only whole payloads were sent before the last message, and a file nobody
\* touches is read within its length.
Progress ==
    /\ ~completed => sent = chunks * Payload
    /\ sent <= MaxSize
    /\ ~touched => file = opened /\ (opened # -1 => sent <= opened)

IInv == TypeOK /\ Balance /\ Progress /\ CompleteIsWhole /\ FrameFits /\ FailsOnlyInGap

LEMMA PayloadType == Payload \in Nat /\ Payload >= 6
  BY SizeAssumption DEF Payload, TLVHeader

\* One more full message.
LEMMA OneMore == \A k \in Nat : (k + 1) * Payload = k * Payload + Payload
  BY PayloadType

LEMMA ModSmall ==
    /\ \A x \in 0..(SizeMod - 1) : x % SizeMod = x
    /\ \A x \in (-SizeMod)..(-1) : x % SizeMod = x + SizeMod
  BY SizeAssumption

LEMMA InitInv == Init => IInv
  <1> SUFFICES ASSUME Init PROVE IInv
    OBVIOUS
  <1>1. remaining = IF opened = -1 THEN SizeMod - 1 ELSE opened
    BY ModSmall, SizeAssumption DEF Init, Sizes
  <1>2. \A i \in marks : i \in Nat
    BY SizeAssumption DEF Init, Marks, Sizes
  <1>3. 0 * Payload = 0
    BY PayloadType
  <1>4. TypeOK
    <2>1. completed \in BOOLEAN /\ failed \in BOOLEAN /\ ended \in BOOLEAN
          /\ touched \in BOOLEAN
      BY DEF Init
    <2>2. file \in Sizes /\ opened \in Sizes
      BY DEF Init
    <2>3. remaining \in 0..(SizeMod - 1)
      BY <1>1, SizeAssumption DEF Init, Sizes
    <2>4. sent \in Nat /\ chunks \in Nat /\ frame \in Nat
      BY DEF Init
    <2> QED BY <1>2, <2>1, <2>2, <2>3, <2>4 DEF TypeOK
  <1>5. Balance
    BY <1>1, SizeAssumption DEF Init, Balance, Sizes
  <1>6. Progress
    BY <1>3, SizeAssumption DEF Init, Progress, Sizes
  <1> QED BY <1>4, <1>5, <1>6, SizeAssumption
          DEF Init, IInv, CompleteIsWhole, FrameFits, FailsOnlyInGap

LEMMA NextInv == IInv /\ [Next]_vars => IInv'
  <1> SUFFICES ASSUME IInv, [Next]_vars PROVE IInv'
    OBVIOUS
  <1> USE SizeAssumption
  <1>t. /\ file \in Int /\ file <= MaxSize /\ opened \in Int /\ opened <= MaxSize
        /\ opened >= -1 /\ remaining \in Nat /\ remaining < SizeMod
        /\ sent \in Nat /\ chunks \in Nat /\ frame \in Nat /\ sent <= MaxSize
    BY DEF IInv, TypeOK, Progress, Sizes
  <1>p. Payload = CHUNK_SIZE - HeaderSize - 3 /\ Payload \in Nat /\ TLVHeader = 3
    BY PayloadType DEF Payload, TLVHeader
  <1>c. Payload' = Payload
    BY DEF Payload, TLVHeader
  <1>w. IsLast => opened # -1 /\ sent + remaining = opened
    BY <1>t, <1>p DEF IsLast, IInv, Balance
  <1>1. CASE UNCHANGED vars
    BY <1>1, <1>c DEF vars, IInv, TypeOK, Balance, Progress, CompleteIsWhole, FrameFits,
                FailsOnlyInGap
  <1>2. CASE Edit
    BY <1>2, <1>t DEF Edit, Running, IInv, TypeOK, Balance, Progress, CompleteIsWhole,
                      FrameFits, FailsOnlyInGap, Sizes
  <1>3. CASE UnexpectedEOF
    <2>1. ~touched /\ opened # -1 => ~IsLast /\ remaining < Payload
      BY <1>3, <1>t, <1>p DEF UnexpectedEOF, Running, CanRead, ToRead, IInv, Balance,
                              Progress
    <2>2. FailsOnlyInGap'
      <3>1. ~touched /\ opened # -1 => opened - chunks * Payload = remaining
        BY <1>3, <1>t DEF UnexpectedEOF, Running, IInv, Balance, Progress
      <3>2. ~IsLast => remaining >= Payload - 2
        BY <1>t, <1>p DEF IsLast
      <3>3. ~touched /\ opened # -1 => remaining \in {Payload - 2, Payload - 1}
        BY <2>1, <3>2, <1>t, <1>p
      <3> QED BY <1>3, <1>c, <3>1, <3>3 DEF UnexpectedEOF, FailsOnlyInGap
    <2>3. Balance'
      BY <1>3, <1>w DEF UnexpectedEOF, Running, IInv, Balance
    <2>4. Progress'
      BY <1>3, <1>c DEF UnexpectedEOF, Running, IInv, Progress
    <2>5. TypeOK'
      BY <1>3 DEF UnexpectedEOF, IsLast, IInv, TypeOK
    <2> QED BY <1>3, <2>2, <2>3, <2>4, <2>5 DEF UnexpectedEOF, IInv, CompleteIsWhole,
                                                FrameFits
  <1>4. CASE NextChunk
    <2>1. /\ ~completed /\ ~failed
          /\ file # -1 /\ sent + ToRead <= file
          /\ completed' = IsLast
          /\ remaining' = (remaining - ToRead) % SizeMod
          /\ sent' = sent + ToRead
          /\ chunks' = chunks + 1
          /\ opened' = opened /\ file' = file /\ marks' = marks /\ failed' = failed
          /\ touched' = touched
      BY <1>4 DEF NextChunk, Running, CanRead
    <2>2. ToRead \in Nat /\ sent' \in Nat /\ sent' <= MaxSize
      BY <2>1, <1>t, <1>p DEF ToRead
    <2>3. CASE IsLast
      <3>1. ToRead = remaining /\ remaining <= Payload - 3
        BY <2>3, <1>t, <1>p DEF ToRead, IsLast
      <3>2. remaining' = 0
        BY <2>1, <3>1, <1>t, ModSmall
      <3>3. opened # -1 /\ sent' = opened
        BY <2>1, <2>3, <3>1, <1>w
      <3>4. frame' = HeaderSize + 3 + remaining + 3
        BY <1>4, <2>3, <1>p DEF NextChunk
      <3>5. ended' \in BOOLEAN
        BY <1>4 DEF NextChunk, VerifyEnd, IsLast
      <3>6. completed' = TRUE
        BY <2>1, <2>3 DEF IsLast
      <3>7. TypeOK'
        BY <2>1, <2>2, <3>1, <3>2, <3>4, <3>5, <3>6, <1>t, <1>p DEF IInv, TypeOK
      <3>8. Balance' /\ CompleteIsWhole'
        BY <2>1, <3>2, <3>3, <3>6, <1>t DEF Balance, CompleteIsWhole
      <3>9. Progress'
        BY <2>1, <2>2, <3>3, <3>6, <1>t DEF IInv, Progress
      <3>10. FrameFits' /\ FailsOnlyInGap'
        BY <2>1, <3>1, <3>4, <1>t, <1>p DEF FrameFits, FailsOnlyInGap
      <3> QED BY <3>7, <3>8, <3>9, <3>10 DEF IInv
    <2>4. CASE ~IsLast
      <3>1. ToRead = Payload /\ remaining >= Payload - 2
        BY <2>4, <1>t, <1>p DEF ToRead, IsLast
      <3>2. sent' = chunks' * Payload'
        BY <2>1, <3>1, OneMore, <1>t, <1>c DEF IInv, Progress
      <3>3. \/ remaining >= Payload /\ remaining' = remaining - Payload
            \/ remaining < Payload /\ remaining' = remaining - Payload + SizeMod
        BY <2>1, <3>1, <1>t, <1>p, ModSmall
      <3>4. Balance'
        BY <2>1, <2>2, <2>4, <3>1, <3>3, <1>t, <1>p DEF IInv, Balance
      <3>5. Progress'
        BY <2>1, <2>2, <3>2, <1>t DEF IInv, Progress
      <3>6. frame' = CHUNK_SIZE
        BY <1>4, <2>4 DEF NextChunk
      <3>7. ended' \in BOOLEAN
        BY <1>4 DEF NextChunk, VerifyEnd, IsLast
      <3>8. TypeOK'
        <4>1. remaining' \in 0..(SizeMod - 1)
          BY <2>2, <3>1, <3>3, <1>t, <1>p
        <4>2. completed' = FALSE
          BY <2>1, <2>4 DEF IsLast
        <4>3. file' \in Sizes /\ opened' \in Sizes /\ failed' \in BOOLEAN /\ touched' \in BOOLEAN
              /\ \A i \in marks' : i \in Nat
          BY <2>1 DEF IInv, TypeOK
        <4>4. sent' \in Nat /\ chunks' \in Nat /\ frame' \in Nat
          BY <2>1, <2>2, <3>6, <1>t
        <4> QED BY <3>7, <4>1, <4>2, <4>3, <4>4 DEF TypeOK
      <3> QED BY <2>1, <2>4, <3>4, <3>5, <3>6, <3>8
              DEF IInv, CompleteIsWhole, FrameFits, FailsOnlyInGap
    <2> QED BY <2>3, <2>4
  <1> QED BY <1>1, <1>2, <1>3, <1>4 DEF Next

LEMMA InvAlways == Spec => []IInv
  BY InitInv, NextInv, PTL DEF Spec

\* For every size of files, messages and size_t, lengths and remaining_ stay
\* within their types.
THEOREM FMessageTyped == Spec => []TypeOK
  BY InvAlways, PTL DEF IInv

\* Whatever happens to the file under the stream, what is sent to its end is as
\* long as the file was when it was opened.
THEOREM CompletedIsWhole == Spec => []CompleteIsWhole
  BY InvAlways, PTL DEF IInv

\* Every message fits the server's buffer.
THEOREM FramesFit == Spec => []FrameFits
  BY InvAlways, PTL DEF IInv

\* A file nobody touches is refused at two lengths in every Payload, and at no
\* other.
THEOREM OnlyTheGapFails == Spec => []FailsOnlyInGap
  BY InvAlways, PTL DEF IInv
=============================================================================
