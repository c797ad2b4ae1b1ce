----------------------- MODULE ServerConnectionProofs -----------------------
(***************************************************************************)
(* Theorems about a connection of the server, for any requests, replies    *)
(* and number of either.                                                   *)
(***************************************************************************)
EXTENDS ServerConnection, SequenceTheorems, WellFoundedInduction, TLAPS

\* The handlers of operations, among those queued.
OfOperation(i) == i \in DOMAIN ready /\ ready[i].op # "timer"

\* Only one operation or one handler of an operation holds the connection, and
\* nothing does when an error has shut it down; when the timer has, what is left
\* only returns.
IInv ==
    /\ ready \in Seq(Handler)
    /\ OneOperation
    /\ \A i, j : OfOperation(i) /\ OfOperation(j) => i = j
    /\ shut /\ ~timed_out => ~Held

LEMMA TailHandlers ==
    ASSUME ready \in Seq(Handler), ready # <<>>
    PROVE  /\ Tail(ready) \in Seq(Handler)
           /\ Head(ready) = ready[1] /\ 1 \in DOMAIN ready
           /\ \A i \in DOMAIN Tail(ready) :
                  /\ i \in Nat /\ i # 0
                  /\ i + 1 \in DOMAIN ready /\ Tail(ready)[i] = ready[i + 1]
  OBVIOUS

LEMMA AppendHandlers ==
    ASSUME ready \in Seq(Handler), NEW h \in Handler
    PROVE  /\ Append(ready, h) \in Seq(Handler)
           /\ \A i \in DOMAIN Append(ready, h) :
                  \/ i \in DOMAIN ready /\ Append(ready, h)[i] = ready[i]
                  \/ i = Len(ready) + 1 /\ Append(ready, h)[i] = h
  OBVIOUS

\* What the running of a handler leaves: nothing of an operation, when it was one
\* of an operation itself.
LEMMA Running ==
    ASSUME IInv, NEW o, NEW ok, Run(o, ok)
    PROVE  /\ ready' \in Seq(Handler)
           /\ o # "timer" => Held /\ ops = {} /\ \A i : ~OfOperation(i)'
           /\ \A i, j : OfOperation(i)' /\ OfOperation(j)' => i = j
           /\ (\E i : OfOperation(i)') => \E i : OfOperation(i)
  <1>1. ready \in Seq(Handler) /\ ready # <<>> /\ ready' = Tail(ready) /\ ready[1].op = o
    BY TailHandlers DEF IInv, Run
  <1>2. \A i : OfOperation(i)' => i \in Nat /\ i # 0 /\ OfOperation(i + 1)
    BY <1>1, TailHandlers DEF OfOperation
  <1>3. o # "timer" => OfOperation(1)
    BY <1>1, TailHandlers DEF OfOperation
  <1>4. ASSUME o # "timer", NEW i, OfOperation(i)' PROVE FALSE
    <2>1. i \in Nat /\ i # 0 /\ i + 1 = 1
      BY <1>2, <1>3, <1>4 DEF IInv
    <2> QED BY <2>1
  <1>5. \A i, j : OfOperation(i)' /\ OfOperation(j)' => i = j
    <2>1. ASSUME NEW i, NEW j, OfOperation(i)', OfOperation(j)' PROVE i = j
      <3>1. i \in Nat /\ j \in Nat /\ i + 1 = j + 1
        BY <1>2, <2>1 DEF IInv
      <3> QED BY <3>1
    <2> QED BY <2>1
  <1>6. o # "timer" => Held /\ ops = {}
    BY <1>3 DEF IInv, OneOperation, OfOperation, Held
  <1> QED BY <1>1, <1>2, <1>4, <1>5, <1>6

LEMMA InitInv == Init => IInv
  BY DEF Init, IInv, OneOperation, OfOperation, Held, Ops

\* A handler of an operation that starts one operation, or none, in a session that
\* has not been shut down.
LEMMA Continuing ==
    ASSUME IInv, NEW o \in Ops, Succeeds(o),
           \/ ops' = ops
           \/ \E n \in Ops : ops' = ops \cup {n},
           shut' = shut
    PROVE  IInv' /\ ~shut
  <1>1. ~timed_out /\ o # "timer" /\ \E ok \in BOOLEAN : Run(o, ok)
    BY DEF Succeeds, Ops
  <1>2. ready' \in Seq(Handler) /\ Held /\ ops = {} /\ \A i : ~OfOperation(i)'
    BY <1>1, Running
  <1>3. ~shut
    BY <1>1, <1>2 DEF IInv
  <1>4. OneOperation'
    BY <1>2 DEF OneOperation, OfOperation
  <1> QED BY <1>2, <1>3, <1>4 DEF IInv

LEMMA NextInv == IInv /\ [Next]_vars => IInv'
  <1> SUFFICES ASSUME IInv, [Next]_vars PROVE IInv'
    OBVIOUS
  <1>u. CASE UNCHANGED svars
    BY <1>u DEF svars, IInv, OneOperation, OfOperation, Held
  <1>1. CASE UNCHANGED vars
    BY <1>1, <1>u DEF vars
  <1>2. ASSUME NEW o \in Ops, Completes(o) \/ Fails(o) PROVE IInv'
    <2>1. o \in ops /\ ops' = ops \ {o} /\ shut' = shut /\ timed_out' = timed_out
      BY <1>2 DEF Completes, Fails
    <2>2. PICK ok \in BOOLEAN : ready' = Append(ready, [op |-> o, ok |-> ok])
      BY <1>2 DEF Completes, Fails
    <2>3. [op |-> o, ok |-> ok] \in Handler
      BY DEF Handler
    <2>4. ops = {o} /\ \A i : ~OfOperation(i)
      BY <2>1 DEF IInv, OneOperation, OfOperation
    <2>5. ready' \in Seq(Handler) /\ \A i : OfOperation(i)' => i = Len(ready) + 1
      BY <2>2, <2>3, <2>4, AppendHandlers DEF IInv, OfOperation
    <2>6. ops' = {}
      BY <2>1, <2>4
    <2>7. Held
      BY <2>1 DEF Held
    <2> QED BY <2>1, <2>5, <2>6, <2>7 DEF IInv, OneOperation
  <1>3. CASE Expires
    <2>1. ready' = Append(ready, [op |-> "timer", ok |-> TRUE])
          /\ ops' = ops /\ shut' = shut /\ timed_out' = timed_out
      BY <1>3 DEF Expires
    <2>2. [op |-> "timer", ok |-> TRUE] \in Handler
      BY DEF Handler
    <2>3. ready' \in Seq(Handler) /\ \A i : OfOperation(i)' => OfOperation(i)
      BY <2>1, <2>2, AppendHandlers DEF IInv, OfOperation
    <2>4. \A i \in DOMAIN ready' : ~OfOperation(i)' => ready'[i].op = "timer"
      BY DEF OfOperation
    <2>5. OneOperation'
      BY <2>1, <2>3, <2>4 DEF IInv, OneOperation, OfOperation
    <2>6. Held' => Held
      BY <2>1, <2>3 DEF Held, OfOperation
    <2> QED BY <2>1, <2>3, <2>5, <2>6 DEF IInv
  <1>4. CASE Strand
    <2>1. CASE Returns
      <3>1. PICK o \in Ops, ok \in BOOLEAN : Run(o, ok)
        BY <2>1 DEF Returns
      <3>2. o # "timer" /\ timed_out' /\ ops' = ops
        BY <2>1 DEF Returns, Ops
      <3>3. ready' \in Seq(Handler) /\ ops = {} /\ \A i : ~OfOperation(i)'
        BY <3>1, <3>2, Running
      <3> QED BY <3>2, <3>3 DEF IInv, OneOperation
    <2>2. CASE ShutsDown
      <3>1. PICK o \in Ops, ok \in BOOLEAN : Run(o, ok)
        BY <2>2 DEF ShutsDown
      <3>2. o # "timer" /\ ops' = ops
        BY <2>2 DEF ShutsDown, Ops
      <3>3. ready' \in Seq(Handler) /\ ops = {} /\ \A i : ~OfOperation(i)'
        BY <3>1, <3>2, Running
      <3>4. ~Held'
        BY <3>2, <3>3 DEF Held, OfOperation
      <3> QED BY <3>2, <3>3, <3>4 DEF IInv, OneOperation
    <2>3. CASE TimesOut \/ TimesOutFreed
      <3>1. Run("timer", TRUE) /\ ops' = ops /\ (timed_out' \/ (~Held /\ UNCHANGED <<shut, timed_out>>))
        BY <2>3 DEF TimesOut, TimesOutFreed
      <3>2. /\ ready' \in Seq(Handler)
            /\ \A i, j : OfOperation(i)' /\ OfOperation(j)' => i = j
            /\ (\E i : OfOperation(i)') => \E i : OfOperation(i)
        BY <3>1, Running
      <3>3. OneOperation'
        BY <3>1, <3>2 DEF IInv, OneOperation, OfOperation
      <3>4. ~Held => ~Held'
        BY <3>1, <3>2 DEF Held, OfOperation
      <3> QED BY <3>1, <3>2, <3>3, <3>4 DEF IInv
    <2>4. CASE ReadRequest
      BY <2>4, Continuing DEF ReadRequest, Ops
    <2>5. CASE ReadPayload
      BY <2>5, Continuing DEF ReadPayload, Ops
    <2>6. CASE HandleRequest
      BY <2>6, Continuing DEF HandleRequest, Ops
    <2>7. CASE RetrieveFails
      BY <2>7, Continuing DEF RetrieveFails, Ops
    <2>8. CASE WriteMessage
      BY <2>8, Continuing DEF WriteMessage, Ops
    <2>9. CASE WriteResponse
      BY <2>9, Continuing DEF WriteResponse, Ops
    <2> QED BY <1>4, <2>1, <2>2, <2>3, <2>4, <2>5, <2>6, <2>7, <2>8, <2>9 DEF Strand
  <1>5. CASE (\E kind \in Requests : Asks(kind)) \/ Reads \/ Loses \/ Leaves
    BY <1>5, <1>u DEF Asks, Reads, Loses, Leaves
  <1> QED BY <1>1, <1>2, <1>3, <1>4, <1>5 DEF Next

LEMMA InvAlways == Spec => []IInv
  BY InitInv, NextInv, PTL DEF Spec

\* The one step that takes a request is that of HandleRequest.
LEMMA Taking ==
    ASSUME [Next]_vars, request # "none", request' = "none"
    PROVE  HandleRequest
  <1>1. CASE UNCHANGED vars
    BY <1>1 DEF vars, cvars
  <1>2. CASE Strand
    BY <1>2 DEF Strand, Returns, ShutsDown, TimesOut, TimesOutFreed, ReadRequest, ReadPayload,
                RetrieveFails, WriteMessage, WriteResponse, cvars
  <1>3. CASE (\E o \in Ops : Completes(o) \/ Fails(o)) \/ Expires
    BY <1>3 DEF Completes, Fails, Expires, cvars
  <1>4. CASE \E kind \in Requests : Asks(kind)
    BY <1>4 DEF Asks, Requests
  <1>5. CASE Reads \/ Loses \/ Leaves
    BY <1>5 DEF Reads, Loses, Leaves
  <1> QED BY <1>1, <1>2, <1>3, <1>4, <1>5 DEF Next

\* However errors, timeouts and the client interleave, a connection never has two
\* operations under way, nor runs a handler beside one.
THEOREM OperationsAreSerial == Spec => []OneOperation
  BY InvAlways, PTL DEF IInv

\* And it handles no request once its session was shut down.
THEOREM ShutdownIsFinal == Spec => NothingAfterShutdown
  <1>1. ASSUME IInv, [Next]_vars PROVE [request # "none" /\ request' = "none" => ~shut]_vars
    <2>1. ASSUME request # "none", request' = "none" PROVE ~shut
      <3>1. HandleRequest
        BY <1>1, <2>1, Taking
      <3> QED BY <1>1, <3>1, Continuing DEF HandleRequest, Ops
    <2> QED BY <2>1
  <1> QED BY <1>1, InvAlways, PTL DEF Spec, NothingAfterShutdown

(***************************************************************************)
(* The replies.  What recursion computes is proved over sets of numbers: a *)
(* set that holds 0, and n + 1 with n, holds every natural number.         *)
(***************************************************************************)

LEMMA LeastOf ==
    ASSUME NEW T, T \subseteq Nat, T # {}
    PROVE  \E n \in T : \A m \in T : n <= m
  <1> DEFINE less == {x \in Nat \X Nat : x[1] < x[2]}
  <1>1. IsWellFoundedOn(less, Nat)
    BY NatLessThanWellFounded DEF OpToRel
  <1>2. PICK n \in T : \A m \in T : ~ (<<m, n>> \in less)
    <2> HIDE DEF less
    <2> QED BY <1>1, WFMin
  <1>3. \A m \in T : ~(m < n)
    BY <1>2
  <1> QED BY <1>3

\* Induction, over a set of numbers.
LEMMA OnNaturals ==
    ASSUME NEW T, 0 \in T, \A n \in Nat : n \in T => n + 1 \in T
    PROVE  Nat \subseteq T
  <1> SUFFICES ASSUME Nat \ T # {} PROVE FALSE
    OBVIOUS
  <1> DEFINE R == Nat \ T
  <1>1. PICK n \in R : \A m \in R : n <= m
    BY LeastOf
  <1>2. n \in Nat /\ n # 0 /\ n - 1 \in Nat
    BY <1>1
  <1>3. n - 1 \notin R
    BY <1>1, <1>2
  <1>4. n - 1 \in T /\ (n - 1) + 1 = n
    BY <1>2, <1>3
  <1> QED BY <1>1, <1>2, <1>4

\* A recursion of n steps, from a base and a function for every step, has a result.
Recurs(S, b, n, F, g) ==
    g \in [0..n -> S] /\ g[0] = b /\ \A i \in 1..n : g[i] = F[i][g[i - 1]]

LEMMA Recursion ==
    ASSUME NEW S, NEW b \in S, NEW n \in Nat, NEW F, F \in [1..n -> [S -> S]]
    PROVE  \E g : Recurs(S, b, n, F, g)
  <1> DEFINE Reached(k) ==
               \E g \in [0..k -> S] : g[0] = b /\ \A i \in 1..k : g[i] = F[i][g[i - 1]]
             T == {k \in Nat : k <= n => Reached(k)}
  <1>1. 0 \in T
    <2> DEFINE g == [i \in 0..0 |-> b]
    <2>1. g \in [0..0 -> S] /\ g[0] = b /\ \A i \in 1..0 : g[i] = F[i][g[i - 1]]
      OBVIOUS
    <2>2. Reached(0)
      BY <2>1
    <2> QED BY <2>2
  <1>2. ASSUME NEW k \in Nat, k \in T PROVE k + 1 \in T
    <2> SUFFICES ASSUME k + 1 <= n PROVE Reached(k + 1)
      OBVIOUS
    <2>1. PICK g \in [0..k -> S] : g[0] = b /\ \A i \in 1..k : g[i] = F[i][g[i - 1]]
      BY <1>2
    <2> DEFINE h == [i \in 0..(k + 1) |-> IF i = k + 1 THEN F[k + 1][g[k]] ELSE g[i]]
    <2>2. F[k + 1] \in [S -> S] /\ g[k] \in S
      OBVIOUS
    <2>3. h \in [0..(k + 1) -> S]
      BY <2>2
    <2>4. h[0] = b
      BY <2>1
    <2>5. \A i \in 1..(k + 1) : h[i] = F[i][h[i - 1]]
      <3> TAKE i \in 1..(k + 1)
      <3>1. CASE i = k + 1
        BY <3>1
      <3>2. CASE i # k + 1
        <4>1. i \in 1..k /\ i - 1 \in 0..k /\ i - 1 # k + 1
          BY <3>2
        <4>2. h[i] = g[i] /\ h[i - 1] = g[i - 1]
          BY <4>1
        <4> QED BY <2>1, <4>1, <4>2
      <3> QED BY <3>1, <3>2
    <2> QED BY <2>3, <2>4, <2>5
  <1>3. n \in T
    BY <1>1, <1>2, OnNaturals
  <1> QED BY <1>3 DEF Recurs

(***************************************************************************)
(* Messages one after the other.                                           *)
(***************************************************************************)

Flattening(V, q, g) ==
    /\ g \in [0..Len(q) -> Seq(V)]
    /\ g[0] = <<>>
    /\ \A i \in 1..Len(q) : g[i] = g[i - 1] \o q[i]

LEMMA Flattens ==
    ASSUME NEW V, NEW q \in Seq(Seq(V))
    PROVE  \E g : Flattening(V, q, g) /\ FlattenSeq(q) = g[Len(q)]
  <1> DEFINE n == Len(q)
             F == [i \in 1..n |-> [x \in Seq(V) |-> x \o q[i]]]
  <1>0. n \in Nat
    BY LenProperties
  <1>1. n \in Nat /\ \A i \in 1..n : q[i] \in Seq(V)
    BY LenProperties
  <1>2. <<>> \in Seq(V)
    OBVIOUS
  <1>3. F \in [1..n -> [Seq(V) -> Seq(V)]]
    BY <1>1, ConcatProperties
  <1>4. PICK g \in [0..n -> Seq(V)] : g[0] = <<>> /\ \A i \in 1..n : g[i] = F[i][g[i - 1]]
    <2>1. \E g : Recurs(Seq(V), <<>>, n, F, g)
      <3> HIDE DEF F, n
      <3> QED BY <1>0, <1>2, <1>3, Recursion
    <2> QED BY <2>1 DEF Recurs
  <1>5. \A i \in 1..n : g[i] = g[i - 1] \o q[i]
    <2> TAKE i \in 1..n
    <2>1. i - 1 \in 0..n
      BY <1>0
    <2>2. g[i - 1] \in Seq(V)
      BY <1>4, <2>1
    <2> QED BY <1>4, <2>2
  <1>6. Flattening(V, q, g)
    BY <1>4, <1>5 DEF Flattening
  <1>7. CASE n = 0
    <2>1. q = <<>>
      BY <1>7, EmptySeq
    <2>2. FlattenSeq(q) = q
      BY <1>7 DEF FlattenSeq
    <2> QED BY <1>4, <1>6, <1>7, <2>1, <2>2
  <1>8. CASE n # 0
    <2> DEFINE Step(f) == [i \in 1..n |-> IF i = 1 THEN q[i] ELSE f[i - 1] \o q[i]]
               flatten == CHOOSE f : f = Step(f)
               h == [i \in 1..n |-> g[i]]
    <2>1. FlattenSeq(q) = flatten[n]
      BY <1>8 DEF FlattenSeq
    <2>2. h = Step(h)
      <3>1. \A i \in 1..n : h[i] = IF i = 1 THEN q[i] ELSE h[i - 1] \o q[i]
        <4> TAKE i \in 1..n
        <4>1. CASE i = 1
          <5>1. g[1] = <<>> \o q[1] /\ q[1] \in Seq(V)
            <6>1. 1 - 1 = 0 /\ 1 \in 1..n
              BY <1>0, <1>8
            <6> QED BY <1>1, <1>4, <1>5, <6>1
          <5> QED BY <4>1, <5>1, ConcatEmptySeq
        <4>2. CASE i # 1
          <5>1. i - 1 \in 1..n
            BY <1>1, <4>2
          <5> QED BY <1>5, <4>2, <5>1
        <4> QED BY <4>1, <4>2
      <3> QED BY <3>1
    <2>3. flatten = Step(flatten)
      <3> HIDE DEF Step, h
      <3> QED BY <2>2
    <2> DEFINE T == {i \in Nat : i + 1 <= n => flatten[i + 1] = g[i + 1]}
    <2> HIDE DEF flatten
    <2>4. \A i \in 1..n : flatten[i] = IF i = 1 THEN q[i] ELSE flatten[i - 1] \o q[i]
      BY <2>3
    <2>5. 0 \in T
      <3>1. 1 \in 1..n
        BY <1>1, <1>8
      <3>2. g[1] = h[1] /\ h[1] = q[1] /\ flatten[1] = q[1]
        BY <2>2, <2>4, <3>1
      <3> QED BY <3>2
    <2>6. ASSUME NEW i \in Nat, i \in T PROVE i + 1 \in T
      <3> SUFFICES ASSUME i + 2 <= n PROVE flatten[i + 2] = g[i + 2]
        OBVIOUS
      <3>1. i + 2 \in 1..n /\ i + 2 # 1 /\ (i + 2) - 1 = i + 1 /\ i + 1 <= n
        BY <1>1
      <3>2. flatten[i + 1] = g[i + 1]
        BY <2>6, <3>1
      <3>3. flatten[i + 2] = flatten[i + 1] \o q[i + 2]
        BY <2>4, <3>1
      <3>4. g[i + 2] = g[i + 1] \o q[i + 2]
        BY <1>5, <3>1
      <3> QED BY <3>2, <3>3, <3>4
    <2>7. n - 1 \in T
      <3>1. n - 1 \in Nat
        BY <1>0, <1>8
      <3>2. Nat \subseteq T
        <4> HIDE DEF T
        <4> QED BY <2>5, <2>6, OnNaturals
      <3> HIDE DEF T
      <3> QED BY <3>1, <3>2
    <2>8. flatten[n] = g[n]
      BY <1>1, <1>8, <2>7
    <2> QED BY <1>6, <2>1, <2>8
  <1> QED BY <1>7, <1>8

\* Flattenings of sequences that begin alike are alike so far.
Alike(p, q, n) == n <= Len(p) /\ n <= Len(q) /\ \A i \in 1..n : p[i] = q[i]

LEMMA FlatAlike ==
    ASSUME NEW V, NEW p \in Seq(Seq(V)), NEW q \in Seq(Seq(V)), NEW g, NEW h, NEW n \in Nat,
           Flattening(V, p, g), Flattening(V, q, h), Alike(p, q, n)
    PROVE  g[n] = h[n]
  <1> DEFINE T == {k \in Nat : k <= n => g[k] = h[k]}
  <1>1. 0 \in T
    BY DEF Flattening
  <1>2. ASSUME NEW k \in Nat, k \in T PROVE k + 1 \in T
    <2> SUFFICES ASSUME k + 1 <= n PROVE g[k + 1] = h[k + 1]
      OBVIOUS
    <2>1. k + 1 \in 1..n /\ k + 1 \in 1..Len(p) /\ k + 1 \in 1..Len(q) /\ (k + 1) - 1 = k
      BY LenProperties DEF Alike
    <2>2. g[k] = h[k] /\ p[k + 1] = q[k + 1]
      BY <1>2, <2>1 DEF Alike
    <2>3. g[k + 1] = g[k] \o p[k + 1] /\ h[k + 1] = h[k] \o q[k + 1]
      BY <2>1 DEF Flattening
    <2> QED BY <2>1, <2>2, <2>3
  <1>3. Nat \subseteq T
    <2> HIDE DEF T
    <2> QED BY <1>1, <1>2, OnNaturals
  <1> QED BY <1>3

LEMMA FlatAppend ==
    ASSUME NEW V, NEW q \in Seq(Seq(V)), NEW m \in Seq(V)
    PROVE  /\ FlattenSeq(<<>>) = <<>> /\ FlattenSeq(q) \in Seq(V)
           /\ FlattenSeq(Append(q, m)) = FlattenSeq(q) \o m
  <1> DEFINE p == Append(q, m)
  <1>1. /\ p \in Seq(Seq(V)) /\ Len(p) = Len(q) + 1 /\ Len(q) \in Nat
        /\ p[Len(q) + 1] = m /\ \A i \in 1..Len(q) : p[i] = q[i]
    BY AppendProperties, LenProperties
  <1>2. PICK g : Flattening(V, q, g) /\ FlattenSeq(q) = g[Len(q)]
    BY Flattens
  <1>3. PICK h : Flattening(V, p, h) /\ FlattenSeq(p) = h[Len(p)]
    BY <1>1, Flattens
  <1>4. g[Len(q)] = h[Len(q)]
    <2> HIDE DEF p
    <2>1. Alike(q, p, Len(q))
      BY <1>1 DEF Alike
    <2> QED BY <1>1, <1>2, <1>3, <2>1, FlatAlike
  <1>5. h[Len(p)] = h[Len(q)] \o m
    <2> HIDE DEF p
    <2>1. Len(p) \in 1..Len(p) /\ Len(p) - 1 = Len(q)
      BY <1>1
    <2> QED BY <1>1, <1>3, <2>1 DEF Flattening
  <1>6. FlattenSeq(<<>>) = <<>>
    BY DEF FlattenSeq
  <1>7. g[Len(q)] \in Seq(V)
    BY <1>1, <1>2 DEF Flattening
  <1> QED BY <1>2, <1>3, <1>4, <1>5, <1>6, <1>7

LEMMA FlatHead ==
    ASSUME NEW V, NEW q \in Seq(Seq(V)), q # <<>>
    PROVE  FlattenSeq(q) = Head(q) \o FlattenSeq(Tail(q))
  <1> DEFINE p == Tail(q)
             hd == Head(q)
  <1>1. /\ p \in Seq(Seq(V)) /\ Len(p) = Len(q) - 1 /\ Len(q) \in Nat \ {0} /\ Len(p) \in Nat
        /\ hd = q[1] /\ hd \in Seq(V) /\ \A i \in 1..Len(p) : p[i] = q[i + 1] /\ p[i] \in Seq(V)
    BY HeadTailProperties, LenProperties, EmptySeq
  <1> HIDE DEF p, hd
  <1>2. PICK g : Flattening(V, q, g) /\ FlattenSeq(q) = g[Len(q)]
    BY Flattens
  <1>3. PICK h : Flattening(V, p, h) /\ FlattenSeq(p) = h[Len(p)]
    BY <1>1, Flattens
  <1> DEFINE P(k) == g[k + 1] = hd \o h[k]
             T == {k \in Nat : k <= Len(p) => P(k)}
  <1>4. 0 \in T
    <2>1. 1 \in 1..Len(q) /\ 1 - 1 = 0
      BY <1>1
    <2>2. g[1] = <<>> \o q[1]
      BY <1>2, <2>1 DEF Flattening
    <2>3. g[1] = hd
      BY <1>1, <2>2, ConcatEmptySeq
    <2>4. h[0] = <<>>
      BY <1>3 DEF Flattening
    <2>5. hd \o h[0] = hd
      BY <1>1, <2>4, ConcatEmptySeq
    <2> QED BY <2>3, <2>5
  <1>5. ASSUME NEW k \in Nat, k \in T PROVE k + 1 \in T
    <2> SUFFICES ASSUME k + 1 <= Len(p) PROVE P(k + 1)
      <3> HIDE DEF P
      <3> QED OBVIOUS
    <2>1. /\ k + 1 \in 1..Len(p) /\ (k + 1) + 1 \in 1..Len(q) /\ (k + 1) - 1 = k
          /\ ((k + 1) + 1) - 1 = k + 1 /\ k \in 0..Len(p)
      BY <1>1
    <2>2. g[k + 1] = hd \o h[k]
      BY <1>5, <2>1
    <2>3. g[(k + 1) + 1] = g[k + 1] \o q[(k + 1) + 1]
      BY <1>2, <2>1 DEF Flattening
    <2>4. h[k + 1] = h[k] \o p[k + 1]
      BY <1>3, <2>1 DEF Flattening
    <2>5. h[k] \in Seq(V) /\ p[k + 1] \in Seq(V) /\ q[(k + 1) + 1] = p[k + 1]
      BY <1>1, <1>3, <2>1 DEF Flattening
    <2>6. (hd \o h[k]) \o p[k + 1] = hd \o (h[k] \o p[k + 1])
      <3>1. hd \in Seq(V) /\ h[k] \in Seq(V) /\ p[k + 1] \in Seq(V)
        BY <1>1, <2>5
      <3>2. \A s, t, u \in Seq(V) : (s \o t) \o u = s \o (t \o u)
        BY ConcatAssociative
      <3> QED BY <3>1, <3>2, Zenon
    <2> QED BY <2>2, <2>3, <2>4, <2>5, <2>6
  <1>6. Nat \subseteq T
    <2> HIDE DEF T
    <2> QED BY <1>4, <1>5, OnNaturals
  <1>7. Len(p) \in Nat /\ Len(p) + 1 = Len(q)
    BY <1>1
  <1>8. g[Len(p) + 1] = hd \o h[Len(p)]
    BY <1>6, <1>7
  <1>9. p = Tail(q) /\ hd = Head(q)
    BY DEF p, hd
  <1> QED BY <1>2, <1>3, <1>7, <1>8, <1>9

(***************************************************************************)
(* The size of a message, and the queue of a reply.                        *)
(***************************************************************************)

TLVs == [type : {"ITEM", "CONTENT", "ERROR", "OK", "END"}, length : Nat]

Sizes(m, g) ==
    /\ g \in [0..Len(m) -> Nat]
    /\ g[0] = 1
    /\ \A i \in 1..Len(m) : g[i] = g[i - 1] + 3 + m[i].length

LEMMA SizeSteps ==
    ASSUME NEW m \in Seq(TLVs)
    PROVE  \E g : Sizes(m, g) /\ SizeOf(m) = g[Len(m)]
  <1> DEFINE n == Len(m)
             F == [i \in 1..n |-> [x \in Nat |-> x + 3 + m[i].length]]
             Step(f) == [i \in 0..n |-> IF i = 0 THEN 1 ELSE f[i - 1] + 3 + m[i].length]
             size == CHOOSE f : f = Step(f)
  <1>1. n \in Nat /\ \A i \in 1..n : m[i].length \in Nat
    <2>1. n \in Nat /\ \A i \in 1..n : m[i] \in TLVs
      BY LenProperties, ElementOfSeq
    <2> QED BY <2>1 DEF TLVs
  <1>2. F \in [1..n -> [Nat -> Nat]]
    BY <1>1
  <1>3. \E g : Recurs(Nat, 1, n, F, g)
    <2> HIDE DEF F, n
    <2> QED BY <1>1, <1>2, Recursion
  <1>4. PICK g : Recurs(Nat, 1, n, F, g)
    BY <1>3
  <1>5. g \in [0..n -> Nat] /\ g[0] = 1 /\ \A i \in 1..n : g[i] = g[i - 1] + 3 + m[i].length
    <2>1. \A i \in 1..n : g[i - 1] \in Nat
      BY <1>1, <1>4 DEF Recurs
    <2> QED BY <1>4, <2>1 DEF Recurs
  <1>6. g = Step(g)
    BY <1>1, <1>5
  <1>7. size = Step(size)
    <2> HIDE DEF Step
    <2> QED BY <1>6
  <1>8. SizeOf(m) = size[n]
    BY DEF SizeOf
  <1> HIDE DEF size
  <1> DEFINE T == {i \in Nat : i <= n => size[i] = g[i]}
  <1>9. 0 \in T
    BY <1>1, <1>5, <1>7
  <1>10. ASSUME NEW i \in Nat, i \in T PROVE i + 1 \in T
    <2>1. ASSUME i + 1 <= n PROVE size[i + 1] = g[i + 1]
      <3>1. i + 1 \in 1..n /\ i + 1 \in 0..n /\ i + 1 # 0 /\ (i + 1) - 1 = i
        BY <1>1, <2>1
      <3>2. size[i] = g[i]
        BY <1>10, <2>1, <1>1
      <3>3. size[i + 1] = size[i] + 3 + m[i + 1].length
        BY <1>7, <3>1
      <3> QED BY <1>5, <3>1, <3>2, <3>3
    <2> QED BY <2>1
  <1>11. Nat \subseteq T
    <2> HIDE DEF T
    <2> QED BY <1>9, <1>10, OnNaturals
  <1>12. size[n] = g[n]
    BY <1>1, <1>11
  <1> QED BY <1>5, <1>8, <1>12 DEF Sizes

LEMMA SizeGrows ==
    ASSUME NEW m \in Seq(TLVs), NEW t \in TLVs
    PROVE  /\ SizeOf(<<>>) = 1 /\ SizeOf(m) \in Nat
           /\ SizeOf(Append(m, t)) = SizeOf(m) + 3 + t.length
  <1> DEFINE p == Append(m, t)
  <1>1. /\ p \in Seq(TLVs) /\ Len(p) = Len(m) + 1 /\ Len(m) \in Nat
        /\ p[Len(m) + 1] = t /\ \A i \in 1..Len(m) : p[i] = m[i]
    BY AppendProperties, LenProperties
  <1> HIDE DEF p
  <1>2. PICK g : Sizes(m, g) /\ SizeOf(m) = g[Len(m)]
    BY SizeSteps
  <1>3. PICK h : Sizes(p, h) /\ SizeOf(p) = h[Len(p)]
    BY <1>1, SizeSteps
  <1> DEFINE T == {i \in Nat : i <= Len(m) => g[i] = h[i]}
  <1>4. 0 \in T
    BY <1>2, <1>3 DEF Sizes
  <1>5. ASSUME NEW i \in Nat, i \in T PROVE i + 1 \in T
    <2>1. ASSUME i + 1 <= Len(m) PROVE g[i + 1] = h[i + 1]
      <3>1. i + 1 \in 1..Len(m) /\ i + 1 \in 1..Len(p) /\ (i + 1) - 1 = i /\ p[i + 1] = m[i + 1]
        BY <1>1, <2>1
      <3>2. g[i] = h[i]
        BY <1>1, <1>5, <2>1
      <3>3. g[i + 1] = g[i] + 3 + m[i + 1].length /\ h[i + 1] = h[i] + 3 + p[i + 1].length
        BY <1>2, <1>3, <3>1 DEF Sizes
      <3> QED BY <3>1, <3>2, <3>3
    <2> QED BY <2>1
  <1>6. Nat \subseteq T
    <2> HIDE DEF T
    <2> QED BY <1>4, <1>5, OnNaturals
  <1>7. g[Len(m)] = h[Len(m)]
    BY <1>1, <1>6
  <1>8. h[Len(p)] = h[Len(m)] + 3 + t.length
    <2>1. Len(p) \in 1..Len(p) /\ Len(p) - 1 = Len(m) /\ p[Len(p)] = t
      BY <1>1
    <2> QED BY <1>3, <2>1 DEF Sizes
  <1>9. SizeOf(<<>>) = 1
    <2>1. <<>> \in Seq(TLVs) /\ Len(<<>>) = 0
      OBVIOUS
    <2>2. PICK e : Sizes(<<>>, e) /\ SizeOf(<<>>) = e[0]
      BY <2>1, SizeSteps
    <2> QED BY <2>2 DEF Sizes
  <1>10. g[Len(m)] \in Nat
    BY <1>1, <1>2 DEF Sizes
  <1> QED BY <1>2, <1>3, <1>7, <1>8, <1>9, <1>10 DEF p

Queue == {q \in Seq(Seq(TLVs)) : q # <<>>}

\* A TLV is added to the last message of the queue, or makes one of its own.
LEMMA AddTLVTo ==
    ASSUME NEW q \in Queue, NEW t \in TLVs
    PROVE  /\ AddTLV(q, t) \in Queue
           /\ FlattenSeq(AddTLV(q, t)) = FlattenSeq(q) \o <<t>>
           /\ \/ /\ SizeOf(q[Len(q)]) + 3 + t.length <= CHUNK_SIZE
                 /\ Len(AddTLV(q, t)) = Len(q)
                 /\ \A i \in 1..Len(q) : AddTLV(q, t)[i] =
                        IF i = Len(q) THEN Append(q[i], t) ELSE q[i]
              \/ AddTLV(q, t) = Append(q, <<t>>)
  <1>1. q \in Seq(Seq(TLVs)) /\ q # <<>> /\ Len(q) \in Nat \ {0}
    BY EmptySeq DEF Queue
  <1>2. Last(q) = q[Len(q)]
    BY DEF Last
  <1>3. <<t>> \in Seq(TLVs)
    OBVIOUS
  <1>4. CASE SizeOf(Last(q)) + 3 + t.length <= CHUNK_SIZE
    <2>1. AddTLV(q, t) = [q EXCEPT ![Len(q)] = Append(@, t)]
      BY <1>4 DEF AddTLV
    <2>2. PICK f \in Seq(Seq(TLVs)), l \in Seq(TLVs) : q = Append(f, l)
      BY <1>1, SequenceEmptyOrAppend
    <2>3. /\ Len(q) = Len(f) + 1 /\ Len(f) \in Nat /\ q[Len(q)] = l
          /\ \A i \in 1..Len(f) : q[i] = f[i]
      BY <2>2, AppendProperties, LenProperties
    <2> DEFINE k == Append(l, t)
    <2>4. k \in Seq(TLVs)
      BY AppendProperties
    <2>5. /\ AddTLV(q, t) \in Seq(Seq(TLVs)) /\ Len(AddTLV(q, t)) = Len(q)
          /\ \A i \in 1..Len(q) : AddTLV(q, t)[i] = IF i = Len(q) THEN k ELSE q[i]
      <3>1. AddTLV(q, t) = [q EXCEPT ![Len(q)] = k] /\ Len(q) \in 1..Len(q)
        BY <1>1, <2>1, <2>3
      <3> HIDE DEF k
      <3> QED BY <1>1, <2>4, <3>1, ExceptSeq
    <2>6. AddTLV(q, t) = Append(f, k)
      <3> DEFINE a == AddTLV(q, t)
                 b == Append(f, k)
      <3> HIDE DEF k
      <3>1. b \in Seq(Seq(TLVs)) /\ Len(b) = Len(q) /\ b[Len(q)] = k /\ \A i \in 1..Len(f) : b[i] = f[i]
        BY <2>3, <2>4, AppendProperties
      <3>2. \A i \in 1..Len(q) : a[i] = b[i]
        BY <2>3, <2>5, <3>1
      <3>3. a \in Seq(Seq(TLVs)) /\ Len(a) = Len(b)
        BY <2>5, <3>1
      <3> HIDE DEF a, b
      <3>4. a = b
        BY <3>1, <3>2, <3>3, SeqEqual
      <3> QED BY <3>4 DEF a, b
    <2>7. FlattenSeq(AddTLV(q, t)) = FlattenSeq(q) \o <<t>>
      <3>1. FlattenSeq(AddTLV(q, t)) = FlattenSeq(f) \o k /\ FlattenSeq(f) \in Seq(TLVs)
        BY <2>4, <2>6, FlatAppend
      <3>2. FlattenSeq(q) = FlattenSeq(f) \o l
        BY <2>2, FlatAppend
      <3>3. k = l \o <<t>>
        BY AppendIsConcat
      <3>4. \A r, s, u \in Seq(TLVs) : (r \o s) \o u = r \o (s \o u)
        BY ConcatAssociative
      <3>5. (FlattenSeq(f) \o l) \o <<t>> = FlattenSeq(f) \o (l \o <<t>>)
        BY <1>3, <3>1, <3>4, Zenon
      <3> QED BY <3>1, <3>2, <3>3, <3>5, Zenon
    <2>8. Len(AddTLV(q, t)) # 0
      BY <1>1, <2>5
    <2>9. AddTLV(q, t) # <<>>
      BY <2>8
    <2>10. \A i \in 1..Len(q) : AddTLV(q, t)[i] = IF i = Len(q) THEN Append(q[i], t) ELSE q[i]
      BY <2>3, <2>5
    <2> QED BY <1>2, <1>4, <2>5, <2>7, <2>9, <2>10 DEF Queue
  <1>5. CASE ~(SizeOf(Last(q)) + 3 + t.length <= CHUNK_SIZE)
    <2>1. AddTLV(q, t) = Append(q, <<t>>)
      BY <1>5 DEF AddTLV
    <2>2. Append(q, <<t>>) \in Queue
      <3> DEFINE k == <<t>>
      <3>0. k \in Seq(TLVs)
        BY <1>3
      <3> HIDE DEF k
      <3>1. Append(q, k) \in Seq(Seq(TLVs)) /\ Append(q, k) # <<>>
        BY <1>1, <3>0, AppendProperties
      <3> QED BY <3>1 DEF Queue, k
    <2>3. FlattenSeq(Append(q, <<t>>)) = FlattenSeq(q) \o <<t>>
      BY <1>1, <1>3, FlatAppend
    <2> QED BY <2>1, <2>2, <2>3
  <1> QED BY <1>4, <1>5

Queues(tlvs, g) ==
    /\ g \in [0..Len(tlvs) -> Queue]
    /\ g[0] = NewQueue
    /\ \A i \in 1..Len(tlvs) : g[i] = AddTLV(g[i - 1], tlvs[i])

LEMMA QueueSteps ==
    ASSUME NEW tlvs \in Seq(TLVs)
    PROVE  \E g : Queues(tlvs, g) /\ Queued(tlvs) = g[Len(tlvs)]
  <1> DEFINE n == Len(tlvs)
             F == [i \in 1..n |-> [q \in Queue |-> AddTLV(q, tlvs[i])]]
             Step(f) == [i \in 0..n |-> IF i = 0 THEN NewQueue ELSE AddTLV(f[i - 1], tlvs[i])]
             queue == CHOOSE f : f = Step(f)
  <1>1. n \in Nat /\ \A i \in 1..n : tlvs[i] \in TLVs
    BY LenProperties, ElementOfSeq
  <1>2. F \in [1..n -> [Queue -> Queue]]
    <2>1. \A i \in 1..n : \A q \in Queue : AddTLV(q, tlvs[i]) \in Queue
      BY <1>1, AddTLVTo
    <2> QED BY <2>1
  <1>3. NewQueue \in Queue
    BY DEF NewQueue, Queue
  <1>4. \E g : Recurs(Queue, NewQueue, n, F, g)
    <2> HIDE DEF F, n
    <2> QED BY <1>1, <1>2, <1>3, Recursion
  <1>5. PICK g : Recurs(Queue, NewQueue, n, F, g)
    BY <1>4
  <1>6. /\ g \in [0..n -> Queue] /\ g[0] = NewQueue
        /\ \A i \in 1..n : g[i] = AddTLV(g[i - 1], tlvs[i])
    <2>1. \A i \in 1..n : g[i - 1] \in Queue
      BY <1>1, <1>5 DEF Recurs
    <2> QED BY <1>5, <2>1 DEF Recurs
  <1>7. g = Step(g)
    BY <1>1, <1>6
  <1>8. queue = Step(queue)
    <2> HIDE DEF Step
    <2> QED BY <1>7
  <1>9. Queued(tlvs) = queue[n]
    BY DEF Queued
  <1> HIDE DEF queue
  <1> DEFINE T == {i \in Nat : i <= n => queue[i] = g[i]}
  <1>10. 0 \in T
    BY <1>1, <1>6, <1>8
  <1>11. ASSUME NEW i \in Nat, i \in T PROVE i + 1 \in T
    <2>1. ASSUME i + 1 <= n PROVE queue[i + 1] = g[i + 1]
      <3>1. i + 1 \in 1..n /\ i + 1 \in 0..n /\ i + 1 # 0 /\ (i + 1) - 1 = i
        BY <1>1, <2>1
      <3>2. queue[i] = g[i]
        BY <1>11, <2>1, <1>1
      <3>3. queue[i + 1] = AddTLV(queue[i], tlvs[i + 1])
        BY <1>8, <3>1
      <3> QED BY <1>6, <3>1, <3>2, <3>3
    <2> QED BY <2>1
  <1>12. Nat \subseteq T
    <2> HIDE DEF T
    <2> QED BY <1>10, <1>11, OnNaturals
  <1>13. queue[n] = g[n]
    BY <1>1, <1>12
  <1> QED BY <1>6, <1>9, <1>13 DEF Queues

LEMMA QueueKeeps ==
    ASSUME NEW tlvs \in Seq(TLVs)
    PROVE  Queued(tlvs) \in Queue /\ FlattenSeq(Queued(tlvs)) = tlvs
  <1>1. PICK g : Queues(tlvs, g) /\ Queued(tlvs) = g[Len(tlvs)]
    BY QueueSteps
  <1>2. Len(tlvs) \in Nat /\ \A i \in 1..Len(tlvs) : tlvs[i] \in TLVs
    BY LenProperties, ElementOfSeq
  <1> DEFINE P(i) == FlattenSeq(g[i]) = SubSeq(tlvs, 1, i)
             T == {i \in Nat : i <= Len(tlvs) => P(i)}
  <1>3. 0 \in T
    <2> SUFFICES P(0)
      <3> HIDE DEF P
      <3> QED OBVIOUS
    <2>1. g[0] = << <<>> >>
      BY <1>1 DEF Queues, NewQueue
    <2>2. <<>> \in Seq(TLVs) /\ <<>> \in Seq(Seq(TLVs)) /\ Append(<<>>, <<>>) = << <<>> >>
      OBVIOUS
    <2>3. FlattenSeq(Append(<<>>, <<>>)) = <<>> \o <<>> /\ <<>> \o <<>> = <<>>
      <3> DEFINE e == <<>>
      <3>1. e \in Seq(TLVs) /\ e \in Seq(Seq(TLVs)) /\ e \o e = e /\ e = <<>>
        BY <2>2
      <3> HIDE DEF e
      <3>2. FlattenSeq(Append(e, e)) = FlattenSeq(e) \o e
        BY <3>1, FlatAppend
      <3>3. FlattenSeq(e) = e
        BY <3>1, FlatAppend
      <3> QED BY <3>1, <3>2, <3>3
    <2>4. SubSeq(tlvs, 1, 0) = <<>>
      BY SubSeqEmpty
    <2> QED BY <2>1, <2>2, <2>3, <2>4
  <1>4. ASSUME NEW i \in Nat, i \in T PROVE i + 1 \in T
    <2> SUFFICES ASSUME i + 1 <= Len(tlvs) PROVE P(i + 1)
      <3> HIDE DEF P
      <3> QED OBVIOUS
    <2>1. /\ i + 1 \in 1..Len(tlvs) /\ (i + 1) - 1 = i /\ i <= Len(tlvs) /\ 1 \in 1..Len(tlvs)
          /\ tlvs[i + 1] \in TLVs
      BY <1>2
    <2>2. P(i)
      <3> HIDE DEF P
      <3> QED BY <1>4, <2>1
    <2>3. g[i] \in Queue /\ g[i + 1] = AddTLV(g[i], tlvs[i + 1])
      BY <1>1, <1>2, <2>1 DEF Queues
    <2>4. FlattenSeq(g[i + 1]) = FlattenSeq(g[i]) \o <<tlvs[i + 1]>>
      BY <2>1, <2>3, AddTLVTo
    <2>5. SubSeq(tlvs, 1, i + 1) = SubSeq(tlvs, 1, i) \o <<tlvs[i + 1]>>
      <3>1. i + 1 \in 1..Len(tlvs)
        BY <2>1
      <3>2. SubSeq(tlvs, 1, i + 1) = SubSeq(tlvs, 1, (i + 1) - 1) \o <<tlvs[i + 1]>>
        BY <2>1, <3>1, SubSeqRecursiveSecond
      <3> QED BY <2>1, <3>2
    <2> QED BY <2>2, <2>4, <2>5
  <1>5. Nat \subseteq T
    <2> HIDE DEF T
    <2> QED BY <1>3, <1>4, OnNaturals
  <1>6. P(Len(tlvs))
    <2> HIDE DEF P
    <2> QED BY <1>2, <1>5
  <1>7. g[Len(tlvs)] \in Queue
    BY <1>1, <1>2 DEF Queues
  <1> QED BY <1>1, <1>6, <1>7, SubSeqFull

LEMMA HasENDIs ==
    ASSUME NEW m \in Seq(TLVs), NEW t \in TLVs
    PROVE  /\ HasEND(Append(m, t)) <=> HasEND(m) \/ t.type = "END"
           /\ HasEND(<<t>>) <=> t.type = "END"
           /\ ~HasEND(<<>>)
  <1>1. /\ Len(m) \in Nat /\ DOMAIN m = 1..Len(m) /\ DOMAIN Append(m, t) = 1..(Len(m) + 1)
        /\ Append(m, t)[Len(m) + 1] = t /\ \A i \in 1..Len(m) : Append(m, t)[i] = m[i]
    BY AppendProperties, LenProperties
  <1> DEFINE a == Append(m, t)
  <1> HIDE DEF a
  <1>2. HasEND(a) <=> HasEND(m) \/ t.type = "END"
    <2>1. Len(m) + 1 \in DOMAIN a /\ a[Len(m) + 1] = t
      BY <1>1 DEF a
    <2>2. \A i \in DOMAIN m : i \in DOMAIN a /\ a[i] = m[i]
      BY <1>1 DEF a
    <2>3. \A i \in DOMAIN a : i \in DOMAIN m \/ i = Len(m) + 1
      BY <1>1 DEF a
    <2> QED BY <2>1, <2>2, <2>3 DEF HasEND
  <1>3. HasEND(<<t>>) <=> t.type = "END"
    BY DEF HasEND
  <1>4. ~HasEND(<<>>)
    BY DEF HasEND
  <1> QED BY <1>2, <1>3, <1>4 DEF a

\* The END of a reply is in its last message.
EndsOnce(q) == \A k \in 1..Len(q) : HasEND(q[k]) <=> k = Len(q)

LEMMA QueueEnds ==
    ASSUME NEW tlvs \in Seq(TLVs), tlvs # <<>>,
           \A i \in 1..Len(tlvs) : tlvs[i].type = "END" <=> i = Len(tlvs)
    PROVE  EndsOnce(Queued(tlvs))
  <1> DEFINE n == Len(tlvs)
  <1>1. PICK g : Queues(tlvs, g) /\ Queued(tlvs) = g[n]
    BY QueueSteps
  <1>2. n \in Nat \ {0} /\ \A i \in 1..n : tlvs[i] \in TLVs
    BY LenProperties, ElementOfSeq, EmptySeq
  <1> DEFINE P(i) == \A k \in 1..Len(g[i]) : ~HasEND(g[i][k])
             T == {i \in Nat : i < n => P(i)}
  <1>3. 0 \in T
    <2>1. g[0] = << <<>> >>
      BY <1>1 DEF Queues, NewQueue
    <2>2. Len(g[0]) = 1 /\ g[0][1] = <<>>
      BY <2>1
    <2>3. ~HasEND(<<>>)
      BY DEF HasEND
    <2>4. P(0)
      BY <2>2, <2>3
    <2> HIDE DEF P
    <2> QED BY <2>4
  <1>4. ASSUME NEW i \in 1..n
        PROVE  /\ g[i - 1] \in Queue /\ g[i] = AddTLV(g[i - 1], tlvs[i]) /\ g[i] \in Queue
               /\ Len(g[i - 1]) \in Nat \ {0}
               /\ \A k \in 1..Len(g[i - 1]) : g[i - 1][k] \in Seq(TLVs)
               /\ i - 1 \in 0..n /\ tlvs[i] \in TLVs
    <2>1. i - 1 \in 0..n /\ i \in 0..n /\ tlvs[i] \in TLVs
      BY <1>2
    <2>2. g[i - 1] \in Queue /\ g[i] = AddTLV(g[i - 1], tlvs[i]) /\ g[i] \in Queue
      BY <1>1, <2>1 DEF Queues
    <2>3. g[i - 1] \in Seq(Seq(TLVs)) /\ g[i - 1] # <<>>
      BY <2>2 DEF Queue
    <2> QED BY <2>1, <2>2, <2>3, LenProperties, ElementOfSeq, EmptySeq
  <1>5. ASSUME NEW i \in 1..n, P(i - 1)
        PROVE  /\ tlvs[i].type = "END" => EndsOnce(g[i])
               /\ tlvs[i].type # "END" => P(i)
    <2> DEFINE q == g[i - 1]
               t == tlvs[i]
               a == AddTLV(q, t)
    <2>0. g[i] = a /\ q \in Queue /\ t \in TLVs /\ Len(q) \in Nat \ {0}
          /\ \A k \in 1..Len(q) : q[k] \in Seq(TLVs) /\ ~HasEND(q[k])
      BY <1>4, <1>5
    <2> SUFFICES /\ t.type = "END" => \A k \in 1..Len(a) : HasEND(a[k]) <=> k = Len(a)
                 /\ t.type # "END" => \A k \in 1..Len(a) : ~HasEND(a[k])
      BY <2>0 DEF EndsOnce
    <2> HIDE DEF q, t
    <2>1. CASE Len(a) = Len(q) /\ \A k \in 1..Len(q) : a[k] = IF k = Len(q) THEN Append(q[k], t) ELSE q[k]
      <3> HIDE DEF a
      <3>1. HasEND(Append(q[Len(q)], t)) <=> t.type = "END"
        <4>1. Len(q) \in 1..Len(q)
          BY <2>0
        <4> QED BY <2>0, <4>1, HasENDIs
      <3> QED BY <2>0, <2>1, <3>1
    <2>2. CASE a = Append(q, <<t>>)
      <3>1. /\ Len(a) = Len(q) + 1 /\ a[Len(q) + 1] = <<t>>
            /\ \A k \in 1..Len(q) : a[k] = q[k]
        <4> DEFINE m == <<t>>
        <4>1. m \in Seq(TLVs) /\ q \in Seq(Seq(TLVs))
          BY <2>0 DEF Queue
        <4> HIDE DEF m, a
        <4>2. a = Append(q, m)
          BY <2>2 DEF m
        <4>3. /\ Len(a) = Len(q) + 1 /\ a[Len(q) + 1] = m
              /\ \A k \in 1..Len(q) : a[k] = q[k]
          BY <4>1, <4>2, AppendProperties
        <4> QED BY <4>3 DEF m
      <3> HIDE DEF a
      <3>2. HasEND(<<t>>) <=> t.type = "END"
        BY DEF HasEND
      <3>3. \A k \in 1..Len(a) : k = Len(a) \/ (k \in 1..Len(q) /\ k # Len(a))
        BY <2>0, <3>1
      <3>4. \A k \in 1..Len(q) : ~HasEND(a[k])
        BY <2>0, <3>1
      <3>5. HasEND(a[Len(a)]) <=> t.type = "END"
        BY <3>1, <3>2
      <3> QED BY <3>3, <3>4, <3>5
    <2> QED BY <2>0, <2>1, <2>2, AddTLVTo
  <1>6. ASSUME NEW i \in Nat, i \in T PROVE i + 1 \in T
    <2>1. ASSUME i + 1 < n PROVE P(i + 1)
      <3>1. i + 1 \in 1..n /\ (i + 1) - 1 = i /\ i < n /\ i + 1 # n
        BY <1>2, <2>1
      <3>2. P((i + 1) - 1)
        <4> HIDE DEF P
        <4> QED BY <1>6, <3>1
      <3>3. tlvs[i + 1].type # "END"
        BY <3>1
      <3> HIDE DEF P
      <3> QED BY <1>5, <3>1, <3>2, <3>3
    <2> HIDE DEF P
    <2> QED BY <2>1
  <1>7. Nat \subseteq T
    <2> HIDE DEF T
    <2> QED BY <1>3, <1>6, OnNaturals
  <1>8. P(n - 1)
    <2>1. n - 1 \in Nat /\ n - 1 < n
      BY <1>2
    <2> HIDE DEF P
    <2> QED BY <1>7, <2>1
  <1>9. n \in 1..n /\ tlvs[n].type = "END"
    BY <1>2
  <1>10. EndsOnce(g[n])
    <2> HIDE DEF P
    <2> QED BY <1>5, <1>8, <1>9
  <1> QED BY <1>1, <1>10

\* A TLV fits in a message of its own; so does a part of a file, whose content
\* stands for its place.
ReplyFits ==
    /\ \A n \in Signs \cup {3} : n + 4 <= CHUNK_SIZE
    /\ MaxParts + 10 <= CHUNK_SIZE

LEMMA FitsAll ==
    ASSUME ReplyFits
    PROVE  /\ 7 <= CHUNK_SIZE /\ MaxParts + 10 <= CHUNK_SIZE
           /\ \A n \in Signs : n + 4 <= CHUNK_SIZE
  <1>1. 3 \in Signs \cup {3}
    OBVIOUS
  <1>2. 3 + 4 <= CHUNK_SIZE
    BY <1>1 DEF ReplyFits
  <1>3. \A n \in Signs : n + 4 <= CHUNK_SIZE
    BY DEF ReplyFits
  <1> QED BY <1>2, <1>3 DEF ReplyFits

LEMMA QueueFits ==
    ASSUME NEW tlvs \in Seq(TLVs), ReplyFits,
           \A i \in 1..Len(tlvs) : tlvs[i].length + 4 <= CHUNK_SIZE
    PROVE  \A k \in 1..Len(Queued(tlvs)) : SizeOf(Queued(tlvs)[k]) <= CHUNK_SIZE
  <1> DEFINE n == Len(tlvs)
  <1>1. PICK g : Queues(tlvs, g) /\ Queued(tlvs) = g[n]
    BY QueueSteps
  <1>2. n \in Nat /\ (\A i \in 1..n : tlvs[i] \in TLVs) /\ CHUNK_SIZE \in Nat
    BY LenProperties, ElementOfSeq, ConnectionAssumption
  <1> DEFINE P(i) == \A k \in 1..Len(g[i]) : SizeOf(g[i][k]) <= CHUNK_SIZE
             T == {i \in Nat : i <= n => P(i)}
  <1>3. 0 \in T
    <2>1. g[0] = << <<>> >>
      BY <1>1 DEF Queues, NewQueue
    <2>2. Len(g[0]) = 1 /\ g[0][1] = <<>>
      BY <2>1
    <2>3. SizeOf(<<>>) = 1
      <3>1. <<>> \in Seq(TLVs) /\ TLV("OK", 0) \in TLVs
        BY DEF TLVs, TLV
      <3> QED BY <3>1, SizeGrows
    <2>4. P(0)
      BY <1>2, <2>2, <2>3, FitsAll
    <2> HIDE DEF P
    <2> QED BY <2>4
  <1>4. ASSUME NEW i \in Nat, i \in T PROVE i + 1 \in T
    <2> SUFFICES ASSUME i + 1 <= n PROVE P(i + 1)
      <3> HIDE DEF P
      <3> QED OBVIOUS
    <2> DEFINE q == g[i]
               t == tlvs[i + 1]
               a == AddTLV(q, t)
    <2>1. i + 1 \in 1..n /\ (i + 1) - 1 = i /\ i \in 0..n
      BY <1>2
    <2>2. P(i)
      <3> HIDE DEF P
      <3> QED BY <1>4, <2>1
    <2>3. q \in Queue /\ g[i + 1] = a /\ t \in TLVs /\ t.length + 4 <= CHUNK_SIZE
      BY <1>1, <1>2, <2>1 DEF Queues
    <2>4. q \in Seq(Seq(TLVs)) /\ t.length \in Nat /\ q # <<>>
      BY <2>3 DEF Queue, TLVs
    <2>5. Len(q) \in Nat \ {0} /\ \A k \in 1..Len(q) : q[k] \in Seq(TLVs) /\ SizeOf(q[k]) <= CHUNK_SIZE
      BY <2>2, <2>4, LenProperties, ElementOfSeq, EmptySeq
    <2> SUFFICES \A k \in 1..Len(a) : SizeOf(a[k]) <= CHUNK_SIZE
      BY <2>3
    <2> HIDE DEF q, t
    <2>6. CASE /\ SizeOf(q[Len(q)]) + 3 + t.length <= CHUNK_SIZE /\ Len(a) = Len(q)
               /\ \A k \in 1..Len(q) : a[k] = IF k = Len(q) THEN Append(q[k], t) ELSE q[k]
      <3> HIDE DEF a
      <3>1. SizeOf(Append(q[Len(q)], t)) <= CHUNK_SIZE
        <4>1. Len(q) \in 1..Len(q)
          BY <2>5
        <4> QED BY <2>3, <2>5, <2>6, <4>1, SizeGrows
      <3> QED BY <2>5, <2>6, <3>1
    <2>7. CASE a = Append(q, <<t>>)
      <3> DEFINE m == <<t>>
      <3>1. m \in Seq(TLVs) /\ SizeOf(m) <= CHUNK_SIZE
        <4>1. <<>> \in Seq(TLVs) /\ m = Append(<<>>, t) /\ m \in Seq(TLVs)
          BY <2>3
        <4>2. SizeOf(<<>>) = 1 /\ SizeOf(Append(<<>>, t)) = SizeOf(<<>>) + 3 + t.length
          BY <2>3, <4>1, SizeGrows
        <4>3. SizeOf(Append(<<>>, t)) = 4 + t.length
          BY <2>4, <4>2
        <4> HIDE DEF m
        <4> QED BY <2>3, <2>4, <4>1, <4>3
      <3> HIDE DEF m, a
      <3>2. a = Append(q, m)
        BY <2>7 DEF m
      <3>3. /\ Len(a) = Len(q) + 1 /\ a[Len(q) + 1] = m
            /\ \A k \in 1..Len(q) : a[k] = q[k]
        BY <2>4, <3>1, <3>2, AppendProperties
      <3>4. \A k \in 1..Len(a) : k = Len(q) + 1 \/ k \in 1..Len(q)
        BY <2>5, <3>3
      <3> QED BY <2>5, <3>1, <3>3, <3>4
    <2> QED BY <2>3, <2>6, <2>7, AddTLVTo
  <1>5. Nat \subseteq T
    <2> HIDE DEF T
    <2> QED BY <1>3, <1>4, OnNaturals
  <1>6. P(n)
    <2> HIDE DEF P
    <2> QED BY <1>2, <1>5
  <1> QED BY <1>1, <1>6

LEMMA ClosingIs ==
    ASSUME NEW s \in Errors \cup {Closing("OK", 0)}
    PROVE  /\ s \in Seq(TLVs) /\ Len(s) = 2
           /\ s[1].type # "END" /\ s[2].type = "END"
           /\ s[1].length \in 0..3 /\ s[2].length = 0
  <1>1. PICK type \in {"ERROR", "OK"}, length \in {0, 1, 3} : s = Closing(type, length)
    BY DEF Errors
  <1>2. TLV(type, length) \in TLVs /\ TLV("END", 0) \in TLVs
    BY DEF TLV, TLVs
  <1> QED BY <1>1, <1>2 DEF Closing, TLV

LEMMA ItemsAre ==
    ASSUME NEW s \in Items
    PROVE  s \in Seq(TLVs) /\ \A i \in 1..Len(s) : s[i].type = "ITEM" /\ s[i].length \in Signs
  <1>1. PICK r \in BoundedSeq(Signs, MaxItems) : s = [i \in DOMAIN r |-> TLV("ITEM", r[i])]
    BY DEF Items
  <1>2. PICK n \in 0..MaxItems : r \in [1..n -> Signs]
    BY <1>1 DEF BoundedSeq, SeqOf
  <1>3. n \in Nat /\ s = [i \in 1..n |-> TLV("ITEM", r[i])]
    BY <1>1, <1>2, ConnectionAssumption
  <1>4. \A i \in 1..n : r[i] \in Signs /\ r[i] \in Nat
    BY <1>2, ConnectionAssumption
  <1>5. \A i \in 1..n : s[i] = TLV("ITEM", r[i]) /\ s[i] \in TLVs
    BY <1>3, <1>4 DEF TLV, TLVs
  <1>6. s \in [1..n -> TLVs]
    BY <1>3, <1>5
  <1>7. s \in Seq(TLVs) /\ Len(s) = n
    BY <1>3, <1>6, SeqDef, LenProperties
  <1> QED BY <1>4, <1>5, <1>7 DEF TLV

LEMMA AnswersAre ==
    ASSUME NEW kind, NEW tlvs \in Answers(kind)
    PROVE  /\ tlvs \in Seq(TLVs) /\ tlvs # <<>>
           /\ \A i \in 1..Len(tlvs) : tlvs[i].type = "END" <=> i = Len(tlvs)
           /\ ReplyFits => \A i \in 1..Len(tlvs) : tlvs[i].length + 4 <= CHUNK_SIZE
  <1>1. PICK s \in Items, t \in Errors \cup {Closing("OK", 0)} : tlvs = s \o t
    BY DEF Answers
  <1>2. /\ t \in Seq(TLVs) /\ Len(t) = 2
        /\ t[1].type # "END" /\ t[2].type = "END"
        /\ t[1].length \in 0..3 /\ t[2].length = 0
    BY ClosingIs
  <1>3. /\ s \in Seq(TLVs) /\ Len(s) \in Nat
        /\ \A i \in 1..Len(s) : s[i].type = "ITEM" /\ s[i].length \in Signs
    BY ItemsAre, LenProperties
  <1>4. /\ tlvs \in Seq(TLVs) /\ Len(tlvs) = Len(s) + 2
        /\ \A i \in 1..(Len(s) + 2) : tlvs[i] = IF i <= Len(s) THEN s[i] ELSE t[i - Len(s)]
    <2>1. /\ s \o t \in Seq(TLVs) /\ Len(s \o t) = Len(s) + Len(t)
          /\ \A i \in 1..(Len(s) + Len(t)) :
                 (s \o t)[i] = IF i <= Len(s) THEN s[i] ELSE t[i - Len(s)]
      BY <1>2, <1>3, ConcatProperties
    <2>2. Len(t) = 2
      BY <1>2
    <2> QED BY <1>1, <2>1, <2>2
  <1>5. /\ \A i \in 1..Len(s) : tlvs[i] = s[i]
        /\ tlvs[Len(s) + 1] = t[1] /\ tlvs[Len(s) + 2] = t[2]
        /\ \A i \in 1..Len(tlvs) : i \in 1..Len(s) \/ i = Len(s) + 1 \/ i = Len(s) + 2
    BY <1>3, <1>4
  <1>6. tlvs # <<>>
    BY <1>3, <1>4
  <1>7. \A i \in 1..Len(tlvs) : tlvs[i].type = "END" <=> i = Len(tlvs)
    BY <1>2, <1>3, <1>4, <1>5
  <1>8. ASSUME ReplyFits, NEW i \in 1..Len(tlvs) PROVE tlvs[i].length + 4 <= CHUNK_SIZE
    <2>1. 7 <= CHUNK_SIZE /\ CHUNK_SIZE \in Nat /\ \A l \in Signs : l + 4 <= CHUNK_SIZE
      BY <1>8, FitsAll, ConnectionAssumption
    <2>2. CASE i \in 1..Len(s)
      BY <1>3, <1>5, <2>1, <2>2
    <2>3. CASE i = Len(s) + 1
      BY <1>2, <1>5, <2>1, <2>3
    <2>4. CASE i = Len(s) + 2
      BY <1>2, <1>5, <2>1, <2>4
    <2> QED BY <1>5, <2>2, <2>3, <2>4
  <1> QED BY <1>4, <1>6, <1>7, <1>8

LEMMA Grown ==
    ASSUME NEW m \in Seq(TLVs), NEW t \in TLVs, NEW s \in Nat, SizeOf(m) = s, ~HasEND(m)
    PROVE  /\ Append(m, t) \in Seq(TLVs) /\ SizeOf(Append(m, t)) = s + 3 + t.length
           /\ HasEND(Append(m, t)) <=> t.type = "END"
  BY SizeGrows, HasENDIs, AppendProperties

LEMMA FileIs ==
    ASSUME NEW n \in 1..MaxParts
    PROVE  /\ File(n) \in Queue /\ EndsOnce(File(n))
           /\ ReplyFits => \A k \in 1..Len(File(n)) : SizeOf(File(n)[k]) <= CHUNK_SIZE
  <1>1. n \in Nat \ {0} /\ n <= MaxParts /\ MaxParts \in Nat /\ CHUNK_SIZE \in Nat
    BY ConnectionAssumption
  <1>2. ASSUME NEW i \in 1..n
        PROVE  /\ FilePart(i, n) \in Seq(TLVs) /\ (HasEND(FilePart(i, n)) <=> i = n)
               /\ SizeOf(FilePart(i, n)) <= MaxParts + 10
    <2> DEFINE x == TLV("ITEM", 0)
               y == TLV("CONTENT", i)
               z == TLV("END", 0)
               e == <<>>
    <2>1. /\ x \in TLVs /\ y \in TLVs /\ z \in TLVs /\ x.length = 0 /\ y.length = i /\ z.length = 0
          /\ x.type = "ITEM" /\ y.type = "CONTENT" /\ z.type = "END"
      BY <1>1 DEF TLV, TLVs
    <2>2. /\ e \in Seq(TLVs) /\ <<x, y>> = Append(Append(e, x), y)
      BY <2>1
    <2>3. FilePart(i, n) = IF i = n THEN Append(Append(Append(e, x), y), z)
                                    ELSE Append(Append(e, x), y)
      BY <2>2 DEF FilePart
    <2>4. SizeOf(e) = 1 /\ ~HasEND(e)
      BY <2>1, <2>2, SizeGrows, HasENDIs
    <2> HIDE DEF x, y, z, e
    <2>5. /\ Append(e, x) \in Seq(TLVs) /\ ~HasEND(Append(e, x)) /\ SizeOf(Append(e, x)) = 4
      <3>1. 1 \in Nat /\ 1 + 3 + 0 = 4
        OBVIOUS
      <3> QED BY <2>1, <2>2, <2>4, <3>1, Grown
    <2> DEFINE a == Append(e, x)
               b == Append(a, y)
               c == Append(b, z)
    <2> HIDE DEF a
    <2>6. b \in Seq(TLVs) /\ ~HasEND(b) /\ SizeOf(b) = 7 + i
      <3>1. 4 \in Nat /\ 4 + 3 + i = 7 + i
        BY <1>1
      <3> QED BY <2>1, <2>5, <3>1, Grown DEF a
    <2> HIDE DEF b
    <2>7. c \in Seq(TLVs) /\ HasEND(c) /\ SizeOf(c) = 10 + i
      <3>1. 7 + i \in Nat /\ (7 + i) + 3 + 0 = 10 + i
        BY <1>1
      <3> QED BY <2>1, <2>6, <3>1, Grown
    <2> QED BY <1>1, <2>3, <2>6, <2>7 DEF a, b
  <1>3. File(n) = [i \in 1..n |-> FilePart(i, n)]
    BY DEF File
  <1> HIDE DEF File
  <1>4. File(n) \in Seq(Seq(TLVs)) /\ Len(File(n)) = n /\ \A i \in 1..n : File(n)[i] = FilePart(i, n)
    <2>1. File(n) \in [1..n -> Seq(TLVs)]
      BY <1>2, <1>3
    <2>2. File(n) \in Seq(Seq(TLVs))
      BY <1>1, <2>1, SeqDef
    <2> QED BY <1>1, <1>3, <2>1, <2>2, LenProperties
  <1>5. File(n) # <<>>
    BY <1>1, <1>4
  <1>6. EndsOnce(File(n))
    BY <1>2, <1>4 DEF EndsOnce
  <1>7. ASSUME ReplyFits, NEW k \in 1..n PROVE SizeOf(FilePart(k, n)) <= CHUNK_SIZE
    <2>1. FilePart(k, n) \in Seq(TLVs) /\ TLV("OK", 0) \in TLVs
      BY <1>2 DEF TLVs, TLV
    <2>2. SizeOf(FilePart(k, n)) \in Nat
      BY <2>1, SizeGrows
    <2> QED BY <1>1, <1>2, <1>7, <2>2 DEF ReplyFits
  <1> QED BY <1>4, <1>5, <1>6, <1>7 DEF Queue

-----------------------------------------------------------------------------
(***************************************************************************)
(* The reading of a reply.                                                 *)
(***************************************************************************)

\* What a message put on the wire leaves of the reply.
LEMMA Joined ==
    ASSUME NEW S, NEW q \in Seq(S), NEW m \in S, NEW r \in Seq(S)
    PROVE  /\ Append(q, m) \in Seq(S) /\ <<m>> \o r \in Seq(S)
           /\ Append(q, m) \o r = q \o (<<m>> \o r)
           /\ <<m>> \o r # <<>> /\ Append(q, m) \o r # <<>>
  <1>1. /\ <<m>> \in Seq(S) /\ Append(q, m) = q \o <<m>>
    BY AppendIsConcat
  <1>2. (q \o <<m>>) \o r = q \o (<<m>> \o r)
    BY <1>1, ConcatAssociative
  <1>3. <<m>> \o r \in Seq(S) /\ Len(<<m>> \o r) = 1 + Len(r)
    BY <1>1, ConcatProperties
  <1>4. Append(q, m) \in Seq(S) /\ Len(Append(q, m)) = Len(q) + 1
    BY AppendProperties
  <1>5. Len(Append(q, m) \o r) = Len(q) + 1 + Len(r)
    BY <1>4, ConcatProperties
  <1>6. <<m>> \o r # <<>>
    BY <1>3, LenProperties, EmptySeq
  <1>7. Append(q, m) \o r # <<>>
    <2>1. Len(q) \in Nat /\ Len(r) \in Nat
      BY LenProperties
    <2>2. Len(Append(q, m) \o r) # 0
      BY <1>5, <2>1
    <2> QED BY <2>2, EmptySeq
  <1> QED BY <1>1, <1>2, <1>3, <1>4, <1>6, <1>7

\* And what a message read leaves.
LEMMA Parted ==
    ASSUME NEW S, NEW q \in Seq(S), q # <<>>, NEW r \in Seq(S)
    PROVE  /\ q \o r \in Seq(S) /\ q \o r # <<>>
           /\ Head(q) \in S /\ Tail(q) \in Seq(S) /\ <<Head(q)>> \o Tail(q) = q
           /\ Head(q \o r) = Head(q) /\ Tail(q \o r) = Tail(q) \o r
  <1>1. /\ Head(q) \in S /\ Tail(q) \in Seq(S) /\ Len(q) \in Nat \ {0}
        /\ Len(Tail(q)) = Len(q) - 1 /\ Head(q) = q[1]
        /\ \A i \in 1..Len(Tail(q)) : Tail(q)[i] = q[i + 1]
    BY HeadTailProperties, EmptySeq, ElementOfSeq
  <1>2. /\ q \o r \in Seq(S) /\ Len(q \o r) = Len(q) + Len(r) /\ Len(r) \in Nat
        /\ \A i \in 1..(Len(q) + Len(r)) :
               (q \o r)[i] = IF i <= Len(q) THEN q[i] ELSE r[i - Len(q)]
    BY ConcatProperties, LenProperties
  <1> DEFINE a == q \o r
             l == Tail(q)
             b == l \o r
  <1>3. a # <<>> /\ Len(a) \in Nat \ {0}
    BY <1>1, <1>2, EmptySeq
  <1>4. Head(a) = a[1]
    <2> HIDE DEF a
    <2> QED BY <1>2, <1>3, HeadTailProperties DEF a
  <1>5. a[1] = q[1]
    BY <1>1, <1>2
  <1>6. /\ Tail(a) \in Seq(S) /\ Len(Tail(a)) = Len(a) - 1
        /\ \A i \in 1..Len(Tail(a)) : Tail(a)[i] = a[i + 1]
    <2>1. a \in Seq(S)
      BY <1>2
    <2> HIDE DEF a
    <2> QED BY <1>3, <2>1, HeadTailProperties
  <1>7. /\ b \in Seq(S) /\ Len(b) = Len(l) + Len(r)
        /\ \A i \in 1..(Len(l) + Len(r)) :
               b[i] = IF i <= Len(l) THEN l[i] ELSE r[i - Len(l)]
    <2>1. l \in Seq(S)
      BY <1>1
    <2> HIDE DEF l
    <2>2. /\ l \o r \in Seq(S) /\ Len(l \o r) = Len(l) + Len(r)
          /\ \A i \in 1..(Len(l) + Len(r)) :
                 (l \o r)[i] = IF i <= Len(l) THEN l[i] ELSE r[i - Len(l)]
      BY <2>1, ConcatProperties
    <2> QED BY <2>2
  <1>8. Tail(a) = b
    <2>1. Len(Tail(a)) = Len(b)
      BY <1>1, <1>2, <1>6, <1>7
    <2>2. ASSUME NEW i \in 1..Len(b) PROVE Tail(a)[i] = b[i]
      <3>1. i \in Nat /\ i + 1 \in 1..(Len(q) + Len(r)) /\ Tail(a)[i] = a[i + 1]
        BY <1>1, <1>2, <1>6, <1>7, <2>1, <2>2
      <3>2. a[i + 1] = IF i + 1 <= Len(q) THEN q[i + 1] ELSE r[(i + 1) - Len(q)]
        BY <1>2, <3>1
      <3>3. b[i] = IF i <= Len(l) THEN l[i] ELSE r[i - Len(l)]
        BY <1>7, <2>2
      <3>4. CASE i <= Len(l)
        <4>1. i \in 1..Len(l) /\ i + 1 <= Len(q)
          BY <1>1, <3>1, <3>4
        <4>2. l[i] = q[i + 1]
          BY <1>1, <4>1
        <4> QED BY <3>1, <3>2, <3>3, <3>4, <4>1, <4>2
      <3>5. CASE ~(i <= Len(l))
        <4>1. ~(i + 1 <= Len(q)) /\ (i + 1) - Len(q) = i - Len(l)
          BY <1>1, <3>1, <3>5
        <4> QED BY <3>1, <3>2, <3>3, <3>5, <4>1
      <3> QED BY <3>4, <3>5
    <2> HIDE DEF a, b
    <2> QED BY <1>6, <1>7, <2>1, <2>2, SeqEqual
  <1>9. <<Head(q)>> \o Tail(q) = q
    BY SMT
  <1> QED BY <1>1, <1>2, <1>3, <1>4, <1>5, <1>8, <1>9

LEMMA HasENDJoined ==
    ASSUME NEW s \in Seq(TLVs), NEW t \in Seq(TLVs)
    PROVE  HasEND(s \o t) <=> HasEND(s) \/ HasEND(t)
  <1>1. /\ s \o t \in Seq(TLVs) /\ Len(s \o t) = Len(s) + Len(t)
        /\ Len(s) \in Nat /\ Len(t) \in Nat
        /\ DOMAIN s = 1..Len(s) /\ DOMAIN t = 1..Len(t)
        /\ \A i \in 1..(Len(s) + Len(t)) :
               (s \o t)[i] = IF i <= Len(s) THEN s[i] ELSE t[i - Len(s)]
    BY ConcatProperties, LenProperties
  <1> DEFINE a == s \o t
  <1>2. DOMAIN a = 1..(Len(s) + Len(t))
    <2>1. a \in Seq(TLVs) /\ Len(a) = Len(s) + Len(t)
      BY <1>1
    <2> HIDE DEF a
    <2> QED BY <2>1, LenProperties
  <1>3. \A i \in DOMAIN s : i \in DOMAIN a /\ a[i] = s[i]
    BY <1>1, <1>2
  <1>4. \A i \in DOMAIN t : Len(s) + i \in DOMAIN a /\ a[Len(s) + i] = t[i]
    <2>1. ASSUME NEW i \in DOMAIN t PROVE Len(s) + i \in DOMAIN a /\ a[Len(s) + i] = t[i]
      <3>1. i \in Nat \ {0} /\ Len(s) + i \in 1..(Len(s) + Len(t))
            /\ ~(Len(s) + i <= Len(s)) /\ (Len(s) + i) - Len(s) = i
        BY <1>1, <2>1
      <3> QED BY <1>1, <1>2, <3>1
    <2> QED BY <2>1
  <1>5. \A i \in DOMAIN a : \/ i \in DOMAIN s /\ a[i] = s[i]
                            \/ i - Len(s) \in DOMAIN t /\ a[i] = t[i - Len(s)]
    BY <1>1, <1>2
  <1> HIDE DEF a
  <1>6. HasEND(a) <=> HasEND(s) \/ HasEND(t)
    BY <1>3, <1>4, <1>5 DEF HasEND
  <1> QED BY <1>6 DEF a

LEMMA EndsOnceParted ==
    ASSUME NEW q \in Seq(Seq(TLVs)), q # <<>>, EndsOnce(q)
    PROVE  /\ HasEND(Head(q)) <=> Tail(q) = <<>>
           /\ EndsOnce(Tail(q))
  <1>1. /\ Head(q) = q[1] /\ Tail(q) \in Seq(Seq(TLVs)) /\ Len(q) \in Nat \ {0}
        /\ Len(Tail(q)) = Len(q) - 1
        /\ \A i \in 1..Len(Tail(q)) : Tail(q)[i] = q[i + 1]
    BY HeadTailProperties, EmptySeq
  <1>2. Tail(q) = <<>> <=> Len(q) = 1
    <2> DEFINE t == Tail(q)
    <2>1. t \in Seq(Seq(TLVs)) /\ Len(t) = Len(q) - 1
      BY <1>1
    <2> HIDE DEF t
    <2>2. t = <<>> <=> Len(t) = 0
      BY <2>1, EmptySeq
    <2> QED BY <1>1, <2>1, <2>2 DEF t
  <1>3. HasEND(q[1]) <=> 1 = Len(q)
    <2>1. 1 \in 1..Len(q)
      BY <1>1
    <2> QED BY <2>1 DEF EndsOnce
  <1>4. ASSUME NEW k \in 1..Len(Tail(q)) PROVE HasEND(Tail(q)[k]) <=> k = Len(Tail(q))
    <2>1. k + 1 \in 1..Len(q) /\ Tail(q)[k] = q[k + 1] /\ (k + 1 = Len(q) <=> k = Len(Tail(q)))
      BY <1>1, <1>4
    <2> QED BY <2>1 DEF EndsOnce
  <1> QED BY <1>1, <1>2, <1>3, <1>4 DEF EndsOnce

\* The operation o has succeeded, and its handler is queued.
Done(o) == \E i \in DOMAIN ready : ready[i] = [op |-> o, ok |-> TRUE]

At(o) == o \in ops \/ Done(o)

\* A message of a reply is still to be put on the wire.
Writing == At("size") \/ At("more") \/ "last" \in ops

Messages ==
    /\ msg \in Seq(TLVs) /\ got \in Seq(TLVs) /\ owed \in Seq(TLVs)
    /\ replies \in Seq(Seq(TLVs)) /\ wire \in Seq(Seq(TLVs))

\* The messages r are to follow on the wire, if the connection lives.
Coming(r) ==
    /\ r \in Seq(Seq(TLVs))
    /\ At("size") \/ Done("more") => r = replies
    /\ "more" \in ops => r = <<msg>> \o replies
    /\ "last" \in ops => r = <<msg>>

\* With them, what the client has read and has on the wire is the reply, and the
\* reply ends with the last of them.
Completed(r) ==
    /\ ~HasEND(got)
    /\ got \o FlattenSeq(wire \o r) = owed
    /\ wire \o r # <<>> /\ EndsOnce(wire \o r)

Filled == At("size") \/ At("more") => replies # <<>>
Rested == client.phase = "idle" => request = "none" /\ got = owed /\ wire = <<>> /\ ~Writing
Asked  == client.phase = "reading" /\ request # "none" => got = <<>> /\ wire = <<>> /\ ~Writing
Halfway == client.phase = "reading" /\ request = "none" => \E r : Coming(r) /\ Completed(r)

InStep == Messages /\ Filled /\ Rested /\ Asked /\ Halfway

\* The operations and the handlers that a step leaves were there before.
Fewer == \A o \in Ops : (Done(o)' => Done(o)) /\ (o \in ops' => o \in ops)

LEMMA DoneIs ==
    ASSUME IInv, NEW o \in Ops, Done(o)
    PROVE  ops = {} /\ \A p \in Ops : Done(p) => p = o
  <1>1. PICK i \in DOMAIN ready : ready[i] = [op |-> o, ok |-> TRUE]
    BY DEF Done
  <1>2. OfOperation(i)
    BY <1>1 DEF OfOperation, Ops
  <1>3. ASSUME NEW p \in Ops, Done(p) PROVE p = o
    <2>1. PICK j \in DOMAIN ready : ready[j] = [op |-> p, ok |-> TRUE]
      BY <1>3 DEF Done
    <2>2. OfOperation(j)
      BY <2>1 DEF OfOperation, Ops
    <2>3. ready[i].op = o /\ ready[j].op = p
      BY <1>1, <2>1
    <2>4. i = j
      BY <1>2, <2>2 DEF IInv
    <2> QED BY <2>3, <2>4
  <1> QED BY <1>2, <1>3 DEF IInv, OneOperation, OfOperation

LEMMA RunIs ==
    ASSUME IInv, NEW o, NEW ok, Run(o, ok)
    PROVE  /\ \A p \in Ops : Done(p)' => Done(p)
           /\ o \in Ops => ops = {} /\ \A p \in Ops : ~Done(p)'
           /\ ok = TRUE => Done(o)
  <1>1. ready \in Seq(Handler) /\ ready # <<>> /\ ready' = Tail(ready) /\ ready[1] = [op |-> o, ok |-> ok]
    BY TailHandlers DEF IInv, Run
  <1>2. ASSUME NEW p \in Ops, Done(p)' PROVE Done(p)
    <2>1. PICK i \in DOMAIN ready' : ready'[i] = [op |-> p, ok |-> TRUE]
      BY <1>2 DEF Done
    <2>2. i + 1 \in DOMAIN ready /\ ready[i + 1] = [op |-> p, ok |-> TRUE]
      BY <1>1, <2>1, TailHandlers
    <2> QED BY <2>2 DEF Done
  <1>3. ASSUME o \in Ops, NEW p \in Ops, Done(p)' PROVE FALSE
    <2>1. PICK i \in DOMAIN ready' : ready'[i] = [op |-> p, ok |-> TRUE]
      BY <1>3 DEF Done
    <2>2. o # "timer" /\ p # "timer"
      BY <1>3 DEF Ops
    <2>3. ready'[i].op = p
      BY <2>1
    <2>4. OfOperation(i)'
      BY <2>1, <2>2, <2>3 DEF OfOperation
    <2> QED BY <2>2, <2>4, Running
  <1>4. o \in Ops => ops = {}
    BY Running DEF Ops
  <1>5. ok = TRUE => Done(o)
    BY <1>1, TailHandlers DEF Done
  <1> QED BY <1>2, <1>3, <1>4, <1>5

\* A step that starts nothing that is to write, and keeps the messages.
Quieter ==
    /\ At("size")' => At("size")
    /\ At("more")' => At("more")
    /\ Done("more")' => Done("more")
    /\ "more" \in ops' => "more" \in ops
    /\ "last" \in ops' => "last" \in ops

LEMMA Kept ==
    ASSUME InStep, Quieter, UNCHANGED <<replies, msg, wire, got, owed, request>>,
           client' = client \/ ~Here'
    PROVE  InStep'
  <1>1. Writing' => Writing
    BY DEF Quieter, Writing
  <1>2. Messages' /\ Filled'
    BY DEF Quieter, InStep, Messages, Filled
  <1>3. CASE ~Here'
    BY <1>2, <1>3 DEF InStep, Rested, Asked, Halfway, Here
  <1>4. CASE client' = client
    <2>1. Rested' /\ Asked'
      BY <1>1, <1>4 DEF InStep, Rested, Asked
    <2>2. ASSUME NEW r, Coming(r), Completed(r) PROVE Coming(r)' /\ Completed(r)'
      <3>1. Coming(r)'
        BY <2>2 DEF Quieter, Coming
      <3>2. Completed(r)'
        BY <2>2 DEF Completed
      <3> QED BY <3>1, <3>2
    <2>3. Halfway'
      BY <1>4, <2>2 DEF InStep, Halfway
    <2> QED BY <1>2, <2>1, <2>3 DEF InStep
  <1> QED BY <1>3, <1>4

LEMMA Keeping ==
    ASSUME InStep, Fewer, UNCHANGED <<replies, msg, wire, got, owed, request>>,
           client' = client \/ ~Here'
    PROVE  InStep'
  <1>1. Quieter
    BY DEF Quieter, Fewer, At, Ops
  <1> QED BY <1>1, Kept

\* A handler that is queued with a failure, or is the timer's, is no operation done.
LEMMA Queueing ==
    ASSUME IInv, NEW h \in Handler, ~h.ok \/ h.op = "timer", ready' = Append(ready, h)
    PROVE  \A p \in Ops : Done(p)' => Done(p)
  <1>1. ASSUME NEW p \in Ops, Done(p)' PROVE Done(p)
    <2>1. PICK i \in DOMAIN ready' : ready'[i] = [op |-> p, ok |-> TRUE]
      BY <1>1 DEF Done
    <2>2. ready'[i].ok = TRUE /\ ready'[i].op = p /\ p # "timer"
      BY <2>1 DEF Ops
    <2>3. ready'[i] # h
      BY <2>2
    <2>4. i \in DOMAIN ready /\ ready'[i] = ready[i]
      BY <2>1, <2>3, AppendHandlers DEF IInv
    <2> QED BY <2>1, <2>4 DEF Done
  <1> QED BY <1>1

LEMMA StepInit == Init => InStep
  <1> SUFFICES ASSUME Init PROVE InStep
    OBVIOUS
  <1>1. ~Done("size") /\ ~Done("more")
    BY DEF Init, Done
  <1>2. ~At("size") /\ ~At("more") /\ ~Writing
    BY <1>1 DEF Init, At, Writing
  <1>3. Messages
    BY DEF Init, Messages
  <1> QED BY <1>2, <1>3 DEF Init, InStep, Filled, Rested, Asked, Halfway

\* A message goes from msg to the wire.
LEMMA Sending ==
    ASSUME IInv, InStep, NEW o \in {"more", "last"}, Completes(o)
    PROVE  InStep'
  <1>1. /\ o \in Ops /\ o \in ops /\ ops' = ops \ {o}
        /\ ready' = Append(ready, [op |-> o, ok |-> TRUE])
        /\ wire' = Append(wire, msg)
        /\ UNCHANGED <<replies, msg, got, owed, request, client>>
    BY DEF Completes, Ops, cvars
  <1>2. ops = {o} /\ \A i : ~OfOperation(i)
    BY <1>1 DEF IInv, OneOperation, OfOperation
  <1>3. ops' = {}
    BY <1>1, <1>2
  <1>4. ASSUME NEW p \in Ops, Done(p)' PROVE p = o
    <2>1. PICK i \in DOMAIN ready' : ready'[i] = [op |-> p, ok |-> TRUE]
      BY <1>4 DEF Done
    <2>2. ready'[i].op = p /\ p # "timer"
      BY <2>1 DEF Ops
    <2>3. [op |-> o, ok |-> TRUE] \in Handler
      BY <1>1 DEF Handler
    <2>4. \/ i \in DOMAIN ready /\ ready'[i] = ready[i]
          \/ ready'[i] = [op |-> o, ok |-> TRUE]
      BY <1>1, <2>1, <2>3, AppendHandlers DEF IInv
    <2>5. ~(i \in DOMAIN ready /\ ready'[i] = ready[i])
      BY <1>2, <2>2 DEF OfOperation
    <2> QED BY <2>2, <2>4, <2>5
  <1>5. "size" \in Ops /\ "more" \in Ops /\ "last" \in Ops /\ "size" # o
    BY DEF Ops
  <1>6. ~At("size")' /\ (At("more")' => o = "more") /\ (Done("more")' => o = "more")
    BY <1>3, <1>4, <1>5 DEF At
  <1>7. Messages'
    <2>1. wire' \in Seq(Seq(TLVs))
      BY <1>1, Joined DEF InStep, Messages
    <2> QED BY <1>1, <2>1 DEF InStep, Messages
  <1>8. Filled'
    <2>1. o = "more" => At("more")
      BY <1>1 DEF At
    <2> QED BY <1>1, <1>6, <2>1 DEF InStep, Filled
  <1>9. Writing
    BY <1>1 DEF Writing, At
  <1>10. client.phase # "idle" /\ (client.phase = "reading" => request = "none")
    BY <1>9 DEF InStep, Rested, Asked
  <1>11. ASSUME client.phase = "reading" PROVE \E r : Coming(r)' /\ Completed(r)'
    <2>1. PICK r : Coming(r) /\ Completed(r)
      BY <1>10, <1>11 DEF InStep, Halfway
    <2>2. PICK s \in Seq(Seq(TLVs)) : s = IF o = "more" THEN replies ELSE <<>>
      BY EmptySeq DEF InStep, Messages
    <2>3. r = <<msg>> \o s
      <3>1. <<msg>> \in Seq(Seq(TLVs))
        BY DEF InStep, Messages
      <3>2. <<msg>> \o <<>> = <<msg>>
        BY <3>1, ConcatEmptySeq
      <3> QED BY <1>1, <2>1, <2>2, <3>2 DEF Coming
    <2>4. wire' \o s = wire \o r
      <3>1. msg \in Seq(TLVs) /\ wire \in Seq(Seq(TLVs))
        BY DEF InStep, Messages
      <3>2. \A q \in Seq(Seq(TLVs)), m \in Seq(TLVs), t \in Seq(Seq(TLVs)) :
                Append(q, m) \o t = q \o (<<m>> \o t)
        BY Joined
      <3>3. Append(wire, msg) \o s = wire \o (<<msg>> \o s)
        BY <2>2, <3>1, <3>2
      <3> QED BY <1>1, <2>3, <3>3
    <2>5. Coming(s)'
      BY <1>1, <1>3, <1>6, <2>2 DEF Coming
    <2>6. Completed(s)'
      BY <1>1, <2>1, <2>4 DEF Completed
    <2> QED BY <2>5, <2>6
  <1>12. Rested' /\ Asked'
    BY <1>1, <1>10 DEF Rested, Asked
  <1>13. Halfway'
    BY <1>1, <1>11 DEF Halfway
  <1> QED BY <1>7, <1>8, <1>12, <1>13 DEF InStep

LEMMA Opened ==
    ASSUME IInv, InStep, HandleRequest
    PROVE  InStep'
  <1>1. /\ Run("payload", TRUE) /\ ops' = ops \cup {"size"} /\ request' = "none"
        /\ Replies(request) /\ UNCHANGED <<msg, client, wire, got>>
    BY DEF HandleRequest, Succeeds
  <1>2. request # "none"
    BY <1>1 DEF Replies
  <1>3. PICK q \in Queue : replies' = q /\ EndsOnce(q) /\ owed' = FlattenSeq(q)
    <2>1. CASE \E n \in 1..MaxParts : replies' = File(n) /\ owed' = FlattenSeq(File(n))
      BY <2>1, FileIs
    <2>2. CASE \E tlvs \in Answers(request) : replies' = Queued(tlvs) /\ owed' = tlvs
      <3>1. PICK tlvs \in Answers(request) : replies' = Queued(tlvs) /\ owed' = tlvs
        BY <2>2
      <3>2. /\ tlvs \in Seq(TLVs) /\ tlvs # <<>>
            /\ \A i \in 1..Len(tlvs) : tlvs[i].type = "END" <=> i = Len(tlvs)
        BY AnswersAre
      <3> QED BY <3>1, <3>2, QueueKeeps, QueueEnds
    <2> QED BY <1>1, <2>1, <2>2 DEF Replies
  <1>4. q \in Seq(Seq(TLVs)) /\ q # <<>>
    BY DEF Queue
  <1>5. owed' \in Seq(TLVs)
    BY <1>3, <1>4, FlatAppend
  <1>6. "payload" \in Ops /\ "more" \in Ops
    BY DEF Ops
  <1>7. ops' = {"size"} /\ \A p \in Ops : ~Done(p)'
    BY <1>1, <1>6, RunIs
  <1>8. ~Done("more")' /\ "more" \notin ops' /\ "last" \notin ops'
    BY <1>6, <1>7
  <1>9. Messages' /\ Filled'
    BY <1>1, <1>3, <1>4, <1>5 DEF InStep, Messages, Filled
  <1>10. client.phase # "idle"
    BY <1>2 DEF InStep, Rested
  <1>11. ASSUME client.phase = "reading" PROVE \E r : Coming(r)' /\ Completed(r)'
    <2>1. got = <<>> /\ wire = <<>>
      BY <1>2, <1>11 DEF InStep, Asked
    <2>2. wire \o q = q
      BY <1>4, <2>1, ConcatEmptySeq
    <2>3. got \o owed' = owed'
      BY <1>5, <2>1, ConcatEmptySeq
    <2>4. ~HasEND(got)
      BY <2>1 DEF HasEND
    <2>5. Coming(q)'
      BY <1>3, <1>4, <1>8 DEF Coming
    <2>6. Completed(q)'
      BY <1>1, <1>3, <1>4, <2>2, <2>3, <2>4 DEF Completed
    <2> QED BY <2>5, <2>6
  <1>12. Rested' /\ Asked'
    BY <1>1, <1>10 DEF Rested, Asked
  <1>13. Halfway'
    BY <1>1, <1>11 DEF Halfway
  <1> QED BY <1>9, <1>12, <1>13 DEF InStep

\* write_response takes the first reply of the queue.
LEMMA Taken ==
    ASSUME IInv, InStep, WriteMessage
    PROVE  InStep'
  <1>1. /\ Run("size", TRUE) /\ msg' = Head(replies) /\ replies' = Tail(replies)
        /\ ops' = ops \cup {IF Tail(replies) = <<>> THEN "last" ELSE "more"}
        /\ UNCHANGED <<owed, client, request, wire, got>>
    BY DEF WriteMessage, Succeeds, cvars
  <1>2. "size" \in Ops /\ "more" \in Ops
    BY DEF Ops
  <1>3. ops = {} /\ Done("size") /\ \A p \in Ops : ~Done(p)'
    BY <1>1, <1>2, RunIs
  <1>4. At("size") /\ Writing
    BY <1>3 DEF At, Writing
  <1>5. replies # <<>> /\ replies \in Seq(Seq(TLVs))
    BY <1>4 DEF InStep, Filled, Messages
  <1>6. /\ Head(replies) \in Seq(TLVs) /\ Tail(replies) \in Seq(Seq(TLVs))
        /\ <<Head(replies)>> \o Tail(replies) = replies
    BY <1>5, EmptySeq, Parted
  <1>7. ops' = {IF replies' = <<>> THEN "last" ELSE "more"}
    BY <1>1, <1>3
  <1>8. ~Done("size")' /\ ~Done("more")' /\ ~At("size")'
    BY <1>2, <1>3, <1>7 DEF At
  <1>9. Messages'
    BY <1>1, <1>6 DEF InStep, Messages
  <1>10. Filled'
    <2>1. ("more" \in ops)' => (replies # <<>>)'
      BY <1>7
    <2> QED BY <1>8, <2>1 DEF Filled, At
  <1>11. client.phase # "idle" /\ (client.phase = "reading" => request = "none")
    BY <1>4 DEF InStep, Rested, Asked
  <1>12. Rested' /\ Asked'
    BY <1>1, <1>11 DEF Rested, Asked
  <1>13. ASSUME client.phase = "reading" PROVE \E r : Coming(r)' /\ Completed(r)'
    <2>1. PICK r : Coming(r) /\ Completed(r)
      BY <1>11, <1>13 DEF InStep, Halfway
    <2>2. r = replies
      BY <1>4, <2>1 DEF Coming
    <2>3. r = <<msg'>> \o replies'
      BY <1>1, <1>6, <2>2
    <2>4. ASSUME ("last" \in ops)' PROVE r = <<msg'>>
      <3>0. replies' = <<>>
        BY <1>7, <2>4
      <3>1. replies' = <<>> /\ <<msg'>> \in Seq(Seq(TLVs))
        BY <1>1, <1>6, <3>0
      <3>2. <<msg'>> \o <<>> = <<msg'>>
        BY <3>1, ConcatEmptySeq
      <3> QED BY <2>3, <3>1, <3>2
    <2>5. Coming(r)'
      BY <1>5, <1>8, <2>2, <2>3, <2>4 DEF Coming
    <2>6. Completed(r)'
      BY <1>1, <2>1 DEF Completed
    <2> QED BY <2>5, <2>6
  <1>14. Halfway'
    BY <1>1, <1>13 DEF Halfway
  <1> QED BY <1>9, <1>10, <1>12, <1>14 DEF InStep

\* More than one reply is left: write_response goes on.
LEMMA Continued ==
    ASSUME IInv, InStep, WriteResponse
    PROVE  InStep'
  <1>1. /\ Run("more", TRUE) /\ ops' = ops \cup {"size"}
        /\ UNCHANGED <<replies, msg, owed, client, request, wire, got>>
    BY DEF WriteResponse, Succeeds, cvars
  <1>2. "more" \in Ops
    BY DEF Ops
  <1>3. ops = {} /\ Done("more") /\ \A p \in Ops : ~Done(p)'
    BY <1>1, <1>2, RunIs
  <1>4. ops' = {"size"} /\ ~Done("more")' /\ At("more") /\ Writing
    BY <1>1, <1>2, <1>3 DEF At, Writing
  <1>5. Messages' /\ Filled'
    BY <1>1, <1>4 DEF InStep, Messages, Filled
  <1>6. client.phase # "idle" /\ (client.phase = "reading" => request = "none")
    BY <1>4 DEF InStep, Rested, Asked
  <1>7. Rested' /\ Asked'
    BY <1>1, <1>6 DEF Rested, Asked
  <1>8. ASSUME client.phase = "reading" PROVE \E r : Coming(r)' /\ Completed(r)'
    <2>1. PICK r : Coming(r) /\ Completed(r)
      BY <1>6, <1>8 DEF InStep, Halfway
    <2>2. r = replies /\ r \in Seq(Seq(TLVs))
      BY <1>3, <2>1 DEF Coming
    <2>3. Coming(r)'
      BY <1>1, <1>4, <2>2 DEF Coming
    <2>4. Completed(r)'
      BY <1>1, <2>1 DEF Completed
    <2> QED BY <2>3, <2>4
  <1>9. Halfway'
    BY <1>1, <1>8 DEF Halfway
  <1> QED BY <1>5, <1>7, <1>9 DEF InStep

\* A handler that writes nothing: it starts the reading of a header or a payload.
LEMMA Awaiting ==
    ASSUME IInv, InStep, ReadRequest \/ ReadPayload
    PROVE  InStep'
  <1>1. PICK o \in {"handshake", "last", "header"}, p \in {"header", "payload"} :
            Run(o, TRUE) /\ ops' = ops \cup {p}
    BY DEF ReadRequest, ReadPayload, Succeeds
  <1>2. UNCHANGED <<replies, msg, owed, client, request, wire, got>>
    BY DEF ReadRequest, ReadPayload, cvars
  <1>3. o \in Ops /\ "size" \in Ops /\ "more" \in Ops
    BY DEF Ops
  <1>4. ops = {} /\ \A q \in Ops : ~Done(q)'
    BY <1>1, <1>3, RunIs
  <1>5. /\ ~At("size")' /\ ~At("more")' /\ ~Done("more")'
        /\ "more" \notin ops' /\ "last" \notin ops'
    BY <1>1, <1>3, <1>4 DEF At
  <1>6. ~Writing'
    BY <1>5 DEF Writing
  <1>7. Messages' /\ Filled' /\ Rested' /\ Asked'
    BY <1>2, <1>5, <1>6 DEF InStep, Messages, Filled, Rested, Asked
  <1>8. ASSUME NEW r, Coming(r), Completed(r) PROVE Coming(r)' /\ Completed(r)'
    <2>1. Coming(r)'
      BY <1>5, <1>8 DEF Coming
    <2>2. Completed(r)'
      BY <1>2, <1>8 DEF Completed
    <2> QED BY <2>1, <2>2
  <1>9. Halfway'
    BY <1>2, <1>8 DEF InStep, Halfway
  <1> QED BY <1>7, <1>9 DEF InStep

Phases == {"idle", "reading", "closed", "gone"}

LEMMA Reading ==
    ASSUME IInv, InStep, client \in [phase : Phases, left : Nat], Reads
    PROVE  InStep'
  <1>1. /\ client.phase = "reading" /\ wire # <<>>
        /\ got' = got \o Head(wire) /\ wire' = Tail(wire)
        /\ UNCHANGED <<ops, ready, replies, msg, owed, request>>
    BY DEF Reads, svars
  <1>2. request = "none"
    BY <1>1 DEF InStep, Asked
  <1>3. PICK r : Coming(r) /\ Completed(r)
    BY <1>1, <1>2 DEF InStep, Halfway
  <1>4. /\ wire \in Seq(Seq(TLVs)) /\ got \in Seq(TLVs) /\ r \in Seq(Seq(TLVs))
    BY <1>3 DEF InStep, Messages, Coming
  <1> DEFINE m == Head(wire)
             q == Tail(wire) \o r
             g == got \o m
  <1>5. /\ wire \o r \in Seq(Seq(TLVs)) /\ wire \o r # <<>>
        /\ m \in Seq(TLVs) /\ Tail(wire) \in Seq(Seq(TLVs))
        /\ Head(wire \o r) = m /\ Tail(wire \o r) = q
    BY <1>1, <1>4, Parted
  <1>6. FlattenSeq(wire \o r) = m \o FlattenSeq(q)
    BY <1>5, FlatHead
  <1>7. (HasEND(m) <=> q = <<>>) /\ EndsOnce(q)
    BY <1>3, <1>5, EndsOnceParted DEF Completed
  <1>8. q \in Seq(Seq(TLVs)) /\ FlattenSeq(q) \in Seq(TLVs)
    <2>1. q \in Seq(Seq(TLVs))
      BY <1>4, <1>5, ConcatProperties
    <2> HIDE DEF q
    <2>2. <<>> \in Seq(TLVs)
      BY EmptySeq
    <2> QED BY <2>1, <2>2, FlatAppend
  <1>9. g \o FlattenSeq(q) = owed
    <2>1. \A s, t, u \in Seq(TLVs) : (s \o t) \o u = s \o (t \o u)
      BY ConcatAssociative
    <2>2. (got \o m) \o FlattenSeq(q) = got \o (m \o FlattenSeq(q))
      BY <1>4, <1>5, <1>8, <2>1
    <2> QED BY <1>3, <1>6, <2>2 DEF Completed
  <1>10. g \in Seq(TLVs) /\ (HasEND(g) <=> q = <<>>)
    <2>1. HasEND(g) <=> HasEND(got) \/ HasEND(m)
      BY <1>4, <1>5, HasENDJoined
    <2> QED BY <1>3, <1>4, <1>5, <1>7, <2>1, ConcatProperties DEF Completed
  <1>11. Messages'
    BY <1>1, <1>5, <1>10 DEF InStep, Messages
  <1>12. Filled' /\ (Writing' => Writing)
    BY <1>1 DEF InStep, Filled, Writing, At, Done
  <1>13. client' = [client EXCEPT !.phase = IF HasEND(g) THEN "idle" ELSE "reading"]
    BY <1>1 DEF Reads
  <1> HIDE DEF m, g
  <1>14. CASE q = <<>>
    <2>1. Tail(wire) = <<>> /\ r = <<>>
      <3>1. Len(Tail(wire)) + Len(r) = 0
        <4>1. Len(q) = Len(Tail(wire)) + Len(r)
          BY <1>4, <1>5, ConcatProperties
        <4> QED BY <1>14, <4>1
      <3>2. Len(Tail(wire)) = 0 /\ Len(r) = 0
        <4>1. Len(Tail(wire)) \in Nat /\ Len(r) \in Nat
          BY <1>4, <1>5, LenProperties
        <4>2. \A a, b \in Nat : a + b = 0 => a = 0 /\ b = 0
          OBVIOUS
        <4> QED BY <3>1, <4>1, <4>2, Zenon
      <3> QED BY <1>4, <1>5, <3>2, EmptySeq
    <2>2. wire' = <<>> /\ got' = owed
      <3>1. FlattenSeq(q) = <<>>
        <4>1. q \in Seq(Seq(TLVs)) /\ <<>> \in Seq(TLVs)
          BY <1>8, EmptySeq
        <4>2. FlattenSeq(<<>>) = <<>>
          BY <4>1, FlatAppend
        <4> QED BY <1>14, <4>2
      <3>2. g \o <<>> = g
        BY <1>10, ConcatEmptySeq
      <3> QED BY <1>1, <1>9, <2>1, <3>1, <3>2 DEF g, m
    <2>3. ~Writing
      <3>1. ASSUME At("size") \/ Done("more") PROVE FALSE
        <4>1. r = replies /\ (At("size") \/ At("more"))
          BY <1>3, <3>1 DEF Coming, At
        <4> QED BY <2>1, <4>1 DEF InStep, Filled
      <3>2. ASSUME "more" \in ops PROVE FALSE
        <4>1. r = <<msg>> \o replies
          BY <1>3, <3>2 DEF Coming
        <4>2. \A t \in Seq(TLVs), u \in Seq(Seq(TLVs)) : <<t>> \o u # <<>>
          <5>1. <<>> \in Seq(Seq(TLVs))
            BY EmptySeq
          <5> QED BY <5>1, Joined
        <4>3. msg \in Seq(TLVs) /\ replies \in Seq(Seq(TLVs))
          BY DEF InStep, Messages
        <4> QED BY <2>1, <4>1, <4>2, <4>3
      <3>3. ASSUME "last" \in ops PROVE FALSE
        <4>1. r = <<msg>>
          BY <1>3, <3>3 DEF Coming
        <4> QED BY <2>1, <4>1
      <3> QED BY <3>1, <3>2, <3>3 DEF Writing, At
    <2>4. client'.phase # "reading"
      BY <1>10, <1>13, <1>14 DEF Phases
    <2>5. Rested'
      BY <1>1, <1>2, <1>12, <2>2, <2>3 DEF Rested
    <2> QED BY <1>11, <1>12, <2>4, <2>5 DEF InStep, Asked, Halfway
  <1>15. CASE q # <<>>
    <2>1. ~HasEND(g)
      BY <1>10, <1>15
    <2>2. client'.phase # "idle"
      BY <1>13, <2>1 DEF Phases
    <2>3. Coming(r)'
      BY <1>1, <1>3 DEF Coming, At, Done
    <2>4. Completed(r)'
      BY <1>1, <1>7, <1>9, <1>15, <2>1 DEF Completed, g, m
    <2>5. Rested' /\ Asked'
      BY <1>1, <1>2, <2>2 DEF Rested, Asked
    <2> QED BY <1>11, <1>12, <2>3, <2>4, <2>5 DEF InStep, Halfway
  <1> QED BY <1>14, <1>15

\* The types of what is not the reply.
Flags ==
    /\ ops \subseteq Ops
    /\ armed \in BOOLEAN /\ timed_out \in BOOLEAN /\ shut \in BOOLEAN /\ up \in BOOLEAN
    /\ client \in [phase : Phases, left : Nat]
    /\ request \in Requests \cup {"none"}

\* A reply is split where it should be.
Fits == ReplyFits => \A i \in DOMAIN replies : SizeOf(replies[i]) <= CHUNK_SIZE

LEMMA FlagsNext == Flags /\ [Next]_vars => Flags'
  <1> SUFFICES ASSUME Flags, [Next]_vars PROVE Flags'
    OBVIOUS
  <1>1. CASE UNCHANGED vars
    BY <1>1 DEF Flags, vars, svars, cvars
  <1>2. ASSUME NEW o \in Ops, Completes(o) \/ Fails(o) PROVE Flags'
    BY <1>2 DEF Flags, Completes, Fails, cvars
  <1>3. CASE Expires
    BY <1>3 DEF Flags, Expires, cvars
  <1>4. CASE Returns \/ ShutsDown
    BY <1>4 DEF Flags, Returns, ShutsDown, Shutdown, cvars
  <1>5. CASE TimesOut \/ TimesOutFreed
    BY <1>5 DEF Flags, TimesOut, TimesOutFreed, Shutdown, cvars
  <1>6. CASE ReadRequest \/ ReadPayload \/ WriteResponse
    BY <1>6 DEF Flags, ReadRequest, ReadPayload, WriteResponse, Ops, cvars
  <1>7. CASE HandleRequest
    BY <1>7 DEF Flags, HandleRequest, Ops
  <1>8. CASE RetrieveFails \/ WriteMessage
    BY <1>8 DEF Flags, RetrieveFails, WriteMessage, Ops, cvars
  <1>9. ASSUME NEW kind \in Requests, Asks(kind) PROVE Flags'
    <2>1. client.left - 1 \in Nat
      BY <1>9 DEF Flags, Asks
    <2>2. client' \in [phase : Phases, left : Nat]
      BY <1>9, <2>1 DEF Asks, Phases
    <2> QED BY <1>9, <2>2 DEF Flags, Asks, svars
  <1>10. CASE Reads \/ Loses \/ Leaves
    <2>1. client' \in [phase : Phases, left : Nat]
      <3>1. \A phase \in Phases : [client EXCEPT !.phase = phase] \in [phase : Phases, left : Nat]
        BY DEF Flags
      <3>2. \E phase \in Phases : client' = [client EXCEPT !.phase = phase]
        BY <1>10 DEF Reads, Loses, Leaves, Phases
      <3> QED BY <3>1, <3>2
    <2> QED BY <1>10, <2>1 DEF Flags, Reads, Loses, Leaves, svars
  <1> QED BY <1>1, <1>2, <1>3, <1>4, <1>5, <1>6, <1>7, <1>8, <1>9, <1>10 DEF Next, Strand

\* A step of those that start nothing.
LEMMA Lessening ==
    ASSUME IInv, InStep, Returns \/ ShutsDown \/ TimesOut \/ TimesOutFreed \/ RetrieveFails
    PROVE  InStep'
  <1>1. PICK o, ok : Run(o, ok)
    BY DEF Returns, ShutsDown, TimesOut, TimesOutFreed, RetrieveFails, Succeeds
  <1>2. UNCHANGED <<ops, replies, msg, owed, client, request, wire, got>>
    BY DEF Returns, ShutsDown, TimesOut, TimesOutFreed, RetrieveFails, cvars
  <1>3. Fewer
    BY <1>1, <1>2, RunIs DEF Fewer
  <1> QED BY <1>2, <1>3, Keeping

LEMMA StepNext == IInv /\ Flags /\ InStep /\ [Next]_vars => InStep'
  <1> SUFFICES ASSUME IInv, Flags, InStep, [Next]_vars PROVE InStep'
    OBVIOUS
  <1>1. CASE UNCHANGED vars
    <2>1. Fewer
      BY <1>1 DEF Fewer, Done, vars, svars
    <2> QED BY <1>1, <2>1, Keeping DEF vars, svars, cvars
  <1>2. ASSUME NEW o \in Ops, Completes(o) PROVE InStep'
    <2>1. CASE o \in {"more", "last"}
      BY <1>2, <2>1, Sending
    <2>2. CASE o \notin {"more", "last"}
      <3>1. /\ o \in ops /\ ops' = ops \ {o} /\ ready' = Append(ready, [op |-> o, ok |-> TRUE])
            /\ UNCHANGED <<replies, msg, owed, client, request, wire, got>>
        BY <1>2, <2>2 DEF Completes
      <3>2. [op |-> o, ok |-> TRUE] \in Handler
        BY DEF Handler
      <3>3. ASSUME NEW p \in Ops, Done(p)' PROVE Done(p) \/ p = o
        <4>1. PICK i \in DOMAIN ready' : ready'[i] = [op |-> p, ok |-> TRUE]
          BY <3>3 DEF Done
        <4>2. \/ i \in DOMAIN ready /\ ready'[i] = ready[i]
              \/ ready'[i] = [op |-> o, ok |-> TRUE]
          BY <3>1, <3>2, <4>1, AppendHandlers DEF IInv
        <4> QED BY <4>1, <4>2 DEF Done
      <3>4. "size" \in Ops /\ "more" \in Ops
        BY DEF Ops
      <3>5. Quieter
        BY <2>2, <3>1, <3>3, <3>4 DEF Quieter, At
      <3> QED BY <3>1, <3>5, Kept
    <2> QED BY <2>1, <2>2
  <1>3. ASSUME NEW o \in Ops, Fails(o) PROVE InStep'
    <2>1. /\ ops' = ops \ {o} /\ ready' = Append(ready, [op |-> o, ok |-> FALSE])
          /\ UNCHANGED <<replies, msg, owed, client, request, wire, got>>
      BY <1>3 DEF Fails, cvars
    <2>2. [op |-> o, ok |-> FALSE] \in Handler
      BY DEF Handler
    <2>3. Fewer
      BY <2>1, <2>2, Queueing DEF Fewer
    <2> QED BY <2>1, <2>3, Keeping
  <1>4. CASE Expires
    <2>1. /\ ready' = Append(ready, [op |-> "timer", ok |-> TRUE])
          /\ UNCHANGED <<ops, replies, msg, owed, client, request, wire, got>>
      BY <1>4 DEF Expires, cvars
    <2>2. [op |-> "timer", ok |-> TRUE] \in Handler
      BY DEF Handler
    <2>3. Fewer
      BY <2>1, <2>2, Queueing DEF Fewer
    <2> QED BY <2>1, <2>3, Keeping
  <1>5. CASE Strand
    BY <1>5, Lessening, Awaiting, Opened, Taken, Continued DEF Strand
  <1>6. ASSUME NEW kind \in Requests, Asks(kind) PROVE InStep'
    <2>1. /\ client.phase = "idle" /\ client'.phase = "reading"
          /\ request' # "none" /\ got' = <<>>
          /\ UNCHANGED <<ops, ready, replies, msg, owed, wire>>
      BY <1>6 DEF Asks, Requests, svars
    <2>2. Filled' /\ (Writing' => Writing)
      BY <2>1 DEF InStep, Filled, Writing, At, Done
    <2>3. Messages'
      BY <2>1, EmptySeq DEF InStep, Messages
    <2>4. Rested' /\ Asked' /\ Halfway'
      BY <2>1, <2>2 DEF InStep, Rested, Asked, Halfway
    <2> QED BY <2>2, <2>3, <2>4 DEF InStep
  <1>7. CASE Reads
    BY <1>7, Reading DEF Flags
  <1>8. CASE Loses \/ Leaves
    <2>1. ~Here' /\ UNCHANGED <<ops, ready, replies, msg, owed, request, wire, got>>
      <3>1. PICK phase \in {"closed", "gone"} : client' = [client EXCEPT !.phase = phase]
        BY <1>8 DEF Loses, Leaves
      <3>2. client'.phase = phase
        BY <3>1 DEF Flags
      <3> QED BY <1>8, <3>2 DEF Here, Loses, Leaves, svars
    <2>2. Fewer
      BY <2>1 DEF Fewer, Done
    <2> QED BY <2>1, <2>2, Keeping
  <1> QED BY <1>1, <1>2, <1>3, <1>4, <1>5, <1>6, <1>7, <1>8 DEF Next

LEMMA FitsNext == IInv /\ InStep /\ Fits /\ [Next]_vars => Fits'
  <1> SUFFICES ASSUME IInv, InStep, Fits, [Next]_vars PROVE Fits'
    OBVIOUS
  <1>1. CASE UNCHANGED replies
    BY <1>1 DEF Fits
  <1>2. CASE HandleRequest
    <2> SUFFICES ASSUME ReplyFits
                 PROVE \A i \in DOMAIN replies' : SizeOf(replies'[i]) <= CHUNK_SIZE
      BY DEF Fits
    <2>1. PICK q \in Queue : /\ replies' = q
                             /\ \A k \in 1..Len(q) : SizeOf(q[k]) <= CHUNK_SIZE
      <3>1. CASE \E n \in 1..MaxParts : replies' = File(n)
        BY <3>1, FileIs
      <3>2. CASE \E tlvs \in Answers(request) : replies' = Queued(tlvs)
        <4>1. PICK tlvs \in Answers(request) : replies' = Queued(tlvs)
          BY <3>2
        <4>2. tlvs \in Seq(TLVs) /\ \A i \in 1..Len(tlvs) : tlvs[i].length + 4 <= CHUNK_SIZE
          BY AnswersAre
        <4> QED BY <4>1, <4>2, QueueKeeps, QueueFits
      <3> QED BY <1>2, <3>1, <3>2 DEF HandleRequest, Replies
    <2>2. DOMAIN q = 1..Len(q)
      BY LenProperties DEF Queue
    <2> QED BY <2>1, <2>2
  <1>3. CASE WriteMessage
    <2> SUFFICES ASSUME ReplyFits
                 PROVE \A i \in DOMAIN replies' : SizeOf(replies'[i]) <= CHUNK_SIZE
      BY DEF Fits
    <2>1. At("size") /\ replies' = Tail(replies)
      BY <1>3, RunIs DEF WriteMessage, Succeeds, At
    <2>2. replies # <<>> /\ replies \in Seq(Seq(TLVs))
      BY <2>1 DEF InStep, Filled, Messages
    <2>3. \A i \in DOMAIN Tail(replies) :
              i + 1 \in DOMAIN replies /\ Tail(replies)[i] = replies[i + 1]
      BY <2>2
    <2> QED BY <2>1, <2>3 DEF Fits
  <1>4. CASE UNCHANGED vars
    BY <1>1, <1>4 DEF vars, svars
  <1>5. CASE (\E o \in Ops : Completes(o) \/ Fails(o)) \/ Expires
    BY <1>1, <1>5 DEF Completes, Fails, Expires
  <1>6. CASE Strand
    BY <1>1, <1>2, <1>3, <1>6 DEF Strand, Returns, ShutsDown, TimesOut, TimesOutFreed, ReadRequest,
                                  ReadPayload, RetrieveFails, WriteResponse
  <1>7. CASE (\E kind \in Requests : Asks(kind)) \/ Reads \/ Loses \/ Leaves
    BY <1>1, <1>7 DEF Asks, Reads, Loses, Leaves, svars
  <1> QED BY <1>4, <1>5, <1>6, <1>7 DEF Next

LEMMA StepAlways == Spec => [](IInv /\ Flags /\ InStep /\ Fits)
  <1>1. Init => IInv /\ Flags /\ InStep /\ Fits
    <2>1. Init => Flags
      <3> SUFFICES ASSUME Init PROVE Flags
        OBVIOUS
      <3>1. client \in [phase : Phases, left : Nat]
        BY ConnectionAssumption DEF Init, Phases
      <3>2. ops \subseteq Ops /\ request = "none"
        BY DEF Init, Ops
      <3>3. /\ armed \in BOOLEAN /\ timed_out \in BOOLEAN
            /\ shut \in BOOLEAN /\ up \in BOOLEAN
        BY DEF Init
      <3> QED BY <3>1, <3>2, <3>3 DEF Flags
    <2>2. Init => Fits
      BY DEF Init, Fits
    <2> QED BY InitInv, StepInit, <2>1, <2>2
  <1>2. IInv /\ Flags /\ InStep /\ Fits /\ [Next]_vars => (IInv /\ Flags /\ InStep /\ Fits)'
    BY NextInv, FlagsNext, StepNext, FitsNext
  <1> QED BY <1>1, <1>2, PTL DEF Spec

\* A client that has read a reply has read all of it, in its order, and nothing is
\* left on the wire: whatever the size at which replies are split, the lengths of
\* the signs and the number of files, and wherever errors and timeouts strike.
\* (message_queue::add_TLV, connection::write_response, connection::read)
THEOREM RepliesAreWhole == Spec => []ReplyIsWhole
  <1>1. InStep => ReplyIsWhole
    BY DEF InStep, Rested, ReplyIsWhole
  <1> QED BY <1>1, StepAlways, PTL

\* The variables have their types, and no message is longer than CHUNK_SIZE, if
\* every TLV fits in a message of its own.  (message_queue::add_TLV)
THEOREM ConnectionTypeCorrect ==
    ASSUME ReplyFits
    PROVE  Spec => []TypeOK
  <1>1. IInv /\ Flags /\ Fits => TypeOK
    BY DEF IInv, Flags, Fits, TypeOK, Phases
  <1> QED BY <1>1, StepAlways, PTL
=============================================================================
