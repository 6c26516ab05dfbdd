--------------------------- MODULE FrontEndProofs ---------------------------
(***************************************************************************)
(* What holds of the front end for every capacity, fetch limit, address    *)
(* space and number of streams: types, the accounting of slots, and that   *)
(* no fetch request is orphaned.                                           *)
(***************************************************************************)
EXTENDS FrontEnd, FiniteSetTheorems, TLAPS

-----------------------------------------------------------------------------
(* A fault is a truth value, and a fetch need not be one.                  *)
LEMMA FaultsAre == Fault \subseteq BOOLEAN /\ FALSE \in Fault
BY FrontEndAssumption DEF Fault

-----------------------------------------------------------------------------
(* Sequences without duplicates and the sets of their entries.             *)

(* Taking the head off a queue of distinct entries (deque::pop_front)      *)
(* removes exactly that entry from its set.                                *)
LEMMA TailIds ==
  ASSUME NEW S, NEW q \in Seq(S), q # <<>>, NoDuplicates(q)
  PROVE  /\ Tail(q) \in Seq(S) /\ Len(Tail(q)) = Len(q) - 1
         /\ Head(q) \in S /\ Head(q) \in Ids(q)
         /\ NoDuplicates(Tail(q))
         /\ Ids(Tail(q)) = Ids(q) \ {Head(q)}
<1>1. Tail(q) \in Seq(S) /\ Len(Tail(q)) = Len(q) - 1 /\ Len(q) \in Nat \ {0}
  OBVIOUS
<1>2. \A i \in 1 .. Len(Tail(q)) : Tail(q)[i] = q[i + 1]
  OBVIOUS
<1>3. Head(q) = q[1] /\ Head(q) \in S
  OBVIOUS
<1>4. NoDuplicates(Tail(q))
  BY <1>1, <1>2 DEF NoDuplicates
<1>5. ASSUME NEW x \in Ids(Tail(q)) PROVE x \in Ids(q) \ {Head(q)}
  <2>1. PICK i \in 1 .. Len(Tail(q)) : x = Tail(q)[i]
    BY <1>5 DEF Ids
  <2>2. i + 1 \in 1 .. Len(q) /\ x = q[i + 1] /\ i + 1 # 1 /\ 1 \in 1 .. Len(q)
    BY <2>1, <1>1, <1>2
  <2>3. QED BY <2>2, <1>3 DEF NoDuplicates, Ids
<1>6. ASSUME NEW x \in Ids(q) \ {Head(q)} PROVE x \in Ids(Tail(q))
  <2>1. PICK i \in 1 .. Len(q) : x = q[i]
    BY <1>6 DEF Ids
  <2>2. i # 1 /\ i - 1 \in 1 .. Len(Tail(q))
    BY <2>1, <1>6, <1>1, <1>3
  <2>3. Tail(q)[i - 1] = x
    BY <2>1, <2>2, <1>2
  <2>4. QED BY <2>2, <2>3 DEF Ids
<1>7. QED BY <1>1, <1>3, <1>4, <1>5, <1>6 DEF Ids

(* Appending an entry that is not in the queue (deque::push_back).         *)
LEMMA AppendIds ==
  ASSUME NEW S, NEW q \in Seq(S), NoDuplicates(q), NEW x \in S, x \notin Ids(q)
  PROVE  /\ Append(q, x) \in Seq(S) /\ Len(Append(q, x)) = Len(q) + 1
         /\ NoDuplicates(Append(q, x))
         /\ Ids(Append(q, x)) = Ids(q) \cup {x}
         /\ Append(q, x) # <<>>
         /\ q # <<>> => Head(Append(q, x)) = Head(q)
         /\ q = <<>> => Head(Append(q, x)) = x
<1> DEFINE r == Append(q, x)
<1>1. r \in Seq(S) /\ Len(r) = Len(q) + 1 /\ Len(q) \in Nat
  OBVIOUS
<1>2. /\ \A i \in 1 .. Len(q) : r[i] = q[i]
      /\ r[Len(q) + 1] = x
  OBVIOUS
<1>3. NoDuplicates(r)
  <2> SUFFICES ASSUME NEW i \in 1 .. Len(r), NEW j \in 1 .. Len(r), r[i] = r[j]
               PROVE  i = j
    BY DEF NoDuplicates
  <2>1. \A k \in 1 .. Len(q) : r[k] # x
    BY <1>2 DEF Ids
  <2>2. i \in 1 .. Len(q) \/ i = Len(q) + 1
    BY <1>1
  <2>3. j \in 1 .. Len(q) \/ j = Len(q) + 1
    BY <1>1
  <2>4. QED BY <2>1, <2>2, <2>3, <1>2 DEF NoDuplicates
<1>4. Ids(r) = Ids(q) \cup {x}
  <2>1. ASSUME NEW y \in Ids(r) PROVE y \in Ids(q) \cup {x}
    BY <2>1, <1>1, <1>2 DEF Ids
  <2>2. ASSUME NEW y \in Ids(q) PROVE y \in Ids(r)
    <3>1. PICK i \in 1 .. Len(q) : y = q[i]
      BY <2>2 DEF Ids
    <3>2. i \in 1 .. Len(r) /\ r[i] = y
      BY <3>1, <1>1, <1>2
    <3>3. QED BY <3>2 DEF Ids
  <2>3. x \in Ids(r)
    BY <1>1, <1>2 DEF Ids
  <2>4. QED BY <2>1, <2>2, <2>3
<1>5. /\ r # <<>>
      /\ q # <<>> => Head(r) = Head(q)
      /\ q = <<>> => Head(r) = x
  OBVIOUS
<1>6. QED BY <1>1, <1>3, <1>4, <1>5
-----------------------------------------------------------------------------
(* One cycle of an input buffer whose latch wire w has its slot reserved.  *)

(* Between two evaluates the element pointer is NULL.                      *)
Settled(b, S) == b \in BufferOf(S) /\ b.elem = Bubble

(* The buffer with another queue and another count of reserved slots.      *)
Holding(b, q, n) == [b EXCEPT !.queue = q, !.reserved = n]

Holds(b, S, q, n) == Settled(b, S) /\ b.queue = q /\ b.reserved = n

(* Writing queue and reservation into a settled buffer leaves it settled.  *)
LEMMA HoldingKeeps ==
  ASSUME NEW S, NEW b, Settled(b, S), NEW q \in Seq(S), NEW n \in Nat
  PROVE  Holds(Holding(b, q, n), S, q, n)
<1>1. b \in [queue : Seq(S), elem : Wire(S), reserved : Nat]
  BY DEF Settled, BufferOf
<1>2. [b EXCEPT !.queue = q, !.reserved = n]
        \in [queue : Seq(S), elem : Wire(S), reserved : Nat]
  BY <1>1
<1>3. QED BY <1>1, <1>2 DEF Settled, BufferOf, Holding, Holds

(* The buffer takes the wire's element, and may lose others to a pop.      *)
Accepted(b, c, S, w) ==
  /\ Settled(c, S)
  /\ Len(c.queue) <= Len(b.queue) + Len(w)
  /\ c.reserved = b.reserved - Len(w)

(* A wire holds one value or is a bubble, which is the one of length 0.    *)
LEMMA WireLen ==
  ASSUME NEW S, NEW w \in Wire(S)
  PROVE  Len(w) \in {0, 1} /\ (Len(w) = 0 <=> w = Bubble)
BY DEF Wire, Bubble

(* A buffer between setTail() and pushTail(): it has the wire's element,   *)
(* or points to it.                                                        *)
Taking(b, c, S, w) ==
  \/ Accepted(b, c, S, w)
  \/ /\ c \in BufferOf(S) /\ c.elem # Bubble /\ c.queue = <<>>
     /\ Len(w) = 1 /\ c.reserved = b.reserved /\ c.reserved # 0

(* The buffer with a queue and a reservation that points to nothing.       *)
Having(q, n) == [queue |-> q, elem |-> Bubble, reserved |-> n]

(* A buffer that is no longer than before and the wire has accepted it.    *)
LEMMA HavingAccepts ==
  ASSUME NEW S, NEW b, NEW w, NEW q \in Seq(S), NEW n \in Nat,
         Len(q) <= Len(b.queue) + Len(w), n = b.reserved - Len(w)
  PROVE  Accepted(b, Having(q, n), S, w)
<1>1. Bubble \in Wire(S)
  BY DEF Wire
<1>2. Having(q, n) \in [queue : Seq(S), elem : Wire(S), reserved : Nat]
  BY <1>1 DEF Having
<1>3. /\ Having(q, n).queue = q /\ Having(q, n).reserved = n
      /\ Having(q, n).elem = Bubble
  BY DEF Having
<1>4. QED BY <1>2, <1>3 DEF Accepted, Settled, BufferOf

(* setTail().                                                              *)
LEMMA SetTailTakes ==
  ASSUME NEW S, NEW b, Settled(b, S), NEW w \in Wire(S), Len(w) <= b.reserved
  PROVE  Taking(b, SetTail(b, w), S, w)
<1>0. b \in [queue : Seq(S), elem : Wire(S), reserved : Nat] /\ b.elem = Bubble
  BY DEF Settled, BufferOf
<1>1. CASE w = Bubble
  BY <1>0, <1>1 DEF Taking, Accepted, Settled, SetTail, Bubble
<1>2. CASE w # Bubble
  <2>1. PICK x \in S : w = <<x>>
    BY <1>2 DEF Wire
  <2>2. Len(w) = 1 /\ w[1] = x /\ b.reserved # 0 /\ b.reserved \in Nat
    BY <1>0, <2>1
  <2>3. CASE b.queue = <<>>
    <3>1. SetTail(b, w) = [b EXCEPT !.elem = w]
      BY <1>2, <2>3 DEF SetTail
    <3>2. QED BY <1>0, <1>2, <2>2, <2>3, <3>1 DEF Taking, BufferOf
  <2>4. CASE b.queue # <<>>
    <3> DEFINE q == Append(b.queue, x)  n == b.reserved - 1
    <3>1. SetTail(b, w) = Having(q, n)
      BY <1>0, <1>2, <2>2, <2>4 DEF Having, SetTail, Push, FreeReservation
    <3>2. q \in Seq(S) /\ Len(q) = Len(b.queue) + 1
      BY <1>0
    <3>3. n \in Nat /\ n = b.reserved - Len(w)
      BY <2>2
    <3> HIDE DEF q, n
    <3>4. Len(q) <= Len(b.queue) + Len(w)
      BY <1>0, <2>2, <3>2
    <3>5. QED BY <3>1, <3>2, <3>3, <3>4, HavingAccepts DEF Taking
  <2>5. QED BY <2>3, <2>4
<1>3. QED BY <1>1, <1>2

(* A buffer that only points to its element gives the slot back with it.   *)
LEMMA DroppedElem ==
  ASSUME NEW S, NEW c \in BufferOf(S), c.elem # Bubble, c.queue = <<>>,
         c.reserved # 0
  PROVE  /\ PopInput(c) = Having(<<>>, c.reserved - 1)
         /\ PopAll(c) = PopInput(c)
<1>1. c \in [queue : Seq(S), elem : Wire(S), reserved : Nat]
  BY DEF BufferOf
<1>2. QED BY <1>1 DEF Having, PopInput, PopAll, Pop, IsEmpty, FreeReservation

(* popInput(), once or until empty.                                        *)
LEMMA PopTakes ==
  ASSUME NEW S, NEW b, Settled(b, S), NEW w \in Wire(S), NEW c,
         Taking(b, c, S, w)
  PROVE  Taking(b, PopInput(c), S, w) /\ Taking(b, PopAll(c), S, w)
<1>0. /\ <<>> \in Seq(S) /\ Len(<<>>) = 0
      /\ b.reserved \in Nat /\ Len(b.queue) \in Nat
  BY DEF Settled, BufferOf
<1>1. CASE Accepted(b, c, S, w)
  <2>1. /\ c \in [queue : Seq(S), elem : Wire(S), reserved : Nat]
        /\ c.elem = Bubble
        /\ Len(c.queue) <= Len(b.queue) + Len(w)
        /\ c.reserved = b.reserved - Len(w)
    BY <1>1 DEF Accepted, Settled, BufferOf
  <2>2. Taking(b, PopAll(c), S, w)
    <3>1. PopAll(c) = Having(<<>>, c.reserved)
      <4>1. PopAll(c) = [c EXCEPT !.elem = Bubble, !.queue = <<>>]
        BY <2>1 DEF PopAll
      <4>2. QED BY <2>1, <4>1 DEF Having
    <3>2. Len(<<>>) <= Len(b.queue) + Len(w)
      BY <1>0, WireLen
    <3>3. QED BY <1>0, <2>1, <3>1, <3>2, HavingAccepts DEF Taking
  <2>3. Taking(b, PopInput(c), S, w)
    <3>1. CASE c.queue = <<>>
      BY <1>1, <2>1, <3>1 DEF Taking, PopInput, IsEmpty
    <3>2. CASE c.queue # <<>>
      <4> DEFINE q == Tail(c.queue)  n == c.reserved
      <4>1. PopInput(c) = Having(q, n)
        BY <2>1, <3>2 DEF Having, PopInput, Pop, IsEmpty
      <4>2. q \in Seq(S) /\ Len(q) = Len(c.queue) - 1 /\ Len(c.queue) \in Nat
        BY <2>1, <3>2
      <4>3. n \in Nat /\ n = b.reserved - Len(w)
        BY <2>1
      <4>4. Len(w) \in Nat
        BY WireLen
      <4> HIDE DEF q, n
      <4>5. Len(q) <= Len(b.queue) + Len(w)
        BY <1>0, <2>1, <4>2, <4>4
      <4>6. QED BY <4>1, <4>2, <4>3, <4>5, HavingAccepts DEF Taking
    <3>3. QED BY <3>1, <3>2
  <2>4. QED BY <2>2, <2>3
<1>2. CASE ~Accepted(b, c, S, w)
  <2>1. /\ c \in BufferOf(S) /\ c.elem # Bubble /\ c.queue = <<>>
        /\ Len(w) = 1 /\ c.reserved = b.reserved /\ c.reserved # 0
    BY <1>2 DEF Taking
  <2> DEFINE n == c.reserved - 1
  <2>2. n \in Nat /\ n = b.reserved - Len(w)
    BY <1>0, <2>1
  <2>3. /\ PopInput(c) = Having(<<>>, n)
        /\ PopAll(c) = PopInput(c)
    BY <2>1, DroppedElem
  <2> HIDE DEF n
  <2>4. Len(<<>>) <= Len(b.queue) + Len(w)
    BY <1>0, <2>1
  <2>5. QED BY <1>0, <2>2, <2>3, <2>4, HavingAccepts DEF Taking
<1>3. QED BY <1>1, <1>2

(* pushTail().                                                             *)
LEMMA PushTailAccepts ==
  ASSUME NEW S, NEW b, Settled(b, S), NEW w \in Wire(S), NEW c,
         Taking(b, c, S, w)
  PROVE  Accepted(b, PushTail(c), S, w)
<1>1. CASE Accepted(b, c, S, w)
  BY <1>1 DEF Accepted, Settled, PushTail
<1>2. CASE ~Accepted(b, c, S, w)
  <2>1. /\ c \in [queue : Seq(S), elem : Wire(S), reserved : Nat]
        /\ c.elem # Bubble /\ c.queue = <<>>
        /\ Len(w) = 1 /\ c.reserved = b.reserved /\ c.reserved # 0
        /\ b.reserved \in Nat /\ Len(b.queue) \in Nat
    BY <1>2 DEF Taking, BufferOf, Settled
  <2>2. PICK x \in S : c.elem = <<x>>
    BY <2>1 DEF Wire
  <2> DEFINE q == <<x>>  n == c.reserved - 1
  <2>3. PushTail(c) = Having(q, n)
    <3>1. Append(c.queue, c.elem[1]) = q
      BY <2>1, <2>2
    <3>2. QED BY <2>1, <3>1 DEF Having, PushTail, Push, FreeReservation
  <2>4. q \in Seq(S) /\ Len(q) = 1
    OBVIOUS
  <2>5. n \in Nat /\ n = b.reserved - Len(w)
    BY <2>1
  <2> HIDE DEF q, n
  <2>6. Len(q) <= Len(b.queue) + Len(w)
    BY <2>1, <2>4
  <2>7. QED BY <2>3, <2>4, <2>5, <2>6, HavingAccepts
<1>3. QED BY <1>1, <1>2

(* What is at the front of a buffer that takes a wire is of its type.      *)
LEMMA TakingFront ==
  ASSUME NEW S, NEW b, NEW w \in Wire(S), NEW c, Taking(b, c, S, w), ~IsEmpty(c)
  PROVE  Front(c) \in S
<1>1. c \in [queue : Seq(S), elem : Wire(S), reserved : Nat]
  BY DEF Taking, Accepted, Settled, BufferOf
<1>2. CASE c.elem # Bubble
  <2>1. PICK x \in S : c.elem = <<x>>
    BY <1>1, <1>2 DEF Wire
  <2>2. QED BY <1>2, <2>1 DEF Front
<1>3. CASE c.elem = Bubble
  <2>1. c.queue # <<>> /\ c.queue \in Seq(S)
    BY <1>1, <1>3 DEF IsEmpty
  <2>2. c.queue[1] \in S
    BY <2>1
  <2>3. QED BY <1>3, <2>2 DEF Front
<1>4. QED BY <1>2, <1>3

(* The three ways the stages go on: nothing popped, one or all entries.    *)
LEMMA AcceptKeeps ==
  ASSUME NEW S, NEW b, Settled(b, S), NEW w \in Wire(S), Len(w) <= b.reserved
  PROVE  Accepted(b, PushTail(SetTail(b, w)), S, w)
BY SetTailTakes, PushTailAccepts

(* ... with one entry popped ...                                           *)
LEMMA AcceptPopKeeps ==
  ASSUME NEW S, NEW b, Settled(b, S), NEW w \in Wire(S), Len(w) <= b.reserved
  PROVE  Accepted(b, PushTail(PopInput(SetTail(b, w))), S, w)
BY SetTailTakes, PopTakes, PushTailAccepts

(* ... with all of them popped, as after a change of stream.               *)
LEMMA AcceptPopAllKeeps ==
  ASSUME NEW S, NEW b, Settled(b, S), NEW w \in Wire(S), Len(w) <= b.reserved
  PROVE  Accepted(b, PushTail(PopAll(SetTail(b, w))), S, w)
BY SetTailTakes, PopTakes, PushTailAccepts

(* The accounting of an input buffer of capacity cap: m entries on their   *)
(* way to it have a slot reserved, and no more are promised than it has.   *)
Promised(b, cap, m) == Len(b.queue) + b.reserved <= cap /\ m <= b.reserved

(* If what is on the wire and m more are promised a slot, the wire has     *)
(* one.                                                                    *)
LEMMA PromisedWire ==
  ASSUME NEW S, NEW b, NEW w \in Wire(S), Settled(b, S), NEW cap, NEW m \in Nat,
         Promised(b, cap, m + Len(w))
  PROVE  Len(w) <= b.reserved
<1> DEFINE l == Len(w)  r == b.reserved
<1>1. l \in Nat /\ r \in Nat
  BY WireLen DEF Settled, BufferOf
<1>2. m + l <= r
  BY DEF Promised
<1> HIDE DEF l, r
<1>3. l <= r
  BY <1>1, <1>2
<1>4. QED BY <1>3 DEF l, r

(* A buffer that accepts a wire keeps its bound, and the m entries still   *)
(* to come keep their slots.                                               *)
LEMMA AcceptedPromised ==
  ASSUME NEW S, NEW b, NEW c, NEW w \in Wire(S), Settled(b, S), Accepted(b, c, S, w),
         NEW cap \in Nat, NEW m \in Nat, Promised(b, cap, m + Len(w))
  PROVE  Settled(c, S) /\ Promised(c, cap, m)
<1> DEFINE lb == Len(b.queue)  lc == Len(c.queue)  rb == b.reserved
           rc == c.reserved  l == Len(w)
<1>1. /\ lb \in Nat /\ rb \in Nat /\ lc \in Nat /\ rc \in Nat
      /\ Settled(c, S)
  BY DEF Accepted, Settled, BufferOf
<1>2. l \in Nat
  BY WireLen
<1>3. lc <= lb + l /\ rc = rb - l /\ lb + rb <= cap /\ m + l <= rb
  BY DEF Accepted, Promised
<1> HIDE DEF lb, lc, rb, rc, l
<1>4. lc + rc <= cap /\ m <= rc
  BY <1>1, <1>2, <1>3
<1>5. QED BY <1>1, <1>4 DEF Promised, lc, rc

(* reserve(), where canReserve() was asked first.                          *)
LEMMA ReservePromised ==
  ASSUME NEW S, NEW b, Settled(b, S), NEW cap \in Nat, NEW m \in Nat,
         CanReserve(b, cap), Promised(b, cap, m)
  PROVE  Settled(Reserve(b), S) /\ Promised(Reserve(b), cap, m + 1)
<1> DEFINE q == b.queue  n == b.reserved + 1  l == Len(b.queue)  r == b.reserved
<1>1. q \in Seq(S) /\ l \in Nat /\ r \in Nat /\ n \in Nat
  BY DEF Settled, BufferOf
<1>2. Reserve(b) = Holding(b, q, n)
  BY DEF Reserve, Holding, Settled, BufferOf
<1>3. l + r < cap /\ m <= r /\ n = r + 1
  BY DEF CanReserve, Promised
<1> HIDE DEF q, n
<1>4. Holds(Holding(b, q, n), S, q, n)
  BY <1>1, HoldingKeeps
<1>5. l = Len(q)
  BY DEF q
<1> HIDE DEF l, r
<1>6. l + n <= cap /\ m + 1 <= n
  BY <1>1, <1>3
<1>7. QED BY <1>2, <1>4, <1>5, <1>6 DEF Holds, Promised

(* freeReservation(), by who still has a slot to give back.                *)
LEMMA FreePromised ==
  ASSUME NEW S, NEW b, Settled(b, S), NEW cap \in Nat, NEW m \in Nat, m # 0,
         Promised(b, cap, m)
  PROVE  Settled(FreeReservation(b), S) /\ Promised(FreeReservation(b), cap, m - 1)
<1> DEFINE q == b.queue  n == b.reserved - 1  l == Len(b.queue)  r == b.reserved
<1>1. /\ q \in Seq(S) /\ l \in Nat /\ r \in Nat
      /\ l + r <= cap /\ m <= r /\ n = r - 1
  BY DEF Settled, BufferOf, Promised
<1>2. b.reserved # 0 /\ n \in Nat
  BY <1>1
<1>3. FreeReservation(b) = Holding(b, q, n)
  BY <1>2 DEF FreeReservation, Holding, Settled, BufferOf
<1> HIDE DEF q, n
<1>4. Holds(Holding(b, q, n), S, q, n)
  BY <1>1, <1>2, HoldingKeeps
<1>5. l = Len(q)
  BY DEF q
<1> HIDE DEF l, r
<1>6. l + n <= cap /\ m - 1 <= n
  BY <1>1
<1>7. QED BY <1>3, <1>4, <1>5, <1>6 DEF Holds, Promised

(* popInput() until empty in a stage that does not look at its latch.      *)
LEMMA PopAllPromised ==
  ASSUME NEW S, NEW b, Settled(b, S), NEW cap \in Nat, NEW m, Promised(b, cap, m)
  PROVE  Settled(PopAll(b), S) /\ Promised(PopAll(b), cap, m)
<1> DEFINE n == b.reserved  l == Len(b.queue)
<1>1. l \in Nat /\ n \in Nat /\ l + n <= cap /\ m <= n
  BY DEF Settled, BufferOf, Promised
<1>2. PopAll(b) = Holding(b, <<>>, n)
  BY DEF PopAll, Holding, Settled, BufferOf, Bubble
<1>3. <<>> \in Seq(S) /\ Len(<<>>) = 0
  OBVIOUS
<1> HIDE DEF n, l
<1>4. Holds(Holding(b, <<>>, n), S, <<>>, n)
  BY <1>1, <1>3, HoldingKeeps
<1>5. 0 + n <= cap
  BY <1>1
<1>6. QED BY <1>1, <1>2, <1>3, <1>4, <1>5 DEF Holds, Promised

(* What a stage finds at the front of its input is of the buffer's type.   *)
LEMMA FrontIsIn ==
  ASSUME NEW S, NEW b, Settled(b, S), NEW w \in Wire(S)
  PROVE  /\ ~IsEmpty(SetTail(b, w)) => Front(SetTail(b, w)) \in S
         /\ GetInput(b) \in Wire(S)
<1>1. /\ b.queue \in Seq(S) /\ b.elem = Bubble
      /\ b \in [queue : Seq(S), elem : Wire(S), reserved : Nat]
  BY DEF Settled, BufferOf
<1>2. GetInput(b) \in Wire(S)
  <2>1. CASE b.queue = <<>>
    BY <1>1, <2>1 DEF GetInput, IsEmpty, Wire
  <2>2. CASE b.queue # <<>>
    <3>1. b.queue[1] \in S
      BY <1>1, <2>2
    <3>2. GetInput(b) = <<b.queue[1]>>
      BY <1>1, <2>2 DEF GetInput, IsEmpty, Front
    <3>3. QED BY <3>1, <3>2 DEF Wire
  <2>3. QED BY <2>1, <2>2
<1>3. CASE w = Bubble
  <2>1. SetTail(b, w) = b
    BY <1>3 DEF SetTail
  <2>2. b.queue # <<>> => b.queue[1] \in S
    BY <1>1
  <2>3. QED BY <1>1, <1>2, <2>1, <2>2 DEF IsEmpty, Front
<1>4. CASE w # Bubble
  <2>1. PICK x \in S : w = <<x>>
    BY <1>4 DEF Wire
  <2>2. w[1] = x
    BY <2>1
  <2>3. CASE b.queue = <<>>
    <3>1. SetTail(b, w) = [b EXCEPT !.elem = w]
      BY <1>4, <2>3 DEF SetTail
    <3>2. [b EXCEPT !.elem = w].elem = w
      BY <1>1
    <3>3. Front(SetTail(b, w)) = w[1]
      BY <1>4, <3>1, <3>2 DEF Front
    <3>4. QED BY <1>2, <2>2, <3>3
  <2>4. CASE b.queue # <<>>
    <3>1. SetTail(b, w) = Push(b, x)
      BY <1>4, <2>2, <2>4 DEF SetTail
    <3>2. Push(b, x).elem = Bubble /\ Push(b, x).queue = Append(b.queue, x)
      BY <1>1 DEF Push, FreeReservation
    <3>3. Append(b.queue, x)[1] \in S
      BY <1>1
    <3>4. Front(SetTail(b, w)) = Append(b.queue, x)[1]
      BY <3>1, <3>2 DEF Front
    <3>5. QED BY <1>2, <3>3, <3>4
  <2>5. QED BY <2>3, <2>4
<1>5. QED BY <1>2, <1>3, <1>4
-----------------------------------------------------------------------------
(* Fetch2, one operator at a time.                                         *)

F2OK(f) == f \in Fetch2State /\ RequestsKept(f) /\ RetryKept(f)

(* The number of requests in flight is a natural number.                   *)
LEMMA InFlightNat ==
  ASSUME NEW f, F2OK(f)
  PROVE  InFlight(f) \in Nat
<1> DEFINE a == Len(f.requests)  b == Len(f.transfers)
<1>1. a \in Nat /\ b \in Nat
  BY DEF F2OK, Fetch2State
<1> HIDE DEF a, b
<1>2. a + b \in Nat
  BY <1>1
<1>3. QED BY <1>2 DEF InFlight, a, b

(* What the cache's and the ITLB's answers leave alone.                    *)
SameFetch(f, g) ==
  /\ InFlight(g) = InFlight(f)
  /\ g.thread = f.thread
  /\ g.fetchState = f.fetchState
  /\ g.streamSeqNum = f.streamSeqNum

(* Writing one request moves that request alone between the states.        *)
OnlyMoved(f, g, p, r) ==
  \A S : InState(g, S) =
           (InState(f, S) \ {p}) \cup {q \in {p} : r.state \in S}

(* Giving request p the record r moves p, and p alone, between the sets of *)
(* requests by state.                                                      *)
LEMMA InStateUpdate ==
  ASSUME NEW f, NEW g, f.req \in [Request -> FetchRequest],
         NEW p \in Request, NEW r \in FetchRequest,
         g.req = [f.req EXCEPT ![p] = r]
  PROVE  /\ g.req \in [Request -> FetchRequest]
         /\ OnlyMoved(f, g, p, r)
<1>1. g.req \in [Request -> FetchRequest]
  OBVIOUS
<1>2. g.req[p] = r /\ \A q \in Request \ {p} : g.req[q] = f.req[q]
  OBVIOUS
<1>3. QED BY <1>1, <1>2 DEF InState, OnlyMoved

(* A request leaves requests for transfers, in state st; ic is the new set *)
(* of requests the cache holds.                                            *)
Moved(f, p, st, ic) ==
  [f EXCEPT !.req = [f.req EXCEPT ![p] = [f.req[p] EXCEPT !.state = st]],
            !.requests = Tail(f.requests),
            !.transfers = Append(f.transfers, p),
            !.icache = ic]

(* The request tryToSend() is called for: translated, and at the head.     *)
ReadyToSend(f, p) ==
  /\ f.icacheState = "IcacheRunning"
  /\ f.requests # <<>> /\ p = Head(f.requests)
  /\ f.req[p].state = "Translated"

(* It leaves complete, or with the cache.                                  *)
LEMMA MoveKeeps ==
  ASSUME NEW f, F2OK(f), NEW p, ReadyToSend(f, p), NEW st, NEW ic,
         \/ st = "Complete" /\ ic = f.icache
         \/ st = "RequestIssuing" /\ ic = f.icache \cup {p}
  PROVE  F2OK(Moved(f, p, st, ic)) /\ SameFetch(f, Moved(f, p, st, ic))
<1>1. /\ f.req \in [Request -> FetchRequest]
      /\ f.requests \in Seq(Request) /\ f.transfers \in Seq(Request)
      /\ f.icache \in SUBSET Request /\ f.itlb \in SUBSET Request
      /\ f.owesRetry = FALSE /\ f.icacheState = "IcacheRunning"
      /\ Len(f.requests) \in Nat /\ Len(f.transfers) \in Nat
  BY DEF F2OK, Fetch2State, RetryKept, ReadyToSend
<1>2. /\ NoDuplicates(f.requests) /\ NoDuplicates(f.transfers)
      /\ Ids(f.requests) = InState(f, {"InTranslation", "Translated"})
      /\ Ids(f.transfers) = InState(f, {"RequestIssuing", "Complete"})
      /\ f.itlb = InState(f, {"InTranslation"})
      /\ f.icache = InState(f, {"RequestIssuing"})
  BY DEF F2OK, RequestsKept
<1> DEFINE r == [f.req[p] EXCEPT !.state = st]
           R == Tail(f.requests)
           T == Append(f.transfers, p)
           m == [f.req EXCEPT ![p] = r]
           g == Moved(f, p, st, ic)
<1>3. /\ R \in Seq(Request) /\ Len(R) = Len(f.requests) - 1
      /\ p \in Request /\ p \in Ids(f.requests)
      /\ NoDuplicates(R) /\ Ids(R) = Ids(f.requests) \ {p}
  BY <1>1, <1>2, TailIds DEF ReadyToSend
<1>4. p \notin Ids(f.transfers)
  BY <1>2 DEF InState, ReadyToSend
<1>5. /\ T \in Seq(Request) /\ Len(T) = Len(f.transfers) + 1
      /\ NoDuplicates(T) /\ Ids(T) = Ids(f.transfers) \cup {p}
  BY <1>1, <1>2, <1>3, <1>4, AppendIds
<1>6. r \in FetchRequest /\ r.state = st
  BY <1>1, <1>3 DEF FetchRequest
<1>7. m \in [Request -> FetchRequest] /\ ic \in SUBSET Request
  BY <1>1, <1>3, <1>6
<1>8. g = [f EXCEPT !.req = m, !.requests = R, !.transfers = T, !.icache = ic]
  BY DEF Moved
<1>9. m = [f.req EXCEPT ![p] = r]
  OBVIOUS
<1> HIDE DEF r, R, T, m, g
<1>10. /\ g \in Fetch2State
       /\ g.req = m /\ g.requests = R /\ g.transfers = T /\ g.icache = ic
       /\ g.itlb = f.itlb /\ g.icacheState = f.icacheState
       /\ g.owesRetry = f.owesRetry /\ g.thread = f.thread
       /\ g.fetchState = f.fetchState /\ g.streamSeqNum = f.streamSeqNum
  <2>1. f \in Fetch2State BY DEF F2OK
  <2>2. g \in Fetch2State
    BY <2>1, <1>3, <1>5, <1>7, <1>8 DEF Fetch2State
  <2>3. f.req \in [Request -> FetchRequest]
    BY <2>1 DEF Fetch2State
  <2>4. /\ g.req = m /\ g.requests = R /\ g.transfers = T /\ g.icache = ic
    BY <2>1, <1>8 DEF Fetch2State
  <2>5. /\ g.itlb = f.itlb /\ g.icacheState = f.icacheState
       /\ g.owesRetry = f.owesRetry /\ g.thread = f.thread
       /\ g.fetchState = f.fetchState /\ g.streamSeqNum = f.streamSeqNum
    BY <2>1, <1>8 DEF Fetch2State
  <2>9. QED BY <2>2, <2>4, <2>5
<1>a. OnlyMoved(f, g, p, r)
  <2>1. g.req = [f.req EXCEPT ![p] = r]
    BY <1>9, <1>10
  <2>2. QED BY <1>1, <1>3, <1>6, <2>1, InStateUpdate
<1>11. RequestsKept(g)
  <2>1. f.req[p].state = "Translated" /\ p \in Request
    BY <1>3 DEF ReadyToSend
  <2>2. g.itlb = InState(g, {"InTranslation"})
    BY <1>2, <1>6, <1>10, <1>a, <2>1 DEF InState, OnlyMoved
  <2>3. g.icache = InState(g, {"RequestIssuing"})
    <3>1. InState(g, {"RequestIssuing"}) =
            (InState(f, {"RequestIssuing"}) \ {p})
              \cup {q \in {p} : st \in {"RequestIssuing"}}
      BY <1>6, <1>a DEF OnlyMoved
    <3>2. p \notin f.icache
      BY <1>2, <2>1 DEF InState
    <3>3. g.icache = IF st = "Complete" THEN f.icache ELSE f.icache \cup {p}
      BY <1>10
    <3>4. QED BY <1>2, <3>1, <3>2, <3>3
  <2>4. Ids(g.requests) = InState(g, {"InTranslation", "Translated"})
    <3>1. InState(g, {"InTranslation", "Translated"}) =
            InState(f, {"InTranslation", "Translated"}) \ {p}
      BY <1>2, <1>6, <1>a DEF OnlyMoved
    <3>2. Ids(g.requests) = Ids(f.requests) \ {p}
      BY <1>3, <1>10
    <3>3. QED BY <1>2, <3>1, <3>2
  <2>5. Ids(g.transfers) = InState(g, {"RequestIssuing", "Complete"})
    <3>1. InState(g, {"RequestIssuing", "Complete"}) =
            (InState(f, {"RequestIssuing", "Complete"}) \ {p}) \cup {p}
      BY <1>6, <1>a DEF OnlyMoved
    <3>2. Ids(g.transfers) = Ids(f.transfers) \cup {p}
      BY <1>5, <1>10
    <3>3. Ids(f.transfers) = InState(f, {"RequestIssuing", "Complete"})
      BY <1>2
    <3>4. QED BY <1>4, <3>1, <3>2, <3>3
  <2>6. QED BY <1>3, <1>5, <1>10, <2>2, <2>3, <2>4, <2>5 DEF RequestsKept
<1>12. RetryKept(g)
  BY <1>1, <1>10 DEF RetryKept
<1>13. InFlight(g) = InFlight(f)
  <2> DEFINE a == Len(f.requests)  b == Len(f.transfers)
             c == Len(g.requests)  d == Len(g.transfers)
  <2>1. a \in Nat /\ b \in Nat
    BY <1>1
  <2>2. c = a - 1
    BY <1>3, <1>10
  <2>3. d = b + 1
    BY <1>5, <1>10
  <2> HIDE DEF a, b, c, d
  <2>4. c + d = a + b
    BY <2>1, <2>2, <2>3
  <2>5. QED BY <2>4 DEF InFlight, a, b, c, d
<1>14. QED BY <1>10, <1>11, <1>12, <1>13 DEF F2OK, SameFetch, g

(* tryToSend(), for the caller's request.                                  *)
LEMMA TryToSendKeeps ==
  ASSUME NEW f, F2OK(f), NEW p, ReadyToSend(f, p), NEW accept \in BOOLEAN
  PROVE  F2OK(TryToSend(f, p, accept)) /\ SameFetch(f, TryToSend(f, p, accept))
<1>1. CASE accept
  <2>1. TryToSend(f, p, accept) = Moved(f, p, "RequestIssuing", f.icache \cup {p})
    <3>1. f \in Fetch2State /\ p = Head(f.requests)
      BY DEF F2OK, ReadyToSend
    <3>2. QED
      BY <1>1, <3>1
         DEF TryToSend, MoveFromRequestsToTransfers, Moved, Fetch2State
  <2>2. QED BY <2>1, MoveKeeps
<1>2. CASE ~accept
  <2> DEFINE g == [f EXCEPT !.icacheState = "IcacheNeedsRetry", !.owesRetry = TRUE]
  <2>1. TryToSend(f, p, accept) = g
    BY <1>2 DEF TryToSend
  <2>2. /\ g \in Fetch2State
        /\ g.req = f.req /\ g.requests = f.requests /\ g.transfers = f.transfers
        /\ g.itlb = f.itlb /\ g.icache = f.icache /\ g.thread = f.thread
        /\ g.fetchState = f.fetchState /\ g.streamSeqNum = f.streamSeqNum
        /\ g.owesRetry = TRUE /\ g.icacheState = "IcacheNeedsRetry"
    BY DEF F2OK, Fetch2State
  <2> HIDE DEF g
  <2>3. RequestsKept(g)
    BY <2>2 DEF F2OK, RequestsKept, InState
  <2>4. RetryKept(g)
    BY <2>2 DEF RetryKept, ReadyToSend
  <2>5. InFlight(g) = InFlight(f)
    BY <2>2 DEF InFlight
  <2>6. QED BY <2>1, <2>2, <2>3, <2>4, <2>5 DEF F2OK, SameFetch
<1>3. QED BY <1>1, <1>2

(* tryToSendToTransfers(), whichever request in requests it is called for. *)
LEMMA TryToSendToTransfersKeeps ==
  ASSUME NEW f, F2OK(f), NEW input, NEW p, p \in Ids(f.requests),
         p = Head(f.requests) => f.icacheState = "IcacheRunning",
         NEW accept \in BOOLEAN
  PROVE  /\ F2OK(TryToSendToTransfers(f, input, p, accept))
         /\ SameFetch(f, TryToSendToTransfers(f, input, p, accept))
<1> DEFINE t == TryToSendToTransfers(f, input, p, accept)
<1>1. CASE Head(f.requests) # p \/ f.req[p].state = "InTranslation"
  BY <1>1 DEF TryToSendToTransfers, SameFetch
<1>2. CASE ~(Head(f.requests) # p \/ f.req[p].state = "InTranslation")
  <2>1. ReadyToSend(f, p)
    <3>1. f.requests # <<>>
      BY DEF Ids
    <3>2. f.req[p].state \in {"InTranslation", "Translated"}
      BY DEF F2OK, RequestsKept, InState
    <3>3. QED BY <1>2, <3>1, <3>2 DEF ReadyToSend
  <2>2. CASE IsDiscardable(f, input, p) \/ f.req[p].fault
    <3>1. t = Moved(f, p, "Complete", f.icache)
      <4>1. f \in Fetch2State /\ p = Head(f.requests)
        BY <1>2 DEF F2OK
      <4>2. QED
        BY <1>2, <2>2, <4>1 DEF TryToSendToTransfers,
           MoveFromRequestsToTransfers, Moved, Fetch2State
    <3>2. QED BY <2>1, <3>1, MoveKeeps
  <2>3. CASE ~(IsDiscardable(f, input, p) \/ f.req[p].fault)
    <3>1. t = TryToSend(f, p, accept)
      BY <1>2, <2>3 DEF TryToSendToTransfers
    <3>2. QED BY <2>1, <3>1, TryToSendKeeps
  <2>4. QED BY <2>2, <2>3
<1>3. QED BY <1>1, <1>2

(* Setting a request's state without moving it, as the ITLB does.          *)
Translate(f, p, fault) ==
  [f EXCEPT !.req[p].state = "Translated", !.req[p].fault = fault,
            !.itlb = @ \ {p}]

(* FetchRequest::finish: a translated request keeps the bookkeeping of     *)
(* Fetch2; it is still queued, and if it is at the head no retry is owed.  *)
LEMMA TranslateKeeps ==
  ASSUME NEW f, F2OK(f), NEW p \in f.itlb, NEW fault \in Fault
  PROVE  LET g == Translate(f, p, fault)
         IN  /\ F2OK(g) /\ SameFetch(f, g)
             /\ p \in Ids(g.requests)
             /\ p = Head(g.requests) => g.icacheState = "IcacheRunning"
<1> DEFINE r == [f.req[p] EXCEPT !.state = "Translated", !.fault = fault]
           m == [f.req EXCEPT ![p] = r]
           g == Translate(f, p, fault)
<1>1. /\ f \in Fetch2State /\ f.req \in [Request -> FetchRequest]
      /\ p \in Request /\ f.req[p].state = "InTranslation"
  BY DEF F2OK, Fetch2State, RequestsKept, InState
<1>2. r \in FetchRequest /\ r.state = "Translated"
  BY <1>1 DEF FetchRequest
<1>3. m \in [Request -> FetchRequest] /\ f.itlb \ {p} \in SUBSET Request
  BY <1>1, <1>2 DEF Fetch2State
<1>4. g = [f EXCEPT !.req = m, !.itlb = f.itlb \ {p}]
  BY <1>1 DEF Translate, Fetch2State, FetchRequest
<1>5. m = [f.req EXCEPT ![p] = r] /\ m[p] = r
      /\ \A q \in Request \ {p} : m[q] = f.req[q]
  BY <1>1
<1> HIDE DEF r, m, g
<1>6. /\ g \in Fetch2State
      /\ g.req = m /\ g.itlb = f.itlb \ {p}
      /\ g.requests = f.requests /\ g.transfers = f.transfers
      /\ g.icache = f.icache /\ g.icacheState = f.icacheState
      /\ g.owesRetry = f.owesRetry /\ g.thread = f.thread
      /\ g.fetchState = f.fetchState /\ g.streamSeqNum = f.streamSeqNum
  BY <1>1, <1>3, <1>4 DEF Fetch2State
<1>7. OnlyMoved(f, g, p, r)
  BY <1>1, <1>2, <1>5, <1>6, InStateUpdate
<1>8. p \in Ids(f.requests)
  BY <1>1 DEF F2OK, RequestsKept, InState
<1>9. RequestsKept(g)
  <2>1. p \in InState(f, {"InTranslation"})
    BY <1>1 DEF InState
  <2>2. p \notin InState(f, {"RequestIssuing"})
        /\ p \notin InState(f, {"RequestIssuing", "Complete"})
    BY <1>1 DEF InState
  <2>3. g.itlb = InState(g, {"InTranslation"})
    BY <1>2, <1>6, <1>7 DEF OnlyMoved, F2OK, RequestsKept
  <2>4. g.icache = InState(g, {"RequestIssuing"})
    <3>1. InState(g, {"RequestIssuing"}) = InState(f, {"RequestIssuing"}) \ {p}
      BY <1>2, <1>7 DEF OnlyMoved
    <3>2. f.icache = InState(f, {"RequestIssuing"})
      BY DEF F2OK, RequestsKept
    <3>3. QED BY <1>6, <2>2, <3>1, <3>2
  <2>5. Ids(g.requests) = InState(g, {"InTranslation", "Translated"})
    <3>1. InState(g, {"InTranslation", "Translated"}) =
            (InState(f, {"InTranslation", "Translated"}) \ {p}) \cup {p}
      BY <1>2, <1>7 DEF OnlyMoved
    <3>2. Ids(f.requests) = InState(f, {"InTranslation", "Translated"})
      BY DEF F2OK, RequestsKept
    <3>3. QED BY <1>6, <1>8, <3>1, <3>2
  <2>6. Ids(g.transfers) = InState(g, {"RequestIssuing", "Complete"})
    <3>1. InState(g, {"RequestIssuing", "Complete"}) =
            InState(f, {"RequestIssuing", "Complete"}) \ {p}
      BY <1>2, <1>7 DEF OnlyMoved
    <3>2. Ids(f.transfers) = InState(f, {"RequestIssuing", "Complete"})
      BY DEF F2OK, RequestsKept
    <3>3. QED BY <1>6, <2>2, <3>1, <3>2
  <2>7. QED BY <1>6, <2>3, <2>4, <2>5, <2>6 DEF F2OK, RequestsKept
<1>10. RetryKept(g) /\ (p = Head(g.requests) => g.icacheState = "IcacheRunning")
  <2>1. CASE f.owesRetry
    <3>1. /\ f.requests # <<>> /\ f.req[Head(f.requests)].state = "Translated"
          /\ f.icacheState = "IcacheNeedsRetry"
      BY <2>1 DEF F2OK, RetryKept
    <3>2. Head(f.requests) \in Request
      BY <1>1, <3>1 DEF Fetch2State
    <3>3. Head(f.requests) # p
      BY <1>1, <3>1
    <3>4. QED BY <2>1, <1>5, <1>6, <3>1, <3>2, <3>3 DEF RetryKept
  <2>2. CASE ~f.owesRetry
    BY <2>2, <1>1, <1>6 DEF F2OK, RetryKept, Fetch2State
  <2>3. QED BY <2>1, <2>2
<1>11. SameFetch(f, g)
  BY <1>6 DEF SameFetch, InFlight
<1>12. QED BY <1>6, <1>8, <1>9, <1>10, <1>11 DEF F2OK, g

(* FetchRequest::finish() with all it leads to.                            *)
LEMMA FinishKeeps ==
  ASSUME NEW f, F2OK(f), NEW input, NEW p \in f.itlb, NEW fault \in Fault,
         NEW accept \in BOOLEAN
  PROVE  /\ F2OK(Finish(f, input, p, fault, accept))
         /\ SameFetch(f, Finish(f, input, p, fault, accept))
<1> DEFINE g == Translate(f, p, fault)
<1>1. /\ F2OK(g) /\ SameFetch(f, g)
      /\ p \in Ids(g.requests)
      /\ p = Head(g.requests) => g.icacheState = "IcacheRunning"
  BY TranslateKeeps
<1>2. Finish(f, input, p, fault, accept) = TryToSendToTransfers(g, input, p, accept)
  BY DEF Finish, Translate
<1> HIDE DEF g
<1>3. /\ F2OK(TryToSendToTransfers(g, input, p, accept))
      /\ SameFetch(g, TryToSendToTransfers(g, input, p, accept))
  BY <1>1, TryToSendToTransfersKeeps
<1>4. QED BY <1>1, <1>2, <1>3 DEF SameFetch

(* stepQueues().                                                           *)
LEMMA StepQueuesKeeps ==
  ASSUME NEW f, F2OK(f), NEW input, NEW accept \in BOOLEAN
  PROVE  /\ F2OK(StepQueues(f, input, accept))
         /\ SameFetch(f, StepQueues(f, input, accept))
<1>1. CASE f.icacheState = "IcacheRunning" /\ f.requests # <<>>
  <2>1. StepQueues(f, input, accept)
          = TryToSendToTransfers(f, input, Head(f.requests), accept)
    BY <1>1 DEF StepQueues
  <2>2. Head(f.requests) \in Ids(f.requests)
    BY <1>1, TailIds DEF F2OK, Fetch2State, RequestsKept
  <2>3. QED BY <1>1, <2>1, <2>2, TryToSendToTransfersKeeps
<1>2. CASE ~(f.icacheState = "IcacheRunning" /\ f.requests # <<>>)
  BY <1>2 DEF StepQueues, SameFetch
<1>3. QED BY <1>1, <1>2

(* Two queues that hold every element of a set are as long as it is big.   *)
LEMMA QueuesCover ==
  ASSUME NEW S, NEW R \in Seq(S), NEW T \in Seq(S),
         \A x \in S : x \in Ids(R) \cup Ids(T)
  PROVE  Cardinality(S) <= Len(R) + Len(T)
<1> DEFINE nr == Len(R)  nt == Len(T)  n == nr + nt
           h == [i \in 1 .. n |-> IF i <= nr THEN R[i] ELSE T[i - nr]]
<1>1. /\ nr \in Nat /\ nt \in Nat
      /\ \A i \in 1 .. nr : R[i] \in S
      /\ \A i \in 1 .. nt : T[i] \in S
  OBVIOUS
<1>2. /\ \A x \in Ids(R) : \E i \in 1 .. nr : x = R[i]
      /\ \A x \in Ids(T) : \E i \in 1 .. nt : x = T[i]
  BY DEF Ids
<1> HIDE DEF nr, nt
<1>3. ASSUME NEW x \in S PROVE \E i \in 1 .. n : h[i] = x
  <2>1. CASE x \in Ids(R)
    <3>1. PICK i \in 1 .. nr : x = R[i]
      BY <1>2, <2>1
    <3>2. i \in 1 .. n /\ i <= nr
      BY <1>1, <3>1
    <3>3. h[i] = R[i]
      BY <3>2
    <3>4. QED BY <3>1, <3>2, <3>3
  <2>2. CASE x \in Ids(T)
    <3>1. PICK i \in 1 .. nt : x = T[i]
      BY <1>2, <2>2
    <3> DEFINE j == i + nr
    <3>2. j \in 1 .. n /\ ~(j <= nr) /\ j - nr = i
      BY <1>1, <3>1
    <3> HIDE DEF j
    <3>3. h[j] = T[i]
      BY <3>2
    <3>4. QED BY <3>1, <3>2, <3>3
  <2>3. QED BY <2>1, <2>2
<1>4. ASSUME NEW i \in 1 .. n
      PROVE  (IF i <= nr THEN R[i] ELSE T[i - nr]) \in S
  <2>1. CASE i <= nr
    BY <1>1, <2>1
  <2>2. CASE ~(i <= nr)
    <3>1. i - nr \in 1 .. nt
      BY <1>1, <2>2
    <3>2. QED BY <1>1, <2>2, <3>1
  <2>3. QED BY <2>1, <2>2
<1>5. h \in [1 .. n -> S]
  BY <1>4
<1>6. n \in Nat
  BY <1>1
<1> HIDE DEF n, h
<1>7. h \in Surjection(1 .. n, S)
  BY <1>3, <1>5 DEF Surjection
<1>8. ExistsSurjection(1 .. n, S)
  BY <1>7 DEF ExistsSurjection
<1>9. Cardinality(S) <= n
  BY <1>6, <1>8, FS_SurjCardinalityBound
<1>10. QED BY <1>9 DEF n, nr, nt

(* As long as fetchLimit is not reached there is a request to allocate.    *)
LEMMA FreeRequest ==
  ASSUME NEW f, F2OK(f), InFlight(f) < FetchLimit
  PROVE  \E p \in Request : ~Allocated(f, p)
<1> SUFFICES ASSUME \A p \in Request : Allocated(f, p) PROVE FALSE
  OBVIOUS
<1>1. f.requests \in Seq(Request) /\ f.transfers \in Seq(Request)
  BY DEF F2OK, Fetch2State
<1>2. ASSUME NEW p \in Request
      PROVE  p \in Ids(f.requests) \cup Ids(f.transfers)
  <2>1. f.req[p].state \in {"InTranslation", "Translated", "RequestIssuing", "Complete"}
    BY DEF F2OK, Fetch2State, FetchRequest, Allocated
  <2>2. QED BY <2>1 DEF F2OK, RequestsKept, InState
<1>3. Cardinality(Request) <= InFlight(f)
  BY <1>1, <1>2, QueuesCover DEF InFlight
<1>4. Cardinality(Request) = FetchLimit /\ FetchLimit \in Nat
  BY FS_Interval, FrontEndAssumption DEF Request
<1> DEFINE n == InFlight(f)  c == Cardinality(Request)
<1>5. n \in Nat /\ c <= n /\ c = FetchLimit /\ n < FetchLimit
  <2>1. n \in Nat
    BY InFlightNat
  <2>2. c <= n /\ c = FetchLimit
    BY <1>3, <1>4
  <2>3. n < FetchLimit
    OBVIOUS
  <2>4. QED BY <2>1, <2>2, <2>3
<1> HIDE DEF n, c
<1>6. QED BY <1>4, <1>5

(* fetchLine() up to the call of the ITLB.                                 *)
Started(f, p) ==
  [f EXCEPT !.req[p] = [state |-> "InTranslation",
                        stream |-> f.thread[1].stream,
                        pc |-> f.thread[1].pc, fault |-> FALSE],
            !.requests = Append(@, p),
            !.itlb = @ \cup {p},
            !.fetchState = "FetchRunning"]

(* fetchLine up to the call of the ITLB adds one request and keeps the     *)
(* bookkeeping of Fetch2.                                                  *)
LEMMA StartedKeeps ==
  ASSUME NEW f, F2OK(f), f.thread # Bubble, NEW p \in Request, ~Allocated(f, p)
  PROVE  LET g == Started(f, p)
         IN  /\ F2OK(g) /\ p \in g.itlb
             /\ InFlight(g) = InFlight(f) + 1
             /\ g.thread = f.thread /\ g.fetchState = "FetchRunning"
             /\ g.streamSeqNum = f.streamSeqNum
<1> DEFINE r == [state |-> "InTranslation", stream |-> f.thread[1].stream,
                 pc |-> f.thread[1].pc, fault |-> FALSE]
           m == [f.req EXCEPT ![p] = r]
           R == Append(f.requests, p)
           I == f.itlb \cup {p}
           g == Started(f, p)
<1>1. /\ f \in Fetch2State /\ f.req \in [Request -> FetchRequest]
      /\ f.requests \in Seq(Request) /\ f.req[p].state = "NotIssued"
      /\ NoDuplicates(f.requests)
      /\ Len(f.requests) \in Nat /\ Len(f.transfers) \in Nat
  BY DEF F2OK, Fetch2State, RequestsKept, Allocated
<1>2. r \in FetchRequest /\ r.state = "InTranslation"
  <2>1. PICK x \in Fetch : f.thread = <<x>>
    BY <1>1 DEF Fetch2State, Wire, Bubble
  <2>2. f.thread[1] = x
    BY <2>1
  <2>3. QED BY <2>2 DEF Fetch, FetchRequest, Fault
<1>3. p \notin Ids(f.requests)
  BY <1>1 DEF F2OK, RequestsKept, InState
<1>4. /\ R \in Seq(Request) /\ Len(R) = Len(f.requests) + 1
      /\ NoDuplicates(R) /\ Ids(R) = Ids(f.requests) \cup {p}
      /\ R # <<>> /\ (f.requests # <<>> => Head(R) = Head(f.requests))
  BY <1>1, <1>3, AppendIds
<1>5. /\ m \in [Request -> FetchRequest] /\ I \in SUBSET Request /\ p \in I
      /\ m = [f.req EXCEPT ![p] = r]
      /\ \A q \in Request \ {p} : m[q] = f.req[q]
  BY <1>1, <1>2 DEF Fetch2State
<1>6. g = [f EXCEPT !.req = m, !.requests = R, !.itlb = I, !.fetchState = "FetchRunning"]
  BY <1>1 DEF Started, Fetch2State
<1>7. I = f.itlb \cup {p}
  OBVIOUS
<1> HIDE DEF r, m, R, I, g
<1>8. /\ g \in Fetch2State
      /\ g.req = m /\ g.itlb = I /\ g.requests = R
      /\ g.transfers = f.transfers
      /\ g.icache = f.icache /\ g.icacheState = f.icacheState
      /\ g.owesRetry = f.owesRetry /\ g.thread = f.thread
      /\ g.fetchState = "FetchRunning" /\ g.streamSeqNum = f.streamSeqNum
  BY <1>1, <1>4, <1>5, <1>6 DEF Fetch2State
<1>9. OnlyMoved(f, g, p, r)
  BY <1>1, <1>2, <1>5, <1>8, InStateUpdate
<1>10. RequestsKept(g)
  <2>1. p \notin InState(f, {"RequestIssuing"})
        /\ p \notin InState(f, {"RequestIssuing", "Complete"})
        /\ p \notin InState(f, {"InTranslation"})
        /\ p \notin InState(f, {"InTranslation", "Translated"})
    BY <1>1 DEF InState
  <2>2. /\ InState(g, {"InTranslation"}) = InState(f, {"InTranslation"}) \cup {p}
        /\ InState(g, {"InTranslation", "Translated"})
             = InState(f, {"InTranslation", "Translated"}) \cup {p}
        /\ InState(g, {"RequestIssuing"}) = InState(f, {"RequestIssuing"})
        /\ InState(g, {"RequestIssuing", "Complete"})
             = InState(f, {"RequestIssuing", "Complete"})
    <3>1. \A S : "InTranslation" \in S /\ p \notin InState(f, S) =>
                   InState(g, S) = InState(f, S) \cup {p}
      BY <1>2, <1>9 DEF OnlyMoved
    <3>2. \A S : "InTranslation" \notin S /\ p \notin InState(f, S) =>
                   InState(g, S) = InState(f, S)
      BY <1>2, <1>9 DEF OnlyMoved
    <3>3. QED BY <2>1, <3>1, <3>2
  <2>3. /\ f.itlb = InState(f, {"InTranslation"})
        /\ f.icache = InState(f, {"RequestIssuing"})
        /\ Ids(f.requests) = InState(f, {"InTranslation", "Translated"})
        /\ Ids(f.transfers) = InState(f, {"RequestIssuing", "Complete"})
        /\ NoDuplicates(f.transfers)
    BY DEF F2OK, RequestsKept
  <2>4. QED BY <1>4, <1>7, <1>8, <2>2, <2>3 DEF RequestsKept
<1>11. RetryKept(g)
  <2>1. CASE f.owesRetry
    <3>1. /\ f.requests # <<>> /\ f.req[Head(f.requests)].state = "Translated"
          /\ f.icacheState = "IcacheNeedsRetry"
      BY <2>1 DEF F2OK, RetryKept
    <3>2. Head(f.requests) \in Request
      BY <1>1, <3>1
    <3>3. Head(f.requests) # p
      BY <1>1, <3>1
    <3>4. QED BY <2>1, <1>4, <1>5, <1>8, <3>1, <3>2, <3>3 DEF RetryKept
  <2>2. CASE ~f.owesRetry
    BY <2>2, <1>8 DEF F2OK, RetryKept
  <2>3. QED BY <2>1, <2>2
<1>12. InFlight(g) = InFlight(f) + 1
  <2> DEFINE a == Len(f.requests)  b == Len(f.transfers)
             c == Len(g.requests)  d == Len(g.transfers)
  <2>1. a \in Nat /\ b \in Nat /\ c = a + 1 /\ d = b
    BY <1>1, <1>4, <1>8
  <2> HIDE DEF a, b, c, d
  <2>2. c + d = a + b + 1
    BY <2>1
  <2>3. QED BY <2>2 DEF InFlight, a, b, c, d
<1>13. QED BY <1>5, <1>8, <1>10, <1>11, <1>12 DEF F2OK, g

(* fetchLine().                                                            *)
LEMMA FetchLineKeeps ==
  ASSUME NEW f, F2OK(f), f.thread # Bubble, InFlight(f) < FetchLimit,
         NEW input, NEW immediate \in BOOLEAN, NEW fault \in Fault,
         NEW accept \in BOOLEAN
  PROVE  LET g == FetchLine(f, input, immediate, fault, accept)
         IN  /\ F2OK(g)
             /\ InFlight(g) = InFlight(f) + 1
             /\ g.thread = f.thread /\ g.fetchState = "FetchRunning"
             /\ g.streamSeqNum = f.streamSeqNum
<1> DEFINE p == CHOOSE q \in Request : ~Allocated(f, q)
           g == Started(f, p)
<1>1. p \in Request /\ ~Allocated(f, p)
  BY FreeRequest
<1>2. FetchLine(f, input, immediate, fault, accept) =
        IF immediate THEN Finish(g, input, p, fault, accept) ELSE g
  BY DEF FetchLine, Started
<1> HIDE DEF p
<1>3. /\ F2OK(g) /\ p \in g.itlb
      /\ InFlight(g) = InFlight(f) + 1
      /\ g.thread = f.thread /\ g.fetchState = "FetchRunning"
      /\ g.streamSeqNum = f.streamSeqNum
  BY <1>1, StartedKeeps
<1> HIDE DEF g
<1>4. CASE immediate
  <2>1. /\ F2OK(Finish(g, input, p, fault, accept))
        /\ SameFetch(g, Finish(g, input, p, fault, accept))
    BY <1>3, FinishKeeps
  <2>2. QED BY <1>2, <1>3, <1>4, <2>1 DEF SameFetch
<1>5. CASE ~immediate
  BY <1>2, <1>3, <1>5
<1>6. QED BY <1>4, <1>5

(* recvTimingResp().                                                       *)
Completed(f, p) == [f EXCEPT !.req[p].state = "Complete", !.icache = @ \ {p}]

(* recvTimingResp keeps the bookkeeping of Fetch2.                         *)
LEMMA CompletedKeeps ==
  ASSUME NEW f, F2OK(f), NEW p \in f.icache
  PROVE  F2OK(Completed(f, p)) /\ SameFetch(f, Completed(f, p))
<1> DEFINE r == [f.req[p] EXCEPT !.state = "Complete"]
           m == [f.req EXCEPT ![p] = r]
           I == f.icache \ {p}
           g == Completed(f, p)
<1>1. /\ f \in Fetch2State /\ f.req \in [Request -> FetchRequest]
      /\ p \in Request /\ f.req[p].state = "RequestIssuing"
  BY DEF F2OK, Fetch2State, RequestsKept, InState
<1>2. r \in FetchRequest /\ r.state = "Complete"
  BY <1>1 DEF FetchRequest
<1>3. m \in [Request -> FetchRequest] /\ I \in SUBSET Request
  BY <1>1, <1>2 DEF Fetch2State
<1>4. g = [f EXCEPT !.req = m, !.icache = I]
  BY <1>1 DEF Completed, Fetch2State
<1>5. /\ m = [f.req EXCEPT ![p] = r]
      /\ \A q \in Request \ {p} : m[q] = f.req[q]
      /\ I = f.icache \ {p}
  BY <1>1
<1> HIDE DEF r, m, I, g
<1>6. /\ g \in Fetch2State
      /\ g.req = m /\ g.itlb = f.itlb /\ g.icache = I
      /\ g.requests = f.requests /\ g.transfers = f.transfers
      /\ g.icacheState = f.icacheState
      /\ g.owesRetry = f.owesRetry /\ g.thread = f.thread
      /\ g.fetchState = f.fetchState /\ g.streamSeqNum = f.streamSeqNum
  BY <1>1, <1>3, <1>4 DEF Fetch2State
<1>7. OnlyMoved(f, g, p, r)
  BY <1>1, <1>2, <1>5, <1>6, InStateUpdate
<1>8. RequestsKept(g)
  <2>1. /\ p \notin InState(f, {"InTranslation"})
        /\ p \notin InState(f, {"InTranslation", "Translated"})
        /\ p \in InState(f, {"RequestIssuing", "Complete"})
    BY <1>1 DEF InState
  <2>2. /\ InState(g, {"InTranslation"}) = InState(f, {"InTranslation"})
        /\ InState(g, {"InTranslation", "Translated"})
             = InState(f, {"InTranslation", "Translated"})
        /\ InState(g, {"RequestIssuing"}) = InState(f, {"RequestIssuing"}) \ {p}
        /\ InState(g, {"RequestIssuing", "Complete"})
             = InState(f, {"RequestIssuing", "Complete"})
    <3>1. \A S : "Complete" \in S /\ p \in InState(f, S) => InState(g, S) = InState(f, S)
      BY <1>2, <1>7 DEF OnlyMoved
    <3>2. \A S : "Complete" \notin S => InState(g, S) = InState(f, S) \ {p}
      BY <1>2, <1>7 DEF OnlyMoved
    <3>3. QED BY <2>1, <3>1, <3>2
  <2>3. /\ f.itlb = InState(f, {"InTranslation"})
        /\ f.icache = InState(f, {"RequestIssuing"})
        /\ Ids(f.requests) = InState(f, {"InTranslation", "Translated"})
        /\ Ids(f.transfers) = InState(f, {"RequestIssuing", "Complete"})
        /\ NoDuplicates(f.requests) /\ NoDuplicates(f.transfers)
    BY DEF F2OK, RequestsKept
  <2>4. QED BY <1>5, <1>6, <2>2, <2>3 DEF RequestsKept
<1>9. RetryKept(g)
  <2>1. CASE f.owesRetry
    <3>1. /\ f.requests # <<>> /\ f.req[Head(f.requests)].state = "Translated"
          /\ f.icacheState = "IcacheNeedsRetry"
      BY <2>1 DEF F2OK, RetryKept
    <3>2. Head(f.requests) \in Request
      BY <1>1, <3>1 DEF Fetch2State
    <3>3. Head(f.requests) # p
      BY <1>1, <3>1
    <3>4. QED BY <2>1, <1>5, <1>6, <3>1, <3>2, <3>3 DEF RetryKept
  <2>2. CASE ~f.owesRetry
    BY <2>2, <1>6 DEF F2OK, RetryKept
  <2>3. QED BY <2>1, <2>2
<1>10. SameFetch(f, g)
  BY <1>6 DEF SameFetch, InFlight
<1>11. QED BY <1>6, <1>8, <1>9, <1>10 DEF F2OK, g

(* recvReqRetry().                                                         *)
LEMMA RetryKeeps ==
  ASSUME NEW f, F2OK(f), f.owesRetry, NEW accept \in BOOLEAN
  PROVE  LET g == [f EXCEPT !.icacheState = "IcacheRunning", !.owesRetry = FALSE]
             h == TryToSend(g, Head(f.requests), accept)
         IN  F2OK(h) /\ SameFetch(f, h)
<1> DEFINE g == [f EXCEPT !.icacheState = "IcacheRunning", !.owesRetry = FALSE]
           p == Head(f.requests)
<1>1. f.requests # <<>> /\ f.req[p].state = "Translated"
  BY DEF F2OK, RetryKept
<1>2. /\ g \in Fetch2State
      /\ g.req = f.req /\ g.requests = f.requests /\ g.transfers = f.transfers
      /\ g.itlb = f.itlb /\ g.icache = f.icache /\ g.thread = f.thread
      /\ g.fetchState = f.fetchState /\ g.streamSeqNum = f.streamSeqNum
      /\ g.owesRetry = FALSE /\ g.icacheState = "IcacheRunning"
  BY DEF F2OK, Fetch2State
<1>3. p = Head(g.requests)
  BY <1>2
<1> HIDE DEF g, p
<1>4. RequestsKept(g)
  BY <1>2 DEF F2OK, RequestsKept, InState
<1>5. F2OK(g) /\ ReadyToSend(g, p) /\ SameFetch(f, g)
  BY <1>1, <1>2, <1>3, <1>4 DEF F2OK, RetryKept, ReadyToSend, SameFetch, InFlight
<1>6. F2OK(TryToSend(g, p, accept)) /\ SameFetch(g, TryToSend(g, p, accept))
  BY <1>5, TryToSendKeeps
<1>7. QED BY <1>5, <1>6 DEF SameFetch, g, p

(* popAndDiscard(transfers), of a completed request.                       *)
LEMMA PopTransfersKeeps ==
  ASSUME NEW f, F2OK(f), ResponseReady(f)
  PROVE  LET g == PopTransfers(f)
         IN  /\ F2OK(g)
             /\ InFlight(f) \in Nat \ {0} /\ InFlight(g) = InFlight(f) - 1
             /\ g.thread = f.thread /\ g.fetchState = f.fetchState
<1> DEFINE p == Head(f.transfers)
           m == [f.req EXCEPT ![p] = NoRequest]
           T == Tail(f.transfers)
           g == PopTransfers(f)
<1>1. /\ f \in Fetch2State /\ f.req \in [Request -> FetchRequest]
      /\ f.transfers \in Seq(Request) /\ f.transfers # <<>>
      /\ NoDuplicates(f.transfers) /\ f.req[p].state = "Complete"
      /\ f.requests \in Seq(Request)
  BY DEF F2OK, Fetch2State, RequestsKept, ResponseReady
<1>2. /\ T \in Seq(Request) /\ Len(T) = Len(f.transfers) - 1
      /\ p \in Request /\ NoDuplicates(T) /\ Ids(T) = Ids(f.transfers) \ {p}
  BY <1>1, TailIds
<1>3. NoRequest \in FetchRequest /\ NoRequest.state = "NotIssued"
  <2>1. FirstStream \in Stream /\ 0 \in Addr
    BY FrontEndAssumption DEF Stream, FirstStream, Addr
  <2>2. FALSE \in Fault
    BY FaultsAre
  <2>3. QED BY <2>1, <2>2 DEF NoRequest, FetchRequest
<1>4. /\ m \in [Request -> FetchRequest] /\ m = [f.req EXCEPT ![p] = NoRequest]
      /\ \A q \in Request \ {p} : m[q] = f.req[q]
  BY <1>1, <1>2, <1>3
<1>5. g = [f EXCEPT !.req = m, !.transfers = T]
  BY <1>1 DEF PopTransfers, Fetch2State
<1>6. Len(f.requests) \in Nat /\ Len(f.transfers) \in Nat \ {0}
  BY <1>1
<1> HIDE DEF m, T, g
<1>7. /\ g \in Fetch2State
      /\ g.req = m /\ g.itlb = f.itlb /\ g.icache = f.icache
      /\ g.requests = f.requests /\ g.transfers = T
      /\ g.icacheState = f.icacheState
      /\ g.owesRetry = f.owesRetry /\ g.thread = f.thread
      /\ g.fetchState = f.fetchState /\ g.streamSeqNum = f.streamSeqNum
  BY <1>1, <1>2, <1>4, <1>5 DEF Fetch2State
<1> HIDE DEF p
<1>8. OnlyMoved(f, g, p, NoRequest)
  BY <1>1, <1>2, <1>3, <1>4, <1>7, InStateUpdate
<1>9. RequestsKept(g)
  <2>1. /\ p \notin InState(f, {"InTranslation"})
        /\ p \notin InState(f, {"InTranslation", "Translated"})
        /\ p \notin InState(f, {"RequestIssuing"})
    BY <1>1 DEF InState
  <2>2. /\ InState(g, {"InTranslation"}) = InState(f, {"InTranslation"})
        /\ InState(g, {"InTranslation", "Translated"})
             = InState(f, {"InTranslation", "Translated"})
        /\ InState(g, {"RequestIssuing"}) = InState(f, {"RequestIssuing"})
        /\ InState(g, {"RequestIssuing", "Complete"})
             = InState(f, {"RequestIssuing", "Complete"}) \ {p}
    <3>1. \A S : "NotIssued" \notin S => InState(g, S) = InState(f, S) \ {p}
      BY <1>3, <1>8 DEF OnlyMoved
    <3>2. QED BY <2>1, <3>1
  <2>3. /\ f.itlb = InState(f, {"InTranslation"})
        /\ f.icache = InState(f, {"RequestIssuing"})
        /\ Ids(f.requests) = InState(f, {"InTranslation", "Translated"})
        /\ Ids(f.transfers) = InState(f, {"RequestIssuing", "Complete"})
        /\ NoDuplicates(f.requests)
    BY DEF F2OK, RequestsKept
  <2>4. QED BY <1>2, <1>7, <2>2, <2>3 DEF RequestsKept
<1>10. RetryKept(g)
  <2>1. CASE f.owesRetry
    <3>1. /\ f.requests # <<>> /\ f.req[Head(f.requests)].state = "Translated"
          /\ f.icacheState = "IcacheNeedsRetry"
      BY <2>1 DEF F2OK, RetryKept
    <3>2. Head(f.requests) \in Request
      BY <1>1, <3>1
    <3>3. Head(f.requests) # p
      BY <1>1, <3>1
    <3>4. QED BY <2>1, <1>4, <1>7, <3>1, <3>2, <3>3 DEF RetryKept
  <2>2. CASE ~f.owesRetry
    BY <2>2, <1>7 DEF F2OK, RetryKept
  <2>3. QED BY <2>1, <2>2
<1>11. InFlight(f) \in Nat \ {0} /\ InFlight(g) = InFlight(f) - 1
  <2> DEFINE a == Len(f.requests)  b == Len(f.transfers)
             c == Len(g.requests)  d == Len(g.transfers)
  <2>1. a \in Nat /\ b \in Nat \ {0} /\ c = a /\ d = b - 1
    BY <1>2, <1>6, <1>7
  <2> HIDE DEF a, b, c, d
  <2>2. c + d = a + b - 1 /\ a + b \in Nat \ {0}
    BY <2>1
  <2>3. InFlight(f) = a + b /\ InFlight(g) = c + d
    BY DEF InFlight, a, b, c, d
  <2> HIDE DEF g
  <2> DEFINE x == InFlight(f)  y == InFlight(g)
  <2>4. x = a + b /\ y = c + d
    BY <2>3
  <2> HIDE DEF x, y
  <2>5. x \in Nat \ {0} /\ y = x - 1
    BY <2>1, <2>2, <2>4
  <2>6. QED BY <2>5 DEF x, y
<1>12. QED BY <1>7, <1>9, <1>10, <1>11 DEF F2OK, g
-----------------------------------------------------------------------------
(* The inductive invariant.                                                *)

StagesTyped ==
  /\ phase \in {"execute", "decode", "fetch2", "fetch1", "clock"}
  /\ fetch1 \in Fetch
  /\ decode \in DecodeState
  /\ execute \in [streamSeqNum : Stream, draining : BOOLEAN,
                  issued : BOOLEAN, expect : Addr \cup {AnyPc}]

LatchesTyped ==
  /\ f1ToF2 \in LatchOf(Fetch)
  /\ f2ToD \in LatchOf(Line)
  /\ dToE \in LatchOf(Inst)
  /\ branch \in LatchOf(BranchData)

BuffersSettled ==
  /\ Settled(fetch2In, Fetch)
  /\ Settled(decodeIn, Line)
  /\ Settled(executeIn, Inst)

(* A fetch under way has the thread it is for.                             *)
FetchKept ==
  /\ F2OK(fetch2)
  /\ fetch2.fetchState = "FetchRunning" => fetch2.thread # Bubble

SlotsKept ==
  /\ Promised(fetch2In, Fetch2BufferSize,
              Coming(f1ToF2, {"execute", "decode", "fetch2"}))
  /\ Promised(decodeIn, DecodeBufferSize,
              Coming(f2ToD, {"execute", "decode"}) + InFlight(fetch2))
  /\ Promised(executeIn, ExecuteBufferSize, Coming(dToE, {"execute"}))

IInv == StagesTyped /\ LatchesTyped /\ BuffersSettled /\ FetchKept /\ SlotsKept

(* Stepping wraps at the end of the address space.                         *)
LEMMA AfterType ==
  ASSUME NEW pc \in Addr, NEW n \in Nat
  PROVE  After(pc, n) \in Addr
<1> DEFINE size == 2 * NumWords
<1>1. size \in Nat /\ size > 0 /\ pc + n \in Int
  BY FrontEndAssumption DEF Addr
<1> HIDE DEF size
<1>2. (pc + n) % size \in 0 .. (size - 1)
  BY <1>1
<1>3. QED BY <1>2 DEF After, Addr, size

(* The pc after an instruction is an address.                              *)
LEMMA NextPcType ==
  ASSUME NEW pc \in Addr
  PROVE  NextPc(pc) \in Addr
BY AfterType DEF NextPc

(* Both parcels of a word are addresses: the address space has an even     *)
(* number of them.                                                         *)
LEMMA ParcelsOfWord ==
  ASSUME NEW pc \in Addr
  PROVE  Base(pc) \in Addr /\ Base(pc) + 1 \in Addr
<1>1. pc \in Nat /\ pc <= 2 * NumWords - 1 /\ NumWords \in Nat
  BY FrontEndAssumption DEF Addr
<1>2. CASE pc % 2 = 0
  <2>1. pc # 2 * NumWords - 1
    BY <1>1, <1>2
  <2>2. Base(pc) = pc
    BY <1>1, <1>2 DEF Base
  <2>3. QED BY <1>1, <2>1, <2>2 DEF Addr
<1>3. CASE pc % 2 # 0
  <2>1. pc % 2 = 1 /\ pc # 0
    BY <1>1, <1>3
  <2>2. Base(pc) = pc - 1
    BY <1>1, <2>1 DEF Base
  <2>3. QED BY <1>1, <2>1, <2>2 DEF Addr
<1>4. QED BY <1>2, <1>3

(* The clock edge keeps the type of a latch and moves what was written to  *)
(* its reader.                                                             *)
LEMMA ClockType ==
  ASSUME NEW S, NEW l \in LatchOf(S)
  PROVE  /\ Clock(l) \in LatchOf(S)
         /\ l.in \in Wire(S) /\ l.out \in Wire(S)
         /\ Clock(l).in = Bubble /\ Clock(l).out = l.in
BY DEF Clock, LatchOf, Wire, Bubble

(* Writing a latch keeps its type.                                         *)
LEMMA DriveType ==
  ASSUME NEW S, NEW l \in LatchOf(S), NEW x \in S
  PROVE  Drive(l, x) \in LatchOf(S)
<1>1. <<x>> \in Wire(S)
  BY DEF Wire
<1>2. QED BY <1>1 DEF Drive, LatchOf

(* A latch that was written holds one value.                               *)
LEMMA DriveLen ==
  ASSUME NEW S, NEW l \in LatchOf(S), NEW x \in S
  PROVE  Len(Drive(l, x).in) = 1
<1>1. Drive(l, x).in = <<x>>
  BY DEF Drive, LatchOf
<1>2. Len(<<x>>) = 1
  OBVIOUS
<1>3. QED BY <1>1, <1>2

(* The invariant holds initially.                                          *)
LEMMA InitIInv == Init => IInv
<1> SUFFICES ASSUME Init PROVE IInv
  OBVIOUS
<1>1. FirstStream \in Stream /\ 0 \in Addr
  BY FrontEndAssumption DEF FirstStream, Stream, Addr
<1>2. StagesTyped
  <2>1. Bubble \in Wire(Addr)
    BY DEF Wire
  <2>2. QED BY <1>1, <2>1 DEF Init, StagesTyped, Fetch, DecodeState
<1>3. LatchesTyped
  BY DEF Init, LatchesTyped, EmptyLatch, LatchOf, Wire
<1>4. BuffersSettled
  <2>1. ASSUME NEW S PROVE Settled(EmptyBuffer, S)
    <3>1. <<>> \in Seq(S)
      OBVIOUS
    <3>2. Bubble \in Wire(S)
      BY DEF Wire
    <3>3. QED BY <3>1, <3>2 DEF Settled, BufferOf, EmptyBuffer
  <2>2. QED BY <2>1 DEF Init, BuffersSettled
<1>5. FetchKept
  <2>1. fetch2 \in Fetch2State
    <3>1. NoRequest \in FetchRequest
      BY <1>1, FaultsAre DEF NoRequest, FetchRequest
    <3>2. [p \in Request |-> NoRequest] \in [Request -> FetchRequest]
      BY <3>1
    <3>3. <<>> \in Seq(Request)
      OBVIOUS
    <3>4. Bubble \in Wire(Fetch)
      BY DEF Wire
    <3>5. QED BY <1>1, <3>2, <3>3, <3>4 DEF Init, Fetch2State
  <2>2. \A S : "NotIssued" \notin S => InState(fetch2, S) = {}
    BY DEF Init, InState, NoRequest
  <2>3. Ids(<<>>) = {} /\ NoDuplicates(<<>>)
    BY DEF Ids, NoDuplicates
  <2>4. RequestsKept(fetch2)
    BY <2>2, <2>3 DEF Init, RequestsKept
  <2>5. QED BY <2>1, <2>4 DEF Init, FetchKept, F2OK, RetryKept
<1>6. SlotsKept
  <2>1. Len(<<>>) = 0
    OBVIOUS
  <2>2. QED BY <2>1, FrontEndAssumption DEF Init, SlotsKept, Promised, Coming, InFlight,
               EmptyBuffer, EmptyLatch, Bubble
<1>7. QED BY <1>2, <1>3, <1>4, <1>5, <1>6 DEF IInv

(* The loop that pops all input leaves an empty buffer.                    *)
LEMMA PopAllEmpty ==
  ASSUME NEW S, NEW b, Settled(b, S), NEW w \in Wire(S)
  PROVE  IsEmpty(PopAll(SetTail(b, w)))
<1>1. b \in [queue : Seq(S), elem : Wire(S), reserved : Nat]
  BY DEF Settled, BufferOf
<1> DEFINE c == SetTail(b, w)
           d == IF c.elem # Bubble THEN FreeReservation(c) ELSE c
<1>2. c \in [queue : Seq(S), elem : Wire(S), reserved : Nat]
  <2>1. CASE w = Bubble
    BY <1>1, <2>1 DEF SetTail
  <2>2. CASE w # Bubble /\ b.queue = <<>>
    BY <1>1, <2>2 DEF SetTail
  <2>3. CASE w # Bubble /\ b.queue # <<>>
    <3>1. PICK x \in S : w = <<x>>
      BY <2>3 DEF Wire
    <3>2. FreeReservation(b) \in [queue : Seq(S), elem : Wire(S), reserved : Nat]
          /\ FreeReservation(b).queue = b.queue
      BY <1>1 DEF FreeReservation
    <3>3. Append(b.queue, x) \in Seq(S)
      BY <1>1
    <3>4. c = [FreeReservation(b) EXCEPT !.queue = Append(b.queue, x)]
      BY <2>3, <3>1, <3>2 DEF SetTail, Push
    <3>5. QED BY <3>2, <3>3, <3>4
  <2>4. QED BY <2>1, <2>2, <2>3
<1>3. PopAll(c) = [d EXCEPT !.elem = Bubble, !.queue = <<>>]
  BY DEF PopAll
<1> HIDE DEF c
<1>4. d \in [queue : Seq(S), elem : Wire(S), reserved : Nat]
  BY <1>2 DEF FreeReservation
<1> HIDE DEF d
<1>5. QED BY <1>3, <1>4 DEF IsEmpty, c

(* The bytes of an instruction are a sequence of parcels.                  *)
LEMMA BytesLen ==
  ASSUME NEW q \in Bytes
  PROVE  Len(q) \in Nat
<1>1. PICK n \in 0 .. 2 : q \in [1 .. n -> Addr]
  BY DEF Bytes
<1>2. QED BY <1>1

(* Execute: its input, and what a branch or an issued line does to it.     *)
LEMMA ExecuteKeeps ==
  ASSUME IInv, NEW consume \in BOOLEAN, ExecuteEvaluate(consume)
  PROVE  IInv'
<1> DEFINE w == dToE.out
           e == [execute EXCEPT !.draining = FALSE]
           e1 == IF consume THEN Consume(e, Front(ExecuteInput)) ELSE e
           m == Len(dToE.in)
<1>1. /\ phase = "execute" /\ phase' = "decode"
      /\ consume => ~IsEmpty(ExecuteInput)
      /\ executeIn' = PushTail(IF consume THEN PopInput(ExecuteInput)
                               ELSE ExecuteInput)
      /\ \/ execute' = e1 /\ UNCHANGED branch
         \/ \E b \in BranchData :
              /\ execute' = TakeBranch(e1, b)
              /\ branch' = Drive(branch, b)
      /\ UNCHANGED <<fetch1, fetch2In, fetch2, decodeIn, decode, f1ToF2, f2ToD,
                     dToE>>
  BY DEF ExecuteEvaluate
<1>2. /\ Settled(executeIn, Inst) /\ w \in Wire(Inst) /\ dToE.in \in Wire(Inst)
      /\ Promised(executeIn, ExecuteBufferSize, m + Len(w))
      /\ m \in Nat /\ Len(w) \in Nat /\ ExecuteBufferSize \in Nat
  <2>1. w \in Wire(Inst) /\ dToE.in \in Wire(Inst)
    BY ClockType DEF IInv, LatchesTyped
  <2>2. m \in Nat /\ Len(w) \in Nat
    BY <2>1, WireLen
  <2>3. Promised(executeIn, ExecuteBufferSize, m + Len(w))
    BY <1>1 DEF IInv, SlotsKept, Coming
  <2>4. QED BY <2>1, <2>2, <2>3, FrontEndAssumption DEF IInv, BuffersSettled
<1>3. Len(w) <= executeIn.reserved
  <2> HIDE DEF m, w
  <2>1. QED BY <1>2, PromisedWire
<1>4. Accepted(executeIn, executeIn', Inst, w)
      /\ (consume => Front(ExecuteInput) \in Inst)
  <2>1. CASE execute.draining
    <3>1. ExecuteInput = PopAll(SetTail(executeIn, w))
      BY <2>1 DEF ExecuteInput
    <3>2. ~consume
      BY <1>1, <1>2, <3>1, PopAllEmpty
    <3>3. executeIn' = PushTail(PopAll(SetTail(executeIn, w)))
      BY <1>1, <3>1, <3>2
    <3>4. QED BY <1>2, <1>3, <3>2, <3>3, AcceptPopAllKeeps
  <2>2. CASE ~execute.draining
    <3>1. ExecuteInput = SetTail(executeIn, w)
      BY <2>2 DEF ExecuteInput
    <3>2. CASE consume
      <4>1. executeIn' = PushTail(PopInput(SetTail(executeIn, w)))
        BY <1>1, <3>1, <3>2
      <4>2. Accepted(executeIn, executeIn', Inst, w)
        BY <1>2, <1>3, <4>1, AcceptPopKeeps
      <4>3. Front(ExecuteInput) \in Inst
        BY <1>1, <1>2, <3>1, <3>2, FrontIsIn
      <4>4. QED BY <4>2, <4>3
    <3>3. CASE ~consume
      <4>1. executeIn' = PushTail(SetTail(executeIn, w))
        BY <1>1, <3>1, <3>3
      <4>2. QED BY <1>2, <1>3, <3>3, <4>1, AcceptKeeps
    <3>4. QED BY <3>2, <3>3
  <2>3. QED BY <2>1, <2>2
<1>5. Settled(executeIn', Inst) /\ Promised(executeIn', ExecuteBufferSize, m)
  <2> HIDE DEF m, w
  <2>1. QED BY <1>2, <1>4, AcceptedPromised
<1>6. e1 \in [streamSeqNum : Stream, draining : BOOLEAN,
              issued : BOOLEAN, expect : Addr \cup {AnyPc}]
      /\ e1.streamSeqNum = execute.streamSeqNum
  <2>1. e \in [streamSeqNum : Stream, draining : BOOLEAN,
               issued : BOOLEAN, expect : Addr \cup {AnyPc}]
        /\ e.streamSeqNum = execute.streamSeqNum
    BY DEF IInv, StagesTyped
  <2> HIDE DEF e
  <2>2. CASE consume
    <3> DEFINE i == Front(ExecuteInput)
    <3>1. i.fault \in BOOLEAN /\ After(i.pc, Len(i.bytes)) \in Addr
      <4>1. i \in Inst
        BY <1>4, <2>2
      <4> HIDE DEF i
      <4>2. Len(i.bytes) \in Nat
        BY <4>1, BytesLen DEF Inst
      <4>3. QED BY <4>1, <4>2, AfterType, FaultsAre DEF Inst
    <3> HIDE DEF i
    <3>2. /\ Consume(e, i) \in [streamSeqNum : Stream, draining : BOOLEAN,
                                issued : BOOLEAN, expect : Addr \cup {AnyPc}]
          /\ Consume(e, i).streamSeqNum = e.streamSeqNum
      BY <2>1, <3>1 DEF Consume
    <3>3. QED BY <2>1, <2>2, <3>2 DEF i
  <2>3. CASE ~consume
    BY <2>1, <2>3
  <2>4. QED BY <2>2, <2>3
<1> HIDE DEF e1
<1>7. StagesTyped' /\ LatchesTyped'
  <2>1. CASE execute' = e1 /\ UNCHANGED branch
    BY <1>1, <1>6, <2>1 DEF IInv, StagesTyped, LatchesTyped
  <2>2. ASSUME NEW b \in BranchData, execute' = TakeBranch(e1, b),
               branch' = Drive(branch, b)
        PROVE  StagesTyped' /\ LatchesTyped'
    <3>1. execute' \in [streamSeqNum : Stream, draining : BOOLEAN,
                        issued : BOOLEAN, expect : Addr \cup {AnyPc}]
      BY <1>6, <2>2 DEF TakeBranch, BranchData
    <3>2. branch' \in LatchOf(BranchData)
      BY <2>2, DriveType DEF IInv, LatchesTyped
    <3>3. QED BY <1>1, <3>1, <3>2 DEF IInv, StagesTyped, LatchesTyped
  <2>3. QED BY <1>1, <2>1, <2>2
<1>8. BuffersSettled' /\ FetchKept'
  BY <1>1, <1>5 DEF IInv, BuffersSettled, FetchKept
<1>9. SlotsKept'
  <2>1. Coming(dToE, {"execute"})' = m
    BY <1>1, <1>2 DEF Coming
  <2>2. /\ Coming(f1ToF2, {"execute", "decode", "fetch2"})' =
             Coming(f1ToF2, {"execute", "decode", "fetch2"})
        /\ Coming(f2ToD, {"execute", "decode"})' =
             Coming(f2ToD, {"execute", "decode"})
    BY <1>1 DEF Coming
  <2>3. QED BY <1>1, <1>5, <2>1, <2>2 DEF IInv, SlotsKept, InFlight, Promised
<1>10. QED BY <1>7, <1>8, <1>9 DEF IInv

(* The decoder makes instructions of parcels.                              *)
LEMMA MoreBytesTyped ==
  ASSUME NEW pc \in Addr, NEW mid \in Wire(Addr), NEW at \in Addr
  PROVE  /\ MoreBytes(pc, mid, Base(at)).bytes \in Bytes
         /\ MoreBytes(pc, mid, Base(at)).mid \in Wire(Addr)
<1> DEFINE low == Base(at)  high == Base(at) + 1
<1>1. low \in Addr /\ high \in Addr
  BY ParcelsOfWord
<1>2. \A x, y \in Addr : /\ <<>> \in Bytes /\ <<x>> \in Bytes
                         /\ <<x, y>> \in Bytes
  <2>1. TAKE x, y \in Addr
  <2>2. <<>> \in [1 .. 0 -> Addr] /\ <<x>> \in [1 .. 1 -> Addr]
    OBVIOUS
  <2>3. <<x, y>> \in [1 .. 2 -> Addr]
    OBVIOUS
  <2>4. QED BY <2>2, <2>3 DEF Bytes
<1>3. <<high>> \in Wire(Addr) /\ Bubble \in Wire(Addr)
  BY <1>1 DEF Wire
<1>4. mid # Bubble => mid[1] \in Addr
  BY DEF Wire
<1> HIDE DEF low, high
<1> DEFINE m == MoreBytes(pc, mid, Base(at))
<1>5. /\ m.bytes \in {<<low>>, <<low, high>>, <<high>>, <<>>}
            \cup (IF mid # Bubble THEN {<<mid[1], low>>} ELSE {})
      /\ m.mid \in {mid, Bubble, <<high>>}
  BY DEF MoreBytes, low, high
<1> HIDE DEF m
<1>6. QED BY <1>1, <1>2, <1>3, <1>4, <1>5 DEF m

(* One turn of Decode's loop: Decode keeps its type, an instruction has    *)
(* its, and of the input nothing, one line or all lines are popped.        *)
Turned(b, t) ==
  /\ t.decode \in DecodeState
  /\ t.inst \in Wire(Inst)
  /\ t.input \in {b, PopInput(b), PopAll(b)}

(* Every turn of Decode's loop is of that form.                            *)
LEMMA DecodeLineTyped ==
  ASSUME NEW d \in DecodeState, NEW b, Front(b) \in Line
  PROVE  Turned(b, DecodeLine(d, b))
<1> DEFINE line == Front(b)  e == StartStream(d, line)
<1>1. /\ line.stream \in Stream /\ line.pc \in Addr
      /\ \E at \in Addr : line.addr = Base(at)
  BY DEF Line
<1>a. line.fault \in Fault /\ FALSE \in Fault
  BY FaultsAre DEF Line
<1> HIDE DEF line
<1>2. e \in DecodeState
  BY <1>1 DEF StartStream, DecodeState, Wire
<1> HIDE DEF e
<1>3. e.pc \in Addr /\ e.mid \in Wire(Addr)
  BY <1>2 DEF DecodeState
<1>4. CASE line.fault
  <2> DEFINE i == [stream |-> line.stream, pc |-> e.pc, bytes |-> <<>>, fault |-> TRUE]
  <2>1. <<>> \in Bytes
    <3>1. <<>> \in [1 .. 0 -> Addr]
      OBVIOUS
    <3>2. QED BY <3>1 DEF Bytes
  <2>2. i \in Inst
    <3>1. line.fault = TRUE
      BY <1>a, <1>4, FaultsAre
    <3>2. QED BY <1>1, <1>a, <1>3, <2>1, <3>1 DEF Inst
  <2>3. DecodeLine(d, b) =
          Turn([e EXCEPT !.havePC = FALSE, !.lastStreamSeqNum = line.stream],
               PopAll(b), <<i>>)
    BY <1>4 DEF DecodeLine, DecodeFault, e, line
  <2> HIDE DEF i
  <2>4. [e EXCEPT !.havePC = FALSE, !.lastStreamSeqNum = line.stream] \in DecodeState
    BY <1>1, <1>2 DEF DecodeState
  <2>5. QED BY <2>2, <2>3, <2>4 DEF Turned, Turn, Wire
<1>5. CASE ~line.fault
  <2> DEFINE m == MoreBytes(e.pc, e.mid, line.addr)
             i == [stream |-> line.stream, pc |-> e.pc, bytes |-> m.bytes,
                   fault |-> FALSE]
             g == [e EXCEPT !.pc = After(@, Len(m.bytes)), !.mid = m.mid,
                            !.lastStreamSeqNum = line.stream]
  <2>1. m.bytes \in Bytes /\ m.mid \in Wire(Addr)
    BY <1>1, <1>3, MoreBytesTyped
  <2>2. DecodeLine(d, b) =
          Turn(g, IF m.outOfBytes THEN PopInput(b) ELSE b,
               IF m.bytes = <<>> THEN Bubble ELSE <<i>>)
    BY <1>5 DEF DecodeLine, DecodeWord, e, line
  <2> HIDE DEF m
  <2>3. After(e.pc, Len(m.bytes)) \in Addr
    BY <1>3, <2>1, BytesLen, AfterType
  <2>4. i \in Inst
    BY <1>1, <1>a, <1>3, <2>1 DEF Inst
  <2>5. g \in DecodeState
    BY <1>1, <1>2, <2>1, <2>3 DEF DecodeState
  <2>6. (IF m.bytes = <<>> THEN Bubble ELSE <<i>>) \in Wire(Inst)
    <3> HIDE DEF i
    <3>1. Bubble \in Wire(Inst) /\ <<i>> \in Wire(Inst)
      BY <2>4 DEF Wire
    <3>2. QED BY <3>1
  <2>7. (IF m.outOfBytes THEN PopInput(b) ELSE b)
          \in {b, PopInput(b), PopAll(b)}
    OBVIOUS
  <2> DEFINE inst == IF m.bytes = <<>> THEN Bubble ELSE <<i>>
             rest == IF m.outOfBytes THEN PopInput(b) ELSE b
  <2>8. DecodeLine(d, b) = Turn(g, rest, inst)
    BY <2>2
  <2> HIDE DEF g, inst, rest
  <2>9. QED BY <2>5, <2>6, <2>7, <2>8 DEF Turned, Turn, inst, rest
<1>6. QED BY <1>4, <1>5

(* The whole loop, on a buffer that takes the latch's line.                *)
LEMMA DecodeLinesKeep ==
  ASSUME NEW b, Settled(b, Line), NEW w \in Wire(Line), NEW c,
         Taking(b, c, Line, w), ~IsEmpty(c), decode \in DecodeState
  PROVE  /\ DecodeLines(c).decode \in DecodeState
         /\ DecodeLines(c).inst \in Wire(Inst)
         /\ Taking(b, DecodeLines(c).input, Line, w)
<1> DEFINE first == DecodeLine(decode, c)
           second == DecodeLine(first.decode, first.input)
<1>1. Turned(c, first)
  BY TakingFront, DecodeLineTyped
<1>2. Taking(b, first.input, Line, w)
  BY <1>1, PopTakes DEF Turned
<1>3. CASE first.inst = Bubble /\ ~IsEmpty(first.input)
  <2>1. DecodeLines(c) = second
    BY <1>3 DEF DecodeLines
  <2> HIDE DEF first
  <2>2. Front(first.input) \in Line
    BY <1>2, <1>3, TakingFront
  <2>3. Turned(first.input, second)
    BY <1>1, <2>2, DecodeLineTyped DEF Turned
  <2> HIDE DEF second
  <2>4. Taking(b, second.input, Line, w)
    BY <1>2, <2>3, PopTakes DEF Turned
  <2>5. QED BY <2>1, <2>3, <2>4 DEF Turned
<1>4. CASE ~(first.inst = Bubble /\ ~IsEmpty(first.input))
  <2>1. DecodeLines(c) = first
    BY <1>4 DEF DecodeLines
  <2> HIDE DEF first
  <2>2. QED BY <1>1, <1>2, <2>1 DEF Turned
<1>5. QED BY <1>3, <1>4

(* Decode::evaluate preserves the invariant.                               *)
LEMMA DecodeKeeps ==
  ASSUME IInv, DecodeEvaluate
  PROVE  IInv'
<1> DEFINE w == f2ToD.out
           m == Len(f2ToD.in) + InFlight(fetch2)
           k == Len(dToE.in)
<1>1. /\ phase = "decode" /\ phase' = "fetch2"
      /\ UNCHANGED <<fetch1, fetch2In, fetch2, execute, f1ToF2, f2ToD, branch>>
  BY DEF DecodeEvaluate
<1>2. /\ Settled(decodeIn, Line) /\ Settled(executeIn, Inst)
      /\ w \in Wire(Line) /\ f2ToD.in \in Wire(Line) /\ dToE.in \in Wire(Inst)
      /\ dToE \in LatchOf(Inst)
      /\ decode \in DecodeState
  BY ClockType DEF IInv, LatchesTyped, BuffersSettled, StagesTyped
<1>3. m \in Nat /\ Len(w) \in Nat /\ k \in Nat
      /\ DecodeBufferSize \in Nat /\ ExecuteBufferSize \in Nat
  <2> DEFINE a == Len(f2ToD.in)  n == InFlight(fetch2)
  <2>1. a \in Nat /\ Len(w) \in Nat /\ k \in Nat
    BY <1>2, WireLen
  <2>2. n \in Nat
    BY InFlightNat DEF IInv, FetchKept
  <2> HIDE DEF a, n
  <2>3. a + n \in Nat
    BY <2>1, <2>2
  <2>4. QED BY <2>1, <2>3, FrontEndAssumption DEF a, n
<1>4. /\ Promised(decodeIn, DecodeBufferSize, m + Len(w))
      /\ Promised(executeIn, ExecuteBufferSize, k)
  <2> DEFINE a == Len(f2ToD.in)  n == InFlight(fetch2)  l == Len(w)
  <2>1. /\ Promised(decodeIn, DecodeBufferSize, (a + l) + n)
        /\ Promised(executeIn, ExecuteBufferSize, k + 0)
    BY <1>1 DEF IInv, SlotsKept, Coming
  <2>2. a \in Nat /\ l \in Nat /\ k \in Nat
    BY <1>2, WireLen
  <2>3. n \in Nat
    BY InFlightNat DEF IInv, FetchKept
  <2> HIDE DEF a, n, l, k
  <2>4. (a + l) + n = (a + n) + l /\ k + 0 = k
    BY <2>2, <2>3
  <2>5. QED BY <2>1, <2>4 DEF a, n, l
<1>5. /\ Settled(decodeIn', Line) /\ Promised(decodeIn', DecodeBufferSize, m)
      /\ Settled(executeIn', Inst)
      /\ Promised(executeIn', ExecuteBufferSize, Len(dToE'.in))
      /\ decode' \in DecodeState
      /\ dToE' \in LatchOf(Inst)
  <2>1. CASE branch.out # Bubble
    <3>1. decodeIn' = PopAll(decodeIn) /\ UNCHANGED <<decode, dToE, executeIn>>
      BY <2>1 DEF DecodeEvaluate, DecodeRedirect
    <3> DEFINE l == Len(w)
    <3>2. Promised(decodeIn, DecodeBufferSize, m)
      <4> DEFINE r == decodeIn.reserved
      <4>1. l \in Nat /\ m \in Nat /\ r \in Nat /\ m + l <= r
        BY <1>2, <1>3, <1>4 DEF Promised, Settled, BufferOf
      <4> HIDE DEF l, m, r
      <4>2. m <= r
        BY <4>1
      <4>3. QED BY <1>4, <4>2 DEF Promised, r
    <3> HIDE DEF m, w
    <3>3. Settled(decodeIn', Line) /\ Promised(decodeIn', DecodeBufferSize, m)
      BY <1>2, <1>3, <3>1, <3>2, PopAllPromised
    <3>4. QED BY <1>2, <1>4, <3>1, <3>3
  <2>2. CASE branch.out = Bubble
    <3> DEFINE b == SetTail(decodeIn, w)
    <3>1. Len(w) <= decodeIn.reserved
      <4> HIDE DEF m, w
      <4>1. QED BY <1>2, <1>3, <1>4, PromisedWire
    <3>2. ASSUME Accepted(decodeIn, decodeIn', Line, w)
          PROVE  Settled(decodeIn', Line) /\ Promised(decodeIn', DecodeBufferSize, m)
      <4> HIDE DEF m, w
      <4>1. QED BY <1>2, <1>3, <1>4, <3>2, AcceptedPromised
    <3>3. CASE CanReserve(executeIn, ExecuteBufferSize) /\ ~IsEmpty(b)
      <4> DEFINE last == DecodeLines(b)
      <4>1. /\ decode' = last.decode /\ decodeIn' = PushTail(last.input)
            /\ IF last.inst = Bubble THEN UNCHANGED <<dToE, executeIn>>
               ELSE /\ dToE' = Drive(dToE, last.inst[1])
                    /\ executeIn' = Reserve(executeIn)
        BY <2>2, <3>3 DEF DecodeEvaluate
      <4>2. Taking(decodeIn, b, Line, w)
        BY <1>2, <3>1, SetTailTakes
      <4> HIDE DEF k, b, m, w
      <4>3. /\ last.decode \in DecodeState /\ last.inst \in Wire(Inst)
            /\ Taking(decodeIn, last.input, Line, w)
        BY <1>2, <3>3, <4>2, DecodeLinesKeep
      <4> HIDE DEF last
      <4>4. Accepted(decodeIn, decodeIn', Line, w)
        BY <1>2, <4>1, <4>3, PushTailAccepts
      <4>5. CASE last.inst = Bubble
        BY <1>2, <1>4, <3>2, <4>1, <4>3, <4>4, <4>5 DEF k
      <4>6. CASE last.inst # Bubble
        <5>1. last.inst[1] \in Inst
          BY <4>3, <4>6 DEF Wire
        <5>2. dToE' \in LatchOf(Inst) /\ Len(dToE'.in) = 1
          BY <1>2, <4>1, <4>6, <5>1, DriveType, DriveLen
        <5>3. Settled(executeIn', Inst) /\ Promised(executeIn', ExecuteBufferSize, k + 1)
          BY <1>2, <1>3, <1>4, <3>3, <4>1, <4>6, ReservePromised
        <5>4. Promised(executeIn', ExecuteBufferSize, 1)
          <6> DEFINE r == executeIn'.reserved
          <6>1. r \in Nat /\ k + 1 <= r
            BY <5>3 DEF Promised, Settled, BufferOf
          <6> HIDE DEF r
          <6>2. 1 <= r
            BY <1>3, <6>1
          <6>3. QED BY <5>3, <6>2 DEF Promised, r
        <5>5. QED BY <3>2, <4>1, <4>3, <4>4, <5>2, <5>3, <5>4
      <4>7. QED BY <4>5, <4>6
    <3>4. CASE ~(CanReserve(executeIn, ExecuteBufferSize) /\ ~IsEmpty(b))
      <4>1. decodeIn' = PushTail(b) /\ UNCHANGED <<decode, dToE, executeIn>>
        BY <2>2, <3>4 DEF DecodeEvaluate
      <4>2. Accepted(decodeIn, decodeIn', Line, w)
        BY <1>2, <3>1, <4>1, AcceptKeeps
      <4>3. QED BY <1>2, <1>4, <3>2, <4>1, <4>2
    <3>5. QED BY <3>3, <3>4
  <2>3. QED BY <2>1, <2>2
<1>6. StagesTyped' /\ LatchesTyped' /\ BuffersSettled' /\ FetchKept'
  BY <1>1, <1>5 DEF IInv, StagesTyped, LatchesTyped, BuffersSettled, FetchKept
<1>7. SlotsKept'
  <2>1. dToE'.in \in Wire(Inst)
    BY <1>5, ClockType
  <2>2. Len(dToE'.in) \in Nat /\ Len(f2ToD.in) \in Nat /\ InFlight(fetch2)' = InFlight(fetch2)
    BY <1>1, <1>2, <2>1, WireLen DEF InFlight
  <2>3. /\ Coming(dToE, {"execute"})' = Len(dToE'.in)
        /\ Coming(f2ToD, {"execute", "decode"})' = Len(f2ToD.in)
        /\ Coming(f1ToF2, {"execute", "decode", "fetch2"})' =
             Coming(f1ToF2, {"execute", "decode", "fetch2"})
    BY <1>1, <2>2 DEF Coming
  <2>4. QED BY <1>1, <1>5, <2>2, <2>3 DEF IInv, SlotsKept, Promised
<1>8. QED BY <1>6, <1>7 DEF IInv

(* fetch2_thread, the fetch state and the stream do not touch a request.   *)
LEMMA SameRequests ==
  ASSUME NEW f, F2OK(f), NEW g \in Fetch2State,
         g.req = f.req, g.requests = f.requests, g.transfers = f.transfers,
         g.itlb = f.itlb, g.icache = f.icache,
         g.icacheState = f.icacheState, g.owesRetry = f.owesRetry
  PROVE  F2OK(g) /\ InFlight(g) = InFlight(f)
<1>1. RequestsKept(g)
  BY DEF F2OK, RequestsKept, InState
<1>2. RetryKept(g)
  BY DEF F2OK, RetryKept
<1>3. QED BY <1>1, <1>2 DEF F2OK, InFlight

(* The line Fetch2 hands to Decode is a line.                              *)
LEMMA LineOfTyped ==
  ASSUME NEW f, F2OK(f), f.thread # Bubble, ResponseReady(f)
  PROVE  LineOf(f) \in Line
<1>1. PICK x \in Fetch : f.thread = <<x>>
  BY DEF F2OK, Fetch2State, Wire
<1>2. f.thread[1] = x
  BY <1>1
<1>3. Head(f.transfers) \in Request
  BY DEF F2OK, Fetch2State, ResponseReady
<1>4. f.req[Head(f.transfers)] \in FetchRequest
  BY <1>3 DEF F2OK, Fetch2State
<1>5. QED BY <1>2, <1>4 DEF LineOf, Line, Fetch, FetchRequest

(* The end of Fetch2's cycle: the answer to the front transfer.            *)
LEMMA RespondKeeps ==
  ASSUME NEW f, F2OK(f), f.thread # Bubble,
         NEW d, Settled(d, Line),
         Promised(d, DecodeBufferSize, Len(f2ToD.in) + InFlight(f)),
         f2ToD \in LatchOf(Line), Settled(fetch2In, Fetch),
         NEW w \in Wire(Fetch), Len(w) <= fetch2In.reserved,
         Respond(f, SetTail(fetch2In, w), d)
  PROVE  /\ F2OK(fetch2') /\ fetch2'.thread # Bubble
         /\ Settled(decodeIn', Line)
         /\ Promised(decodeIn', DecodeBufferSize, Len(f2ToD'.in) + InFlight(fetch2'))
         /\ f2ToD' \in LatchOf(Line)
         /\ Accepted(fetch2In, fetch2In', Fetch, w)
<1> DEFINE input == SetTail(fetch2In, w)
           g == PopTransfers(f)
           p == Head(f.transfers)
<1>1. CASE ~ResponseReady(f)
  <2>1. fetch2' = f /\ fetch2In' = PushTail(input) /\ decodeIn' = d /\ f2ToD' = f2ToD
    BY <1>1 DEF Respond
  <2>2. Accepted(fetch2In, fetch2In', Fetch, w)
    BY <2>1, AcceptKeeps
  <2>3. QED BY <2>1, <2>2
<1>2. CASE ResponseReady(f)
  <2>1. /\ F2OK(g) /\ g.thread = f.thread
        /\ InFlight(f) \in Nat \ {0} /\ InFlight(g) = InFlight(f) - 1
    BY <1>2, PopTransfersKeeps
  <2> DEFINE n == InFlight(f)  a == Len(f2ToD.in)
  <2>2. a \in Nat
    <3>1. f2ToD.in \in Wire(Line)
      BY ClockType
    <3>2. QED BY <3>1, WireLen
  <2>3. CASE IsDiscardable(f, input, p)
    <3>1. /\ fetch2' = g /\ fetch2In' = PushTail(input)
          /\ decodeIn' = FreeReservation(d) /\ f2ToD' = f2ToD
      BY <1>2, <2>3 DEF Respond
    <3>2. Accepted(fetch2In, fetch2In', Fetch, w)
      BY <3>1, AcceptKeeps
    <3> DEFINE m == a + n
    <3>3. n \in Nat \ {0} /\ InFlight(g) = n - 1 /\ Promised(d, DecodeBufferSize, m)
      BY <2>1
    <3> HIDE DEF n, a
    <3>4. m \in Nat /\ m # 0 /\ m - 1 = a + (n - 1)
      BY <2>2, <3>3
    <3> HIDE DEF m
    <3>5. /\ Settled(FreeReservation(d), Line)
          /\ Promised(FreeReservation(d), DecodeBufferSize, m - 1)
      BY <3>3, <3>4, FreePromised, FrontEndAssumption
    <3>6. Promised(decodeIn', DecodeBufferSize, Len(f2ToD'.in) + InFlight(fetch2'))
      BY <3>1, <3>3, <3>4, <3>5 DEF a
    <3>7. QED BY <2>1, <3>1, <3>2, <3>5, <3>6
  <2>4. CASE ~IsDiscardable(f, input, p)
    <3> DEFINE h == [g EXCEPT !.fetchState = "FetchWaiting"]
    <3>1. /\ fetch2' = h /\ fetch2In' = PushTail(PopInput(input))
          /\ decodeIn' = d /\ f2ToD' = Drive(f2ToD, LineOf(f))
      BY <1>2, <2>4 DEF Respond
    <3>2. Accepted(fetch2In, fetch2In', Fetch, w)
      BY <3>1, AcceptPopKeeps
    <3>3. /\ h \in Fetch2State
          /\ h.req = g.req /\ h.requests = g.requests /\ h.transfers = g.transfers
          /\ h.itlb = g.itlb /\ h.icache = g.icache
          /\ h.icacheState = g.icacheState /\ h.owesRetry = g.owesRetry
          /\ h.thread = g.thread
      BY <2>1 DEF F2OK, Fetch2State
    <3> HIDE DEF h, g
    <3>4. F2OK(h) /\ InFlight(h) = InFlight(g) /\ h.thread # Bubble
      BY <2>1, <3>3, SameRequests
    <3>5. /\ f2ToD' \in LatchOf(Line) /\ Len(f2ToD'.in) = 1
      <4>1. LineOf(f) \in Line
        BY <1>2, LineOfTyped
      <4> DEFINE x == LineOf(f)
      <4>2. f2ToD' = Drive(f2ToD, x) /\ x \in Line
        BY <3>1, <4>1
      <4> HIDE DEF x
      <4>3. f2ToD' \in LatchOf(Line)
        BY <4>2, DriveType
      <4>4. Len(f2ToD'.in) = 1
        BY <4>2, DriveLen
      <4>5. QED BY <4>3, <4>4
    <3>6. Promised(decodeIn', DecodeBufferSize, Len(f2ToD'.in) + InFlight(fetch2'))
      <4> DEFINE r == d.reserved  m == Len(f2ToD'.in) + InFlight(fetch2')
      <4>1. m = 1 + (n - 1)
        BY <2>1, <3>1, <3>4, <3>5
      <4>2. n \in Nat \ {0} /\ r \in Nat /\ a + n <= r
        BY <2>1 DEF Promised, Settled, BufferOf
      <4> HIDE DEF n, a, r, m
      <4>3. m <= r
        BY <2>2, <4>1, <4>2
      <4>4. QED BY <3>1, <4>3 DEF Promised, r, m
    <3>7. QED BY <3>1, <3>2, <3>4, <3>5, <3>6
  <2>5. QED BY <2>3, <2>4
<1>3. QED BY <1>1, <1>2

(* Fetch2::evaluate preserves the invariant.                               *)
LEMMA Fetch2Keeps ==
  ASSUME IInv, Fetch2Evaluate
  PROVE  IInv'
<1> DEFINE w == f1ToF2.out
           m == Len(f1ToF2.in)
           a == Len(f2ToD.in)
<1>1. /\ phase = "fetch2" /\ phase' = "fetch1"
      /\ UNCHANGED <<fetch1, decode, executeIn, execute, f1ToF2, dToE, branch>>
  BY DEF Fetch2Evaluate
<1>2. /\ Settled(fetch2In, Fetch) /\ Settled(decodeIn, Line)
      /\ w \in Wire(Fetch) /\ f1ToF2.in \in Wire(Fetch) /\ f2ToD.in \in Wire(Line)
      /\ f2ToD \in LatchOf(Line) /\ branch.out \in Wire(BranchData)
      /\ F2OK(fetch2) /\ fetch2 \in Fetch2State
      /\ fetch2.fetchState = "FetchRunning" => fetch2.thread # Bubble
  BY ClockType DEF IInv, LatchesTyped, BuffersSettled, FetchKept, F2OK
<1>3. m \in Nat /\ Len(w) \in Nat /\ a \in Nat
  BY <1>2, WireLen
<1>4. /\ Promised(fetch2In, Fetch2BufferSize, m + Len(w))
      /\ Promised(decodeIn, DecodeBufferSize, a + InFlight(fetch2))
      /\ Fetch2BufferSize \in Nat /\ DecodeBufferSize \in Nat
  <2>1. /\ Promised(fetch2In, Fetch2BufferSize, m + Len(w))
        /\ Promised(decodeIn, DecodeBufferSize, (a + 0) + InFlight(fetch2))
    BY <1>1 DEF IInv, SlotsKept, Coming
  <2> HIDE DEF a, m, w
  <2>2. a + 0 = a
    BY <1>3
  <2>3. QED BY <2>1, <2>2, FrontEndAssumption
<1>5. Len(w) <= fetch2In.reserved
  <2> HIDE DEF m, w
  <2>1. QED BY <1>2, <1>3, <1>4, PromisedWire
<1>6. ASSUME Accepted(fetch2In, fetch2In', Fetch, w)
      PROVE  Settled(fetch2In', Fetch) /\ Promised(fetch2In', Fetch2BufferSize, m)
  <2> HIDE DEF m, w
  <2>1. QED BY <1>2, <1>3, <1>4, <1>6, AcceptedPromised
<1>7. /\ Settled(fetch2In', Fetch) /\ Promised(fetch2In', Fetch2BufferSize, m)
      /\ F2OK(fetch2')
      /\ fetch2'.fetchState = "FetchRunning" => fetch2'.thread # Bubble
      /\ Settled(decodeIn', Line)
      /\ Promised(decodeIn', DecodeBufferSize, Len(f2ToD'.in) + InFlight(fetch2'))
      /\ f2ToD' \in LatchOf(Line)
  <2>1. CASE branch.out # Bubble
    <3> DEFINE g == [fetch2 EXCEPT !.streamSeqNum = branch.out[1].stream,
                                   !.thread = Bubble,
                                   !.fetchState = "FetchWaiting"]
    <3>1. /\ fetch2' = g /\ fetch2In' = PopAll(fetch2In)
          /\ UNCHANGED <<decodeIn, f2ToD>>
      BY <2>1 DEF Fetch2Evaluate, Fetch2Redirect
    <3>2. branch.out[1].stream \in Stream
      <4>1. PICK x \in BranchData : branch.out = <<x>>
        BY <1>2, <2>1 DEF Wire
      <4>2. branch.out[1] = x
        BY <4>1
      <4>3. QED BY <4>2 DEF BranchData
    <3>3. Bubble \in Wire(Fetch)
      BY DEF Wire
    <3>4. /\ g \in Fetch2State
          /\ g.req = fetch2.req /\ g.requests = fetch2.requests
          /\ g.transfers = fetch2.transfers
          /\ g.itlb = fetch2.itlb /\ g.icache = fetch2.icache
          /\ g.icacheState = fetch2.icacheState /\ g.owesRetry = fetch2.owesRetry
          /\ g.fetchState = "FetchWaiting"
      BY <1>2, <3>2, <3>3 DEF Fetch2State
    <3> HIDE DEF g
    <3>5. F2OK(g) /\ InFlight(g) = InFlight(fetch2)
      BY <1>2, <3>4, SameRequests
    <3>6. Promised(fetch2In, Fetch2BufferSize, m)
      <4> DEFINE r == fetch2In.reserved  l == Len(w)
      <4>1. l \in Nat /\ m \in Nat /\ r \in Nat /\ m + l <= r
        BY <1>2, <1>3, <1>4 DEF Promised, Settled, BufferOf
      <4> HIDE DEF l, m, r
      <4>2. m <= r
        BY <4>1
      <4>3. QED BY <1>4, <4>2 DEF Promised, r
    <3> HIDE DEF m, w
    <3>7. Settled(fetch2In', Fetch) /\ Promised(fetch2In', Fetch2BufferSize, m)
      BY <1>2, <1>4, <3>1, <3>6, PopAllPromised
    <3>8. QED BY <1>2, <1>4, <3>1, <3>4, <3>5, <3>7
  <2>2. CASE branch.out = Bubble
    <3> DEFINE f == IF fetch2.fetchState = "FetchWaiting"
                    THEN [fetch2 EXCEPT !.thread = GetInput(fetch2In)] ELSE fetch2
               input == SetTail(fetch2In, w)
               start == /\ CanReserve(decodeIn, DecodeBufferSize)
                        /\ InFlight(f) < FetchLimit
                        /\ f.fetchState = "FetchWaiting"
               d == IF start THEN Reserve(decodeIn) ELSE decodeIn
    <3>1. IF f.thread = Bubble
          THEN /\ fetch2' = f
               /\ fetch2In' = PushTail(input)
               /\ UNCHANGED <<decodeIn, f2ToD>>
          ELSE \E immediate, accept, accept2 \in BOOLEAN, fault \in Faults :
                 LET g == IF start
                          THEN FetchLine(f, input, immediate, fault, accept)
                          ELSE f
                 IN  Respond(StepQueues(g, input, accept2), input, d)
      BY <2>2 DEF Fetch2Evaluate, Fetch2Step
    <3>2. /\ F2OK(f) /\ InFlight(f) = InFlight(fetch2)
          /\ f.fetchState = "FetchRunning" => f.thread # Bubble
      <4>1. CASE fetch2.fetchState = "FetchWaiting"
        <5>1. GetInput(fetch2In) \in Wire(Fetch)
          BY <1>2, FrontIsIn
        <5>2. f = [fetch2 EXCEPT !.thread = GetInput(fetch2In)]
          BY <4>1
        <5> HIDE DEF f
        <5>3. /\ f \in Fetch2State
              /\ f.req = fetch2.req /\ f.requests = fetch2.requests
              /\ f.transfers = fetch2.transfers
              /\ f.itlb = fetch2.itlb /\ f.icache = fetch2.icache
              /\ f.icacheState = fetch2.icacheState /\ f.owesRetry = fetch2.owesRetry
              /\ f.fetchState = fetch2.fetchState
          BY <1>2, <5>1, <5>2 DEF Fetch2State
        <5>4. F2OK(f) /\ InFlight(f) = InFlight(fetch2)
          BY <1>2, <5>3, SameRequests
        <5>5. QED BY <4>1, <5>3, <5>4
      <4>2. CASE fetch2.fetchState # "FetchWaiting"
        BY <1>2, <4>2
      <4>3. QED BY <4>1, <4>2
    <3> HIDE DEF f
    <3>3. CASE f.thread = Bubble
      <4>1. /\ fetch2' = f /\ fetch2In' = PushTail(input)
            /\ UNCHANGED <<decodeIn, f2ToD>>
        BY <3>1, <3>3
      <4>2. Accepted(fetch2In, fetch2In', Fetch, w)
        BY <1>2, <1>5, <4>1, AcceptKeeps
      <4>3. QED BY <1>2, <1>4, <1>6, <3>2, <4>1, <4>2
    <3>4. CASE f.thread # Bubble
      <4>1. PICK immediate \in BOOLEAN, accept \in BOOLEAN, accept2 \in BOOLEAN,
                 fault \in Faults :
              LET g == IF start
                       THEN FetchLine(f, input, immediate, fault, accept)
                       ELSE f
              IN  Respond(StepQueues(g, input, accept2), input, d)
        BY <3>1, <3>4
      <4> DEFINE g == IF start
                      THEN FetchLine(f, input, immediate, fault, accept)
                      ELSE f
                 h == StepQueues(g, input, accept2)
      <4>2. fault \in Fault
        BY DEF Fault
      <4>3. /\ F2OK(g) /\ g.thread # Bubble
            /\ Settled(d, Line)
            /\ Promised(d, DecodeBufferSize, a + InFlight(g))
        <5>1. CASE start
          <6>1. /\ F2OK(g) /\ InFlight(g) = InFlight(f) + 1 /\ g.thread = f.thread
            BY <3>2, <3>4, <4>2, <5>1, FetchLineKeeps
          <6> DEFINE n == InFlight(fetch2)  k == a + n
          <6>2. n \in Nat /\ InFlight(g) = n + 1
            BY <1>2, <3>2, <6>1, InFlightNat
          <6>3. CanReserve(decodeIn, DecodeBufferSize)
                /\ Promised(decodeIn, DecodeBufferSize, k)
            BY <1>4, <5>1
          <6> HIDE DEF n, a, g
          <6>4. k \in Nat /\ k + 1 = a + (n + 1)
            BY <1>3, <6>2
          <6> HIDE DEF k
          <6>5. /\ Settled(Reserve(decodeIn), Line)
                /\ Promised(Reserve(decodeIn), DecodeBufferSize, k + 1)
            BY <1>2, <1>4, <6>3, <6>4, ReservePromised
          <6>6. d = Reserve(decodeIn)
            BY <5>1
          <6>7. QED BY <3>4, <6>1, <6>2, <6>4, <6>5, <6>6
        <5>2. CASE ~start
          <6>1. g = f /\ d = decodeIn
            BY <5>2
          <6>2. QED BY <1>2, <1>4, <3>2, <3>4, <6>1
        <5>3. QED BY <5>1, <5>2
      <4>4. Respond(h, input, d)
        BY <4>1
      <4> HIDE DEF g, d, start
      <4>5. F2OK(h) /\ SameFetch(g, h)
        BY <4>3, StepQueuesKeeps
      <4>6. F2OK(h) /\ h.thread # Bubble /\ InFlight(h) = InFlight(g)
        BY <4>3, <4>5 DEF SameFetch
      <4> HIDE DEF h
      <4>7. Promised(d, DecodeBufferSize, a + InFlight(h))
        BY <4>3, <4>6
      <4>8. /\ F2OK(fetch2') /\ fetch2'.thread # Bubble
            /\ Settled(decodeIn', Line)
            /\ Promised(decodeIn', DecodeBufferSize, Len(f2ToD'.in) + InFlight(fetch2'))
            /\ f2ToD' \in LatchOf(Line)
            /\ Accepted(fetch2In, fetch2In', Fetch, w)
        BY <1>2, <1>5, <4>3, <4>4, <4>6, <4>7, RespondKeeps
      <4>9. QED BY <1>6, <4>8
    <3>5. QED BY <3>3, <3>4
  <2>3. QED BY <1>2, <2>1, <2>2
<1>8. StagesTyped' /\ LatchesTyped' /\ BuffersSettled' /\ FetchKept'
  BY <1>1, <1>7 DEF IInv, StagesTyped, LatchesTyped, BuffersSettled, FetchKept
<1>9. SlotsKept'
  <2>1. f2ToD'.in \in Wire(Line)
    BY <1>7, ClockType
  <2>2. Len(f2ToD'.in) \in Nat /\ InFlight(fetch2)' = InFlight(fetch2')
    BY <2>1, WireLen DEF InFlight
  <2>3. /\ Coming(dToE, {"execute"})' = Coming(dToE, {"execute"})
        /\ Coming(f2ToD, {"execute", "decode"})' = Len(f2ToD'.in)
        /\ Coming(f1ToF2, {"execute", "decode", "fetch2"})' = m
    BY <1>1, <1>3, <2>2 DEF Coming
  <2>4. QED BY <1>1, <1>7, <2>2, <2>3 DEF IInv, SlotsKept, Promised
<1>10. QED BY <1>8, <1>9 DEF IInv

(* Fetch1::evaluate preserves the invariant.                               *)
LEMMA Fetch1Keeps ==
  ASSUME IInv, Fetch1Evaluate
  PROVE  IInv'
<1> DEFINE thread == Redirected
           m == Len(f1ToF2.in)
<1>1. /\ phase = "fetch1" /\ phase' = "clock"
      /\ UNCHANGED <<fetch2, decodeIn, decode, executeIn, execute, f2ToD, dToE,
                     branch>>
      /\ IF CanReserve(fetch2In, Fetch2BufferSize)
         THEN /\ fetch2In' = Reserve(fetch2In)
              /\ f1ToF2' = Drive(f1ToF2, thread)
              /\ fetch1' = [thread EXCEPT !.pc = NextPc(@)]
         ELSE /\ fetch1' = thread
              /\ UNCHANGED <<fetch2In, f1ToF2>>
  BY DEF Fetch1Evaluate, Emit
<1>2. /\ Settled(fetch2In, Fetch) /\ f1ToF2 \in LatchOf(Fetch)
      /\ f1ToF2.in \in Wire(Fetch) /\ branch.out \in Wire(BranchData)
      /\ fetch1 \in Fetch /\ Fetch2BufferSize \in Nat
  BY ClockType, FrontEndAssumption DEF IInv, LatchesTyped, BuffersSettled, StagesTyped
<1>3. m \in Nat
  BY <1>2, WireLen
<1>4. Promised(fetch2In, Fetch2BufferSize, m)
  <2>1. Promised(fetch2In, Fetch2BufferSize, m + 0)
    BY <1>1 DEF IInv, SlotsKept, Coming
  <2> HIDE DEF m
  <2>2. QED BY <1>3, <2>1
<1>5. thread \in Fetch
  <2>1. CASE branch.out # Bubble
    <3>1. PICK x \in BranchData : branch.out = <<x>>
      BY <1>2, <2>1 DEF Wire
    <3>2. branch.out[1] = x
      BY <3>1
    <3>3. QED BY <2>1, <3>2 DEF BranchData, Fetch, Redirected
  <2>2. CASE branch.out = Bubble
    BY <1>2, <2>2 DEF Redirected
  <2>3. QED BY <2>1, <2>2
<1> HIDE DEF thread
<1>6. /\ Settled(fetch2In', Fetch)
      /\ Promised(fetch2In', Fetch2BufferSize, Len(f1ToF2'.in))
      /\ f1ToF2' \in LatchOf(Fetch) /\ fetch1' \in Fetch
  <2>1. CASE CanReserve(fetch2In, Fetch2BufferSize)
    <3>1. /\ fetch2In' = Reserve(fetch2In) /\ f1ToF2' = Drive(f1ToF2, thread)
          /\ fetch1' = [thread EXCEPT !.pc = NextPc(thread.pc)]
      BY <1>1, <2>1
    <3>2. fetch1' \in Fetch
      BY <1>5, <3>1, NextPcType DEF Fetch
    <3>3. f1ToF2' \in LatchOf(Fetch)
      BY <1>2, <1>5, <3>1, DriveType
    <3>4. Len(f1ToF2'.in) = 1
      BY <1>2, <1>5, <3>1, DriveLen
    <3> HIDE DEF m
    <3>5. Settled(fetch2In', Fetch) /\ Promised(fetch2In', Fetch2BufferSize, m + 1)
      BY <1>2, <1>3, <1>4, <2>1, <3>1, ReservePromised
    <3>6. Promised(fetch2In', Fetch2BufferSize, 1)
      <4> DEFINE r == fetch2In'.reserved
      <4>1. r \in Nat /\ m + 1 <= r
        BY <3>5 DEF Promised, Settled, BufferOf
      <4> HIDE DEF r
      <4>2. 1 <= r
        BY <1>3, <4>1
      <4>3. QED BY <3>5, <4>2 DEF Promised, r
    <3>7. QED BY <3>2, <3>3, <3>4, <3>5, <3>6
  <2>2. CASE ~CanReserve(fetch2In, Fetch2BufferSize)
    BY <1>1, <1>2, <1>4, <1>5, <2>2
  <2>3. QED BY <2>1, <2>2
<1>7. StagesTyped' /\ LatchesTyped' /\ BuffersSettled' /\ FetchKept'
  BY <1>1, <1>6 DEF IInv, StagesTyped, LatchesTyped, BuffersSettled, FetchKept
<1>8. SlotsKept'
  <2>1. f1ToF2'.in \in Wire(Fetch)
    BY <1>6, ClockType
  <2>2. Len(f1ToF2'.in) \in Nat /\ InFlight(fetch2)' = InFlight(fetch2)
    BY <1>1, <2>1, WireLen DEF InFlight
  <2>3. /\ Coming(dToE, {"execute"})' = Coming(dToE, {"execute"})
        /\ Coming(f2ToD, {"execute", "decode"})' = Coming(f2ToD, {"execute", "decode"})
        /\ Coming(f1ToF2, {"execute", "decode", "fetch2"})' = Len(f1ToF2'.in)
    BY <1>1, <2>2 DEF Coming
  <2>4. QED BY <1>1, <1>6, <2>2, <2>3 DEF IInv, SlotsKept, Promised
<1>9. QED BY <1>7, <1>8 DEF IInv

(* The clock edge of the latches preserves the invariant.                  *)
LEMMA ClockKeeps ==
  ASSUME IInv, ClockLatches
  PROVE  IInv'
<1>1. /\ phase = "clock" /\ phase' = "execute"
      /\ f1ToF2' = Clock(f1ToF2) /\ f2ToD' = Clock(f2ToD)
      /\ dToE' = Clock(dToE) /\ branch' = Clock(branch)
      /\ UNCHANGED <<fetch1, fetch2In, fetch2, decodeIn, decode, executeIn, execute>>
  BY DEF ClockLatches
<1>2. LatchesTyped'
  BY <1>1, ClockType DEF IInv, LatchesTyped
<1>3. StagesTyped' /\ BuffersSettled' /\ FetchKept'
  BY <1>1 DEF IInv, StagesTyped, BuffersSettled, FetchKept
<1>4. ASSUME NEW S, NEW l \in LatchOf(S)
      PROVE  Len(Clock(l).in) + Len(Clock(l).out) = Len(l.in) + 0
  <2>1. Clock(l).in = Bubble /\ Clock(l).out = l.in /\ l.in \in Wire(S)
    BY ClockType
  <2>2. Len(Bubble) = 0 /\ Len(l.in) \in Nat
    BY <2>1, WireLen DEF Bubble
  <2>3. QED BY <2>1, <2>2
<1>5. /\ Coming(f1ToF2, {"execute", "decode", "fetch2"})' =
           Coming(f1ToF2, {"execute", "decode", "fetch2"})
      /\ Coming(f2ToD, {"execute", "decode"})' = Coming(f2ToD, {"execute", "decode"})
      /\ Coming(dToE, {"execute"})' = Coming(dToE, {"execute"})
      /\ InFlight(fetch2)' = InFlight(fetch2)
  BY <1>1, <1>4 DEF Coming, IInv, LatchesTyped, InFlight
<1>6. SlotsKept'
  BY <1>1, <1>5 DEF IInv, SlotsKept, Promised
<1>7. QED BY <1>2, <1>3, <1>6 DEF IInv

(* The callbacks change Fetch2 alone, and neither how much is in flight    *)
(* nor what is being fetched.                                              *)
LEMMA CallbackKeeps ==
  ASSUME IInv, Callback
  PROVE  IInv'
<1>1. F2OK(fetch2)
  BY DEF IInv, FetchKept
<1>2. /\ F2OK(fetch2') /\ SameFetch(fetch2, fetch2')
      /\ UNCHANGED <<phase, fetch1, fetch2In, decodeIn, decode, executeIn,
                     execute, f1ToF2, f2ToD, dToE, branch>>
  <2>1. ASSUME NEW p \in Request, NEW fault \in Faults, NEW accept \in BOOLEAN,
               ItlbFinish(p, fault, accept)
        PROVE  F2OK(fetch2') /\ SameFetch(fetch2, fetch2')
    <3>1. fault \in Fault /\ p \in fetch2.itlb
          /\ fetch2' = Finish(fetch2, fetch2In, p, fault, accept)
      BY <2>1 DEF ItlbFinish, Fault
    <3>2. QED BY <1>1, <3>1, FinishKeeps
  <2>2. ASSUME NEW p \in Request, RecvTimingResp(p)
        PROVE  F2OK(fetch2') /\ SameFetch(fetch2, fetch2')
    <3>1. p \in fetch2.icache /\ fetch2' = Completed(fetch2, p)
      BY <2>2 DEF RecvTimingResp, Completed
    <3>2. QED BY <1>1, <3>1, CompletedKeeps
  <2>3. ASSUME NEW accept \in BOOLEAN, RecvReqRetry(accept)
        PROVE  F2OK(fetch2') /\ SameFetch(fetch2, fetch2')
    <3>1. /\ fetch2.owesRetry
          /\ fetch2' = TryToSend([fetch2 EXCEPT !.icacheState = "IcacheRunning",
                                                !.owesRetry = FALSE],
                                 Head(fetch2.requests), accept)
      BY <2>3 DEF RecvReqRetry
    <3>2. QED BY <1>1, <3>1, RetryKeeps
  <2>4. UNCHANGED <<phase, fetch1, fetch2In, decodeIn, decode, executeIn,
                    execute, f1ToF2, f2ToD, dToE, branch>>
    BY DEF Callback, ItlbFinish, RecvTimingResp, RecvReqRetry
  <2>5. QED BY <2>1, <2>2, <2>3, <2>4 DEF Callback
<1>3. StagesTyped' /\ LatchesTyped' /\ BuffersSettled' /\ FetchKept'
  BY <1>2 DEF IInv, StagesTyped, LatchesTyped, BuffersSettled, FetchKept, SameFetch
<1>4. SlotsKept'
  <2>1. InFlight(fetch2)' = InFlight(fetch2)
    BY <1>2 DEF SameFetch, InFlight
  <2>2. /\ Coming(dToE, {"execute"})' = Coming(dToE, {"execute"})
        /\ Coming(f2ToD, {"execute", "decode"})' = Coming(f2ToD, {"execute", "decode"})
        /\ Coming(f1ToF2, {"execute", "decode", "fetch2"})' =
             Coming(f1ToF2, {"execute", "decode", "fetch2"})
    BY <1>2 DEF Coming
  <2>3. QED BY <1>2, <2>1, <2>2 DEF IInv, SlotsKept, Promised
<1>5. QED BY <1>3, <1>4 DEF IInv

(* Every step preserves the invariant.                                     *)
LEMMA NextIInv == IInv /\ [Next]_vars => IInv'
<1> SUFFICES ASSUME IInv, [Next]_vars PROVE IInv'
  OBVIOUS
<1>1. CASE Evaluate
  BY <1>1, ExecuteKeeps, DecodeKeeps, Fetch2Keeps, Fetch1Keeps, ClockKeeps
     DEF Evaluate
<1>2. CASE Callback
  BY <1>2, CallbackKeeps
<1>3. CASE UNCHANGED vars
  <2>1. StagesTyped' /\ LatchesTyped' /\ BuffersSettled' /\ FetchKept'
    BY <1>3
       DEF vars, IInv, StagesTyped, LatchesTyped, BuffersSettled, FetchKept
  <2>2. SlotsKept'
    BY <1>3 DEF vars, IInv, SlotsKept, Promised, Coming, InFlight
  <2>3. QED BY <2>1, <2>2 DEF IInv
<1>4. QED BY <1>1, <1>2, <1>3 DEF Next

(* The inductive invariant holds in every behaviour of the front end.      *)
THEOREM Invariance == Spec => []IInv
<1>1. Init => IInv
  BY InitIInv
<1>2. IInv /\ [Next]_vars => IInv'
  BY NextIInv
<1>3. QED BY <1>1, <1>2, PTL DEF Spec
-----------------------------------------------------------------------------
(* The results.                                                            *)

(* Every stage, buffer and latch keeps its type.                           *)
THEOREM TypeCorrect == Spec => []TypeOK
<1>1. IInv => TypeOK
  BY DEF IInv, StagesTyped, LatchesTyped, BuffersSettled, FetchKept, F2OK, Settled,
         TypeOK
<1>2. QED BY <1>1, Invariance, PTL

(* Whoever has still to call back on a fetch request holds one that exists *)
(* and waits for that call, whatever redirects have done in between.       *)
THEOREM RequestsNeverOrphaned == Spec => []NoOrphanedRequest
<1>1. IInv => NoOrphanedRequest
  BY DEF IInv, FetchKept, F2OK, NoOrphanedRequest
<1>2. QED BY <1>1, Invariance, PTL

(* A retry of the instruction cache finds the packet it refused.           *)
THEOREM RetriesFindRequest == Spec => []RetryFindsRequest
<1>1. IInv => RetryFindsRequest
  BY DEF IInv, FetchKept, F2OK, RetryFindsRequest
<1>2. QED BY <1>1, Invariance, PTL

(* What is on its way into an input buffer always finds room.              *)
THEOREM SlotsAlwaysSuffice == Spec => []SlotsSuffice
<1>1. IInv => SlotsSuffice
  BY DEF IInv, SlotsKept, Promised, SlotsSuffice
<1>2. QED BY <1>1, Invariance, PTL
=============================================================================
