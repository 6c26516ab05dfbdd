--------------------------- MODULE FrontEndStream ---------------------------
(***************************************************************************)
(* The front end conveys one stream: what is between Fetch1 and Execute is *)
(* of one stream at any time, its words and its instructions follow each   *)
(* other without a gap, and each instruction is made of the bytes at its   *)
(* pc, for every capacity, fetch limit, address space and number of        *)
(* streams.                                                                *)
(***************************************************************************)
EXTENDS FrontEndProofs, SequenceTheorems

-----------------------------------------------------------------------------
(* The stream the front end is on, and what is in it.                      *)

(* Fetch2 is the last stage but Fetch1 to hear of a branch: until it has,  *)
(* everything in the front end is of the stream it knows.                  *)
Now == fetch2.streamSeqNum

FetchesOf(s) == {x \in Fetch : x.stream = s}
LinesOf(s) == {x \in Line : x.stream = s /\ x.addr = Base(x.pc)}
MadeOfItsBytes(inst) ==
  inst.bytes = [k \in 1 .. Length(inst.pc) |-> After(inst.pc, k - 1)]
InstsOf(s) == {x \in Inst : x.stream = s /\ (x.fault \/ MadeOfItsBytes(x))}

(* A latch is written once a cycle, by the stage it belongs to.            *)
WrittenOnce ==
  /\ branch.in # Bubble => phase # "execute"
  /\ dToE.in # Bubble => phase \in {"fetch2", "fetch1", "clock"}
  /\ f2ToD.in # Bubble => phase \in {"fetch1", "clock"}
  /\ f1ToF2.in # Bubble => phase = "clock"

(* What Fetch1 emits next.                                                 *)
NextFetch == IF phase = "fetch1" THEN Redirected ELSE fetch1

OneStream ==
  /\ Settled(executeIn, InstsOf(Now))
  /\ InstDue \in Wire(InstsOf(Now)) /\ dToE.in \in Wire(InstsOf(Now))
  /\ Settled(decodeIn, LinesOf(Now))
  /\ LineDue \in Wire(LinesOf(Now)) /\ f2ToD.in \in Wire(LinesOf(Now))
  /\ Settled(fetch2In, FetchesOf(Now))
  /\ FetchDue \in Wire(FetchesOf(Now)) /\ f1ToF2.in \in Wire(FetchesOf(Now))
  /\ NextFetch.stream = Now
  /\ decode.lastStreamSeqNum <= Now

(* Execute, then Decode, then Fetch2 drop what they have when a branch     *)
(* reaches them.                                                           *)
Flushed ==
  branch.out # Bubble =>
    /\ phase # "execute" => executeIn.queue = <<>>
    /\ phase \in {"fetch2", "fetch1", "clock"} =>
         decodeIn.queue = <<>> /\ dToE.in = Bubble
    /\ phase \in {"fetch1", "clock"} =>
         fetch2In.queue = <<>> /\ f2ToD.in = Bubble

(* The streams of the branches on their way: each opens a later one.       *)
Redirects ==
  /\ execute.draining <=>
       (IF phase = "execute" THEN branch.out ELSE branch.in) # Bubble
  /\ branch.out # Bubble =>
       IF phase \in {"execute", "decode", "fetch2"}
       THEN branch.out[1].stream > Now ELSE branch.out[1].stream = Now
  /\ IF branch.in # Bubble
     THEN /\ execute.streamSeqNum = branch.in[1].stream
          /\ execute.expect = branch.in[1].target
          /\ branch.in[1].stream > Now
          /\ branch.out # Bubble => branch.in[1].stream > branch.out[1].stream
     ELSE IF branch.out # Bubble
     THEN /\ execute.streamSeqNum = branch.out[1].stream
          /\ execute.expect = branch.out[1].target
     ELSE execute.streamSeqNum = Now

(* The fetch under way, if any, is the only one of its stream.             *)
FetchOfNow(p) == Allocated(fetch2, p) /\ fetch2.req[p].stream = Now

OneFetch ==
  /\ \A p \in Request : Allocated(fetch2, p) => fetch2.req[p].stream <= Now
  /\ \A p \in Request : FetchOfNow(p) =>
       /\ fetch2.fetchState = "FetchRunning"
       /\ fetch2.req[p].pc = fetch2In.queue[1].pc
       /\ \A q \in Request : FetchOfNow(q) => q = p
  /\ fetch2.fetchState = "FetchRunning" =>
       /\ fetch2In.queue # <<>> /\ fetch2.thread = <<fetch2In.queue[1]>>
       /\ \E p \in Request : FetchOfNow(p)

(* The words from the front of q to the next pc n follow each other.       *)
FirstPc(q, n) == IF q = <<>> THEN n ELSE q[1].pc
Linked(q, n) ==
  \A i \in 1 .. Len(q) :
    NextPc(q[i].pc) = (IF i = Len(q) THEN n ELSE q[i + 1].pc)

WordF1 == FirstPc(f1ToF2.in, NextFetch.pc)
WordF1Due == FirstPc(FetchDue, WordF1)
WordF2 == FirstPc(fetch2In.queue, WordF1Due)
WordD == FirstPc(f2ToD.in, WordF2)
WordDDue == FirstPc(LineDue, WordD)
FirstWord == FirstPc(decodeIn.queue, WordDDue)

WordsLinked ==
  /\ Linked(f1ToF2.in, NextFetch.pc)
  /\ Linked(FetchDue, WordF1)
  /\ Linked(fetch2In.queue, WordF1Due)
  /\ Linked(f2ToD.in, WordF2)
  /\ Linked(LineDue, WordD)
  /\ Linked(decodeIn.queue, WordDDue)

(* Decode in state d, on the way through the stream.                       *)
Begun(d) == d.havePC /\ d.lastStreamSeqNum = Now
PcOf(d, word) == IF Begun(d) THEN d.pc ELSE word
Needed(d) == IF d.mid = Bubble THEN d.pc ELSE After(d.pc, 1)

(* Half an instruction is the one at the pc.                               *)
HalfOf(d) ==
  d.mid # Bubble => d.mid = <<d.pc>> /\ d.pc % 2 = 1 /\ d.pc \notin Compressed

HalfKept == HalfOf(decode)

WordNeeded ==
  Begun(decode) /\ (phase = "fetch2" => branch.out = Bubble) =>
    Base(FirstWord) = Base(Needed(decode))

Chained(q, n) ==
  \A i \in 1 .. Len(q) :
    Follower(q[i]) \in {AnyPc, IF i = Len(q) THEN n ELSE q[i + 1].pc}

PcD == PcOf(decode, FirstWord)
PcDDriven == FirstPc(dToE.in, PcD)
PcDue == FirstPc(InstDue, PcDDriven)
FirstInst == FirstPc(executeIn.queue, PcDue)

InstsChained ==
  /\ Chained(dToE.in, PcD)
  /\ Chained(InstDue, PcDDriven)
  /\ Chained(executeIn.queue, PcDue)
  /\ execute.streamSeqNum = Now => execute.expect \in {AnyPc, FirstInst}

-----------------------------------------------------------------------------
(* An input buffer within a cycle, as the sequence of its entries.         *)

Buffer(c, S) ==
  /\ c \in [queue : Seq(S), elem : Wire(S), reserved : Nat]
  /\ c.elem # Bubble => c.queue = <<>>
Entries(c) == IF c.elem # Bubble THEN c.elem ELSE c.queue
Joined(q, w) == IF w = Bubble THEN q ELSE Append(q, w[1])

(* What the front of a buffer shows is the first of its entries.           *)
LEMMA FrontOfEntries ==
  ASSUME NEW S, NEW c, Buffer(c, S)
  PROVE  /\ Entries(c) \in Seq(S)
         /\ IsEmpty(c) <=> Entries(c) = <<>>
         /\ ~IsEmpty(c) => Front(c) = Entries(c)[1] /\ Front(c) \in S
<1>1. CASE c.elem # Bubble
  <2>1. PICK x \in S : c.elem = <<x>>
    BY <1>1 DEF Buffer, Wire
  <2>2. /\ <<x>> \in Seq(S) /\ <<x>> # <<>> /\ <<x>>[1] = x
    OBVIOUS
  <2>3. Entries(c) = <<x>> /\ Front(c) = <<x>>[1] /\ ~IsEmpty(c)
    BY <1>1, <2>1 DEF Entries, Front, IsEmpty
  <2>4. QED BY <2>2, <2>3
<1>2. CASE c.elem = Bubble
  <2>1. c.queue \in Seq(S)
    BY DEF Buffer
  <2>2. c.queue # <<>> => c.queue[1] \in S
    BY <2>1
  <2>3. QED BY <1>2, <2>1, <2>2 DEF Entries, Front, IsEmpty
<1>3. QED BY <1>1, <1>2

(* setTail() appends what is on the wire.                                  *)
LEMMA SetTailEntries ==
  ASSUME NEW S, NEW b, Settled(b, S), NEW w \in Wire(S)
  PROVE  /\ Buffer(SetTail(b, w), S)
         /\ Entries(SetTail(b, w)) = Joined(b.queue, w)
         /\ Joined(b.queue, w) \in Seq(S)
<1>1. /\ b \in [queue : Seq(S), elem : Wire(S), reserved : Nat]
      /\ b.elem = Bubble /\ b.queue \in Seq(S)
  BY DEF Settled, BufferOf
<1>2. CASE w = Bubble
  BY <1>1, <1>2 DEF SetTail, Buffer, Entries, Joined
<1>3. CASE w # Bubble
  <2>1. PICK x \in S : w = <<x>>
    BY <1>3 DEF Wire
  <2>2. w[1] = x
    BY <2>1
  <2> DEFINE q == Append(b.queue, x)
  <2>3. q \in Seq(S) /\ (b.queue = <<>> => q = <<x>>)
    <3>1. q \in Seq(S)
      BY <1>1
    <3>2. Append(<<>>, x) = <<x>>
      OBVIOUS
    <3>3. QED BY <3>1, <3>2
  <2>4. Joined(b.queue, w) = q
    BY <1>3, <2>2 DEF Joined
  <2> HIDE DEF q
  <2>5. CASE b.queue = <<>>
    <3>1. SetTail(b, w) = [b EXCEPT !.elem = w]
      BY <1>3, <2>5 DEF SetTail
    <3> DEFINE c == [b EXCEPT !.elem = w]
    <3>2. /\ c \in [queue : Seq(S), elem : Wire(S), reserved : Nat]
          /\ c.elem = w /\ c.queue = <<>>
      BY <1>1, <2>5
    <3> HIDE DEF c
    <3>3. Buffer(c, S) /\ Entries(c) = w
      BY <1>3, <3>2 DEF Buffer, Entries
    <3>4. QED BY <2>1, <2>3, <2>4, <2>5, <3>1, <3>3 DEF c
  <2>6. CASE b.queue # <<>>
    <3> DEFINE f == FreeReservation(b)  c == [f EXCEPT !.queue = q]
    <3>2. /\ f \in [queue : Seq(S), elem : Wire(S), reserved : Nat]
          /\ f.elem = Bubble /\ f.queue = b.queue
      BY <1>1 DEF FreeReservation
    <3>1. SetTail(b, w) = c
      <4>1. SetTail(b, w) = [f EXCEPT !.queue = Append(f.queue, x)]
        BY <1>3, <2>2, <2>6 DEF SetTail, Push
      <4>2. QED BY <3>2, <4>1 DEF q
    <3> HIDE DEF f
    <3>3. /\ c \in [queue : Seq(S), elem : Wire(S), reserved : Nat]
          /\ c.elem = Bubble /\ c.queue = q
      BY <2>3, <3>2
    <3> HIDE DEF c
    <3>4. Buffer(c, S) /\ Entries(c) = q
      BY <3>3 DEF Buffer, Entries
    <3>5. QED BY <2>3, <2>4, <3>1, <3>4
  <2>7. QED BY <2>5, <2>6
<1>4. QED BY <1>2, <1>3

(* popInput() drops the first entry.                                       *)
LEMMA PopInputEntries ==
  ASSUME NEW S, NEW c, Buffer(c, S)
  PROVE  /\ Buffer(PopInput(c), S)
         /\ Entries(PopInput(c)) =
              IF Entries(c) = <<>> THEN <<>> ELSE Tail(Entries(c))
<1>1. CASE c.elem # Bubble
  <2>1. PICK x \in S : c.elem = <<x>>
    BY <1>1 DEF Buffer, Wire
  <2>2. /\ <<x>> # <<>> /\ Tail(<<x>>) = <<>> /\ <<>> \in Seq(S)
        /\ Bubble \in Wire(S)
    <3>1. <<x>> # <<>> /\ Tail(<<x>>) = <<>> /\ <<>> \in Seq(S)
      OBVIOUS
    <3>2. QED BY <3>1 DEF Wire
  <2> DEFINE d == FreeReservation(c)
  <2>3. /\ d \in [queue : Seq(S), elem : Wire(S), reserved : Nat]
        /\ d.queue = <<>>
    BY <1>1 DEF Buffer, FreeReservation
  <2>4. PopInput(c) = [d EXCEPT !.elem = Bubble]
    BY <1>1 DEF PopInput, Pop, IsEmpty
  <2> HIDE DEF d
  <2>5. /\ Buffer(PopInput(c), S) /\ Entries(PopInput(c)) = <<>>
    BY <2>2, <2>3, <2>4 DEF Buffer, Entries
  <2>6. Entries(c) = <<x>>
    BY <1>1, <2>1 DEF Entries
  <2>7. QED BY <2>2, <2>5, <2>6
<1>2. CASE c.elem = Bubble
  <2>1. /\ c \in [queue : Seq(S), elem : Wire(S), reserved : Nat]
        /\ Entries(c) = c.queue
    BY <1>2 DEF Buffer, Entries
  <2>2. CASE c.queue = <<>>
    BY <1>2, <2>1, <2>2 DEF PopInput, IsEmpty, Buffer
  <2>3. CASE c.queue # <<>>
    <3> DEFINE q == Tail(c.queue)
    <3>1. q \in Seq(S)
      BY <2>1, <2>3
    <3>2. PopInput(c) = [c EXCEPT !.queue = q]
      BY <1>2, <2>3 DEF PopInput, Pop, IsEmpty
    <3>3. q = Tail(Entries(c))
      BY <2>1
    <3> HIDE DEF q
    <3>4. Buffer(PopInput(c), S) /\ Entries(PopInput(c)) = q
      BY <1>2, <2>1, <3>1, <3>2 DEF Buffer, Entries
    <3>5. QED BY <2>1, <2>3, <3>3, <3>4
  <2>4. QED BY <2>2, <2>3
<1>3. QED BY <1>1, <1>2

(* Popping until empty leaves none.                                        *)
LEMMA PopAllEntries ==
  ASSUME NEW S, NEW c, Buffer(c, S), NEW T
  PROVE  Buffer(PopAll(c), T) /\ Entries(PopAll(c)) = <<>>
<1> DEFINE d == IF c.elem # Bubble THEN FreeReservation(c) ELSE c
<1>1. d \in [queue : Seq(S), elem : Wire(S), reserved : Nat]
  BY DEF Buffer, FreeReservation
<1>2. PopAll(c) = [d EXCEPT !.elem = Bubble, !.queue = <<>>]
  BY DEF PopAll
<1> HIDE DEF d
<1>3. Bubble \in Wire(T) /\ <<>> \in Seq(T)
  <2>1. <<>> \in Seq(T)
    OBVIOUS
  <2>2. QED BY <2>1 DEF Wire
<1>4. QED BY <1>1, <1>2, <1>3 DEF Buffer, Entries

(* pushTail() leaves the entries in the queue.                             *)
LEMMA PushTailEntries ==
  ASSUME NEW S, NEW c, Buffer(c, S)
  PROVE  Settled(PushTail(c), S) /\ PushTail(c).queue = Entries(c)
<1>1. CASE c.elem # Bubble
  <2>1. PICK x \in S : c.elem = <<x>>
    BY <1>1 DEF Buffer, Wire
  <2> DEFINE d == FreeReservation(c)
  <2>2. /\ d \in [queue : Seq(S), elem : Wire(S), reserved : Nat]
        /\ d.queue = <<>>
    BY <1>1 DEF Buffer, FreeReservation
  <2>3. /\ Append(<<>>, x) = <<x>> /\ <<x>> \in Seq(S) /\ c.elem[1] = x
        /\ Bubble \in Wire(S)
    <3>1. Append(<<>>, x) = <<x>> /\ <<x>> \in Seq(S) /\ <<x>>[1] = x
      OBVIOUS
    <3>2. QED BY <2>1, <3>1 DEF Wire
  <2>4. PushTail(c) = [[d EXCEPT !.queue = <<x>>] EXCEPT !.elem = Bubble]
    BY <1>1, <2>2, <2>3 DEF PushTail, Push
  <2> HIDE DEF d
  <2>5. Settled(PushTail(c), S) /\ PushTail(c).queue = <<x>>
    BY <2>2, <2>3, <2>4 DEF Settled, BufferOf
  <2>6. QED BY <1>1, <2>1, <2>5 DEF Entries
<1>2. CASE c.elem = Bubble
  BY <1>2 DEF Buffer, Settled, BufferOf, PushTail, Entries
<1>3. QED BY <1>1, <1>2

(* A settled buffer is one, with the entries of its queue.                 *)
LEMMA SettledBuffer ==
  ASSUME NEW S, NEW b, Settled(b, S)
  PROVE  /\ Buffer(b, S) /\ Entries(b) = b.queue /\ b.queue \in Seq(S)
         /\ b.elem = Bubble /\ b.reserved \in Nat
BY DEF Settled, BufferOf, Buffer, Entries

(* PopAll() between two cycles empties the queue.                          *)
LEMMA PopAllSettled ==
  ASSUME NEW S, NEW b, Settled(b, S), NEW T
  PROVE  Settled(PopAll(b), T) /\ PopAll(b).queue = <<>>
<1>1. b \in [queue : Seq(S), elem : Wire(S), reserved : Nat] /\ b.elem = Bubble
  BY DEF Settled, BufferOf
<1>2. PopAll(b) = [b EXCEPT !.elem = Bubble, !.queue = <<>>]
  BY <1>1 DEF PopAll
<1>3. Bubble \in Wire(T) /\ <<>> \in Seq(T)
  <2>1. <<>> \in Seq(T)
    OBVIOUS
  <2>2. QED BY <2>1 DEF Wire
<1>4. QED BY <1>1, <1>2, <1>3 DEF Settled, BufferOf

(* Reserving and freeing a slot do not touch the queue.                    *)
LEMMA ReservationsSettled ==
  ASSUME NEW S, NEW b, Settled(b, S)
  PROVE  /\ Settled(Reserve(b), S) /\ Reserve(b).queue = b.queue
         /\ Settled(FreeReservation(b), S) /\ FreeReservation(b).queue = b.queue
BY DEF Settled, BufferOf, Reserve, FreeReservation
-----------------------------------------------------------------------------
(* What follows what, along a queue and the wire that leads to it.         *)

(* The element of a wire is the first of its entries, and there is no more. *)
LEMMA OnWire ==
  ASSUME NEW x, NEW n
  PROVE  /\ FirstPc(<<x>>, n) = x.pc /\ FirstPc(<<>>, n) = n
         /\ Linked(<<x>>, n) <=> NextPc(x.pc) = n
         /\ Chained(<<x>>, n) <=> Follower(x) \in {AnyPc, n}
         /\ Linked(<<>>, n) /\ Chained(<<>>, n)
<1>1. /\ <<x>> # <<>> /\ <<x>>[1] = x /\ Len(<<x>>) = 1 /\ Len(<<>>) = 0
      /\ 1 .. 1 = {1} /\ 1 .. 0 = {}
  OBVIOUS
<1>2. FirstPc(<<x>>, n) = x.pc /\ FirstPc(<<>>, n) = n
  BY <1>1 DEF FirstPc
<1>3. Linked(<<>>, n) /\ Chained(<<>>, n)
  BY <1>1 DEF Linked, Chained
<1>4. Linked(<<x>>, n) <=> NextPc(x.pc) = n
  BY <1>1 DEF Linked
<1>5. Chained(<<x>>, n) <=> Follower(x) \in {AnyPc, n}
  BY <1>1 DEF Chained
<1>6. QED BY <1>2, <1>3, <1>4, <1>5

(* A queue of words that takes the next one from its latch.                *)
LEMMA LinkedJoined ==
  ASSUME NEW S, NEW q \in Seq(S), NEW w \in Wire(S), NEW n,
         Linked(w, n), Linked(q, FirstPc(w, n))
  PROVE  /\ Linked(Joined(q, w), n)
         /\ FirstPc(Joined(q, w), n) = FirstPc(q, FirstPc(w, n))
<1>1. CASE w = Bubble
  BY <1>1 DEF Joined, FirstPc, Bubble
<1>2. CASE w # Bubble
  <2>1. PICK x \in S : w = <<x>>
    BY <1>2 DEF Wire
  <2>2. /\ w # <<>> /\ w[1] = x /\ Len(w) = 1
    BY <2>1
  <2>3. FirstPc(w, n) = x.pc /\ NextPc(x.pc) = n
    BY <2>2 DEF FirstPc, Linked
  <2> DEFINE j == Append(q, x)  l == Len(q)
  <2>4. Joined(q, w) = j
    BY <1>2, <2>2 DEF Joined
  <2>5. /\ l \in Nat /\ Len(j) = l + 1 /\ j[l + 1] = x
        /\ \A i \in 1 .. l : j[i] = q[i]
        /\ l = 0 <=> q = <<>>
        /\ j # <<>>
    OBVIOUS
  <2>6. \A i \in 1 .. l : NextPc(q[i].pc) = ( IF i = l THEN x.pc ELSE q[i + 1].pc)
    BY <2>3 DEF Linked
  <2> HIDE DEF j, l
  <2>7. Linked(j, n)
    <3> SUFFICES ASSUME NEW i \in 1 .. Len(j)
                 PROVE  NextPc(j[i].pc) = ( IF i = Len(j) THEN n ELSE j[i + 1].pc)
      BY DEF Linked
    <3>1. CASE i = l + 1
      BY <2>3, <2>5, <3>1
    <3>2. CASE i = l
      <4>1. i \in 1 .. l /\ i # Len(j) /\ i + 1 = l + 1
        BY <2>5, <3>2
      <4>2. QED BY <2>5, <2>6, <3>2, <4>1
    <3>3. CASE i # l /\ i # l + 1
      <4>1. i \in 1 .. l /\ i # Len(j) /\ i + 1 \in 1 .. l
        BY <2>5, <3>3
      <4>2. QED BY <2>5, <2>6, <3>3, <4>1
    <3>4. QED BY <3>1, <3>2, <3>3
  <2>8. FirstPc(j, n) = FirstPc(q, x.pc)
    <3>1. CASE l = 0
      BY <2>5, <3>1 DEF FirstPc
    <3>2. CASE l # 0
      <4>1. 1 \in 1 .. l /\ q # <<>>
        BY <2>5, <3>2
      <4>2. QED BY <2>5, <4>1 DEF FirstPc
    <3>3. QED BY <3>1, <3>2
  <2>9. QED BY <2>3, <2>4, <2>7, <2>8
<1>3. QED BY <1>1, <1>2

(* A queue of words without its first one.                                 *)
LEMMA LinkedTail ==
  ASSUME NEW S, NEW q \in Seq(S), q # <<>>, NEW n, Linked(q, n)
  PROVE  /\ Linked(Tail(q), n) /\ Tail(q) \in Seq(S)
         /\ NextPc(q[1].pc) = ( FirstPc(Tail(q), n))
<1> DEFINE l == Len(q)  t == Tail(q)
<1>1. /\ l \in Nat \ {0} /\ t \in Seq(S) /\ Len(t) = l - 1
      /\ \A i \in 1 .. l - 1 : t[i] = q[i + 1]
      /\ t = <<>> <=> l = 1
  <2>1. /\ l \in Nat \ {0} /\ t \in Seq(S) /\ Len(t) = l - 1
        /\ \A i \in 1 .. l - 1 : t[i] = q[i + 1]
    OBVIOUS
  <2>2. t = <<>> <=> Len(t) = 0
    BY <2>1
  <2> HIDE DEF l, t
  <2>3. QED BY <2>1, <2>2
<1>2. \A i \in 1 .. l : NextPc(q[i].pc) = ( IF i = l THEN n ELSE q[i + 1].pc)
  BY DEF Linked
<1> HIDE DEF l, t
<1>3. Linked(t, n)
  <2> SUFFICES ASSUME NEW i \in 1 .. Len(t)
               PROVE  NextPc(t[i].pc) = ( IF i = Len(t) THEN n ELSE t[i + 1].pc)
    BY DEF Linked
  <2>1. i + 1 \in 1 .. l /\ t[i] = q[i + 1]
    BY <1>1
  <2>2. CASE i = Len(t)
    <3>1. i + 1 = l
      BY <1>1, <2>2
    <3>2. QED BY <1>2, <2>1, <2>2, <3>1
  <2>3. CASE i # Len(t)
    <3>1. i + 1 # l /\ i + 1 \in 1 .. l - 1
      BY <1>1, <2>3
    <3>2. t[i + 1] = q[(i + 1) + 1]
      BY <1>1, <3>1
    <3>3. QED BY <1>2, <2>1, <2>3, <3>1, <3>2
  <2>4. QED BY <2>2, <2>3
<1>4. NextPc(q[1].pc) = ( FirstPc(t, n))
  <2>1. 1 \in 1 .. l
    BY <1>1
  <2>2. CASE l = 1
    BY <1>1, <1>2, <2>1, <2>2 DEF FirstPc
  <2>3. CASE l # 1
    <3>1. 1 \in 1 .. l - 1 /\ 1 + 1 = 2
      BY <1>1, <2>3
    <3>2. t[1] = q[2]
      BY <1>1, <3>1
    <3>3. QED BY <1>1, <1>2, <2>1, <2>3, <3>1, <3>2 DEF FirstPc
  <2>4. QED BY <2>2, <2>3
<1>5. QED BY <1>1, <1>3, <1>4 DEF t


(* A queue of instructions that takes the next one from its latch.         *)
LEMMA ChainedJoined ==
  ASSUME NEW S, NEW q \in Seq(S), NEW w \in Wire(S), NEW n,
         Chained(w, n), Chained(q, FirstPc(w, n))
  PROVE  /\ Chained(Joined(q, w), n)
         /\ FirstPc(Joined(q, w), n) = FirstPc(q, FirstPc(w, n))
<1>1. CASE w = Bubble
  BY <1>1 DEF Joined, FirstPc, Bubble
<1>2. CASE w # Bubble
  <2>1. PICK x \in S : w = <<x>>
    BY <1>2 DEF Wire
  <2>2. /\ w # <<>> /\ w[1] = x /\ Len(w) = 1
    BY <2>1
  <2>3. FirstPc(w, n) = x.pc /\ Follower(x) \in {AnyPc, n}
    BY <2>2 DEF FirstPc, Chained
  <2> DEFINE j == Append(q, x)  l == Len(q)
  <2>4. Joined(q, w) = j
    BY <1>2, <2>2 DEF Joined
  <2>5. /\ l \in Nat /\ Len(j) = l + 1 /\ j[l + 1] = x
        /\ \A i \in 1 .. l : j[i] = q[i]
        /\ l = 0 <=> q = <<>>
        /\ j # <<>>
    OBVIOUS
  <2>6. \A i \in 1 .. l : Follower(q[i]) \in {AnyPc, IF i = l THEN x.pc ELSE q[i + 1].pc}
    BY <2>3 DEF Chained
  <2> HIDE DEF j, l
  <2>7. Chained(j, n)
    <3> SUFFICES ASSUME NEW i \in 1 .. Len(j)
                 PROVE  Follower(j[i]) \in {AnyPc, IF i = Len(j) THEN n ELSE j[i + 1].pc}
      BY DEF Chained
    <3>1. CASE i = l + 1
      BY <2>3, <2>5, <3>1
    <3>2. CASE i = l
      <4>1. i \in 1 .. l /\ i # Len(j) /\ i + 1 = l + 1
        BY <2>5, <3>2
      <4>2. QED BY <2>5, <2>6, <3>2, <4>1
    <3>3. CASE i # l /\ i # l + 1
      <4>1. i \in 1 .. l /\ i # Len(j) /\ i + 1 \in 1 .. l
        BY <2>5, <3>3
      <4>2. QED BY <2>5, <2>6, <3>3, <4>1
    <3>4. QED BY <3>1, <3>2, <3>3
  <2>8. FirstPc(j, n) = FirstPc(q, x.pc)
    <3>1. CASE l = 0
      BY <2>5, <3>1 DEF FirstPc
    <3>2. CASE l # 0
      <4>1. 1 \in 1 .. l /\ q # <<>>
        BY <2>5, <3>2
      <4>2. QED BY <2>5, <4>1 DEF FirstPc
    <3>3. QED BY <3>1, <3>2
  <2>9. QED BY <2>3, <2>4, <2>7, <2>8
<1>3. QED BY <1>1, <1>2

(* A queue of instructions without its first one.                          *)
LEMMA ChainedTail ==
  ASSUME NEW S, NEW q \in Seq(S), q # <<>>, NEW n, Chained(q, n)
  PROVE  /\ Chained(Tail(q), n) /\ Tail(q) \in Seq(S)
         /\ Follower(q[1]) \in {AnyPc, FirstPc(Tail(q), n)}
<1> DEFINE l == Len(q)  t == Tail(q)
<1>1. /\ l \in Nat \ {0} /\ t \in Seq(S) /\ Len(t) = l - 1
      /\ \A i \in 1 .. l - 1 : t[i] = q[i + 1]
      /\ t = <<>> <=> l = 1
  <2>1. /\ l \in Nat \ {0} /\ t \in Seq(S) /\ Len(t) = l - 1
        /\ \A i \in 1 .. l - 1 : t[i] = q[i + 1]
    OBVIOUS
  <2>2. t = <<>> <=> Len(t) = 0
    BY <2>1
  <2> HIDE DEF l, t
  <2>3. QED BY <2>1, <2>2
<1>2. \A i \in 1 .. l : Follower(q[i]) \in {AnyPc, IF i = l THEN n ELSE q[i + 1].pc}
  BY DEF Chained
<1> HIDE DEF l, t
<1>3. Chained(t, n)
  <2> SUFFICES ASSUME NEW i \in 1 .. Len(t)
               PROVE  Follower(t[i]) \in {AnyPc, IF i = Len(t) THEN n ELSE t[i + 1].pc}
    BY DEF Chained
  <2>1. i + 1 \in 1 .. l /\ t[i] = q[i + 1]
    BY <1>1
  <2>2. CASE i = Len(t)
    <3>1. i + 1 = l
      BY <1>1, <2>2
    <3>2. QED BY <1>2, <2>1, <2>2, <3>1
  <2>3. CASE i # Len(t)
    <3>1. i + 1 # l /\ i + 1 \in 1 .. l - 1
      BY <1>1, <2>3
    <3>2. t[i + 1] = q[(i + 1) + 1]
      BY <1>1, <3>1
    <3>3. QED BY <1>2, <2>1, <2>3, <3>1, <3>2
  <2>4. QED BY <2>2, <2>3
<1>4. Follower(q[1]) \in {AnyPc, FirstPc(t, n)}
  <2>1. 1 \in 1 .. l
    BY <1>1
  <2>2. CASE l = 1
    BY <1>1, <1>2, <2>1, <2>2 DEF FirstPc
  <2>3. CASE l # 1
    <3>1. 1 \in 1 .. l - 1 /\ 1 + 1 = 2
      BY <1>1, <2>3
    <3>2. t[1] = q[2]
      BY <1>1, <3>1
    <3>3. QED BY <1>1, <1>2, <2>1, <2>3, <3>1, <3>2 DEF FirstPc
  <2>4. QED BY <2>2, <2>3
<1>5. QED BY <1>1, <1>3, <1>4 DEF t
-----------------------------------------------------------------------------
(* What Fetch2's operators do to what is being fetched.                    *)

(* The same requests are out, for the same words.                          *)
SameOut(f, g) ==
  \A q \in Request : /\ Allocated(g, q) <=> Allocated(f, q)
                     /\ g.req[q].stream = f.req[q].stream
                     /\ g.req[q].pc = f.req[q].pc

(* A request whose state or fault is written stays out for its word.       *)
LEMMA WritingKeepsOut ==
  ASSUME NEW f, f.req \in [Request -> FetchRequest], NEW p \in Request,
         Allocated(f, p), NEW r, r.state # "NotIssued",
         r.stream = f.req[p].stream, r.pc = f.req[p].pc,
         NEW g, g.req = [f.req EXCEPT ![p] = r]
  PROVE  SameOut(f, g)
<1>1. g.req[p] = r /\ \A q \in Request \ {p} : g.req[q] = f.req[q]
  OBVIOUS
<1>2. QED BY <1>1 DEF SameOut, Allocated

(* Moving the front request to transfers keeps it out.                     *)
LEMMA MoveKeepsOut ==
  ASSUME NEW f, F2OK(f), NEW p, ReadyToSend(f, p), NEW st, NEW ic,
         st # "NotIssued"
  PROVE  SameOut(f, Moved(f, p, st, ic))
<1>1. /\ f \in Fetch2State /\ f.req \in [Request -> FetchRequest]
      /\ p \in Request /\ Allocated(f, p)
  BY TailIds DEF F2OK, Fetch2State, RequestsKept, ReadyToSend, Allocated
<1>2. Moved(f, p, st, ic).req
        = [f.req EXCEPT ![p] = [f.req[p] EXCEPT !.state = st]]
  BY <1>1 DEF Moved, Fetch2State
<1> DEFINE r == [f.req[p] EXCEPT !.state = st]  g == Moved(f, p, st, ic)
<1>3. r.state = st /\ r.stream = f.req[p].stream /\ r.pc = f.req[p].pc
  BY <1>1 DEF FetchRequest
<1>4. g.req = [f.req EXCEPT ![p] = r]
  BY <1>2
<1> HIDE DEF r, g
<1>5. SameOut(f, g)
  BY <1>1, <1>3, <1>4, WritingKeepsOut
<1>6. QED BY <1>5 DEF g

(* So does sending it, ...                                                 *)
LEMMA TryToSendKeepsOut ==
  ASSUME NEW f, F2OK(f), NEW p, ReadyToSend(f, p), NEW accept \in BOOLEAN
  PROVE  SameOut(f, TryToSend(f, p, accept))
<1>1. CASE accept
  <2>1. TryToSend(f, p, accept) = Moved(f, p, "RequestIssuing", f.icache \cup {p})
    <3>1. f \in Fetch2State /\ p = Head(f.requests)
      BY DEF F2OK, ReadyToSend
    <3>2. QED
      BY <1>1, <3>1
         DEF TryToSend, MoveFromRequestsToTransfers, Moved, Fetch2State
  <2>2. QED BY <2>1, MoveKeepsOut
<1>2. CASE ~accept
  <2>1. TryToSend(f, p, accept)
          = [f EXCEPT !.icacheState = "IcacheNeedsRetry", !.owesRetry = TRUE]
    BY <1>2 DEF TryToSend
  <2>2. TryToSend(f, p, accept).req = f.req
    BY <2>1 DEF F2OK, Fetch2State
  <2>3. QED BY <2>2 DEF SameOut, Allocated
<1>3. QED BY <1>1, <1>2

(* ... or passing it on, ...                                               *)
LEMMA TryToSendToTransfersKeepsOut ==
  ASSUME NEW f, F2OK(f), NEW input, NEW p, p \in Ids(f.requests),
         p = Head(f.requests) => f.icacheState = "IcacheRunning",
         NEW accept \in BOOLEAN
  PROVE  SameOut(f, TryToSendToTransfers(f, input, p, accept))
<1> DEFINE t == TryToSendToTransfers(f, input, p, accept)
<1>1. CASE Head(f.requests) # p \/ f.req[p].state = "InTranslation"
  BY <1>1 DEF TryToSendToTransfers, SameOut
<1>2. CASE ~(Head(f.requests) # p \/ f.req[p].state = "InTranslation")
  <2>1. ReadyToSend(f, p)
    <3>1. f.requests # <<>>
      BY DEF Ids
    <3>2. f.req[p].state \in {"InTranslation", "Translated"}
      BY DEF F2OK, RequestsKept, InState
    <3>3. QED BY <1>2, <3>1, <3>2 DEF ReadyToSend
  <2>2. CASE IsDiscardable(f, input, p) \/ f.req[p].fault
    <3>1. t = Moved(f, p, "Complete", f.icache)
      <4>1. f \in Fetch2State /\ p = Head(f.requests)
        BY <1>2 DEF F2OK
      <4>2. QED
        BY <1>2, <2>2, <4>1 DEF TryToSendToTransfers,
           MoveFromRequestsToTransfers, Moved, Fetch2State
    <3>2. QED BY <2>1, <3>1, MoveKeepsOut
  <2>3. CASE ~(IsDiscardable(f, input, p) \/ f.req[p].fault)
    <3>1. t = TryToSend(f, p, accept)
      BY <1>2, <2>3 DEF TryToSendToTransfers
    <3>2. QED BY <2>1, <3>1, TryToSendKeepsOut
  <2>4. QED BY <2>2, <2>3
<1>3. QED BY <1>1, <1>2

(* ... or the answer of the ITLB, ...                                      *)
LEMMA FinishKeepsOut ==
  ASSUME NEW f, F2OK(f), NEW input, NEW p \in f.itlb, NEW fault \in Fault,
         NEW accept \in BOOLEAN
  PROVE  SameOut(f, Finish(f, input, p, fault, accept))
<1> DEFINE g == Translate(f, p, fault)
<1>1. /\ f \in Fetch2State /\ f.req \in [Request -> FetchRequest]
      /\ p \in Request /\ Allocated(f, p)
  BY DEF F2OK, Fetch2State, RequestsKept, InState, Allocated
<1> DEFINE r == [f.req[p] EXCEPT !.state = "Translated", !.fault = fault]
<1>2. /\ g.req = [f.req EXCEPT ![p] = r]
      /\ r.state = "Translated" /\ r.stream = f.req[p].stream
      /\ r.pc = f.req[p].pc
  BY <1>1 DEF Translate, Fetch2State, FetchRequest
<1>3. /\ F2OK(g) /\ p \in Ids(g.requests)
      /\ p = Head(g.requests) => g.icacheState = "IcacheRunning"
  BY TranslateKeeps
<1>4. Finish(f, input, p, fault, accept) = TryToSendToTransfers(g, input, p, accept)
  BY DEF Finish, Translate
<1> HIDE DEF g, r
<1>5. SameOut(f, g)
  BY <1>1, <1>2, WritingKeepsOut
<1>6. SameOut(g, TryToSendToTransfers(g, input, p, accept))
  BY <1>3, TryToSendToTransfersKeepsOut
<1>7. QED BY <1>4, <1>5, <1>6 DEF SameOut

(* ... or stepping the queues.                                             *)
LEMMA StepQueuesKeepsOut ==
  ASSUME NEW f, F2OK(f), NEW input, NEW accept \in BOOLEAN
  PROVE  SameOut(f, StepQueues(f, input, accept))
<1>1. CASE f.icacheState = "IcacheRunning" /\ f.requests # <<>>
  <2>1. StepQueues(f, input, accept)
          = TryToSendToTransfers(f, input, Head(f.requests), accept)
    BY <1>1 DEF StepQueues
  <2>2. Head(f.requests) \in Ids(f.requests)
    BY <1>1, TailIds DEF F2OK, Fetch2State, RequestsKept
  <2>3. QED BY <1>1, <2>1, <2>2, TryToSendToTransfersKeepsOut
<1>2. CASE ~(f.icacheState = "IcacheRunning" /\ f.requests # <<>>)
  BY <1>2 DEF StepQueues, SameOut
<1>3. QED BY <1>1, <1>2

(* The answer of the instruction cache keeps a request out until it is     *)
(* looked at; a retry sends the same one again.                            *)
LEMMA CacheKeepsOut ==
  ASSUME NEW f, F2OK(f)
  PROVE  /\ \A p \in f.icache : SameOut(f, Completed(f, p))
         /\ f.owesRetry =>
              LET g == [f EXCEPT !.icacheState = "IcacheRunning",
                                 !.owesRetry = FALSE]
              IN  \A accept \in BOOLEAN :
                    SameOut(f, TryToSend(g, Head(f.requests), accept))
<1>0. f \in Fetch2State /\ f.req \in [Request -> FetchRequest]
  BY DEF F2OK, Fetch2State
<1>1. ASSUME NEW p \in f.icache PROVE SameOut(f, Completed(f, p))
  <2>1. p \in Request /\ Allocated(f, p)
    BY <1>0 DEF F2OK, Fetch2State, RequestsKept, InState, Allocated
  <2> DEFINE g == Completed(f, p)  r == [f.req[p] EXCEPT !.state = "Complete"]
  <2>2. /\ g.req = [f.req EXCEPT ![p] = r]
        /\ r.state = "Complete" /\ r.stream = f.req[p].stream
        /\ r.pc = f.req[p].pc
    BY <1>0, <2>1 DEF Completed, Fetch2State, FetchRequest
  <2> HIDE DEF g, r
  <2>3. SameOut(f, g)
    BY <1>0, <2>1, <2>2, WritingKeepsOut
  <2>4. QED BY <2>3 DEF g
<1>2. ASSUME f.owesRetry, NEW accept \in BOOLEAN
      PROVE  LET g == [f EXCEPT !.icacheState = "IcacheRunning", !.owesRetry = FALSE]
             IN  SameOut(f, TryToSend(g, Head(f.requests), accept))
  <2> DEFINE g == [f EXCEPT !.icacheState = "IcacheRunning", !.owesRetry = FALSE]
             p == Head(f.requests)
  <2>1. f.requests # <<>> /\ f.req[p].state = "Translated"
    BY <1>2 DEF F2OK, RetryKept
  <2>2. /\ g \in Fetch2State
        /\ g.req = f.req /\ g.requests = f.requests /\ g.transfers = f.transfers
        /\ g.itlb = f.itlb /\ g.icache = f.icache
        /\ g.owesRetry = FALSE /\ g.icacheState = "IcacheRunning"
    BY <1>0 DEF Fetch2State
  <2>3. p = Head(g.requests)
    BY <2>2
  <2> HIDE DEF g, p
  <2>4. RequestsKept(g)
    BY <2>2 DEF F2OK, RequestsKept, InState
  <2>5. F2OK(g) /\ ReadyToSend(g, p) /\ SameOut(f, g)
    BY <2>1, <2>2, <2>3, <2>4 DEF F2OK, RetryKept, ReadyToSend, SameOut, Allocated
  <2>6. SameOut(g, TryToSend(g, p, accept))
    BY <2>5, TryToSendKeepsOut
  <2>7. QED BY <2>5, <2>6 DEF SameOut, g, p
<1>3. QED BY <1>1, <1>2

(* fetchLine() puts one more request out, for the word of the thread.      *)
LEMMA FetchLineOut ==
  ASSUME NEW f, F2OK(f), f.thread # Bubble, InFlight(f) < FetchLimit,
         NEW input, NEW immediate \in BOOLEAN, NEW fault \in Fault,
         NEW accept \in BOOLEAN
  PROVE  LET g == FetchLine(f, input, immediate, fault, accept)
         IN  \E p \in Request :
               /\ ~Allocated(f, p) /\ Allocated(g, p)
               /\ g.req[p].stream = f.thread[1].stream
               /\ g.req[p].pc = f.thread[1].pc
               /\ \A q \in Request \ {p} :
                    /\ Allocated(g, q) <=> Allocated(f, q)
                    /\ g.req[q].stream = f.req[q].stream
                    /\ g.req[q].pc = f.req[q].pc
<1> DEFINE p == CHOOSE q \in Request : ~Allocated(f, q)
           g == Started(f, p)
           h == FetchLine(f, input, immediate, fault, accept)
           r == [state |-> "InTranslation", stream |-> f.thread[1].stream,
                 pc |-> f.thread[1].pc, fault |-> FALSE]
<1>1. p \in Request /\ ~Allocated(f, p)
  BY FreeRequest
<1>2. h = IF immediate THEN Finish(g, input, p, fault, accept) ELSE g
  BY DEF FetchLine, Started
<1> HIDE DEF p, h
<1>3. F2OK(g) /\ p \in g.itlb
  BY <1>1, StartedKeeps
<1>4. g.req = [f.req EXCEPT ![p] = r]
  BY DEF Started, F2OK, Fetch2State
<1>5. /\ r.state = "InTranslation" /\ r.stream = f.thread[1].stream
      /\ r.pc = f.thread[1].pc
  OBVIOUS
<1>6. f.req \in [Request -> FetchRequest]
  BY DEF F2OK, Fetch2State
<1> HIDE DEF g, r
<1>7. g.req[p] = r /\ \A q \in Request \ {p} : g.req[q] = f.req[q]
  BY <1>1, <1>4, <1>6
<1>8. SameOut(g, h)
  <2>1. CASE immediate
    BY <1>2, <1>3, <2>1, FinishKeepsOut
  <2>2. CASE ~immediate
    BY <1>2, <2>2 DEF SameOut
  <2>3. QED BY <2>1, <2>2
<1>9. /\ Allocated(h, p) /\ h.req[p].stream = f.thread[1].stream
      /\ h.req[p].pc = f.thread[1].pc
  BY <1>1, <1>5, <1>7, <1>8 DEF SameOut, Allocated
<1>10. \A q \in Request \ {p} :
         /\ Allocated(h, q) <=> Allocated(f, q)
         /\ h.req[q].stream = f.req[q].stream
         /\ h.req[q].pc = f.req[q].pc
  BY <1>7, <1>8 DEF SameOut, Allocated
<1>11. QED BY <1>1, <1>9, <1>10 DEF h

(* popAndDiscard() takes the front transfer away, and no other.            *)
LEMMA PopTransfersOut ==
  ASSUME NEW f, F2OK(f), ResponseReady(f)
  PROVE  LET g == PopTransfers(f)
             p == Head(f.transfers)
         IN  /\ p \in Request /\ Allocated(f, p) /\ ~Allocated(g, p)
             /\ g.thread = f.thread /\ g.fetchState = f.fetchState
             /\ g.streamSeqNum = f.streamSeqNum
             /\ \A q \in Request \ {p} : g.req[q] = f.req[q]
<1> DEFINE g == PopTransfers(f)  p == Head(f.transfers)
<1>1. /\ f \in Fetch2State /\ f.req \in [Request -> FetchRequest]
      /\ p \in Request /\ f.req[p].state = "Complete"
  BY TailIds DEF F2OK, Fetch2State, RequestsKept, ResponseReady
<1>2. /\ g.req = [f.req EXCEPT ![p] = NoRequest]
      /\ g.thread = f.thread /\ g.fetchState = f.fetchState
      /\ g.streamSeqNum = f.streamSeqNum
  BY <1>1 DEF PopTransfers, Fetch2State
<1>3. NoRequest.state = "NotIssued"
  BY DEF NoRequest
<1> HIDE DEF g, p
<1>4. g.req[p] = NoRequest /\ \A q \in Request \ {p} : g.req[q] = f.req[q]
  BY <1>1, <1>2
<1>5. QED BY <1>1, <1>2, <1>3, <1>4 DEF Allocated, g, p
-----------------------------------------------------------------------------
(* Addresses.                                                              *)

(* What a remainder is within one turn of the address space.               *)
LEMMA Remainder ==
  ASSUME NEW a \in Nat, NEW m \in Nat \ {0}, a < 2 * m
  PROVE  (a < m => a % m = a) /\ (a >= m => a % m = a - m)
<1>1. PICK r \in Int : r = a % m
  OBVIOUS
<1>2. PICK d \in Int : d = a \div m
  OBVIOUS
<1>3. a = m * d + r /\ 0 <= r /\ r < m
  BY <1>1, <1>2
<1>4. CASE a < m
  BY <1>4, SMTT(30)
<1>5. CASE ~(a < m)
  BY <1>5, SMTT(30)
<1>6. QED BY <1>4, <1>5

(* Steps of up to a word, and where they wrap.                             *)
LEMMA AfterIs ==
  ASSUME NEW pc \in Addr, NEW n \in 0 .. 2
  PROVE  After(pc, n) = IF pc + n < 2 * NumWords THEN pc + n
                        ELSE (pc + n) - 2 * NumWords
<1> DEFINE m == 2 * NumWords  a == pc + n
<1>1. m \in Nat \ {0} /\ a \in Nat /\ a < 2 * m
  BY FrontEndAssumption DEF Addr
<1> HIDE DEF m, a
<1>2. (a < m => a % m = a) /\ (a >= m => a % m = a - m)
  BY <1>1, Remainder
<1>3. a < m \/ a >= m
  BY <1>1
<1>4. After(pc, n) = a % m
  BY DEF After, a, m
<1>5. After(pc, n) = IF a < m THEN a ELSE a - m
  <2>1. CASE a < m
    <3>1. After(pc, n) = a
      BY <1>2, <1>4, <2>1
    <3>2. QED BY <2>1, <3>1
  <2>2. CASE ~(a < m)
    <3>1. a >= m
      BY <1>3, <2>2
    <3>2. After(pc, n) = a - m
      BY <1>2, <1>4, <3>1
    <3>3. QED BY <2>2, <3>2
  <2>3. QED BY <2>1, <2>2
<1>6. QED BY <1>5 DEF m, a

(* The parcels of a word, and the word after it: only the word a pc is in  *)
(* decides which word comes next.                                          *)
LEMMA WordSteps ==
  ASSUME NEW pc \in Addr
  PROVE  /\ Base(pc) = IF pc % 2 = 0 THEN pc ELSE pc - 1
         /\ After(pc, 0) = pc
         /\ After(pc, 1) \in Addr /\ After(pc, 2) \in Addr
         /\ pc % 2 = 0 =>
              /\ After(pc, 1) = pc + 1 /\ Base(After(pc, 1)) = Base(pc)
              /\ Base(After(pc, 2)) = After(Base(pc), 2)
         /\ pc % 2 = 1 =>
              /\ After(pc, 1) % 2 = 0 /\ After(After(pc, 1), 1) = After(pc, 2)
              /\ Base(After(pc, 1)) = After(Base(pc), 2)
              /\ Base(After(pc, 2)) = After(pc, 1)
<1> DEFINE m == 2 * NumWords
<1>1. pc \in Nat /\ pc < m /\ m % 2 = 0 /\ m \in Nat /\ m >= 2
  BY FrontEndAssumption DEF Addr
<1>2. pc % 2 \in {0, 1}
  BY <1>1
<1>3. Base(pc) = IF pc % 2 = 0 THEN pc ELSE pc - 1
  BY <1>1, <1>2 DEF Base
<1>4. \A x \in Addr, n \in 0 .. 2 :
        After(x, n) = IF x + n < m THEN x + n ELSE (x + n) - m
  BY AfterIs
<1>5. \A x : x \in Addr <=> x \in Nat /\ x < m
  BY <1>1 DEF Addr
<1> HIDE DEF m
<1>6. /\ After(pc, 0) = pc /\ After(pc, 1) \in Addr /\ After(pc, 2) \in Addr
  <2>1. 0 \in 0 .. 2 /\ 1 \in 0 .. 2 /\ 2 \in 0 .. 2
    OBVIOUS
  <2>2. /\ After(pc, 0) = IF pc + 0 < m THEN pc + 0 ELSE (pc + 0) - m
        /\ After(pc, 1) = IF pc + 1 < m THEN pc + 1 ELSE (pc + 1) - m
        /\ After(pc, 2) = IF pc + 2 < m THEN pc + 2 ELSE (pc + 2) - m
    BY <1>4, <2>1
  <2>3. QED BY <1>1, <1>5, <2>2
<1>7. ASSUME pc % 2 = 0
      PROVE  /\ After(pc, 1) = pc + 1 /\ Base(After(pc, 1)) = Base(pc)
             /\ Base(After(pc, 2)) = After(Base(pc), 2)
  <2>1. pc + 1 < m
    BY <1>1, <1>7
  <2>2. After(pc, 1) = pc + 1
    BY <1>4, <2>1
  <2>3. Base(pc + 1) = pc /\ Base(pc) = pc
    BY <1>1, <1>3, <1>7 DEF Base
  <2>4. Base(After(pc, 2)) = After(pc, 2)
    <3>1. After(pc, 2) = IF pc + 2 < m THEN pc + 2 ELSE (pc + 2) - m
      BY <1>4
    <3>2. After(pc, 2) \in Nat /\ After(pc, 2) % 2 = 0
      BY <1>1, <1>7, <3>1
    <3>3. QED BY <3>2 DEF Base
  <2>5. QED BY <2>2, <2>3, <2>4
<1>8. ASSUME pc % 2 = 1
      PROVE  /\ After(pc, 1) % 2 = 0 /\ After(After(pc, 1), 1) = After(pc, 2)
             /\ Base(After(pc, 1)) = After(Base(pc), 2)
             /\ Base(After(pc, 2)) = After(pc, 1)
  <2>1. Base(pc) = pc - 1 /\ pc - 1 \in Addr
    BY <1>1, <1>3, <1>5, <1>8
  <2>2. /\ After(pc, 1) = IF pc + 1 < m THEN pc + 1 ELSE (pc + 1) - m
        /\ After(pc, 2) = IF pc + 2 < m THEN pc + 2 ELSE (pc + 2) - m
        /\ After(pc - 1, 2) = IF (pc - 1) + 2 < m THEN (pc - 1) + 2
                              ELSE ((pc - 1) + 2) - m
    BY <1>4, <2>1
  <2>3. After(pc, 1) \in Nat /\ After(pc, 1) % 2 = 0 /\ After(pc, 1) + 1 < m
    BY <1>1, <1>8, <2>2
  <2>4. After(pc, 2) = After(pc, 1) + 1 /\ After(pc - 1, 2) = After(pc, 1)
    BY <1>1, <1>8, <2>2
  <2>5. After(After(pc, 1), 1) = After(pc, 1) + 1
    <3>1. After(pc, 1) \in Addr
      BY <1>6
    <3> DEFINE x == After(pc, 1)
    <3> HIDE DEF x
    <3>2. After(x, 1) = IF x + 1 < m THEN x + 1 ELSE (x + 1) - m
      BY <1>4, <3>1 DEF x
    <3>3. QED BY <2>3, <3>2 DEF x
  <2> DEFINE x == After(pc, 1)
  <2>6. Base(x) = x /\ Base(x + 1) = x
    <3>1. x \in Nat /\ x % 2 = 0
      BY <2>3
    <3> HIDE DEF x
    <3>2. QED BY <3>1 DEF Base
  <2>7. QED BY <2>1, <2>3, <2>4, <2>5, <2>6
<1>9. QED BY <1>3, <1>6, <1>7, <1>8

(* Which word follows does not depend on which of its parcels is asked.    *)
LEMMA NextWord ==
  ASSUME NEW x \in Addr, NEW y \in Addr, Base(x) = Base(y)
  PROVE  /\ Base(NextPc(x)) = Base(After(y, 2))
         /\ y % 2 = 1 => Base(NextPc(x)) = Base(After(y, 1))
<1>1. \A z \in Addr : Base(After(z, 2)) = After(Base(z), 2)
  <2> SUFFICES ASSUME NEW z \in Addr PROVE Base(After(z, 2)) = After(Base(z), 2)
    OBVIOUS
  <2>1. CASE z % 2 = 0
    BY <2>1, WordSteps
  <2>2. CASE z % 2 # 0
    <3>1. z % 2 = 1
      BY <2>2 DEF Addr
    <3>2. Base(After(z, 2)) = After(z, 1) /\ Base(After(z, 1)) = After(Base(z), 2)
          /\ After(z, 1) % 2 = 0 /\ After(z, 1) \in Addr
      BY <3>1, WordSteps
    <3>3. Base(After(z, 1)) = After(z, 1)
      BY <3>2, WordSteps
    <3>4. QED BY <3>2, <3>3
  <2>3. QED BY <2>1, <2>2
<1>2. y % 2 = 1 => Base(After(y, 1)) = After(Base(y), 2)
  BY WordSteps
<1>3. QED BY <1>1, <1>2 DEF NextPc
-----------------------------------------------------------------------------
(* The decoder.                                                            *)

(* moreBytes() on the word of the parcel it needs: the instruction at the  *)
(* pc, or the half of it this word has; and whether the parcel it needs    *)
(* next is in the same word or in the one after it.                        *)
LEMMA MoreBytesAt ==
  ASSUME NEW d \in DecodeState, HalfOf(d), NEW word \in Addr,
         Base(word) = Base(Needed(d))
  PROVE  LET m == MoreBytes(d.pc, d.mid, Base(word))
             pc == After(d.pc, Len(m.bytes))
             needed == IF m.mid = Bubble THEN pc ELSE After(pc, 1)
         IN  /\ m.bytes = <<>> =>
                  pc = d.pc /\ m.mid = <<pc>> /\ pc % 2 = 1 /\ pc \notin Compressed
             /\ m.bytes # <<>> =>
                  /\ m.bytes = [k \in 1 .. Length(d.pc) |-> After(d.pc, k - 1)]
                  /\ m.mid = Bubble
             /\ Base(needed) = IF m.outOfBytes THEN Base(NextPc(word))
                               ELSE Base(word)
<1> DEFINE p == d.pc
<1>1. p \in Addr /\ p \in Nat
  BY DEF DecodeState, Addr
<1>2. p % 2 \in {0, 1}
  BY <1>1
<1>3. /\ After(p, 0) = p /\ Base(p) = IF p % 2 = 0 THEN p ELSE p - 1
      /\ p % 2 = 0 => After(p, 1) = p + 1 /\ Base(After(p, 1)) = Base(p)
      /\ p % 2 = 1 => /\ After(p, 1) \in Addr /\ After(p, 1) % 2 = 0
                      /\ Base(After(p, 2)) = After(p, 1)
  BY <1>1, WordSteps
<1> DEFINE m == MoreBytes(p, d.mid, Base(word))
           pc == After(p, Len(m.bytes))
           needed == IF m.mid = Bubble THEN pc ELSE After(pc, 1)
<1>4. Len(<<>>) = 0 /\ (\A x, y : Len(<<x>>) = 1 /\ Len(<<x, y>>) = 2
                                  /\ <<x>> # <<>> /\ <<x, y>> # <<>>)
  OBVIOUS
<1>5. /\ p \in Compressed => <<p>> = [k \in 1 .. Length(p) |-> After(p, k - 1)]
      /\ p \notin Compressed =>
           <<p, After(p, 1)>> = [k \in 1 .. Length(p) |-> After(p, k - 1)]
  <2> DEFINE b == [k \in 1 .. Length(p) |-> After(p, k - 1)]
  <2>1. CASE p \in Compressed
    <3>1. b = [k \in 1 .. 1 |-> After(p, k - 1)]
      BY <2>1 DEF Length
    <3>2. \A k \in 1 .. 1 : After(p, k - 1) = p
      BY <1>3
    <3>3. b = <<p>>
      BY <3>1, <3>2
    <3>4. QED BY <2>1, <3>3
  <2>2. CASE p \notin Compressed
    <3>1. b = [k \in 1 .. 2 |-> After(p, k - 1)]
      BY <2>2 DEF Length
    <3>2. After(p, 1 - 1) = p /\ After(p, 2 - 1) = After(p, 1)
      BY <1>3
    <3>3. b = <<p, After(p, 1)>>
      BY <3>1, <3>2
    <3>4. QED BY <2>2, <3>3
  <2>3. QED BY <2>1, <2>2
<1>6. CASE p % 2 = 0
  <2>1. d.mid = Bubble /\ Base(word) = p
    BY <1>3, <1>6 DEF HalfOf, Needed
  <2>2. CASE p \in Compressed
    <3>1. m.bytes = <<p>> /\ m.mid = Bubble /\ ~m.outOfBytes
      BY <1>6, <2>1, <2>2 DEF MoreBytes
    <3>2. needed = After(p, 1)
      BY <1>4, <3>1
    <3>3. Base(needed) = Base(word)
      BY <1>3, <1>6, <2>1, <3>2
    <3> HIDE DEF m, pc, needed
    <3>4. QED BY <1>4, <1>5, <2>2, <3>1, <3>3 DEF m, pc, needed
  <2>3. CASE p \notin Compressed
    <3>1. m.bytes = <<p, After(p, 1)>> /\ m.mid = Bubble /\ m.outOfBytes
      BY <1>3, <1>6, <2>1, <2>3 DEF MoreBytes
    <3>2. needed = After(p, 2)
      BY <1>4, <3>1
    <3>3. Base(word) = Base(p)
      BY <1>3, <1>6, <2>1
    <3>4. Base(needed) = Base(NextPc(word))
      BY <1>1, <3>2, <3>3, NextWord
    <3> HIDE DEF m, pc, needed
    <3>5. QED BY <1>4, <1>5, <2>3, <3>1, <3>4 DEF m, pc, needed
  <2>4. QED BY <2>2, <2>3
<1>7. CASE p % 2 = 1 /\ d.mid # Bubble
  <2>1. d.mid[1] = p /\ p \notin Compressed
    BY <1>7 DEF HalfOf
  <2>2. Base(word) = After(p, 1)
    <3>1. Base(word) = Base(After(p, 1))
      BY <1>7 DEF Needed
    <3> DEFINE x == After(p, 1)
    <3>2. x \in Addr /\ x % 2 = 0
      BY <1>3, <1>7
    <3> HIDE DEF x
    <3>3. Base(x) = x
      BY <3>2, WordSteps
    <3>4. QED BY <3>1, <3>3 DEF x
  <2>3. m.bytes = <<p, After(p, 1)>> /\ m.mid = Bubble /\ ~m.outOfBytes
    BY <1>2, <1>7, <2>1, <2>2 DEF MoreBytes
  <2>4. needed = After(p, 2)
    BY <1>4, <2>3
  <2>5. Base(needed) = Base(word)
    BY <1>3, <1>7, <2>2, <2>4
  <2> HIDE DEF m, pc, needed
  <2>6. QED BY <1>4, <1>5, <2>1, <2>3, <2>5 DEF m, pc, needed
<1>8. CASE p % 2 = 1 /\ d.mid = Bubble
  <2>1. Base(word) = p - 1 /\ (p - 1) + 1 = p /\ Base(word) = Base(p)
    BY <1>1, <1>3, <1>8 DEF Needed
  <2>2. CASE p \in Compressed
    <3>1. m.bytes = <<p>> /\ m.mid = Bubble /\ m.outOfBytes
      BY <1>8, <2>1, <2>2 DEF MoreBytes
    <3>2. needed = After(p, 1)
      BY <1>4, <3>1
    <3>3. Base(needed) = Base(NextPc(word))
      BY <1>1, <1>8, <2>1, <3>2, NextWord
    <3> HIDE DEF m, pc, needed
    <3>4. QED BY <1>4, <1>5, <2>2, <3>1, <3>3 DEF m, pc, needed
  <2>3. CASE p \notin Compressed
    <3>1. m.bytes = <<>> /\ m.mid = <<p>> /\ m.outOfBytes
      BY <1>8, <2>1, <2>3 DEF MoreBytes
    <3>2. pc = p /\ needed = After(p, 1)
      BY <1>3, <1>4, <3>1 DEF Bubble
    <3>3. Base(needed) = Base(NextPc(word))
      BY <1>1, <1>8, <2>1, <3>2, NextWord
    <3> HIDE DEF m, pc, needed
    <3>4. QED BY <1>8, <2>3, <3>1, <3>2, <3>3 DEF m, pc, needed
  <2>4. QED BY <2>2, <2>3
<1>9. QED BY <1>2, <1>6, <1>7, <1>8

(* Decode and the lines in front of it, the word after them being n.       *)
OnItsWay(d, q, n) ==
  /\ d \in DecodeState /\ d.lastStreamSeqNum <= Now /\ HalfOf(d)
  /\ q \in Seq(LinesOf(Now)) /\ Linked(q, n)
  /\ Begun(d) => Base(FirstPc(q, n)) = Base(Needed(d))

(* One turn of the loop gives the instruction at the pc, or none, and      *)
(* leaves Decode on its way from where that instruction ends.              *)
LEMMA DecodeTurn ==
  ASSUME NEW d, NEW c, NEW n, Buffer(c, LinesOf(Now)), Now \in Stream,
         OnItsWay(d, Entries(c), n), ~IsEmpty(c)
  PROVE  LET t == DecodeLine(d, c)
             pc == PcOf(d, FirstPc(Entries(c), n))
             next == PcOf(t.decode, FirstPc(Entries(t.input), n))
         IN  /\ Buffer(t.input, LinesOf(Now))
             /\ OnItsWay(t.decode, Entries(t.input), n)
             /\ t.inst \in Wire(InstsOf(Now))
             /\ t.inst = Bubble => next = pc
             /\ t.inst # Bubble => /\ t.inst[1].pc = pc
                                   /\ Follower(t.inst[1]) \in {AnyPc, next}
<1> DEFINE line == Front(c)  e == StartStream(d, line)  q == Entries(c)
           t == DecodeLine(d, c)
<1>1. /\ q \in Seq(LinesOf(Now)) /\ q # <<>> /\ line = q[1]
      /\ line \in LinesOf(Now)
  BY FrontOfEntries
<1>2. /\ line \in Line /\ line.stream = Now /\ line.addr = Base(line.pc)
      /\ line.pc \in Addr /\ line.fault \in Fault
  BY <1>1 DEF LinesOf, Line
<1>3. FirstPc(q, n) = line.pc
  BY <1>1 DEF FirstPc
<1> HIDE DEF line, q, t
<1>4. d \in DecodeState /\ d.lastStreamSeqNum <= Now /\ HalfOf(d)
      /\ (Begun(d) => Base(line.pc) = Base(Needed(d)))
  BY <1>3 DEF OnItsWay, q
<1>5. /\ e \in DecodeState /\ e.havePC /\ HalfOf(e)
      /\ e.pc = PcOf(d, line.pc) /\ Base(line.pc) = Base(Needed(e))
      /\ e.lastStreamSeqNum = d.lastStreamSeqNum
  <2>1. CASE Begun(d)
    <3>1. e = d
      BY <1>2, <2>1 DEF StartStream, Begun
    <3>2. QED BY <1>4, <2>1, <3>1 DEF PcOf, Begun
  <2>2. CASE ~Begun(d)
    <3>1. e = [d EXCEPT !.havePC = TRUE, !.pc = line.pc, !.mid = Bubble]
      BY <1>2, <2>2 DEF StartStream, Begun
    <3>2. Bubble \in Wire(Addr)
      BY DEF Wire
    <3>3. /\ e \in DecodeState /\ e.havePC = TRUE /\ e.pc = line.pc
          /\ e.mid = Bubble /\ e.lastStreamSeqNum = d.lastStreamSeqNum
      BY <1>2, <1>4, <3>1, <3>2 DEF DecodeState
    <3>4. QED BY <2>2, <3>3 DEF PcOf, HalfOf, Needed
  <2>3. QED BY <2>1, <2>2
<1> HIDE DEF e
<1>6. e.pc \in Addr /\ e.mid \in Wire(Addr)
  BY <1>5 DEF DecodeState
<1>7. Now <= Now
  BY DEF Stream
<1>8. CASE line.fault
  <2> DEFINE i == [stream |-> line.stream, pc |-> e.pc, bytes |-> <<>>,
                   fault |-> TRUE]
             g == [e EXCEPT !.havePC = FALSE, !.lastStreamSeqNum = line.stream]
  <2>1. t = Turn(g, PopAll(c), <<i>>)
    BY <1>8 DEF DecodeLine, DecodeFault, e, line, t
  <2>2. i \in InstsOf(Now)
    <3>1. <<>> \in [1 .. 0 -> Addr]
      OBVIOUS
    <3>2. <<>> \in Bytes
      BY <3>1 DEF Bytes
    <3>3. line.fault = TRUE
      BY <1>2, <1>8, FaultsAre
    <3>4. QED BY <1>2, <1>6, <3>2, <3>3 DEF InstsOf, Inst
  <2>3. i.pc = e.pc /\ Follower(i) = AnyPc
    BY DEF Follower
  <2>4. /\ g \in DecodeState /\ g.lastStreamSeqNum = Now /\ ~g.havePC
        /\ g.pc = e.pc /\ g.mid = e.mid
    BY <1>2, <1>5 DEF DecodeState
  <2> HIDE DEF i, g
  <2>5. t.decode = g /\ t.input = PopAll(c) /\ t.inst = <<i>>
    BY <2>1 DEF Turn
  <2>6. Buffer(t.input, LinesOf(Now)) /\ Entries(t.input) = <<>>
    BY <2>5, PopAllEntries
  <2>7. OnItsWay(g, <<>>, n)
    <3>1. <<>> \in Seq(LinesOf(Now))
      OBVIOUS
    <3>2. Linked(<<>>, n)
      BY OnWire
    <3>3. HalfOf(g) /\ ~Begun(g)
      BY <1>5, <2>4 DEF HalfOf, Begun
    <3>4. QED BY <1>7, <2>4, <3>1, <3>2, <3>3 DEF OnItsWay
  <2>8. t.inst \in Wire(InstsOf(Now)) /\ t.inst # Bubble /\ t.inst[1] = i
    <3>1. <<i>> # <<>> /\ <<i>>[1] = i
      OBVIOUS
    <3>2. QED BY <2>2, <2>5, <3>1 DEF Wire, Bubble
  <2>9. QED BY <1>3, <1>5, <2>3, <2>5, <2>6, <2>7, <2>8 DEF q, t
<1>9. CASE ~line.fault
  <2> DEFINE m == MoreBytes(e.pc, e.mid, Base(line.pc))
             i == [stream |-> line.stream, pc |-> e.pc, bytes |-> m.bytes,
                   fault |-> FALSE]
             pc == After(e.pc, Len(m.bytes))
             g == [e EXCEPT !.pc = pc, !.mid = m.mid,
                            !.lastStreamSeqNum = line.stream]
             rest == IF m.outOfBytes THEN PopInput(c) ELSE c
             inst == IF m.bytes = <<>> THEN Bubble ELSE <<i>>
  <2>1. t = Turn(g, rest, inst)
    BY <1>2, <1>9 DEF DecodeLine, DecodeWord, e, line, t
  <2>2. m.bytes \in Bytes /\ m.mid \in Wire(Addr)
    BY <1>2, <1>6, MoreBytesTyped
  <2>3. pc \in Addr
    <3> HIDE DEF m
    <3>1. Len(m.bytes) \in Nat
      BY <2>2, BytesLen
    <3>2. QED BY <1>6, <3>1, AfterType
  <2>4. /\ m.bytes = <<>> =>
             pc = e.pc /\ m.mid = <<pc>> /\ pc % 2 = 1 /\ pc \notin Compressed
        /\ m.bytes # <<>> =>
             /\ m.bytes = [k \in 1 .. Length(e.pc) |-> After(e.pc, k - 1)]
             /\ m.mid = Bubble
        /\ Base(IF m.mid = Bubble THEN pc ELSE After(pc, 1)) =
             IF m.outOfBytes THEN Base(NextPc(line.pc)) ELSE Base(line.pc)
    BY <1>2, <1>5, MoreBytesAt
  <2> HIDE DEF m
  <2>5. /\ g \in DecodeState /\ g.lastStreamSeqNum = Now /\ g.havePC
        /\ g.pc = pc /\ g.mid = m.mid
    <3> HIDE DEF pc
    <3>1. QED BY <1>2, <1>5, <2>2, <2>3 DEF DecodeState
  <2>6. i.pc = e.pc /\ i.bytes = m.bytes /\ ~i.fault /\ i.stream = Now
        /\ i \in Inst
    BY <1>2, <1>6, <2>2, FaultsAre DEF Inst
  <2>7. m.bytes # <<>> => i \in InstsOf(Now) /\ Follower(i) = pc
    BY <2>4, <2>6 DEF InstsOf, MadeOfItsBytes, Follower
  <2>8. HalfOf(g) /\ Begun(g)
    BY <2>4, <2>5 DEF HalfOf, Begun
  <2>9. Base(Needed(g)) = IF m.outOfBytes THEN Base(NextPc(line.pc))
                          ELSE Base(line.pc)
    BY <2>4, <2>5 DEF Needed
  <2>10. t.decode = g /\ t.input = rest /\ t.inst = inst
    BY <2>1 DEF Turn
  <2> HIDE DEF g, i, pc
  <2>11. Buffer(rest, LinesOf(Now)) /\ OnItsWay(g, Entries(rest), n)
    <3>1. q \in Seq(LinesOf(Now)) /\ Linked(q, n)
      BY <1>1 DEF OnItsWay, q
    <3>2. CASE m.outOfBytes
      <4>1. rest = PopInput(c)
        BY <3>2
      <4>2. Buffer(rest, LinesOf(Now)) /\ Entries(rest) = Tail(q)
        BY <1>1, <4>1, PopInputEntries DEF q
      <4>3. /\ Linked(Tail(q), n) /\ Tail(q) \in Seq(LinesOf(Now))
            /\ NextPc(line.pc) = FirstPc(Tail(q), n)
        BY <1>1, <3>1, LinkedTail
      <4>4. QED BY <1>7, <2>5, <2>8, <2>9, <3>2, <4>2, <4>3 DEF OnItsWay
    <3>3. CASE ~m.outOfBytes
      <4>1. rest = c /\ Entries(rest) = q
        BY <3>3 DEF q
      <4>2. QED BY <1>3, <1>7, <2>5, <2>8, <2>9, <3>1, <3>3, <4>1 DEF OnItsWay
    <3>4. QED BY <3>2, <3>3
  <2>12. PcOf(t.decode, FirstPc(Entries(t.input), n)) = pc
    BY <2>5, <2>8, <2>10 DEF PcOf
  <2>13. CASE m.bytes = <<>>
    <3>1. t.inst = Bubble /\ Bubble \in Wire(InstsOf(Now))
      BY <2>10, <2>13 DEF Wire
    <3>2. QED BY <1>3, <1>5, <2>4, <2>10, <2>11, <2>12, <2>13, <3>1 DEF q, t
  <2>14. CASE m.bytes # <<>>
    <3>1. <<i>> # <<>> /\ <<i>>[1] = i
      OBVIOUS
    <3>2. t.inst = <<i>>
      BY <2>10, <2>14
    <3>3. t.inst \in Wire(InstsOf(Now)) /\ t.inst # Bubble /\ t.inst[1] = i
      BY <2>7, <2>14, <3>1, <3>2 DEF Wire, Bubble
    <3>4. t.inst[1].pc = PcOf(d, FirstPc(q, n)) /\ Follower(t.inst[1]) = pc
      BY <1>3, <1>5, <2>6, <2>7, <2>14, <3>3
    <3>5. QED BY <2>10, <2>11, <2>12, <3>3, <3>4 DEF q, t
  <2>15. QED BY <2>13, <2>14
<1>10. QED BY <1>2, <1>8, <1>9

(* The whole loop does the same.                                           *)
LEMMA DecodeLoop ==
  ASSUME NEW c, NEW n, Buffer(c, LinesOf(Now)), Now \in Stream,
         OnItsWay(decode, Entries(c), n), ~IsEmpty(c)
  PROVE  LET t == DecodeLines(c)
             pc == PcOf(decode, FirstPc(Entries(c), n))
             next == PcOf(t.decode, FirstPc(Entries(t.input), n))
         IN  /\ Buffer(t.input, LinesOf(Now))
             /\ OnItsWay(t.decode, Entries(t.input), n)
             /\ t.inst \in Wire(InstsOf(Now))
             /\ t.inst = Bubble => next = pc
             /\ t.inst # Bubble => /\ t.inst[1].pc = pc
                                   /\ Follower(t.inst[1]) \in {AnyPc, next}
<1> DEFINE first == DecodeLine(decode, c)
           second == DecodeLine(first.decode, first.input)
           pc == PcOf(decode, FirstPc(Entries(c), n))
           mid == PcOf(first.decode, FirstPc(Entries(first.input), n))
<1>1. /\ Buffer(first.input, LinesOf(Now))
      /\ OnItsWay(first.decode, Entries(first.input), n)
      /\ first.inst \in Wire(InstsOf(Now))
      /\ first.inst = Bubble => mid = pc
      /\ first.inst # Bubble => /\ first.inst[1].pc = pc
                                /\ Follower(first.inst[1]) \in {AnyPc, mid}
  BY DecodeTurn
<1>2. CASE first.inst = Bubble /\ ~IsEmpty(first.input)
  <2>1. DecodeLines(c) = second
    BY <1>2 DEF DecodeLines
  <2> DEFINE next == PcOf(second.decode, FirstPc(Entries(second.input), n))
  <2>2. mid = pc
    BY <1>1, <1>2
  <2> HIDE DEF first, pc
  <2>3. /\ Buffer(second.input, LinesOf(Now))
        /\ OnItsWay(second.decode, Entries(second.input), n)
        /\ second.inst \in Wire(InstsOf(Now))
        /\ second.inst = Bubble => next = mid
        /\ second.inst # Bubble => /\ second.inst[1].pc = mid
                                   /\ Follower(second.inst[1]) \in {AnyPc, next}
    BY <1>1, <1>2, DecodeTurn
  <2> HIDE DEF second, mid
  <2>4. QED BY <2>1, <2>2, <2>3 DEF pc
<1>3. CASE ~(first.inst = Bubble /\ ~IsEmpty(first.input))
  <2>1. DecodeLines(c) = first
    BY <1>3 DEF DecodeLines
  <2> HIDE DEF first
  <2>2. QED BY <1>1, <2>1
<1>4. QED BY <1>2, <1>3

(* A turn takes Decode to the stream of its line, and leaves it without a  *)
(* pc only where that was a fault.                                         *)
LEMMA DecodeBegins ==
  ASSUME NEW d \in DecodeState, NEW c, Front(c) \in LinesOf(Now)
  PROVE  LET t == DecodeLine(d, c)
         IN  /\ t.decode.lastStreamSeqNum = Now
             /\ t.inst = Bubble \/ ~t.inst[1].fault => Begun(t.decode)
<1> DEFINE line == Front(c)  e == StartStream(d, line)
           t == DecodeLine(d, c)
<1>1. line.stream = Now
  BY DEF LinesOf
<1>2. /\ DOMAIN e = {"havePC", "pc", "lastStreamSeqNum", "mid"}
      /\ e.havePC = TRUE
  BY DEF StartStream, DecodeState
<1> HIDE DEF line
<1>3. CASE line.fault
  <2> DEFINE i == [stream |-> line.stream, pc |-> e.pc, bytes |-> <<>>,
                   fault |-> TRUE]
             g == [e EXCEPT !.havePC = FALSE, !.lastStreamSeqNum = line.stream]
  <2>1. t = Turn(g, PopAll(c), <<i>>)
    BY <1>3 DEF DecodeLine, DecodeFault, line
  <2>2. <<i>> # <<>> /\ <<i>>[1] = i /\ i.fault
    OBVIOUS
  <2> HIDE DEF e
  <2>3. g.lastStreamSeqNum = Now
    BY <1>1, <1>2
  <2> HIDE DEF i, g, t
  <2>4. t.decode = g /\ t.inst = <<i>>
    BY <2>1 DEF Turn
  <2>5. t.inst # Bubble /\ t.inst[1].fault
    BY <2>2, <2>4 DEF Bubble
  <2>6. QED BY <2>3, <2>4, <2>5 DEF t
<1>4. CASE ~line.fault
  <2> DEFINE m == MoreBytes(e.pc, e.mid, line.addr)
             i == [stream |-> line.stream, pc |-> e.pc, bytes |-> m.bytes,
                   fault |-> FALSE]
             pc == After(e.pc, Len(m.bytes))
             g == [e EXCEPT !.pc = pc, !.mid = m.mid,
                            !.lastStreamSeqNum = line.stream]
             rest == IF m.outOfBytes THEN PopInput(c) ELSE c
             inst == IF m.bytes = <<>> THEN Bubble ELSE <<i>>
  <2>1. t = Turn(g, rest, inst)
    BY <1>4 DEF DecodeLine, DecodeWord, line
  <2> HIDE DEF e, m, i, pc, rest, inst
  <2>2. g.lastStreamSeqNum = Now /\ g.havePC
    BY <1>1, <1>2
  <2> HIDE DEF g, t
  <2>3. t.decode = g
    BY <2>1 DEF Turn
  <2>4. t.decode.lastStreamSeqNum = Now /\ Begun(t.decode)
    BY <2>2, <2>3 DEF Begun
  <2>5. QED BY <2>4 DEF t
<1>5. QED BY <1>3, <1>4

(* So does the loop.                                                       *)
LEMMA LoopBegins ==
  ASSUME NEW c, NEW n, Buffer(c, LinesOf(Now)), Now \in Stream,
         OnItsWay(decode, Entries(c), n), ~IsEmpty(c)
  PROVE  LET t == DecodeLines(c)
         IN  /\ t.decode.lastStreamSeqNum = Now
             /\ t.inst = Bubble \/ ~t.inst[1].fault => Begun(t.decode)
<1> DEFINE first == DecodeLine(decode, c)
           second == DecodeLine(first.decode, first.input)
           Begins(t) == /\ t.decode.lastStreamSeqNum = Now
                        /\ t.inst = Bubble \/ ~t.inst[1].fault => Begun(t.decode)
<1>1. decode \in DecodeState /\ Front(c) \in LinesOf(Now)
  BY FrontOfEntries DEF OnItsWay
<1>2. Begins(first)
  BY <1>1, DecodeBegins
<1>3. /\ Buffer(first.input, LinesOf(Now))
      /\ OnItsWay(first.decode, Entries(first.input), n)
  BY DecodeTurn
<1>4. ASSUME ~IsEmpty(first.input) PROVE Begins(second)
  <2> HIDE DEF first
  <2>1. first.decode \in DecodeState
    BY <1>3 DEF OnItsWay
  <2>2. Front(first.input) \in LinesOf(Now)
    BY <1>3, <1>4, FrontOfEntries
  <2>3. QED BY <2>1, <2>2, DecodeBegins
<1>5. DecodeLines(c) = IF first.inst = Bubble /\ ~IsEmpty(first.input)
                       THEN second ELSE first
  BY DEF DecodeLines
<1> HIDE DEF first, second
<1>6. Begins(DecodeLines(c))
  BY <1>2, <1>4, <1>5
<1>7. QED BY <1>6
-----------------------------------------------------------------------------
(* The invariant, and the steps.                                           *)

StreamsKept == WrittenOnce /\ OneStream /\ Flushed /\ Redirects
WordsKept == WordsLinked /\ HalfKept /\ WordNeeded

Conveyed == StreamsKept /\ OneFetch /\ WordsKept /\ InstsChained

(* The wires of the latches.                                               *)
LEMMA Wires ==
  ASSUME IInv
  PROVE  /\ f1ToF2 \in LatchOf(Fetch) /\ f2ToD \in LatchOf(Line)
         /\ dToE \in LatchOf(Inst) /\ branch \in LatchOf(BranchData)
         /\ branch.in \in Wire(BranchData) /\ branch.out \in Wire(BranchData)
         /\ fetch2 \in Fetch2State /\ Now \in Stream /\ Now \in Nat
         /\ F2OK(fetch2)
         /\ execute \in [streamSeqNum : Stream, draining : BOOLEAN,
                         issued : BOOLEAN, expect : Addr \cup {AnyPc}]
         /\ decode \in DecodeState /\ fetch1 \in Fetch
<1>1. branch.in \in Wire(BranchData) /\ branch.out \in Wire(BranchData)
  BY ClockType DEF IInv, LatchesTyped
<1>2. Now \in Stream /\ Now \in Nat
  BY DEF IInv, FetchKept, F2OK, Fetch2State, Now, Stream, FirstStream
<1>3. QED BY <1>1, <1>2 DEF IInv, LatchesTyped, StagesTyped, FetchKept, F2OK

(* The branch on a wire has a stream and a target.                         *)
LEMMA BranchWire ==
  ASSUME NEW w \in Wire(BranchData), w # Bubble
  PROVE  w[1].stream \in Stream /\ w[1].stream \in Nat /\ w[1].target \in Addr
<1>1. PICK x \in BranchData : w = <<x>>
  BY DEF Wire
<1>2. w[1] = x
  BY <1>1
<1>3. QED BY <1>2 DEF BranchData, Stream, FirstStream

(* A latch driven while it is empty.                                       *)
LEMMA DrivenWire ==
  ASSUME NEW S, NEW T, NEW l \in LatchOf(S), NEW x \in T
  PROVE  /\ Drive(l, x).in = <<x>> /\ Drive(l, x).out = l.out
         /\ <<x>> \in Wire(T) /\ <<x>> # Bubble /\ <<x>>[1] = x
<1>1. <<x>> # <<>> /\ <<x>>[1] = x
  OBVIOUS
<1>2. QED BY <1>1 DEF Drive, LatchOf, Wire, Bubble

(* The clock edge carries the invariant over to the next cycle.            *)
LEMMA ClockConveys ==
  ASSUME IInv, Conveyed, ClockLatches
  PROVE  Conveyed'
<1>1. /\ phase = "clock" /\ phase' = "execute"
      /\ f1ToF2' = Clock(f1ToF2) /\ f2ToD' = Clock(f2ToD)
      /\ dToE' = Clock(dToE) /\ branch' = Clock(branch)
      /\ UNCHANGED <<fetch1, fetch2In, fetch2, decodeIn, decode, executeIn, execute>>
  BY DEF ClockLatches
<1>2. /\ f1ToF2'.in = Bubble /\ f1ToF2'.out = f1ToF2.in
      /\ f2ToD'.in = Bubble /\ f2ToD'.out = f2ToD.in
      /\ dToE'.in = Bubble /\ dToE'.out = dToE.in
      /\ branch'.in = Bubble /\ branch'.out = branch.in
  BY <1>1 DEF Clock
<1>3. /\ FetchDue = Bubble /\ LineDue = Bubble /\ InstDue = Bubble
      /\ FetchDue' = f1ToF2.in /\ LineDue' = f2ToD.in /\ InstDue' = dToE.in
      /\ NextFetch' = NextFetch /\ Now' = Now
  BY <1>1, <1>2 DEF FetchDue, LineDue, InstDue, Due, NextFetch, Now
<1>4. \A n : FirstPc(Bubble, n) = n
  BY DEF FirstPc, Bubble
<1>5. \A n : Linked(Bubble, n) /\ Chained(Bubble, n)
  BY OnWire DEF Bubble
<1>6. /\ WordF1' = NextFetch.pc /\ WordF1Due' = WordF1 /\ WordF1Due = WordF1
      /\ WordF2' = WordF2 /\ WordD' = WordF2
      /\ WordDDue' = WordD /\ WordDDue = WordD /\ FirstWord' = FirstWord
  BY <1>1, <1>2, <1>3, <1>4
     DEF WordF1, WordF1Due, WordF2, WordD, WordDDue, FirstWord
<1>7. /\ PcD' = PcD /\ PcDDriven' = PcD /\ PcDue' = PcDDriven
      /\ PcDue = PcDDriven /\ FirstInst' = FirstInst
  BY <1>1, <1>2, <1>3, <1>4, <1>6
     DEF PcD, PcOf, Begun, PcDDriven, PcDue, FirstInst
<1>8. StreamsKept'
  <2>1. WrittenOnce'
    BY <1>1, <1>2 DEF WrittenOnce
  <2>2. OneStream'
    <3>1. \A S : Bubble \in Wire(S)
      BY DEF Wire
    <3>2. QED BY <1>1, <1>2, <1>3, <3>1 DEF Conveyed, StreamsKept, OneStream
  <2>3. Flushed'
    BY <1>1 DEF Flushed
  <2>4. Redirects'
    BY <1>1, <1>2, <1>3 DEF Conveyed, StreamsKept, Redirects
  <2>5. QED BY <2>1, <2>2, <2>3, <2>4 DEF StreamsKept
<1>9. OneFetch'
  BY <1>1, <1>3 DEF Conveyed, OneFetch, FetchOfNow, Allocated
<1>10. WordsKept'
  <2>1. WordsLinked'
    BY <1>1, <1>2, <1>3, <1>5, <1>6 DEF Conveyed, WordsKept, WordsLinked
  <2>2. HalfKept' /\ WordNeeded'
    BY <1>1, <1>3, <1>6
       DEF Conveyed, WordsKept, HalfKept, HalfOf, WordNeeded, Begun, Needed
  <2>3. QED BY <2>1, <2>2 DEF WordsKept
<1>11. InstsChained'
  BY <1>1, <1>2, <1>3, <1>5, <1>7 DEF Conveyed, InstsChained
<1>12. QED BY <1>8, <1>9, <1>10, <1>11 DEF Conveyed

(* A callback touches neither the words nor which of them are being        *)
(* fetched.                                                                *)
LEMMA CallbackConveys ==
  ASSUME IInv, Conveyed, Callback
  PROVE  Conveyed'
<1>1. F2OK(fetch2)
  BY Wires
<1>2. /\ SameFetch(fetch2, fetch2') /\ SameOut(fetch2, fetch2')
      /\ phase = "execute"
      /\ UNCHANGED <<phase, fetch1, fetch2In, decodeIn, decode, executeIn,
                     execute, f1ToF2, f2ToD, dToE, branch>>
  <2>1. ASSUME NEW p \in Request, NEW fault \in Faults, NEW accept \in BOOLEAN,
               ItlbFinish(p, fault, accept)
        PROVE  SameFetch(fetch2, fetch2') /\ SameOut(fetch2, fetch2')
    <3>1. fault \in Fault /\ p \in fetch2.itlb
          /\ fetch2' = Finish(fetch2, fetch2In, p, fault, accept)
      BY <2>1 DEF ItlbFinish, Fault
    <3>2. QED BY <1>1, <3>1, FinishKeeps, FinishKeepsOut
  <2>2. ASSUME NEW p \in Request, RecvTimingResp(p)
        PROVE  SameFetch(fetch2, fetch2') /\ SameOut(fetch2, fetch2')
    <3>1. p \in fetch2.icache /\ fetch2' = Completed(fetch2, p)
      BY <2>2 DEF RecvTimingResp, Completed
    <3>2. QED BY <1>1, <3>1, CompletedKeeps, CacheKeepsOut
  <2>3. ASSUME NEW accept \in BOOLEAN, RecvReqRetry(accept)
        PROVE  SameFetch(fetch2, fetch2') /\ SameOut(fetch2, fetch2')
    <3>1. /\ fetch2.owesRetry
          /\ fetch2' = TryToSend([fetch2 EXCEPT !.icacheState = "IcacheRunning",
                                                !.owesRetry = FALSE],
                                 Head(fetch2.requests), accept)
      BY <2>3 DEF RecvReqRetry
    <3>2. QED BY <1>1, <3>1, RetryKeeps, CacheKeepsOut
  <2>4. /\ phase = "execute"
        /\ UNCHANGED <<phase, fetch1, fetch2In, decodeIn, decode, executeIn,
                       execute, f1ToF2, f2ToD, dToE, branch>>
    BY DEF Callback, ItlbFinish, RecvTimingResp, RecvReqRetry
  <2>5. QED BY <2>1, <2>2, <2>3, <2>4 DEF Callback
<1>3. /\ Now' = Now /\ NextFetch' = NextFetch
      /\ FetchDue' = FetchDue /\ LineDue' = LineDue /\ InstDue' = InstDue
  BY <1>2 DEF SameFetch, Now, NextFetch, FetchDue, LineDue, InstDue, Due
<1>4. /\ WordF1' = WordF1 /\ WordF1Due' = WordF1Due /\ WordF2' = WordF2
      /\ WordD' = WordD /\ WordDDue' = WordDDue /\ FirstWord' = FirstWord
  BY <1>2, <1>3 DEF WordF1, WordF1Due, WordF2, WordD, WordDDue, FirstWord
<1>5. /\ PcD' = PcD /\ PcDDriven' = PcDDriven /\ PcDue' = PcDue
      /\ FirstInst' = FirstInst
  BY <1>2, <1>3, <1>4 DEF PcD, PcOf, Begun, PcDDriven, PcDue, FirstInst
<1>6. StreamsKept'
  BY <1>2, <1>3
     DEF Conveyed, StreamsKept, WrittenOnce, OneStream, Flushed, Redirects
<1>7. OneFetch'
  <2>1. \A p \in Request : FetchOfNow(p)' <=> FetchOfNow(p)
    BY <1>2, <1>3 DEF SameOut, FetchOfNow
  <2>2. /\ fetch2'.thread = fetch2.thread
        /\ fetch2'.fetchState = fetch2.fetchState
    BY <1>2 DEF SameFetch
  <2>3. \A p \in Request : /\ Allocated(fetch2', p) <=> Allocated(fetch2, p)
                           /\ fetch2'.req[p].stream = fetch2.req[p].stream
                           /\ fetch2'.req[p].pc = fetch2.req[p].pc
    BY <1>2 DEF SameOut
  <2>4. QED BY <1>2, <1>3, <2>1, <2>2, <2>3 DEF Conveyed, OneFetch
<1>8. WordsKept'
  BY <1>2, <1>3, <1>4
     DEF Conveyed, WordsKept, WordsLinked, HalfKept, HalfOf, WordNeeded, Begun,
         Needed
<1>9. InstsChained'
  BY <1>2, <1>3, <1>5 DEF Conveyed, InstsChained
<1>10. QED BY <1>6, <1>7, <1>8, <1>9 DEF Conveyed

(* Fetch1 emits the word it promised, and promises the one after it.       *)
LEMMA Fetch1Conveys ==
  ASSUME IInv, Conveyed, Fetch1Evaluate
  PROVE  Conveyed'
<1> DEFINE thread == Redirected
<1>1. /\ phase = "fetch1" /\ phase' = "clock"
      /\ UNCHANGED <<fetch2, decodeIn, decode, executeIn, execute, f2ToD, dToE,
                     branch>>
      /\ IF CanReserve(fetch2In, Fetch2BufferSize)
         THEN /\ fetch2In' = Reserve(fetch2In)
              /\ f1ToF2' = Drive(f1ToF2, thread)
              /\ fetch1' = [thread EXCEPT !.pc = NextPc(@)]
         ELSE /\ fetch1' = thread
              /\ UNCHANGED <<fetch2In, f1ToF2>>
  BY DEF Fetch1Evaluate, Emit
<1>2. /\ thread \in FetchesOf(Now) /\ NextFetch = thread
      /\ thread.stream = Now /\ thread.pc \in Addr
      /\ thread \in [stream : Stream, pc : Addr]
  <2>1. thread \in Fetch
    <3>1. CASE branch.out # Bubble
      BY <3>1, Wires, BranchWire DEF Redirected, Fetch
    <3>2. CASE branch.out = Bubble
      BY <3>2, Wires DEF Redirected
    <3>3. QED BY <3>1, <3>2
  <2>2. NextFetch = thread
    BY <1>1 DEF NextFetch
  <2>3. NextFetch.stream = Now
    BY DEF Conveyed, StreamsKept, OneStream
  <2> HIDE DEF thread
  <2>4. QED BY <2>1, <2>2, <2>3 DEF FetchesOf, Fetch
<1> HIDE DEF thread
<1>3. /\ f1ToF2.in = Bubble /\ FetchDue = Bubble /\ FetchDue' = Bubble
      /\ Now' = Now /\ NextFetch' = fetch1'
      /\ LineDue' = LineDue /\ InstDue' = InstDue
  BY <1>1 DEF Conveyed, StreamsKept, WrittenOnce, FetchDue, LineDue, InstDue,
              Due, Now, NextFetch
<1>4. \A n : FirstPc(Bubble, n) = n /\ Linked(Bubble, n)
  BY OnWire DEF FirstPc, Bubble
<1>5. WordF1 = thread.pc /\ WordF1Due = thread.pc
  BY <1>2, <1>3, <1>4 DEF WordF1, WordF1Due
<1>6. Settled(fetch2In, FetchesOf(Now)) /\ f1ToF2 \in LatchOf(Fetch)
  BY Wires DEF Conveyed, StreamsKept, OneStream
<1>7. /\ Settled(fetch2In', FetchesOf(Now)) /\ fetch2In'.queue = fetch2In.queue
      /\ f1ToF2'.in \in Wire(FetchesOf(Now))
      /\ fetch1'.stream = Now
      /\ Linked(f1ToF2'.in, fetch1'.pc)
      /\ FirstPc(f1ToF2'.in, fetch1'.pc) = thread.pc
  <2>1. CASE CanReserve(fetch2In, Fetch2BufferSize)
    <3>1. /\ fetch2In' = Reserve(fetch2In) /\ f1ToF2' = Drive(f1ToF2, thread)
          /\ fetch1' = [thread EXCEPT !.pc = NextPc(thread.pc)]
      BY <1>1, <2>1
    <3>2. fetch1'.stream = Now /\ fetch1'.pc = NextPc(thread.pc)
      BY <1>2, <3>1
    <3>3. f1ToF2'.in = <<thread>> /\ <<thread>> \in Wire(FetchesOf(Now))
      BY <1>2, <1>6, <3>1, DrivenWire
    <3>4. /\ Linked(<<thread>>, NextPc(thread.pc))
          /\ FirstPc(<<thread>>, NextPc(thread.pc)) = thread.pc
      BY OnWire
    <3>5. QED BY <1>6, <3>1, <3>2, <3>3, <3>4, ReservationsSettled
  <2>2. CASE ~CanReserve(fetch2In, Fetch2BufferSize)
    <3>1. fetch1' = thread /\ fetch2In' = fetch2In /\ f1ToF2' = f1ToF2
      BY <1>1, <2>2
    <3>2. Bubble \in Wire(FetchesOf(Now))
      BY DEF Wire
    <3>3. QED BY <1>2, <1>3, <1>4, <1>6, <3>1, <3>2
  <2>3. QED BY <2>1, <2>2
<1>8. /\ WordF1' = WordF1 /\ WordF1Due' = WordF1Due /\ WordF2' = WordF2
      /\ WordD' = WordD /\ WordDDue' = WordDDue /\ FirstWord' = FirstWord
  <2>1. WordF1' = WordF1 /\ WordF1Due' = WordF1Due
    BY <1>3, <1>4, <1>5, <1>7 DEF WordF1, WordF1Due
  <2>2. QED BY <1>1, <1>3, <1>7, <2>1 DEF WordF2, WordD, WordDDue, FirstWord
<1>9. /\ PcD' = PcD /\ PcDDriven' = PcDDriven /\ PcDue' = PcDue
      /\ FirstInst' = FirstInst
  BY <1>1, <1>3, <1>8 DEF PcD, PcOf, Begun, PcDDriven, PcDue, FirstInst
<1>10. StreamsKept'
  <2>1. WrittenOnce'
    BY <1>1 DEF Conveyed, StreamsKept, WrittenOnce
  <2>2. OneStream'
    <3>1. Bubble \in Wire(FetchesOf(Now))
      BY DEF Wire
    <3>2. QED BY <1>1, <1>3, <1>7, <3>1 DEF Conveyed, StreamsKept, OneStream
  <2>3. Flushed'
    BY <1>1, <1>7 DEF Conveyed, StreamsKept, Flushed
  <2>4. Redirects'
    BY <1>1, <1>3 DEF Conveyed, StreamsKept, Redirects
  <2>5. QED BY <2>1, <2>2, <2>3, <2>4 DEF StreamsKept
<1>11. OneFetch'
  BY <1>1, <1>3, <1>7 DEF Conveyed, OneFetch, FetchOfNow, Allocated
<1>12. WordsKept'
  <2>1. WordsLinked'
    BY <1>1, <1>3, <1>4, <1>7, <1>8 DEF Conveyed, WordsKept, WordsLinked
  <2>2. HalfKept' /\ WordNeeded'
    BY <1>1, <1>3, <1>8
       DEF Conveyed, WordsKept, HalfKept, HalfOf, WordNeeded, Begun, Needed
  <2>3. QED BY <2>1, <2>2 DEF WordsKept
<1>13. InstsChained'
  BY <1>1, <1>3, <1>9 DEF Conveyed, InstsChained
<1>14. QED BY <1>10, <1>11, <1>12, <1>13 DEF Conveyed

(* Execute takes the next instruction of the stream, or opens a later one. *)
LEMMA ExecuteConveys ==
  ASSUME IInv, Conveyed, NEW consume \in BOOLEAN, ExecuteEvaluate(consume)
  PROVE  Conveyed'
<1> DEFINE S == InstsOf(Now)  b == SetTail(executeIn, dToE.out)
           c == ExecuteInput  E == Joined(executeIn.queue, dToE.out)
           e == [execute EXCEPT !.draining = FALSE]
           e1 == IF consume THEN Consume(e, Front(c)) ELSE e
<1>1. /\ phase = "execute" /\ phase' = "decode"
      /\ UNCHANGED <<fetch1, fetch2In, fetch2, decodeIn, decode, f1ToF2, f2ToD,
                     dToE>>
      /\ consume => ~IsEmpty(c)
      /\ executeIn' = PushTail(IF consume THEN PopInput(c) ELSE c)
      /\ \/ execute' = e1 /\ branch' = branch
         \/ \E taken \in BranchData :
              /\ taken.stream > execute.streamSeqNum
              /\ execute' = TakeBranch(e1, taken)
              /\ branch' = Drive(branch, taken)
  BY DEF ExecuteEvaluate
<1>2. /\ branch.in = Bubble /\ dToE.in = Bubble /\ f2ToD.in = Bubble
      /\ f1ToF2.in = Bubble
      /\ Now' = Now /\ NextFetch' = NextFetch
      /\ FetchDue' = FetchDue /\ LineDue' = LineDue
      /\ InstDue = dToE.out /\ InstDue' = Bubble
  BY <1>1 DEF Conveyed, StreamsKept, WrittenOnce, FetchDue, LineDue, InstDue,
              Due, Now, NextFetch
<1>3. /\ WordF1' = WordF1 /\ WordF1Due' = WordF1Due /\ WordF2' = WordF2
      /\ WordD' = WordD /\ WordDDue' = WordDDue /\ FirstWord' = FirstWord
  BY <1>1, <1>2 DEF WordF1, WordF1Due, WordF2, WordD, WordDDue, FirstWord
<1>4. \A n : FirstPc(Bubble, n) = n /\ Linked(Bubble, n) /\ Chained(Bubble, n)
  BY OnWire DEF FirstPc, Bubble
<1>5. /\ PcD' = PcD /\ PcDDriven' = PcDDriven /\ PcDue' = PcDDriven
  BY <1>1, <1>2, <1>3, <1>4 DEF PcD, PcOf, Begun, PcDDriven, PcDue
<1>6. /\ execute \in [streamSeqNum : Stream, draining : BOOLEAN,
                      issued : BOOLEAN, expect : Addr \cup {AnyPc}]
      /\ branch \in LatchOf(BranchData) /\ Now \in Nat
      /\ execute.streamSeqNum \in Nat
  BY Wires DEF Stream, FirstStream
<1>7. /\ execute.draining <=> branch.out # Bubble
      /\ branch.out # Bubble =>
           /\ branch.out[1].stream > Now
           /\ execute.streamSeqNum = branch.out[1].stream
           /\ execute.expect = branch.out[1].target
      /\ branch.out = Bubble => execute.streamSeqNum = Now
  BY <1>1, <1>2 DEF Conveyed, StreamsKept, Redirects
<1>8. /\ Buffer(b, S) /\ Entries(b) = E /\ E \in Seq(S)
      /\ Chained(E, PcDDriven) /\ FirstPc(E, PcDDriven) = FirstInst
  <2>1. Settled(executeIn, S) /\ dToE.out \in Wire(S)
    BY <1>2 DEF Conveyed, StreamsKept, OneStream
  <2>2. executeIn.queue \in Seq(S)
    BY <2>1, SettledBuffer
  <2>3. Chained(dToE.out, PcDDriven)
        /\ Chained(executeIn.queue, FirstPc(dToE.out, PcDDriven))
    BY <1>2 DEF Conveyed, InstsChained, PcDue
  <2>4. FirstInst = FirstPc(executeIn.queue, FirstPc(dToE.out, PcDDriven))
    BY <1>2 DEF FirstInst, PcDue
  <2>5. QED BY <2>1, <2>2, <2>3, <2>4, SetTailEntries, ChainedJoined
<1>9. /\ e.streamSeqNum = execute.streamSeqNum /\ e.draining = FALSE
      /\ e.expect = execute.expect
      /\ e \in [streamSeqNum : Stream, draining : BOOLEAN,
                issued : BOOLEAN, expect : Addr \cup {AnyPc}]
  BY <1>6
<1>10. ExecuteInput = IF execute.draining THEN PopAll(b) ELSE b
  BY DEF ExecuteInput
<1> DEFINE q == executeIn'.queue
<1>11. /\ Settled(executeIn', S) /\ Chained(q, PcDDriven)
       /\ branch.out # Bubble => q = <<>> /\ ~consume
       /\ branch.out = Bubble =>
            IF consume
            THEN /\ Front(c).stream = Now
                 /\ Follower(Front(c)) \in {AnyPc, FirstPc(q, PcDDriven)}
            ELSE FirstPc(q, PcDDriven) = FirstInst
  <2>1. CASE branch.out # Bubble
    <3>1. c = PopAll(b)
      BY <1>7, <1>10, <2>1
    <3>2. Buffer(c, S) /\ Entries(c) = <<>>
      BY <1>8, <3>1, PopAllEntries
    <3> HIDE DEF c
    <3>3. IsEmpty(c)
      BY <3>2, FrontOfEntries
    <3>4. ~consume /\ executeIn' = PushTail(c)
      BY <1>1, <3>3
    <3>5. Settled(executeIn', S) /\ q = <<>>
      BY <3>2, <3>4, PushTailEntries
    <3>6. Chained(q, PcDDriven)
      BY <1>4, <3>5 DEF Bubble
    <3>7. QED BY <2>1, <3>4, <3>5, <3>6
  <2>2. CASE branch.out = Bubble /\ consume
    <3>1. c = b
      BY <1>7, <1>10, <2>2
    <3>2. executeIn' = PushTail(PopInput(b)) /\ ~IsEmpty(b)
      BY <1>1, <2>2, <3>1
    <3> HIDE DEF b, c, E
    <3>3. E # <<>> /\ Front(b) = E[1] /\ Front(b) \in S
      BY <1>8, <3>2, FrontOfEntries
    <3>4. Settled(executeIn', S) /\ q = Tail(E)
      BY <1>8, <3>2, <3>3, PopInputEntries, PushTailEntries
    <3>5. Chained(Tail(E), PcDDriven)
          /\ Follower(E[1]) \in {AnyPc, FirstPc(Tail(E), PcDDriven)}
      BY <1>8, <3>3, ChainedTail
    <3>6. Front(b).stream = Now
      BY <3>3 DEF InstsOf
    <3>7. QED BY <2>2, <3>1, <3>3, <3>4, <3>5, <3>6
  <2>3. CASE branch.out = Bubble /\ ~consume
    <3>1. c = b
      BY <1>7, <1>10, <2>3
    <3>2. executeIn' = PushTail(b)
      BY <1>1, <2>3, <3>1
    <3> HIDE DEF b, c, E
    <3>3. Settled(executeIn', S) /\ q = E
      BY <1>8, <3>2, PushTailEntries
    <3>4. QED BY <1>8, <2>3, <3>3
  <2>4. QED BY <2>1, <2>2, <2>3
<1>12. FirstInst' = FirstPc(q, PcDDriven)
  BY <1>5 DEF FirstInst
<1>13. /\ e1.streamSeqNum = execute.streamSeqNum /\ e1.draining = FALSE
       /\ branch.out # Bubble => e1.expect = execute.expect
       /\ branch.out = Bubble => e1.expect \in {AnyPc, FirstPc(q, PcDDriven)}
  <2>1. CASE ~consume
    <3>1. e1 = e
      BY <2>1
    <3>2. branch.out = Bubble => execute.expect \in {AnyPc, FirstInst}
      BY <1>7 DEF Conveyed, InstsChained
    <3> HIDE DEF e, e1, q
    <3>3. QED BY <1>9, <1>11, <2>1, <3>1, <3>2
  <2>2. CASE consume
    <3>1. e1 = Consume(e, Front(c)) /\ branch.out = Bubble
      BY <1>11, <2>2
    <3> HIDE DEF c, q
    <3>2. Front(c).stream = e.streamSeqNum
      BY <1>7, <1>9, <1>11, <2>2, <3>1
    <3> DEFINE next == Follower(Front(c))
    <3>3. e1 = [e EXCEPT !.issued = e.issued \/ ~Front(c).fault,
                         !.expect = next]
      BY <3>1, <3>2 DEF Consume, Follower
    <3> HIDE DEF next, e, e1
    <3>4. /\ e1.streamSeqNum = e.streamSeqNum /\ e1.draining = FALSE
          /\ e1.expect = next
      BY <1>9, <3>3
    <3>5. QED BY <1>9, <1>11, <2>2, <3>1, <3>4 DEF next
  <2>3. QED BY <2>1, <2>2
<1>14. PICK taken \in BranchData :
         \/ execute' = e1 /\ branch' = branch
         \/ /\ taken.stream > execute.streamSeqNum
            /\ execute' = TakeBranch(e1, taken)
            /\ branch' = Drive(branch, taken)
  <2>1. \E x : x \in BranchData
    <3>1. 0 \in Addr /\ FirstStream \in Stream
      BY FrontEndAssumption DEF Addr, Stream, FirstStream
    <3>2. [stream |-> FirstStream, target |-> 0] \in BranchData
      BY <3>1 DEF BranchData
    <3>3. QED BY <3>2
  <2> HIDE DEF e1
  <2>2. QED BY <1>1, <2>1
<1> HIDE DEF b, c, e, E, q
<1>15. Redirects' /\ (execute'.streamSeqNum = Now =>
                        execute'.expect \in {AnyPc, FirstInst'})
       /\ branch'.out = branch.out
  <2>1. CASE execute' = e1 /\ branch' = branch
    <3>1. branch'.in = Bubble /\ branch'.out = branch.out
      BY <1>2, <2>1
    <3> HIDE DEF e1
    <3>2. /\ execute'.streamSeqNum = execute.streamSeqNum
          /\ execute'.draining = FALSE
          /\ branch.out # Bubble => execute'.expect = execute.expect
          /\ branch.out = Bubble => execute'.expect \in {AnyPc, FirstInst'}
      BY <1>12, <1>13, <2>1
    <3>3. branch.out # Bubble => execute.streamSeqNum # Now
      <4>1. CASE branch.out # Bubble
        <5>1. branch.out[1].stream \in Nat
          BY Wires, BranchWire, <4>1
        <5>2. QED BY <1>6, <1>7, <4>1, <5>1
      <4>2. QED BY <4>1
    <3>4. Redirects'
      BY <1>1, <1>2, <1>7, <3>1, <3>2 DEF Redirects
    <3>5. QED BY <3>1, <3>2, <3>3, <3>4
  <2>2. CASE /\ taken.stream > execute.streamSeqNum
             /\ execute' = TakeBranch(e1, taken)
             /\ branch' = Drive(branch, taken)
    <3>1. branch'.in = <<taken>> /\ branch'.out = branch.out
          /\ <<taken>> # Bubble /\ <<taken>>[1] = taken
          /\ <<taken>> \in Wire(BranchData)
      <4>1. branch' = Drive(branch, taken) /\ taken \in BranchData
        BY <2>2
      <4>2. QED BY <1>6, <4>1, DrivenWire
    <3>2. taken.stream \in Nat /\ taken.target \in Addr
      BY DEF BranchData, Stream, FirstStream
    <3>3. execute'.streamSeqNum = taken.stream /\ execute'.draining = TRUE
          /\ execute'.expect = taken.target
      <4> DEFINE next == Follower(Front(c))
                 E1 == [streamSeqNum : Stream, draining : BOOLEAN,
                        issued : BOOLEAN, expect : Addr \cup {AnyPc, next}]
      <4>1. e1 \in E1
        <5>1. e1 = e \/ e1 = [e EXCEPT !.issued = e.issued \/ ~Front(c).fault,
                                       !.expect = next]
          BY DEF e1, Consume, Follower
        <5> HIDE DEF e1, next
        <5>2. (e.issued \/ ~Front(c).fault) \in BOOLEAN
          OBVIOUS
        <5>3. QED BY <1>9, <5>1, <5>2
      <4> HIDE DEF e1
      <4>2. execute' = [e1 EXCEPT !.streamSeqNum = taken.stream,
                                  !.draining = TRUE, !.expect = taken.target]
        BY <2>2 DEF TakeBranch
      <4>3. QED BY <4>1, <4>2
    <3>4. taken.stream > Now
      <4>1. CASE branch.out # Bubble
        <5>1. branch.out[1].stream \in Nat
          BY Wires, BranchWire, <4>1
        <5>2. QED BY <1>6, <1>7, <2>2, <3>2, <4>1, <5>1
      <4>2. CASE branch.out = Bubble
        BY <1>7, <2>2, <4>2
      <4>3. QED BY <4>1, <4>2
    <3>5. taken.stream # Now
      BY <1>6, <3>2, <3>4
    <3>6. Redirects'
      <4>1. branch.out # Bubble => taken.stream > branch.out[1].stream
        BY <1>7, <2>2
      <4>2. QED BY <1>1, <1>2, <1>7, <3>1, <3>3, <3>4, <4>1 DEF Redirects
    <3>7. QED BY <3>1, <3>3, <3>5, <3>6
  <2>3. QED BY <1>14, <2>1, <2>2
<1> HIDE DEF e1
<1>16. StreamsKept'
  <2>1. WrittenOnce'
    BY <1>1, <1>2 DEF Conveyed, StreamsKept, WrittenOnce
  <2>2. OneStream'
    <3>1. Bubble \in Wire(InstsOf(Now))
      BY DEF Wire
    <3>2. QED BY <1>1, <1>2, <1>11, <3>1 DEF Conveyed, StreamsKept, OneStream
  <2>3. Flushed'
    BY <1>1, <1>11, <1>15 DEF Flushed, q
  <2>4. QED BY <1>15, <2>1, <2>2, <2>3 DEF StreamsKept
<1>17. OneFetch'
  BY <1>1, <1>2 DEF Conveyed, OneFetch, FetchOfNow, Allocated
<1>18. WordsKept'
  <2>1. WordsLinked'
    BY <1>1, <1>2, <1>3 DEF Conveyed, WordsKept, WordsLinked
  <2>2. HalfKept' /\ WordNeeded'
    BY <1>1, <1>2, <1>3
       DEF Conveyed, WordsKept, HalfKept, HalfOf, WordNeeded, Begun, Needed
  <2>3. QED BY <2>1, <2>2 DEF WordsKept
<1>19. InstsChained'
  <2>1. Chained(dToE.in, PcD)
    BY DEF Conveyed, InstsChained
  <2>2. QED BY <1>1, <1>2, <1>4, <1>5, <1>11, <1>15, <2>1 DEF InstsChained, q
<1>20. QED BY <1>16, <1>17, <1>18, <1>19 DEF Conveyed

(* The instruction after x is where its length says.                       *)
LEMMA FollowerAt ==
  ASSUME NEW x \in InstsOf(Now), ~x.fault
  PROVE  Follower(x) = After(x.pc, Length(x.pc)) /\ Follower(x) # AnyPc
<1>1. MadeOfItsBytes(x) /\ Follower(x) = After(x.pc, Len(x.bytes)) /\ x.pc \in Addr
  BY DEF InstsOf, Inst, Follower
<1> DEFINE n == Length(x.pc)  b == [k \in 1 .. n |-> After(x.pc, k - 1)]
<1>2. n \in Nat
  BY DEF Length
<1>3. x.bytes = b
  BY <1>1 DEF MadeOfItsBytes
<1>4. After(x.pc, n) \in Addr
  <2> HIDE DEF n
  <2>1. QED BY <1>1, <1>2, AfterType
<1>5. AnyPc \notin Addr
  BY FrontEndAssumption DEF AnyPc, Addr
<1> HIDE DEF n
<1>6. Len(b) = n
  BY <1>2
<1> HIDE DEF b
<1>7. Follower(x) = After(x.pc, n)
  BY <1>1, <1>3, <1>6
<1>8. QED BY <1>4, <1>5, <1>7 DEF n

(* Decode stays where it is or goes on from its pc; what it delivers is at *)
(* its pc, once it has begun with the stream, and leaves it at the next.   *)
DecodeMoves ==
  /\ decode.lastStreamSeqNum <= decode'.lastStreamSeqNum
  /\ IF dToE'.in = Bubble
     THEN \/ decode' = decode
          \/ Begun(decode') /\ (Begun(decode) => decode'.pc = decode.pc)
     ELSE LET x == dToE'.in[1]
          IN  /\ Begun(decode) => x.pc = decode.pc
              /\ ~x.fault =>
                   Begun(decode') /\ decode'.pc = After(x.pc, Length(x.pc))

(* Decode makes the instruction at its pc, if the bytes are there, or      *)
(* drops what it has.                                                      *)
LEMMA DecodeConveys ==
  ASSUME IInv, Conveyed, DecodeEvaluate
  PROVE  Conveyed' /\ DecodeMoves
<1> DEFINE L == LinesOf(Now)  I == InstsOf(Now)
           b == SetTail(decodeIn, f2ToD.out)
           E == Joined(decodeIn.queue, f2ToD.out)
           q == decodeIn'.queue
           next == PcOf(decode', FirstPc(q, WordD))
<1>1. /\ phase = "decode" /\ phase' = "fetch2"
      /\ UNCHANGED <<fetch1, fetch2In, fetch2, execute, f1ToF2, f2ToD, branch>>
  BY DEF DecodeEvaluate
<1>2. /\ dToE.in = Bubble /\ f2ToD.in = Bubble /\ f1ToF2.in = Bubble
      /\ Now' = Now /\ NextFetch' = NextFetch
      /\ FetchDue' = FetchDue /\ LineDue = f2ToD.out /\ LineDue' = Bubble
      /\ InstDue = Bubble /\ InstDue' = Bubble
  BY <1>1 DEF Conveyed, StreamsKept, WrittenOnce, FetchDue, LineDue, InstDue,
              Due, Now, NextFetch
<1>3. \A n : FirstPc(Bubble, n) = n /\ Linked(Bubble, n) /\ Chained(Bubble, n)
  BY OnWire DEF FirstPc, Bubble
<1>4. /\ WordF1' = WordF1 /\ WordF1Due' = WordF1Due /\ WordF2' = WordF2
      /\ WordD' = WordD /\ WordDDue' = WordD
      /\ FirstWord' = FirstPc(q, WordD) /\ PcD' = next
  <2>1. /\ WordF1' = WordF1 /\ WordF1Due' = WordF1Due /\ WordF2' = WordF2
        /\ WordD' = WordD /\ WordDDue' = WordD
    BY <1>1, <1>2, <1>3 DEF WordF1, WordF1Due, WordF2, WordD, WordDDue
  <2>2. FirstWord' = FirstPc(q, WordD)
    BY <2>1 DEF FirstWord
  <2>3. PcD' = next
    BY <1>2, <2>2 DEF PcD, PcOf, Begun
  <2>4. QED BY <2>1, <2>2, <2>3
<1>5. /\ WordDDue = FirstPc(f2ToD.out, WordD)
      /\ FirstWord = FirstPc(decodeIn.queue, WordDDue)
      /\ PcD = PcOf(decode, FirstWord)
      /\ PcDDriven = PcD /\ PcDue = PcD
      /\ PcDDriven' = FirstPc(dToE'.in, next) /\ PcDue' = PcDDriven'
  BY <1>2, <1>3, <1>4 DEF WordDDue, FirstWord, PcD, PcDDriven, PcDue
<1>6. /\ Now \in Stream /\ Now \in Nat /\ decode \in DecodeState
      /\ dToE \in LatchOf(Inst)
  BY Wires
<1>7. /\ Settled(decodeIn, L) /\ f2ToD.out \in Wire(L)
      /\ Settled(executeIn, I) /\ decode.lastStreamSeqNum <= Now
  BY <1>2 DEF Conveyed, StreamsKept, OneStream
<1>8. /\ Linked(f2ToD.out, WordD) /\ Linked(decodeIn.queue, WordDDue)
      /\ HalfOf(decode)
      /\ Begun(decode) => Base(FirstWord) = Base(Needed(decode))
  BY <1>1, <1>2 DEF Conveyed, WordsKept, WordsLinked, HalfKept, WordNeeded
<1>9. Chained(executeIn.queue, PcD)
  BY <1>5 DEF Conveyed, InstsChained
<1>10. /\ Buffer(b, L) /\ Entries(b) = E
       /\ OnItsWay(decode, E, WordD) /\ FirstPc(E, WordD) = FirstWord
  <2>1. decodeIn.queue \in Seq(L)
    BY <1>7, SettledBuffer
  <2>2. Buffer(b, L) /\ Entries(b) = E /\ E \in Seq(L)
    BY <1>7, SetTailEntries
  <2>3. Linked(E, WordD) /\ FirstPc(E, WordD) = FirstWord
    BY <1>5, <1>7, <1>8, <2>1, LinkedJoined
  <2>4. QED BY <1>6, <1>7, <1>8, <2>2, <2>3 DEF OnItsWay
<1> HIDE DEF b, E, q, next
<1>11. /\ Settled(decodeIn', L) /\ Settled(executeIn', I)
       /\ executeIn'.queue = executeIn.queue
       /\ dToE'.in \in Wire(I) /\ dToE'.out = dToE.out
       /\ branch.out # Bubble => q = <<>> /\ dToE'.in = Bubble
       /\ decode' \in DecodeState /\ decode'.lastStreamSeqNum <= Now
       /\ HalfOf(decode') /\ Linked(q, WordD)
       /\ branch.out = Bubble /\ Begun(decode') =>
            Base(FirstPc(q, WordD)) = Base(Needed(decode'))
       /\ Chained(dToE'.in, next)
       /\ branch.out = Bubble => FirstPc(dToE'.in, next) = PcD
       /\ DecodeMoves
  <2>1. CASE branch.out # Bubble
    <3>1. /\ decodeIn' = PopAll(decodeIn)
          /\ decode' = decode /\ dToE' = dToE /\ executeIn' = executeIn
      BY <2>1 DEF DecodeEvaluate, DecodeRedirect
    <3>2. Settled(decodeIn', L) /\ q = <<>>
      BY <1>7, <3>1, PopAllSettled DEF q
    <3>3. Linked(q, WordD) /\ Chained(dToE'.in, next)
      BY <1>2, <1>3, <3>1, <3>2 DEF Bubble
    <3>4. Bubble \in Wire(I)
      BY DEF Wire
    <3>5. DecodeMoves
      BY <1>2, <1>6, <1>7, <3>1 DEF DecodeMoves, DecodeState, Stream
    <3>6. QED BY <1>2, <1>6, <1>7, <1>8, <2>1, <3>1, <3>2, <3>3, <3>4, <3>5
  <2>2. CASE branch.out = Bubble /\ CanReserve(executeIn, ExecuteBufferSize)
             /\ ~IsEmpty(b)
    <3> DEFINE t == DecodeLines(b)
    <3>1. /\ decode' = t.decode /\ decodeIn' = PushTail(t.input)
          /\ IF t.inst = Bubble THEN dToE' = dToE /\ executeIn' = executeIn
             ELSE /\ dToE' = Drive(dToE, t.inst[1])
                  /\ executeIn' = Reserve(executeIn)
      BY <2>2 DEF DecodeEvaluate, b
    <3> DEFINE on == PcOf(t.decode, FirstPc(Entries(t.input), WordD))
    <3>2. /\ Buffer(t.input, L) /\ OnItsWay(t.decode, Entries(t.input), WordD)
          /\ t.inst \in Wire(I)
          /\ t.inst = Bubble => on = PcD
          /\ t.inst # Bubble => /\ t.inst[1].pc = PcD
                                /\ Follower(t.inst[1]) \in {AnyPc, on}
      BY <1>5, <1>6, <1>10, <2>2, DecodeLoop
    <3>3. /\ t.decode.lastStreamSeqNum = Now
          /\ t.inst = Bubble \/ ~t.inst[1].fault => Begun(t.decode)
      BY <1>6, <1>10, <2>2, LoopBegins
    <3> HIDE DEF t
    <3>4. Settled(decodeIn', L) /\ q = Entries(t.input)
      BY <3>1, <3>2, PushTailEntries DEF q
    <3>5. next = on
      BY <3>1, <3>4 DEF next
    <3>6. /\ Begun(decode') => on = decode'.pc
          /\ Begun(decode) => PcD = decode.pc
          /\ decode.lastStreamSeqNum <= decode'.lastStreamSeqNum
      BY <1>5, <1>7, <3>1, <3>3 DEF PcOf, Begun
    <3>7. t.inst = Bubble => Begun(decode')
      BY <3>1, <3>3 DEF Begun
    <3>8. t.inst # Bubble /\ ~t.inst[1].fault => Begun(decode')
      BY <3>1, <3>3 DEF Begun
    <3> HIDE DEF on
    <3>9. /\ decode' \in DecodeState /\ decode'.lastStreamSeqNum <= Now
          /\ HalfOf(decode') /\ Linked(q, WordD)
          /\ Begun(decode') => Base(FirstPc(q, WordD)) = Base(Needed(decode'))
      BY <3>1, <3>2, <3>4 DEF OnItsWay
    <3>10. CASE t.inst = Bubble
      <4>1. dToE' = dToE /\ executeIn' = executeIn /\ Bubble \in Wire(I)
        BY <3>1, <3>10 DEF Wire
      <4>2. FirstPc(dToE'.in, next) = PcD /\ Chained(dToE'.in, next)
        BY <1>2, <1>3, <3>2, <3>5, <3>10, <4>1
      <4>3. DecodeMoves
        BY <1>2, <1>7, <3>2, <3>10, <3>6, <3>7, <4>1 DEF DecodeMoves
      <4>4. QED BY <1>2, <1>7, <2>2, <3>4, <3>9, <4>1, <4>2, <4>3
    <3>11. CASE t.inst # Bubble
      <4>1. PICK i \in I : t.inst = <<i>>
        BY <3>2, <3>11 DEF Wire
      <4>2. t.inst[1] = i
        BY <4>1
      <4>3. dToE' = Drive(dToE, i) /\ executeIn' = Reserve(executeIn)
        BY <3>1, <3>11, <4>2
      <4>4. dToE'.in = <<i>> /\ dToE'.out = dToE.out /\ <<i>> \in Wire(I)
        BY <1>6, <4>1, <4>3, DrivenWire
      <4>5. FirstPc(<<i>>, next) = PcD /\ Chained(<<i>>, next)
        BY <3>2, <3>5, <3>11, <4>2, OnWire
      <4>6. Settled(executeIn', I) /\ executeIn'.queue = executeIn.queue
        BY <1>7, <4>3, ReservationsSettled
      <4>7. DecodeMoves
        <5>1. dToE'.in # Bubble /\ dToE'.in[1] = i
          BY <4>1, <4>2, <4>4 DEF Bubble
        <5>2. i.pc = PcD /\ Follower(i) \in {AnyPc, on}
          BY <3>2, <3>11, <4>2
        <5>3. Begun(decode) => i.pc = decode.pc
          BY <3>6, <5>2
        <5>4. ~i.fault => /\ Begun(decode')
                          /\ decode'.pc = After(i.pc, Length(i.pc))
          BY <3>11, <3>6, <3>8, <4>2, <5>2, FollowerAt
        <5>5. QED BY <3>6, <5>1, <5>3, <5>4 DEF DecodeMoves
      <4>8. QED BY <2>2, <3>4, <3>9, <4>4, <4>5, <4>6, <4>7
    <3>12. QED BY <3>10, <3>11
  <2>3. CASE branch.out = Bubble /\ ~(CanReserve(executeIn, ExecuteBufferSize)
                                        /\ ~IsEmpty(b))
    <3>1. /\ decodeIn' = PushTail(b)
          /\ decode' = decode /\ dToE' = dToE /\ executeIn' = executeIn
      BY <2>3 DEF DecodeEvaluate, b
    <3>2. Settled(decodeIn', L) /\ q = E
      BY <1>10, <3>1, PushTailEntries DEF q
    <3>3. /\ Linked(q, WordD)
          /\ Begun(decode') => Base(FirstPc(q, WordD)) = Base(Needed(decode'))
      BY <1>10, <3>1, <3>2 DEF OnItsWay
    <3>4. next = PcD
      BY <1>5, <1>10, <3>1, <3>2 DEF next
    <3>5. FirstPc(dToE'.in, next) = PcD /\ Chained(dToE'.in, next)
      BY <1>2, <1>3, <3>1, <3>4
    <3>6. Bubble \in Wire(I)
      BY DEF Wire
    <3>7. DecodeMoves
      BY <1>2, <1>6, <1>7, <3>1 DEF DecodeMoves, DecodeState, Stream
    <3>8. QED BY <1>2, <1>6, <1>7, <1>8, <2>3, <3>1, <3>2, <3>3, <3>5, <3>6, <3>7
  <2>4. QED BY <2>1, <2>2, <2>3
<1>12. branch.out # Bubble => executeIn.queue = <<>> /\ execute.streamSeqNum # Now
  <2> SUFFICES ASSUME branch.out # Bubble
               PROVE  executeIn.queue = <<>> /\ execute.streamSeqNum # Now
    OBVIOUS
  <2>1. executeIn.queue = <<>>
    BY <1>1 DEF Conveyed, StreamsKept, Flushed
  <2>2. branch.out[1].stream \in Nat /\ branch.out[1].stream > Now
    BY <1>1, Wires, BranchWire DEF Conveyed, StreamsKept, Redirects
  <2>3. CASE branch.in # Bubble
    <3>1. branch.in[1].stream \in Nat /\ branch.in[1].stream > Now
          /\ execute.streamSeqNum = branch.in[1].stream
      BY <2>3, Wires, BranchWire DEF Conveyed, StreamsKept, Redirects
    <3>2. QED BY <1>6, <2>1, <3>1
  <2>4. CASE branch.in = Bubble
    <3>1. execute.streamSeqNum = branch.out[1].stream
      BY <2>4 DEF Conveyed, StreamsKept, Redirects
    <3>2. QED BY <1>6, <2>1, <2>2, <3>1
  <2>5. QED BY <2>3, <2>4
<1>13. StreamsKept'
  <2>1. WrittenOnce'
    BY <1>1, <1>2 DEF Conveyed, StreamsKept, WrittenOnce
  <2>2. OneStream'
    <3>1. Bubble \in Wire(L) /\ Bubble \in Wire(I)
      BY DEF Wire
    <3>2. QED BY <1>1, <1>2, <1>11, <3>1 DEF Conveyed, StreamsKept, OneStream
  <2>3. Flushed'
    BY <1>1, <1>11, <1>12 DEF Flushed, q
  <2>4. Redirects'
    BY <1>1, <1>2 DEF Conveyed, StreamsKept, Redirects
  <2>5. QED BY <2>1, <2>2, <2>3, <2>4 DEF StreamsKept
<1>14. OneFetch'
  BY <1>1, <1>2 DEF Conveyed, OneFetch, FetchOfNow, Allocated
<1>15. WordsKept'
  <2>1. WordsLinked'
    BY <1>1, <1>2, <1>3, <1>4, <1>11 DEF Conveyed, WordsKept, WordsLinked, q
  <2>2. HalfKept'
    BY <1>11 DEF HalfKept, HalfOf
  <2>3. WordNeeded'
    BY <1>1, <1>2, <1>4, <1>11 DEF WordNeeded, Begun, Needed
  <2>4. QED BY <2>1, <2>2, <2>3 DEF WordsKept
<1>16. InstsChained'
  <2>1. Chained(dToE'.in, PcD') /\ Chained(InstDue', PcDDriven')
    BY <1>2, <1>3, <1>4, <1>11
  <2>2. CASE branch.out = Bubble
    <3>1. PcDDriven' = PcD /\ PcDue' = PcD
      BY <1>5, <1>11, <2>2
    <3>2. FirstInst' = FirstInst
      BY <1>5, <1>11, <3>1 DEF FirstInst
    <3>3. execute.streamSeqNum = Now => execute.expect \in {AnyPc, FirstInst}
      BY DEF Conveyed, InstsChained
    <3>4. QED BY <1>1, <1>2, <1>9, <1>11, <2>1, <3>1, <3>2, <3>3 DEF InstsChained
  <2>3. CASE branch.out # Bubble
    <3>1. Chained(executeIn'.queue, PcDue')
      BY <1>3, <1>11, <1>12, <2>3 DEF Bubble
    <3>2. QED BY <1>1, <1>2, <1>12, <2>1, <2>3, <3>1 DEF InstsChained
  <2>4. QED BY <2>2, <2>3
<1>17. QED BY <1>11, <1>13, <1>14, <1>15, <1>16 DEF Conveyed

(* The same, for whoever runs the front end.                               *)
LEMMA DecodeGoesOn ==
  IInv /\ Conveyed /\ DecodeEvaluate => DecodeMoves
BY DecodeConveys
-----------------------------------------------------------------------------
(* Fetch2 in the middle of its cycle.                                      *)

(* OneFetch, of Fetch2 in state f with the queue q of words to fetch.      *)
OutNow(f, p) == Allocated(f, p) /\ f.req[p].stream = Now

Fetching(f, q) ==
  /\ \A p \in Request : Allocated(f, p) => f.req[p].stream <= Now
  /\ \A p \in Request : OutNow(f, p) =>
       /\ f.fetchState = "FetchRunning"
       /\ f.req[p].pc = q[1].pc
       /\ \A r \in Request : OutNow(f, r) => r = p
  /\ f.fetchState = "FetchRunning" =>
       /\ q # <<>> /\ f.thread = <<q[1]>>
       /\ \E p \in Request : OutNow(f, p)

(* It is OneFetch between the cycles.                                      *)
LEMMA OneFetchIs == OneFetch <=> Fetching(fetch2, fetch2In.queue)
BY DEF OneFetch, Fetching, FetchOfNow, OutNow

(* Moving requests about does not change what is being fetched.            *)
LEMMA FetchingMoves ==
  ASSUME NEW f, NEW g, NEW q, Fetching(f, q), SameOut(f, g), SameFetch(f, g)
  PROVE  Fetching(g, q)
BY DEF Fetching, SameOut, SameFetch, OutNow

(* The thread is the word at the front, and of the stream.                 *)
AtFront(f, q) == q # <<>> /\ f.thread = <<q[1]>> /\ q[1].stream = Now

(* Starting to fetch the front word while none is fetched.                 *)
LEMMA FetchingStarts ==
  ASSUME NEW f, F2OK(f), NEW q, Fetching(f, q), AtFront(f, q), Now \in Nat,
         f.fetchState = "FetchWaiting",
         InFlight(f) < FetchLimit, NEW input, NEW immediate \in BOOLEAN,
         NEW fault \in Fault, NEW accept \in BOOLEAN
  PROVE  LET g == FetchLine(f, input, immediate, fault, accept)
         IN  Fetching(g, q) /\ g.thread = f.thread
<1> DEFINE g == FetchLine(f, input, immediate, fault, accept)
<1>1. f.thread # Bubble
  <2>1. <<q[1]>> # <<>>
    OBVIOUS
  <2>2. QED BY <2>1 DEF AtFront, Bubble
<1>2. /\ F2OK(g) /\ g.thread = f.thread /\ g.fetchState = "FetchRunning"
  BY <1>1, FetchLineKeeps
<1>3. PICK p \in Request :
        /\ ~Allocated(f, p) /\ Allocated(g, p)
        /\ g.req[p].stream = f.thread[1].stream
        /\ g.req[p].pc = f.thread[1].pc
        /\ \A r \in Request \ {p} :
             /\ Allocated(g, r) <=> Allocated(f, r)
             /\ g.req[r].stream = f.req[r].stream
             /\ g.req[r].pc = f.req[r].pc
  BY <1>1, FetchLineOut
<1> HIDE DEF g
<1>4. OutNow(g, p) /\ g.req[p].pc = q[1].pc
  BY <1>3 DEF OutNow, AtFront
<1>5. \A r \in Request \ {p} : ~OutNow(g, r)
  BY <1>3 DEF OutNow, Fetching
<1>6. \A r \in Request : Allocated(g, r) => g.req[r].stream <= Now
  <2> SUFFICES ASSUME NEW r \in Request, Allocated(g, r)
               PROVE  g.req[r].stream <= Now
    OBVIOUS
  <2>1. CASE r = p
    BY <1>4, <2>1 DEF OutNow
  <2>2. CASE r # p
    BY <1>3, <2>2 DEF Fetching
  <2>3. QED BY <2>1, <2>2
<1>7. Fetching(g, q)
  BY <1>2, <1>4, <1>5, <1>6 DEF Fetching, AtFront
<1>8. QED BY <1>2, <1>7 DEF g

(* Taking the answered request away, with the word it was for if the       *)
(* answer is of the stream.                                                *)
LEMMA FetchingEnds ==
  ASSUME NEW f, F2OK(f), NEW q, Fetching(f, q), ResponseReady(f)
  PROVE  LET g == PopTransfers(f)
             h == [g EXCEPT !.fetchState = "FetchWaiting"]
             p == Head(f.transfers)
         IN  /\ p \in Request
             /\ ~OutNow(f, p) => Fetching(g, q)
             /\ OutNow(f, p) => /\ f.req[p].pc = q[1].pc
                                /\ q # <<>> /\ f.thread = <<q[1]>>
                                /\ \A r : Fetching(h, r)
<1> DEFINE g == PopTransfers(f)  p == Head(f.transfers)
           h == [g EXCEPT !.fetchState = "FetchWaiting"]
<1>1. /\ p \in Request /\ Allocated(f, p) /\ ~Allocated(g, p)
      /\ g.thread = f.thread /\ g.fetchState = f.fetchState
      /\ \A r \in Request \ {p} : g.req[r] = f.req[r]
  BY PopTransfersOut
<1>2. g \in Fetch2State
  BY PopTransfersKeeps DEF F2OK
<1>3. h.req = g.req /\ h.fetchState = "FetchWaiting"
  BY <1>2 DEF Fetch2State
<1> HIDE DEF g, h, p
<1>4. /\ \A r \in Request \ {p} : OutNow(g, r) <=> OutNow(f, r)
      /\ ~OutNow(g, p)
      /\ \A r \in Request : Allocated(g, r) => g.req[r].stream <= Now
  BY <1>1 DEF OutNow, Allocated, Fetching
<1>5. ASSUME ~OutNow(f, p) PROVE Fetching(g, q)
  BY <1>1, <1>4, <1>5 DEF Fetching, OutNow
<1>6. ASSUME OutNow(f, p)
      PROVE  /\ f.req[p].pc = q[1].pc /\ q # <<>> /\ f.thread = <<q[1]>>
             /\ \A r : Fetching(h, r)
  <2>1. f.req[p].pc = q[1].pc /\ q # <<>> /\ f.thread = <<q[1]>>
    BY <1>1, <1>6 DEF Fetching
  <2>2. \A r \in Request : ~OutNow(g, r)
    BY <1>1, <1>4, <1>6 DEF Fetching
  <2>3. \A r \in Request : ~OutNow(h, r)
        /\ (Allocated(h, r) => h.req[r].stream <= Now)
    BY <1>3, <1>4, <2>2 DEF OutNow, Allocated
  <2>4. QED BY <1>3, <2>1, <2>3 DEF Fetching
<1>7. QED BY <1>1, <1>5, <1>6 DEF g, h, p

(* The answer to the front transfer leaves as the line of the front word,  *)
(* if it is of the stream.                                                 *)
LEMMA RespondConveys ==
  ASSUME NEW f, F2OK(f), f.thread # Bubble, Now \in Stream,
         NEW input, Buffer(input, FetchesOf(Now)), AtFront(f, Entries(input)),
         NEW n, Linked(Entries(input), n),
         Fetching(f, Entries(input)),
         NEW d, Settled(d, LinesOf(Now)),
         f2ToD \in LatchOf(Line), f2ToD.in = Bubble,
         Respond(f, input, d)
  PROVE  /\ Settled(fetch2In', FetchesOf(Now)) /\ Linked(fetch2In'.queue, n)
         /\ Fetching(fetch2', fetch2In'.queue)
         /\ Settled(decodeIn', LinesOf(Now)) /\ decodeIn'.queue = d.queue
         /\ f2ToD'.out = f2ToD.out /\ f2ToD'.in \in Wire(LinesOf(Now))
         /\ Linked(f2ToD'.in, FirstPc(fetch2In'.queue, n))
         /\ FirstPc(f2ToD'.in, FirstPc(fetch2In'.queue, n)) =
              FirstPc(Entries(input), n)
<1> DEFINE Q == Entries(input)  p == Head(f.transfers)  g == PopTransfers(f)
           h == [g EXCEPT !.fetchState = "FetchWaiting"]
<1>1. /\ Q \in Seq(FetchesOf(Now)) /\ Q # <<>> /\ ~IsEmpty(input)
      /\ Front(input) = Q[1] /\ Q[1] \in FetchesOf(Now)
  BY FrontOfEntries DEF AtFront
<1>2. Q[1].stream = Now /\ Q[1].pc \in Addr
  BY <1>1 DEF FetchesOf, Fetch
<1>3. \A m : FirstPc(Bubble, m) = m /\ Linked(Bubble, m)
  BY OnWire DEF FirstPc, Bubble
<1>4. Bubble \in Wire(LinesOf(Now))
  BY DEF Wire
<1>5. Settled(FreeReservation(d), LinesOf(Now)) /\ FreeReservation(d).queue = d.queue
  BY ReservationsSettled
<1>6. Settled(PushTail(input), FetchesOf(Now)) /\ PushTail(input).queue = Q
  BY PushTailEntries
<1>7. CASE ~ResponseReady(f)
  <2>1. fetch2' = f /\ fetch2In' = PushTail(input) /\ decodeIn' = d /\ f2ToD' = f2ToD
    BY <1>7 DEF Respond
  <2> HIDE DEF Q
  <2>2. QED BY <1>3, <1>4, <1>6, <2>1 DEF Q
<1>8. CASE ResponseReady(f)
  <2>1. /\ p \in Request
        /\ ~OutNow(f, p) => Fetching(g, Q)
        /\ OutNow(f, p) => /\ f.req[p].pc = Q[1].pc
                           /\ \A r : Fetching(h, r)
    BY <1>8, FetchingEnds
  <2>2. f.req[p].state = "Complete"
    BY <1>8 DEF ResponseReady
  <2>3. IsDiscardable(f, input, p) <=> ~OutNow(f, p)
    BY <1>1, <1>2, <2>2 DEF IsDiscardable, OutNow, Allocated
  <2>4. CASE ~OutNow(f, p)
    <3>1. /\ fetch2' = g /\ fetch2In' = PushTail(input)
          /\ decodeIn' = FreeReservation(d) /\ f2ToD' = f2ToD
      BY <1>8, <2>3, <2>4 DEF Respond
    <3> HIDE DEF Q, g
    <3>2. QED BY <1>3, <1>4, <1>5, <1>6, <2>1, <2>4, <3>1 DEF Q
  <2>5. CASE OutNow(f, p)
    <3> DEFINE line == LineOf(f)
    <3>1. /\ fetch2' = h /\ fetch2In' = PushTail(PopInput(input))
          /\ decodeIn' = d /\ f2ToD' = Drive(f2ToD, line)
      BY <1>8, <2>3, <2>5 DEF Respond
    <3>2. f.thread[1] = Q[1]
      BY DEF AtFront
    <3>3. line.stream = Now /\ line.pc = Q[1].pc /\ line.addr = Base(Q[1].pc)
      BY <2>1, <2>5, <3>2 DEF LineOf, OutNow
    <3>4. line \in Line
      BY <1>8, LineOfTyped
    <3> HIDE DEF line, Q, h
    <3>5. line \in LinesOf(Now)
      BY <3>3, <3>4 DEF LinesOf
    <3>6. Settled(fetch2In', FetchesOf(Now)) /\ fetch2In'.queue = Tail(Q)
      <4>1. Buffer(PopInput(input), FetchesOf(Now))
            /\ Entries(PopInput(input)) = Tail(Q)
        BY <1>1, PopInputEntries DEF Q
      <4>2. QED BY <3>1, <4>1, PushTailEntries
    <3>7. Linked(Tail(Q), n) /\ NextPc(Q[1].pc) = FirstPc(Tail(Q), n)
      BY <1>1, LinkedTail DEF Q
    <3>8. /\ f2ToD'.in = <<line>> /\ f2ToD'.out = f2ToD.out
          /\ <<line>> \in Wire(LinesOf(Now))
      BY <3>1, <3>5, DrivenWire
    <3>9. /\ Linked(<<line>>, FirstPc(Tail(Q), n))
          /\ FirstPc(<<line>>, FirstPc(Tail(Q), n)) = Q[1].pc
      BY <3>3, <3>7, OnWire
    <3>10. FirstPc(Q, n) = Q[1].pc
      BY <1>1 DEF FirstPc
    <3>11. Fetching(fetch2', fetch2In'.queue)
      BY <2>1, <2>5, <3>1
    <3>12. QED BY <3>1, <3>6, <3>7, <3>8, <3>9, <3>10, <3>11 DEF Q
  <2>6. QED BY <2>4, <2>5
<1>9. QED BY <1>7, <1>8

(* A settled, empty buffer is one of any type.                             *)
LEMMA EmptySettled ==
  ASSUME NEW S, NEW b, Settled(b, S), b.queue = <<>>, NEW T
  PROVE  Settled(b, T)
<1>1. b \in [queue : Seq(S), elem : Wire(S), reserved : Nat] /\ b.elem = Bubble
  BY DEF Settled, BufferOf
<1>2. Bubble \in Wire(T) /\ <<>> \in Seq(T)
  <2>1. <<>> \in Seq(T)
    OBVIOUS
  <2>2. QED BY <2>1 DEF Wire
<1>3. QED BY <1>1, <1>2 DEF Settled, BufferOf

(* A branch reaches Fetch2: the stream it opens is the one of now on.      *)
LEMMA Fetch2RedirectConveys ==
  ASSUME IInv, Conveyed, Fetch2Evaluate, branch.out # Bubble
  PROVE  Conveyed'
<1> DEFINE s == branch.out[1].stream  target == branch.out[1].target
<1>1. /\ phase = "fetch2" /\ phase' = "fetch1"
      /\ UNCHANGED <<fetch1, decodeIn, decode, executeIn, execute, f1ToF2, f2ToD,
                     dToE, branch>>
      /\ fetch2' = [fetch2 EXCEPT !.streamSeqNum = s, !.thread = Bubble,
                                  !.fetchState = "FetchWaiting"]
      /\ fetch2In' = PopAll(fetch2In)
  BY DEF Fetch2Evaluate, Fetch2Redirect
<1>2. /\ s \in Nat /\ s > Now /\ Now \in Nat /\ fetch2 \in Fetch2State
      /\ branch.in \in Wire(BranchData) /\ decode \in DecodeState
  BY <1>1, Wires, BranchWire DEF Conveyed, StreamsKept, Redirects
<1>3. /\ fetch2'.req = fetch2.req /\ fetch2'.fetchState = "FetchWaiting"
      /\ fetch2'.streamSeqNum = s
  <2> HIDE DEF s
  <2>1. QED BY <1>1, <1>2 DEF Fetch2State
<1>4. /\ f2ToD.in = Bubble /\ f1ToF2.in = Bubble /\ dToE.in = Bubble
      /\ Now' = s /\ NextFetch' = [stream |-> s, pc |-> target]
      /\ FetchDue' = Bubble /\ LineDue' = Bubble /\ InstDue' = Bubble
      /\ decodeIn.queue = <<>> /\ executeIn.queue = <<>>
  <2>1. f2ToD.in = Bubble /\ f1ToF2.in = Bubble
    BY <1>1 DEF Conveyed, StreamsKept, WrittenOnce
  <2>2. dToE.in = Bubble /\ decodeIn.queue = <<>> /\ executeIn.queue = <<>>
    BY <1>1 DEF Conveyed, StreamsKept, Flushed
  <2>3. NextFetch' = [stream |-> s, pc |-> target]
    BY <1>1 DEF NextFetch, Redirected
  <2>4. QED BY <1>1, <1>3, <2>1, <2>2, <2>3 DEF Now, FetchDue, LineDue, InstDue, Due
<1>5. /\ NextFetch'.stream = s /\ NextFetch'.pc = target
  BY <1>4
<1>6. \A n : FirstPc(Bubble, n) = n /\ Linked(Bubble, n) /\ Chained(Bubble, n)
  BY OnWire DEF FirstPc, Bubble
<1> HIDE DEF s, target
<1>7. Settled(fetch2In', FetchesOf(s)) /\ fetch2In'.queue = Bubble
  BY <1>1, PopAllSettled DEF Conveyed, StreamsKept, OneStream, Bubble
<1>8. Settled(decodeIn, LinesOf(s)) /\ Settled(executeIn, InstsOf(s))
  BY <1>4, EmptySettled DEF Conveyed, StreamsKept, OneStream
<1>9. decodeIn.queue = Bubble /\ executeIn.queue = Bubble
  BY <1>4 DEF Bubble
<1>10. decode.lastStreamSeqNum <= Now /\ decode.lastStreamSeqNum \in Nat
  BY <1>2 DEF Conveyed, StreamsKept, OneStream, DecodeState, Stream, FirstStream
<1>11. /\ WordF1' = target /\ WordF1Due' = target /\ WordF2' = target
       /\ WordD' = target /\ WordDDue' = target /\ FirstWord' = target
  BY <1>1, <1>4, <1>5, <1>6, <1>7, <1>9
     DEF WordF1, WordF1Due, WordF2, WordD, WordDDue, FirstWord
<1>12. ~Begun(decode)'
  <2>1. decode.lastStreamSeqNum # s
    BY <1>2, <1>10
  <2>2. QED BY <1>1, <1>4, <2>1 DEF Begun
<1>13. /\ PcD' = target /\ PcDDriven' = target /\ PcDue' = target
       /\ FirstInst' = target
  BY <1>1, <1>4, <1>6, <1>9, <1>11, <1>12
     DEF PcD, PcOf, PcDDriven, PcDue, FirstInst
<1>14. IF branch.in # Bubble
       THEN /\ execute.streamSeqNum = branch.in[1].stream
            /\ execute.expect = branch.in[1].target
            /\ branch.in[1].stream > s /\ execute.streamSeqNum # s
       ELSE execute.streamSeqNum = s /\ execute.expect = target
  <2>1. CASE branch.in # Bubble
    <3>1. /\ execute.streamSeqNum = branch.in[1].stream
          /\ execute.expect = branch.in[1].target
          /\ branch.in[1].stream > s
      BY <2>1 DEF Conveyed, StreamsKept, Redirects, s
    <3>2. branch.in[1].stream \in Nat
      BY <1>2, <2>1, BranchWire
    <3>3. QED BY <1>2, <2>1, <3>1, <3>2
  <2>2. CASE branch.in = Bubble
    BY <2>2 DEF Conveyed, StreamsKept, Redirects, s, target
  <2>3. QED BY <2>1, <2>2
<1>15. StreamsKept'
  <2>1. WrittenOnce'
    BY <1>1, <1>4 DEF Conveyed, StreamsKept, WrittenOnce
  <2>2. OneStream'
    <3>1. \A S : Bubble \in Wire(S)
      BY DEF Wire
    <3>2. decode.lastStreamSeqNum <= s
      BY <1>2, <1>10
    <3>3. QED BY <1>1, <1>4, <1>5, <1>7, <1>8, <3>1, <3>2 DEF OneStream
  <2>3. Flushed'
    BY <1>1, <1>4, <1>7 DEF Flushed, Bubble
  <2>4. Redirects'
    <3>1. execute.draining <=> branch.in # Bubble
      BY <1>1 DEF Conveyed, StreamsKept, Redirects
    <3>2. QED BY <1>1, <1>4, <1>14, <3>1 DEF Redirects, s, target
  <2>5. QED BY <2>1, <2>2, <2>3, <2>4 DEF StreamsKept
<1>16. OneFetch'
  <2>1. \A p \in Request : Allocated(fetch2, p) =>
          fetch2.req[p].stream <= s /\ fetch2.req[p].stream # s
    <3> SUFFICES ASSUME NEW p \in Request, Allocated(fetch2, p)
                 PROVE  fetch2.req[p].stream <= s /\ fetch2.req[p].stream # s
      OBVIOUS
    <3>1. fetch2.req[p].stream <= Now
      BY DEF Conveyed, OneFetch
    <3>2. fetch2.req[p].stream \in Nat
      BY <1>2 DEF Fetch2State, FetchRequest, Stream, FirstStream
    <3>3. QED BY <1>2, <3>1, <3>2
  <2>2. QED BY <1>3, <1>4, <2>1 DEF OneFetch, FetchOfNow, Allocated
<1>17. WordsKept'
  <2>1. WordsLinked'
    BY <1>1, <1>4, <1>6, <1>7, <1>9 DEF WordsLinked
  <2>2. HalfKept'
    BY <1>1 DEF Conveyed, WordsKept, HalfKept, HalfOf
  <2>3. WordNeeded'
    BY <1>12 DEF WordNeeded
  <2>4. QED BY <2>1, <2>2, <2>3 DEF WordsKept
<1>18. InstsChained'
  BY <1>1, <1>4, <1>6, <1>9, <1>13, <1>14 DEF InstsChained
<1>19. QED BY <1>15, <1>16, <1>17, <1>18 DEF Conveyed

(* Otherwise Fetch2 goes on with the word at the front, and what it hands  *)
(* to Decode is that word's line.                                          *)
LEMMA Fetch2StepConveys ==
  ASSUME IInv, Conveyed, Fetch2Evaluate, branch.out = Bubble
  PROVE  Conveyed'
<1> DEFINE F == FetchesOf(Now)  L == LinesOf(Now)
           w == f1ToF2.out  input == SetTail(fetch2In, w)
           Q == Joined(fetch2In.queue, w)
           f == IF fetch2.fetchState = "FetchWaiting"
                THEN [fetch2 EXCEPT !.thread = GetInput(fetch2In)] ELSE fetch2
           start == /\ CanReserve(decodeIn, DecodeBufferSize)
                    /\ InFlight(f) < FetchLimit
                    /\ f.fetchState = "FetchWaiting"
           d == IF start THEN Reserve(decodeIn) ELSE decodeIn
           q == fetch2In'.queue
<1>1. /\ phase = "fetch2" /\ phase' = "fetch1"
      /\ UNCHANGED <<fetch1, decode, executeIn, execute, f1ToF2, dToE, branch>>
      /\ IF f.thread = Bubble
         THEN /\ fetch2' = f
              /\ fetch2In' = PushTail(input)
              /\ UNCHANGED <<decodeIn, f2ToD>>
         ELSE \E immediate, accept, accept2 \in BOOLEAN, fault \in Faults :
                LET g == IF start
                         THEN FetchLine(f, input, immediate, fault, accept)
                         ELSE f
                IN  Respond(StepQueues(g, input, accept2), input, d)
  BY DEF Fetch2Evaluate, Fetch2Step
<1>2. /\ f2ToD.in = Bubble /\ f1ToF2.in = Bubble
      /\ FetchDue = w /\ FetchDue' = Bubble
      /\ LineDue = Bubble /\ LineDue' = Bubble
      /\ InstDue = Bubble /\ InstDue' = Bubble
      /\ NextFetch' = NextFetch
  BY <1>1 DEF Conveyed, StreamsKept, WrittenOnce, FetchDue, LineDue, InstDue,
              Due, NextFetch, Redirected
<1>3. \A n : FirstPc(Bubble, n) = n /\ Linked(Bubble, n) /\ Chained(Bubble, n)
  BY OnWire DEF FirstPc, Bubble
<1>4. /\ Now \in Stream /\ Now \in Nat /\ F2OK(fetch2) /\ fetch2 \in Fetch2State
      /\ f2ToD \in LatchOf(Line)
  BY Wires
<1>5. /\ Settled(fetch2In, F) /\ w \in Wire(F) /\ Settled(decodeIn, L)
  BY <1>2 DEF Conveyed, StreamsKept, OneStream
<1>6. /\ Buffer(input, F) /\ Entries(input) = Q /\ Q \in Seq(F)
      /\ Linked(Q, WordF1) /\ FirstPc(Q, WordF1) = WordF2
  <2>1. fetch2In.queue \in Seq(F)
    BY <1>5, SettledBuffer
  <2>2. Linked(w, WordF1) /\ Linked(fetch2In.queue, FirstPc(w, WordF1))
    BY <1>2 DEF Conveyed, WordsKept, WordsLinked, WordF1Due
  <2>3. WordF2 = FirstPc(fetch2In.queue, FirstPc(w, WordF1))
    BY <1>2 DEF WordF2, WordF1Due
  <2>4. QED BY <1>5, <2>1, <2>2, <2>3, SetTailEntries, LinkedJoined
<1>7. fetch2In.queue # <<>> => Q # <<>> /\ Q[1] = fetch2In.queue[1]
  <2> DEFINE k == fetch2In.queue
  <2>1. k \in Seq(F)
    BY <1>5, SettledBuffer
  <2>2. \A x : k # <<>> => Append(k, x) # <<>> /\ Append(k, x)[1] = k[1]
    BY <2>1
  <2>3. QED BY <2>2 DEF Joined
<1>8. /\ F2OK(f) /\ f \in Fetch2State /\ f.req = fetch2.req
      /\ f.fetchState = fetch2.fetchState /\ f.streamSeqNum = Now
      /\ f.thread = IF fetch2.fetchState = "FetchWaiting"
                    THEN GetInput(fetch2In) ELSE fetch2.thread
  <2>1. CASE fetch2.fetchState = "FetchWaiting"
    <3>1. GetInput(fetch2In) \in Wire(Fetch)
      <4>1. Settled(fetch2In, Fetch) /\ Bubble \in Wire(Fetch)
        BY DEF IInv, BuffersSettled, Wire
      <4>2. QED BY <4>1, FrontIsIn
    <3>2. f = [fetch2 EXCEPT !.thread = GetInput(fetch2In)]
      BY <2>1
    <3> HIDE DEF f
    <3>3. /\ f \in Fetch2State
          /\ f.req = fetch2.req /\ f.requests = fetch2.requests
          /\ f.transfers = fetch2.transfers
          /\ f.itlb = fetch2.itlb /\ f.icache = fetch2.icache
          /\ f.icacheState = fetch2.icacheState /\ f.owesRetry = fetch2.owesRetry
          /\ f.fetchState = fetch2.fetchState
          /\ f.streamSeqNum = fetch2.streamSeqNum
          /\ f.thread = GetInput(fetch2In)
      BY <1>4, <3>1, <3>2 DEF Fetch2State
    <3>4. F2OK(f)
      BY <1>4, <3>3, SameRequests
    <3>5. QED BY <2>1, <3>3, <3>4 DEF Now
  <2>2. CASE fetch2.fetchState # "FetchWaiting"
    <3>1. f = fetch2
      BY <2>2
    <3>2. QED BY <1>4, <2>2, <3>1 DEF Now
  <2>3. QED BY <2>1, <2>2
<1>9. fetch2.fetchState \in {"FetchRunning", "FetchWaiting"}
  BY <1>4 DEF Fetch2State
<1> HIDE DEF f
<1>10. /\ fetch2In.queue = <<>> => f.thread = Bubble /\ f.fetchState # "FetchRunning"
       /\ fetch2In.queue # <<>> =>
            f.thread = <<fetch2In.queue[1]>> /\ f.thread # Bubble
  <2>1. fetch2.fetchState = "FetchRunning" =>
          fetch2In.queue # <<>> /\ fetch2.thread = <<fetch2In.queue[1]>>
    BY DEF Conveyed, OneFetch
  <2>2. fetch2In.elem = Bubble
    BY <1>5, SettledBuffer
  <2>3. \A x : <<x>> # Bubble
    BY DEF Bubble
  <2>4. QED BY <1>8, <1>9, <2>1, <2>2, <2>3 DEF GetInput, IsEmpty, Front
<1>11. Fetching(f, fetch2In.queue)
  <2>1. Fetching(fetch2, fetch2In.queue)
    BY OneFetchIs DEF Conveyed
  <2>2. f.fetchState = "FetchRunning" => f.thread = fetch2.thread
    BY <1>8
  <2>3. \A p \in Request : OutNow(f, p) <=> OutNow(fetch2, p)
    BY <1>8 DEF OutNow, Allocated
  <2>4. QED BY <1>8, <2>1, <2>2, <2>3 DEF Fetching, Allocated
<1>12. /\ Settled(fetch2In', F) /\ Linked(q, WordF1)
       /\ Fetching(fetch2', q) /\ fetch2'.streamSeqNum = Now
       /\ Settled(decodeIn', L) /\ decodeIn'.queue = decodeIn.queue
       /\ f2ToD'.out = f2ToD.out /\ f2ToD'.in \in Wire(L)
       /\ Linked(f2ToD'.in, FirstPc(q, WordF1))
       /\ FirstPc(f2ToD'.in, FirstPc(q, WordF1)) = WordF2
  <2>1. CASE fetch2In.queue = <<>>
    <3>1. /\ fetch2' = f /\ fetch2In' = PushTail(input)
          /\ decodeIn' = decodeIn /\ f2ToD' = f2ToD
      BY <1>1, <1>10, <2>1
    <3>2. Settled(fetch2In', F) /\ q = Q
      <4> HIDE DEF Q, input
      <4>1. QED BY <1>6, <3>1, PushTailEntries
    <3>3. Bubble \in Wire(L)
      BY DEF Wire
    <3>4. Fetching(f, q)
      BY <1>10, <1>11, <2>1 DEF Fetching
    <3> HIDE DEF q, Q, f
    <3>5. QED BY <1>2, <1>3, <1>5, <1>6, <1>8, <3>1, <3>2, <3>3, <3>4
  <2>2. CASE fetch2In.queue # <<>>
    <3>1. /\ f.thread # Bubble /\ f.thread = <<fetch2In.queue[1]>>
          /\ Q # <<>> /\ Q[1] = fetch2In.queue[1]
      BY <1>7, <1>10, <2>2
    <3>2. PICK immediate \in BOOLEAN, accept \in BOOLEAN, accept2 \in BOOLEAN,
               fault \in Faults :
            LET g == IF start
                     THEN FetchLine(f, input, immediate, fault, accept)
                     ELSE f
            IN  Respond(StepQueues(g, input, accept2), input, d)
      BY <1>1, <3>1
    <3> DEFINE g == IF start
                    THEN FetchLine(f, input, immediate, fault, accept)
                    ELSE f
               h == StepQueues(g, input, accept2)
    <3>3. fault \in Fault
      BY DEF Fault
    <3>4. Respond(h, input, d)
      BY <3>2
    <3>5. Settled(d, L) /\ d.queue = decodeIn.queue
      <4>1. CASE start
        BY <1>5, <4>1, ReservationsSettled
      <4>2. CASE ~start
        BY <1>5, <4>2
      <4>3. QED BY <4>1, <4>2
    <3> HIDE DEF input, Q, d
    <3>6. Fetching(f, Q)
      BY <1>11, <2>2, <3>1 DEF Fetching
    <3>7. AtFront(f, Q)
      <4>1. Q[1] \in F
        BY <1>6, <3>1
      <4>2. Q[1].stream = Now
        BY <4>1 DEF FetchesOf
      <4>3. QED BY <3>1, <4>2 DEF AtFront
    <3>8. F2OK(g) /\ g.thread = f.thread /\ Fetching(g, Q)
          /\ g.streamSeqNum = Now
      <4>1. CASE start
        <5>1. f.fetchState = "FetchWaiting" /\ InFlight(f) < FetchLimit
          BY <4>1
        <5> DEFINE k == FetchLine(f, input, immediate, fault, accept)
        <5>2. F2OK(k) /\ k.streamSeqNum = f.streamSeqNum
          BY <1>8, <3>1, <3>3, <5>1, FetchLineKeeps
        <5>3. Fetching(k, Q) /\ k.thread = f.thread
          BY <1>4, <1>8, <3>3, <3>6, <3>7, <5>1, FetchingStarts
        <5>4. g = k
          BY <4>1
        <5> HIDE DEF k
        <5>5. QED BY <1>8, <5>2, <5>3, <5>4
      <4>2. CASE ~start
        <5>1. g = f
          BY <4>2
        <5>2. QED BY <1>8, <3>6, <5>1
      <4>3. QED BY <4>1, <4>2
    <3> HIDE DEF g, start
    <3>9. F2OK(h) /\ SameFetch(g, h) /\ SameOut(g, h)
      BY <3>8, StepQueuesKeeps, StepQueuesKeepsOut
    <3> HIDE DEF h
    <3>10. /\ h.thread # Bubble /\ h.thread = <<Q[1]>> /\ Fetching(h, Q)
           /\ h.streamSeqNum = Now
      BY <3>1, <3>8, <3>9, FetchingMoves DEF SameFetch
    <3>11. /\ Settled(fetch2In', F) /\ Linked(q, WordF1)
           /\ Fetching(fetch2', q)
           /\ Settled(decodeIn', L) /\ decodeIn'.queue = d.queue
           /\ f2ToD'.out = f2ToD.out /\ f2ToD'.in \in Wire(L)
           /\ Linked(f2ToD'.in, FirstPc(q, WordF1))
           /\ FirstPc(f2ToD'.in, FirstPc(q, WordF1)) = FirstPc(Q, WordF1)
      <4>1. /\ Buffer(input, FetchesOf(Now)) /\ AtFront(h, Entries(input))
            /\ Linked(Entries(input), WordF1) /\ Fetching(h, Entries(input))
        BY <1>6, <3>7, <3>8, <3>9, <3>10 DEF AtFront, SameFetch
      <4>2. Settled(d, LinesOf(Now)) /\ h.thread # Bubble
        BY <3>5, <3>10
      <4> DEFINE n == WordF1
      <4> HIDE DEF n, F, L
      <4>3. /\ Settled(fetch2In', FetchesOf(Now)) /\ Linked(q, n)
            /\ Fetching(fetch2', q)
            /\ Settled(decodeIn', LinesOf(Now)) /\ decodeIn'.queue = d.queue
            /\ f2ToD'.out = f2ToD.out /\ f2ToD'.in \in Wire(LinesOf(Now))
            /\ Linked(f2ToD'.in, FirstPc(q, n))
            /\ FirstPc(f2ToD'.in, FirstPc(q, n)) = FirstPc(Entries(input), n)
        BY <1>2, <1>4, <3>4, <3>9, <4>1, <4>2, RespondConveys DEF n
      <4>4. QED BY <1>6, <4>3 DEF n, F, L
    <3>12. fetch2'.streamSeqNum = Now
      <4>1. CASE ~ResponseReady(h)
        BY <3>4, <3>10, <4>1 DEF Respond
      <4>2. CASE ResponseReady(h)
        <5> DEFINE k == PopTransfers(h)
        <5>1. k.streamSeqNum = Now /\ k \in Fetch2State
          BY <3>9, <3>10, <4>2, PopTransfersOut, PopTransfersKeeps DEF F2OK
        <5>2. fetch2' = k \/ fetch2' = [k EXCEPT !.fetchState = "FetchWaiting"]
          BY <3>4, <4>2 DEF Respond
        <5> HIDE DEF k
        <5>3. QED BY <5>1, <5>2 DEF Fetch2State
      <4>3. QED BY <4>1, <4>2
    <3>13. QED BY <1>6, <3>5, <3>11, <3>12
  <2>3. QED BY <2>1, <2>2
<1> HIDE DEF q, Q, input, d, start
<1>13. Now' = Now
  BY <1>12 DEF Now
<1>14. /\ WordF1' = WordF1 /\ WordF1Due' = WordF1 /\ WordF2' = FirstPc(q, WordF1)
       /\ WordD = WordF2 /\ WordD' = WordF2
       /\ WordDDue' = WordDDue /\ FirstWord' = FirstWord
  <2>1. WordF1' = WordF1 /\ WordF1Due' = WordF1
    BY <1>1, <1>2, <1>3 DEF WordF1, WordF1Due
  <2>2. WordF2' = FirstPc(q, WordF1)
    BY <2>1 DEF WordF2, q
  <2>3. WordD = WordF2 /\ WordD' = WordF2
    BY <1>2, <1>3, <1>12, <2>2 DEF WordD
  <2>4. WordDDue' = WordDDue /\ FirstWord' = FirstWord
    BY <1>2, <1>3, <1>12, <2>3 DEF WordDDue, FirstWord
  <2>5. QED BY <2>1, <2>2, <2>3, <2>4
<1>15. /\ PcD' = PcD /\ PcDDriven' = PcDDriven /\ PcDue' = PcDue
       /\ FirstInst' = FirstInst
  BY <1>1, <1>2, <1>13, <1>14 DEF PcD, PcOf, Begun, PcDDriven, PcDue, FirstInst
<1>16. StreamsKept'
  <2>1. WrittenOnce'
    BY <1>1, <1>2 DEF Conveyed, StreamsKept, WrittenOnce
  <2>2. OneStream'
    <3>1. \A S : Bubble \in Wire(S)
      BY DEF Wire
    <3>2. QED BY <1>1, <1>2, <1>12, <1>13, <3>1 DEF Conveyed, StreamsKept, OneStream
  <2>3. Flushed'
    BY <1>1 DEF Flushed
  <2>4. Redirects'
    BY <1>1, <1>13 DEF Conveyed, StreamsKept, Redirects
  <2>5. QED BY <2>1, <2>2, <2>3, <2>4 DEF StreamsKept
<1>17. OneFetch'
  BY <1>12, <1>13 DEF OneFetch, FetchOfNow, Fetching, OutNow, Allocated, q
<1>18. WordsKept'
  <2>1. WordsLinked'
    <3>1. Linked(decodeIn'.queue, WordDDue') /\ Linked(f2ToD'.in, WordF2')
          /\ Linked(q, WordF1Due')
      BY <1>12, <1>14 DEF Conveyed, WordsKept, WordsLinked
    <3>2. QED BY <1>1, <1>2, <1>3, <3>1 DEF WordsLinked, q
  <2>2. HalfKept' /\ WordNeeded'
    BY <1>1, <1>13, <1>14
       DEF Conveyed, WordsKept, HalfKept, HalfOf, WordNeeded, Begun, Needed
  <2>3. QED BY <2>1, <2>2 DEF WordsKept
<1>19. InstsChained'
  BY <1>1, <1>2, <1>13, <1>15 DEF Conveyed, InstsChained
<1>20. QED BY <1>16, <1>17, <1>18, <1>19 DEF Conveyed

(* Fetch2::evaluate.                                                       *)
LEMMA Fetch2Conveys ==
  ASSUME IInv, Conveyed, Fetch2Evaluate
  PROVE  Conveyed'
BY Fetch2RedirectConveys, Fetch2StepConveys
-----------------------------------------------------------------------------
(* It holds in every behaviour.                                            *)

(* An empty buffer is of any type.                                         *)
LEMMA EmptyBufferSettled ==
  ASSUME NEW S
  PROVE  Settled(EmptyBuffer, S) /\ EmptyBuffer.queue = Bubble
<1>1. <<>> \in Seq(S)
  OBVIOUS
<1>2. Bubble \in Wire(S)
  BY DEF Wire
<1>3. QED BY <1>1, <1>2 DEF Settled, BufferOf, EmptyBuffer, Bubble

(* Initially there is nothing on its way, and Fetch1 holds the entry.      *)
LEMMA InitConveyed == Init => Conveyed
<1> SUFFICES ASSUME Init PROVE Conveyed
  OBVIOUS
<1>1. PICK entry \in Addr :
        /\ fetch1 = [stream |-> FirstStream, pc |-> entry]
        /\ execute = [streamSeqNum |-> FirstStream, draining |-> FALSE,
                      issued |-> FALSE, expect |-> entry]
  BY DEF Init
<1>2. /\ phase = "execute" /\ Now = FirstStream /\ NextFetch = fetch1
      /\ fetch1.stream = FirstStream /\ fetch1.pc = entry
      /\ fetch2.fetchState = "FetchWaiting"
      /\ \A p \in Request : fetch2.req[p].state = "NotIssued"
      /\ decode.havePC = FALSE /\ decode.mid = Bubble
      /\ decode.lastStreamSeqNum = FirstStream
      /\ fetch2In = EmptyBuffer /\ decodeIn = EmptyBuffer
      /\ executeIn = EmptyBuffer
  BY <1>1 DEF Init, Now, NextFetch, NoRequest
<1>3. /\ f1ToF2.in = Bubble /\ f2ToD.in = Bubble /\ dToE.in = Bubble
      /\ FetchDue = Bubble /\ LineDue = Bubble /\ InstDue = Bubble
      /\ branch.in = Bubble /\ branch.out = Bubble
  BY DEF Init, EmptyLatch, FetchDue, LineDue, InstDue, Due
<1>4. \A n : FirstPc(Bubble, n) = n /\ Linked(Bubble, n) /\ Chained(Bubble, n)
  BY OnWire DEF FirstPc, Bubble
<1>5. EmptyBuffer.queue = Bubble /\ \A S : Settled(EmptyBuffer, S)
  BY EmptyBufferSettled
<1>6. ~Begun(decode)
  BY <1>2 DEF Begun
<1>7. /\ WordF1 = entry /\ WordF1Due = entry /\ WordF2 = entry
      /\ WordD = entry /\ WordDDue = entry /\ FirstWord = entry
  BY <1>2, <1>3, <1>4, <1>5
     DEF WordF1, WordF1Due, WordF2, WordD, WordDDue, FirstWord
<1>8. FirstInst = entry
  BY <1>2, <1>3, <1>4, <1>5, <1>6, <1>7
     DEF PcD, PcOf, PcDDriven, PcDue, FirstInst
<1>9. StreamsKept
  <2>1. WrittenOnce /\ Flushed
    BY <1>3 DEF WrittenOnce, Flushed
  <2>2. OneStream
    <3>1. \A S : Bubble \in Wire(S)
      BY DEF Wire
    <3>2. FirstStream <= FirstStream
      BY DEF FirstStream
    <3>3. QED BY <1>2, <1>3, <1>5, <3>1, <3>2 DEF OneStream
  <2>3. Redirects
    BY <1>1, <1>2, <1>3 DEF Redirects
  <2>4. QED BY <2>1, <2>2, <2>3 DEF StreamsKept
<1>10. OneFetch
  BY <1>2 DEF OneFetch, FetchOfNow, Allocated
<1>11. WordsKept
  <2>1. WordsLinked
    BY <1>2, <1>3, <1>4, <1>5 DEF WordsLinked
  <2>2. QED BY <1>2, <1>6, <2>1 DEF WordsKept, HalfKept, HalfOf, WordNeeded
<1>12. InstsChained
  BY <1>1, <1>2, <1>3, <1>4, <1>5, <1>8 DEF InstsChained
<1>13. QED BY <1>9, <1>10, <1>11, <1>12 DEF Conveyed

(* Every step keeps it.                                                    *)
LEMMA NextConveys ==
  ASSUME IInv, Conveyed, [Next]_vars
  PROVE  Conveyed'
<1>1. CASE Evaluate
  BY <1>1, ExecuteConveys, DecodeConveys, Fetch2Conveys, Fetch1Conveys,
     ClockConveys DEF Evaluate
<1>2. CASE Callback
  BY <1>2, CallbackConveys
<1>3. CASE UNCHANGED vars
  <2>1. UNCHANGED <<phase, fetch1, fetch2In, fetch2, decodeIn, decode, executeIn,
                    execute, f1ToF2, f2ToD, dToE, branch>>
    BY <1>3 DEF vars
  <2>2. /\ Now' = Now /\ NextFetch' = NextFetch
        /\ FetchDue' = FetchDue /\ LineDue' = LineDue /\ InstDue' = InstDue
    BY <2>1 DEF Now, NextFetch, Redirected, FetchDue, LineDue, InstDue, Due
  <2>3. /\ WordF1' = WordF1 /\ WordF1Due' = WordF1Due /\ WordF2' = WordF2
        /\ WordD' = WordD /\ WordDDue' = WordDDue /\ FirstWord' = FirstWord
    BY <2>1, <2>2 DEF WordF1, WordF1Due, WordF2, WordD, WordDDue, FirstWord
  <2>4. /\ PcD' = PcD /\ PcDDriven' = PcDDriven /\ PcDue' = PcDue
        /\ FirstInst' = FirstInst
    BY <2>1, <2>2, <2>3 DEF PcD, PcOf, Begun, PcDDriven, PcDue, FirstInst
  <2>5. StreamsKept'
    BY <2>1, <2>2
       DEF Conveyed, StreamsKept, WrittenOnce, OneStream, Flushed, Redirects
  <2>6. OneFetch'
    BY <2>1, <2>2 DEF Conveyed, OneFetch, FetchOfNow, Allocated
  <2>7. WordsKept'
    BY <2>1, <2>2, <2>3
       DEF Conveyed, WordsKept, WordsLinked, HalfKept, HalfOf, WordNeeded, Begun,
           Needed
  <2>8. InstsChained'
    BY <2>1, <2>2, <2>4 DEF Conveyed, InstsChained
  <2>9. QED BY <2>5, <2>6, <2>7, <2>8 DEF Conveyed
<1>4. QED BY <1>1, <1>2, <1>3 DEF Next

(* From Fetch1 to Execute the front end conveys one stream: its words      *)
(* follow each other, so do its instructions, each made of its bytes, and  *)
(* Decode is where the ones end and the others start.                      *)
THEOREM ConveysOneStream == Spec => []Conveyed
<1>1. Init => Conveyed
  BY InitConveyed
<1>2. IInv /\ Conveyed /\ [Next]_vars => Conveyed'
  BY NextConveys
<1>3. QED BY <1>1, <1>2, Invariance, PTL DEF Spec
-----------------------------------------------------------------------------
(* What follows from it.                                                   *)

(* Two cycles after a branch everything in the front end is of the stream  *)
(* it has opened.                                                          *)
THEOREM BranchesFlush == Spec => []RedirectFlushes
<1>1. IInv /\ Conveyed => RedirectFlushes
  <2> SUFFICES ASSUME IInv, Conveyed, phase = "execute", branch.out = Bubble,
                      ~execute.draining
               PROVE  LET Old(q) ==
                            \E i \in 1 .. Len(q) : q[i].stream # execute.streamSeqNum
                      IN  /\ ~Old(executeIn.queue) /\ ~Old(dToE.out)
                          /\ ~Old(decodeIn.queue) /\ ~Old(f2ToD.out)
                          /\ ~Old(fetch2In.queue) /\ ~Old(f1ToF2.out)
                          /\ fetch1.stream = execute.streamSeqNum
                          /\ fetch2.streamSeqNum = execute.streamSeqNum
    BY DEF RedirectFlushes
  <2>1. execute.streamSeqNum = Now /\ fetch2.streamSeqNum = Now /\ branch.in = Bubble
    BY DEF Conveyed, StreamsKept, Redirects, WrittenOnce, Now
  <2>2. ASSUME NEW S, NEW q \in Seq(S) \cup Wire(S), \A x \in S : x.stream = Now
        PROVE  \A i \in 1 .. Len(q) : q[i].stream = Now
    <3>1. CASE q \in Seq(S)
      BY <2>2, <3>1
    <3>2. CASE q \in Wire(S)
      <4>1. CASE q = <<>>
        BY <4>1
      <4>2. CASE q # <<>>
        <5>1. PICK x \in S : q = <<x>>
          BY <3>2, <4>2 DEF Wire, Bubble
        <5>2. Len(q) = 1 /\ q[1] = x
          BY <5>1
        <5>3. \A i \in 1 .. Len(q) : i = 1
          BY <5>2
        <5>4. QED BY <2>2, <5>2, <5>3
      <4>3. QED BY <4>1, <4>2
    <3>3. QED BY <3>1, <3>2
  <2>3. /\ \A x \in InstsOf(Now) : x.stream = Now
        /\ \A x \in LinesOf(Now) : x.stream = Now
        /\ \A x \in FetchesOf(Now) : x.stream = Now
    BY DEF InstsOf, LinesOf, FetchesOf
  <2>4. /\ executeIn.queue \in Seq(InstsOf(Now)) /\ dToE.out \in Wire(InstsOf(Now))
        /\ decodeIn.queue \in Seq(LinesOf(Now)) /\ f2ToD.out \in Wire(LinesOf(Now))
        /\ fetch2In.queue \in Seq(FetchesOf(Now))
        /\ f1ToF2.out \in Wire(FetchesOf(Now))
    <3>1. /\ InstDue = dToE.out /\ LineDue = f2ToD.out /\ FetchDue = f1ToF2.out
      BY DEF InstDue, LineDue, FetchDue, Due
    <3>2. QED BY <3>1, SettledBuffer DEF Conveyed, StreamsKept, OneStream
  <2>5. fetch1.stream = Now
    BY DEF Conveyed, StreamsKept, OneStream, NextFetch
  <2>6. /\ \A i \in 1 .. Len(executeIn.queue) : executeIn.queue[i].stream = Now
        /\ \A i \in 1 .. Len(dToE.out) : dToE.out[i].stream = Now
        /\ \A i \in 1 .. Len(decodeIn.queue) : decodeIn.queue[i].stream = Now
        /\ \A i \in 1 .. Len(f2ToD.out) : f2ToD.out[i].stream = Now
        /\ \A i \in 1 .. Len(fetch2In.queue) : fetch2In.queue[i].stream = Now
        /\ \A i \in 1 .. Len(f1ToF2.out) : f1ToF2.out[i].stream = Now
    BY <2>2, <2>3, <2>4
  <2>7. QED BY <2>1, <2>5, <2>6
<1>2. QED BY <1>1, ConveysOneStream, Invariance, PTL

(* The line being fetched is the one at the front of Fetch2's input, and   *)
(* exactly one request is out for it.                                      *)
THEOREM FetchesTheFront == Spec => []FetchIsForFront
<1>1. IInv /\ Conveyed => FetchIsForFront
  <2> SUFFICES ASSUME IInv, Conveyed, fetch2.fetchState = "FetchRunning"
               PROVE  /\ ~IsEmpty(fetch2In)
                      /\ fetch2.thread = <<Front(fetch2In)>>
                      /\ Cardinality({p \in Request :
                           /\ fetch2.req[p].state # "NotIssued"
                           /\ fetch2.req[p].stream = Front(fetch2In).stream
                           /\ fetch2.req[p].pc = Front(fetch2In).pc}) = 1
    BY DEF FetchIsForFront
  <2> DEFINE x == fetch2In.queue[1]
  <2>1. /\ fetch2In.queue # <<>> /\ fetch2.thread = <<x>>
        /\ \E p \in Request : FetchOfNow(p)
    BY DEF Conveyed, OneFetch
  <2>2. fetch2In.elem = Bubble /\ fetch2In.queue \in Seq(FetchesOf(Now))
    BY SettledBuffer DEF Conveyed, StreamsKept, OneStream
  <2>3. Front(fetch2In) = x /\ ~IsEmpty(fetch2In)
    BY <2>1, <2>2 DEF Front, IsEmpty
  <2>4. x.stream = Now
    <3>1. x \in FetchesOf(Now)
      BY <2>1, <2>2
    <3>2. QED BY <3>1 DEF FetchesOf
  <2>5. PICK p \in Request : FetchOfNow(p)
    BY <2>1
  <2>6. fetch2.req[p].pc = x.pc /\ \A q \in Request : FetchOfNow(q) => q = p
    BY <2>5 DEF Conveyed, OneFetch
  <2> HIDE DEF x
  <2> DEFINE P == {q \in Request : /\ fetch2.req[q].state # "NotIssued"
                                   /\ fetch2.req[q].stream = Front(fetch2In).stream
                                   /\ fetch2.req[q].pc = Front(fetch2In).pc}
  <2>7. P = {p}
    BY <2>3, <2>4, <2>5, <2>6 DEF FetchOfNow, Allocated
  <2>8. Cardinality({p}) = 1
    BY FS_Singleton
  <2>9. QED BY <2>1, <2>3, <2>7, <2>8
<1>2. QED BY <1>1, ConveysOneStream, Invariance, PTL

(* An instruction that waits for Execute is made of the bytes at its pc.   *)
THEOREM InstructionsAreTheirBytes == Spec => []BytesAreAtPc
<1>1. IInv /\ Conveyed => BytesAreAtPc
  <2> SUFFICES ASSUME IInv, Conveyed, NEW i \in 1 .. Len(executeIn.queue),
                      ~executeIn.queue[i].fault
               PROVE  MadeOfItsBytes(executeIn.queue[i])
    BY DEF BytesAreAtPc, MadeOfItsBytes
  <2>1. executeIn.queue \in Seq(InstsOf(Now))
    BY SettledBuffer DEF Conveyed, StreamsKept, OneStream
  <2>2. executeIn.queue[i] \in InstsOf(Now)
    BY <2>1
  <2>3. QED BY <2>2 DEF InstsOf
<1>2. QED BY <1>1, ConveysOneStream, Invariance, PTL
-----------------------------------------------------------------------------
(* The front end implements the abstract instruction stream.               *)

(* Where the instruction after one of the stream is.                       *)
LEMMA FollowerIs ==
  ASSUME NEW x \in InstsOf(Now), Follower(x) # AnyPc
  PROVE  Follower(x) = InstStreamImpl!Following(x.pc)
<1>1. ~x.fault /\ MadeOfItsBytes(x) /\ Follower(x) = After(x.pc, Len(x.bytes))
  BY DEF InstsOf, Follower
<1> DEFINE n == Length(x.pc)  b == [k \in 1 .. n |-> After(x.pc, k - 1)]
<1>2. n \in Nat
  BY DEF Length
<1> HIDE DEF n
<1>3. Len(b) = n
  BY <1>2
<1>4. x.bytes = b
  BY <1>1 DEF MadeOfItsBytes, n
<1> HIDE DEF b
<1>5. Follower(x) = After(x.pc, n)
  BY <1>1, <1>3, <1>4
<1>6. QED BY <1>5 DEF n, Length, After, InstStreamImpl!Following

(* A step of Execute delivers the next instruction of the stream, opens a  *)
(* later stream, or changes neither.                                       *)
LEMMA ExecuteRefines ==
  ASSUME IInv, Conveyed, NEW consume \in BOOLEAN, ExecuteEvaluate(consume)
  PROVE  [InstStreamImpl!Next]_<<execute.streamSeqNum, execute.expect>>
<1> DEFINE S == InstsOf(Now)  b == SetTail(executeIn, dToE.out)
           c == ExecuteInput  E == Joined(executeIn.queue, dToE.out)
           e == [execute EXCEPT !.draining = FALSE]
           e1 == IF consume THEN Consume(e, Front(c)) ELSE e
<1>1. /\ phase = "execute"
      /\ consume => ~IsEmpty(c)
      /\ \/ execute' = e1
         \/ \E taken \in BranchData :
              /\ taken.stream > execute.streamSeqNum
              /\ execute' = TakeBranch(e1, taken)
  BY DEF ExecuteEvaluate
<1>2. /\ InstDue = dToE.out /\ dToE.in = Bubble /\ branch.in = Bubble
  BY <1>1 DEF InstDue, Due, Conveyed, StreamsKept, WrittenOnce
<1>3. /\ execute \in [streamSeqNum : Stream, draining : BOOLEAN,
                      issued : BOOLEAN, expect : Addr \cup {AnyPc}]
      /\ execute' \in [streamSeqNum : Stream, draining : BOOLEAN,
                       issued : BOOLEAN, expect : Addr \cup {AnyPc}]
  BY ExecuteKeeps DEF IInv, StagesTyped
<1>4. /\ execute.draining <=> branch.out # Bubble
      /\ branch.out = Bubble => execute.streamSeqNum = Now
  BY <1>1, <1>2 DEF Conveyed, StreamsKept, Redirects
<1>5. /\ Buffer(b, S) /\ Entries(b) = E /\ E \in Seq(S)
      /\ FirstPc(E, PcDDriven) = FirstInst
  <2>1. Settled(executeIn, S) /\ dToE.out \in Wire(S)
    BY <1>2 DEF Conveyed, StreamsKept, OneStream
  <2>2. executeIn.queue \in Seq(S)
    BY <2>1, SettledBuffer
  <2>3. Chained(dToE.out, PcDDriven)
        /\ Chained(executeIn.queue, FirstPc(dToE.out, PcDDriven))
    BY <1>2 DEF Conveyed, InstsChained, PcDue
  <2>4. FirstInst = FirstPc(executeIn.queue, FirstPc(dToE.out, PcDDriven))
    BY <1>2 DEF FirstInst, PcDue
  <2>5. QED BY <2>1, <2>2, <2>3, <2>4, SetTailEntries, ChainedJoined
<1>6. consume => /\ branch.out = Bubble /\ c = b /\ E # <<>>
                 /\ Front(c) = E[1] /\ E[1] \in S
  <2> SUFFICES ASSUME consume
               PROVE  /\ branch.out = Bubble /\ c = b /\ E # <<>>
                      /\ Front(c) = E[1] /\ E[1] \in S
    OBVIOUS
  <2>1. branch.out = Bubble /\ c = b
    <3>1. ExecuteInput = IF execute.draining THEN PopAll(b) ELSE b
      BY DEF ExecuteInput
    <3>2. Buffer(PopAll(b), S) /\ Entries(PopAll(b)) = <<>>
      BY <1>5, PopAllEntries
    <3> HIDE DEF b, c, E
    <3>3. IsEmpty(PopAll(b))
      BY <3>2, FrontOfEntries
    <3>4. QED BY <1>1, <1>4, <3>1, <3>3 DEF c
  <2> HIDE DEF b, c, E
  <2>2. E # <<>> /\ Front(b) = E[1]
    BY <1>1, <1>5, <2>1, FrontOfEntries
  <2>3. QED BY <1>5, <2>1, <2>2
<1> DEFINE x == E[1]  next == Follower(x)
<1>7. consume => x.stream = execute.streamSeqNum
                 /\ execute.expect \in {AnyPc, x.pc}
                 /\ next \in {AnyPc, InstStreamImpl!Following(x.pc)}
  <2> SUFFICES ASSUME consume
               PROVE  x.stream = execute.streamSeqNum
                      /\ execute.expect \in {AnyPc, x.pc}
                      /\ next \in {AnyPc, InstStreamImpl!Following(x.pc)}
    OBVIOUS
  <2>1. branch.out = Bubble /\ x \in S /\ E # <<>>
    BY <1>6
  <2>2. FirstInst = x.pc
    BY <1>5, <2>1 DEF FirstPc
  <2> HIDE DEF x, E
  <2>3. x.stream = Now
    BY <2>1 DEF InstsOf
  <2>4. execute.expect \in {AnyPc, FirstInst}
    BY <1>4, <2>1 DEF Conveyed, InstsChained
  <2>5. QED BY <1>4, <2>1, <2>2, <2>3, <2>4, FollowerIs
<1>8. /\ e1.streamSeqNum = execute.streamSeqNum
      /\ e1.expect = IF consume THEN next ELSE execute.expect
      /\ e1 \in [streamSeqNum : Stream, draining : BOOLEAN, issued : BOOLEAN,
                 expect : Addr \cup {AnyPc, next}]
  <2>1. /\ e.streamSeqNum = execute.streamSeqNum /\ e.expect = execute.expect
        /\ e \in [streamSeqNum : Stream, draining : BOOLEAN,
                  issued : BOOLEAN, expect : Addr \cup {AnyPc}]
    BY <1>3
  <2>2. CASE ~consume
    <3>1. e1 = e
      BY <2>2
    <3> HIDE DEF e, e1, next
    <3>2. QED BY <2>1, <2>2, <3>1
  <2>3. CASE consume
    <3>1. e1 = Consume(e, x) /\ x.stream = e.streamSeqNum
      BY <1>6, <1>7, <2>1, <2>3
    <3> HIDE DEF x
    <3>2. e1 = [e EXCEPT !.issued = e.issued \/ ~x.fault, !.expect = next]
      BY <3>1 DEF Consume, Follower
    <3>3. (e.issued \/ ~x.fault) \in BOOLEAN
      OBVIOUS
    <3> HIDE DEF next, e, e1
    <3>4. QED BY <2>1, <2>3, <3>2, <3>3
  <2>4. QED BY <2>2, <2>3
<1> HIDE DEF b, c, e, E, x, next, e1
<1>9. CASE execute' = e1 /\ ~consume
  <2>1. execute'.streamSeqNum = execute.streamSeqNum
        /\ execute'.expect = execute.expect
    BY <1>8, <1>9
  <2>2. QED BY <2>1
<1>10. CASE execute' = e1 /\ consume
  <2>1. /\ execute'.streamSeqNum = execute.streamSeqNum
        /\ execute'.expect = next
    BY <1>8, <1>10
  <2>2. execute'.expect \in Addr \cup {AnyPc}
    BY <1>3
  <2>3. InstStreamImpl!Addr = Addr /\ InstStreamImpl!AnyPc = AnyPc
    BY DEF Addr, AnyPc, InstStreamImpl!Addr, InstStreamImpl!AnyPc
  <2>4. InstStreamImpl!Deliver
    BY <1>7, <1>10, <2>1, <2>2, <2>3 DEF InstStreamImpl!Deliver
  <2>5. QED BY <2>4 DEF InstStreamImpl!Next
<1>11. CASE \E taken \in BranchData :
              /\ taken.stream > execute.streamSeqNum
              /\ execute' = TakeBranch(e1, taken)
  <2>1. PICK taken \in BranchData : /\ taken.stream > execute.streamSeqNum
                                    /\ execute' = TakeBranch(e1, taken)
    BY <1>11
  <2>2. execute' = [e1 EXCEPT !.streamSeqNum = taken.stream,
                              !.draining = TRUE, !.expect = taken.target]
    BY <2>1 DEF TakeBranch
  <2>3. execute'.streamSeqNum = taken.stream /\ execute'.expect = taken.target
    BY <1>8, <2>2
  <2>4. taken.stream \in Stream /\ taken.target \in Addr
    BY <2>1 DEF BranchData
  <2>5. taken.stream \in (execute.streamSeqNum + 1) .. MaxStream
    <3>1. execute.streamSeqNum \in Nat /\ MaxStream \in Nat
      BY <1>3, FrontEndAssumption DEF Stream, FirstStream
    <3>2. QED BY <2>1, <2>4, <3>1 DEF Stream, FirstStream
  <2>6. InstStreamImpl!Addr = Addr
    BY DEF Addr, InstStreamImpl!Addr
  <2>7. InstStreamImpl!Branch
    BY <2>3, <2>4, <2>5, <2>6 DEF InstStreamImpl!Branch
  <2>8. QED BY <2>7 DEF InstStreamImpl!Next
<1>12. QED BY <1>1, <1>9, <1>10, <1>11

(* The other steps leave the stream and the next pc as they are.           *)
LEMMA NextRefines ==
  ASSUME IInv, Conveyed, [Next]_vars
  PROVE  [InstStreamImpl!Next]_<<execute.streamSeqNum, execute.expect>>
<1>1. CASE \E consume \in BOOLEAN : ExecuteEvaluate(consume)
  BY <1>1, ExecuteRefines
<1>2. CASE DecodeEvaluate \/ Fetch2Evaluate \/ Fetch1Evaluate \/ ClockLatches
  <2>1. execute' = execute
    BY <1>2 DEF DecodeEvaluate, Fetch2Evaluate, Fetch1Evaluate, ClockLatches
  <2>2. QED BY <2>1
<1>3. CASE Callback
  <2>1. execute' = execute
    BY <1>3 DEF Callback, ItlbFinish, RecvTimingResp, RecvReqRetry
  <2>2. QED BY <2>1
<1>4. CASE UNCHANGED vars
  <2>1. execute' = execute
    BY <1>4 DEF vars
  <2>2. QED BY <2>1
<1>5. QED BY <1>1, <1>2, <1>3, <1>4 DEF Next, Evaluate

(* Every instruction issue() accepts is the next one of the current        *)
(* stream: none is missing, repeated or of an older stream, for every      *)
(* program, capacity and timing of the ITLB and the instruction cache.     *)
THEOREM StreamIsImplemented == Spec => ImplementsInstStream
<1>1. Init => InstStreamImpl!Init
  BY DEF Init, FirstStream, InstStreamImpl!Init, Addr, InstStreamImpl!Addr
<1>2. IInv /\ Conveyed /\ [Next]_vars =>
        [InstStreamImpl!Next]_<<execute.streamSeqNum, execute.expect>>
  BY NextRefines
<1>3. QED
  BY <1>1, <1>2, Invariance, ConveysOneStream, PTL
     DEF Spec, ImplementsInstStream, InstStreamImpl!Spec
-----------------------------------------------------------------------------
(* The current stream has no gap, no repetition and no swap.               *)

(* Fetch1 keeps the pc of the stream a branch has ended until it evaluates *)
(* itself, and Decode remembers that stream until a line of the new one.   *)
Behind ==
  phase = "fetch1" /\ branch.out # Bubble =>
    fetch1.stream < Now /\ decode.lastStreamSeqNum < Now

(* Only the step of Fetch2 that hears of a branch can establish it.        *)
LEMMA NextBehind ==
  ASSUME IInv, Conveyed, Behind, [Next]_vars
  PROVE  Behind'
<1>1. CASE Fetch2Evaluate /\ branch.out # Bubble
  <2> DEFINE s == branch.out[1].stream
  <2>1. /\ phase = "fetch2" /\ UNCHANGED <<fetch1, decode>>
        /\ fetch2' = [fetch2 EXCEPT !.streamSeqNum = s, !.thread = Bubble,
                                    !.fetchState = "FetchWaiting"]
    BY <1>1 DEF Fetch2Evaluate, Fetch2Redirect
  <2>2. s > Now /\ fetch1.stream = Now /\ decode.lastStreamSeqNum <= Now
    BY <1>1, <2>1
       DEF Conveyed, StreamsKept, OneStream, NextFetch, Redirects
  <2>3. s \in Nat /\ Now \in Nat /\ fetch2 \in Fetch2State /\ decode \in DecodeState
    BY <1>1, Wires, BranchWire
  <2>4. decode.lastStreamSeqNum \in Nat
    BY <2>3 DEF DecodeState, Stream, FirstStream
  <2> HIDE DEF s
  <2>5. Now' = s
    BY <2>1, <2>3 DEF Now, Fetch2State
  <2>6. QED BY <2>1, <2>2, <2>3, <2>4, <2>5 DEF Behind
<1>2. CASE Fetch2Evaluate /\ branch.out = Bubble
  BY <1>2 DEF Fetch2Evaluate, Behind
<1>3. CASE Evaluate /\ ~Fetch2Evaluate
  <2>1. phase' # "fetch1"
    BY <1>3 DEF Evaluate, ExecuteEvaluate, DecodeEvaluate, Fetch1Evaluate,
                ClockLatches
  <2>2. QED BY <2>1 DEF Behind
<1>4. CASE Callback
  BY <1>4 DEF Callback, ItlbFinish, RecvTimingResp, RecvReqRetry, Behind
<1>5. CASE UNCHANGED vars
  BY <1>5 DEF vars, Behind, Now
<1>6. QED BY <1>1, <1>2, <1>3, <1>4, <1>5 DEF Next

(* A wire of elements of S is a sequence of them.                          *)
LEMMA WireIsSeq ==
  ASSUME NEW S, NEW w \in Wire(S)
  PROVE  w \in Seq(S)
<1>1. <<>> \in Seq(S) /\ \A x \in S : <<x>> \in Seq(S)
  OBVIOUS
<1>2. QED BY <1>1 DEF Wire, Bubble

(* Words that follow each other up to words that follow each other.        *)
LEMMA LinkedConcat ==
  ASSUME NEW S, NEW p \in Seq(S), NEW q \in Seq(S), NEW n,
         Linked(q, n), Linked(p, FirstPc(q, n))
  PROVE  /\ p \o q \in Seq(S) /\ Linked(p \o q, n)
         /\ FirstPc(p \o q, n) = FirstPc(p, FirstPc(q, n))
<1> DEFINE r == p \o q
<1>1. /\ r \in Seq(S) /\ Len(r) = Len(p) + Len(q)
      /\ \A i \in 1 .. Len(p) + Len(q) :
           r[i] = IF i <= Len(p) THEN p[i] ELSE q[i - Len(p)]
  BY ConcatProperties
<1>2. p = <<>> <=> Len(p) = 0
  OBVIOUS
<1>3. q = <<>> <=> Len(q) = 0
  OBVIOUS
<1>4. r = <<>> <=> Len(r) = 0
  BY <1>1
<1>5. Len(p) \in Nat /\ Len(q) \in Nat
  OBVIOUS
<1> HIDE DEF r
<1>6. FirstPc(r, n) = FirstPc(p, FirstPc(q, n))
  BY <1>1, <1>2, <1>3, <1>4, <1>5 DEF FirstPc
<1>7. Linked(r, n)
  <2> SUFFICES ASSUME NEW i \in 1 .. Len(r)
               PROVE  NextPc(r[i].pc) = (IF i = Len(r) THEN n ELSE r[i + 1].pc)
    BY DEF Linked
  <2>1. CASE i <= Len(p)
    <3>1. /\ i \in 1 .. Len(p) /\ r[i] = p[i]
          /\ NextPc(p[i].pc) = (IF i = Len(p) THEN FirstPc(q, n) ELSE p[i + 1].pc)
      BY <1>1, <1>5, <2>1 DEF Linked
    <3>2. CASE i < Len(p)
      <4>1. r[i + 1] = p[i + 1] /\ i # Len(r)
        BY <1>1, <1>5, <3>1, <3>2
      <4>2. QED BY <3>1, <3>2, <4>1
    <3>3. CASE i = Len(p) /\ q = <<>>
      BY <1>1, <1>3, <1>5, <3>1, <3>3 DEF FirstPc
    <3>4. CASE i = Len(p) /\ q # <<>>
      <4>1. /\ i + 1 \in 1 .. Len(p) + Len(q) /\ ~(i + 1 <= Len(p))
            /\ i + 1 - Len(p) = 1 /\ i # Len(r)
        BY <1>1, <1>3, <1>5, <3>4
      <4>2. r[i + 1] = q[1]
        BY <1>1, <4>1
      <4>3. QED BY <3>1, <3>4, <4>1, <4>2 DEF FirstPc
    <3>5. QED BY <1>5, <2>1, <3>2, <3>3, <3>4
  <2>2. CASE i > Len(p)
    <3> DEFINE j == i - Len(p)
    <3>1. j \in 1 .. Len(q) /\ r[i] = q[j] /\ (i = Len(r) <=> j = Len(q))
      BY <1>1, <1>5, <2>2
    <3>2. NextPc(q[j].pc) = (IF j = Len(q) THEN n ELSE q[j + 1].pc)
      BY <3>1 DEF Linked
    <3>3. i # Len(r) => r[i + 1] = q[j + 1]
      BY <1>1, <1>5, <2>2
    <3> HIDE DEF j
    <3>4. QED BY <3>1, <3>2, <3>3
  <2>3. QED BY <1>5, <2>1, <2>2
<1>8. QED BY <1>1, <1>6, <1>7 DEF r

(* Instructions that lead to instructions.                                 *)
LEMMA ChainedConcat ==
  ASSUME NEW S, NEW p \in Seq(S), NEW q \in Seq(S), NEW n,
         Chained(q, n), Chained(p, FirstPc(q, n))
  PROVE  /\ p \o q \in Seq(S) /\ Chained(p \o q, n)
         /\ FirstPc(p \o q, n) = FirstPc(p, FirstPc(q, n))
<1> DEFINE r == p \o q
<1>1. /\ r \in Seq(S) /\ Len(r) = Len(p) + Len(q)
      /\ \A i \in 1 .. Len(p) + Len(q) :
           r[i] = IF i <= Len(p) THEN p[i] ELSE q[i - Len(p)]
  BY ConcatProperties
<1>2. p = <<>> <=> Len(p) = 0
  OBVIOUS
<1>3. q = <<>> <=> Len(q) = 0
  OBVIOUS
<1>4. r = <<>> <=> Len(r) = 0
  BY <1>1
<1>5. Len(p) \in Nat /\ Len(q) \in Nat
  OBVIOUS
<1> HIDE DEF r
<1>6. FirstPc(r, n) = FirstPc(p, FirstPc(q, n))
  BY <1>1, <1>2, <1>3, <1>4, <1>5 DEF FirstPc
<1>7. Chained(r, n)
  <2> SUFFICES ASSUME NEW i \in 1 .. Len(r)
               PROVE  Follower(r[i]) \in
                        {AnyPc, IF i = Len(r) THEN n ELSE r[i + 1].pc}
    BY DEF Chained
  <2>1. CASE i <= Len(p)
    <3>1. /\ i \in 1 .. Len(p) /\ r[i] = p[i]
          /\ Follower(p[i]) \in
               {AnyPc, IF i = Len(p) THEN FirstPc(q, n) ELSE p[i + 1].pc}
      BY <1>1, <1>5, <2>1 DEF Chained
    <3>2. CASE i < Len(p)
      <4>1. r[i + 1] = p[i + 1] /\ i # Len(r)
        BY <1>1, <1>5, <3>1, <3>2
      <4>2. QED BY <3>1, <3>2, <4>1
    <3>3. CASE i = Len(p) /\ q = <<>>
      BY <1>1, <1>3, <1>5, <3>1, <3>3 DEF FirstPc
    <3>4. CASE i = Len(p) /\ q # <<>>
      <4>1. /\ i + 1 \in 1 .. Len(p) + Len(q) /\ ~(i + 1 <= Len(p))
            /\ i + 1 - Len(p) = 1 /\ i # Len(r)
        BY <1>1, <1>3, <1>5, <3>4
      <4>2. r[i + 1] = q[1]
        BY <1>1, <4>1
      <4>3. QED BY <3>1, <3>4, <4>1, <4>2 DEF FirstPc
    <3>5. QED BY <1>5, <2>1, <3>2, <3>3, <3>4
  <2>2. CASE i > Len(p)
    <3> DEFINE j == i - Len(p)
    <3>1. j \in 1 .. Len(q) /\ r[i] = q[j] /\ (i = Len(r) <=> j = Len(q))
      BY <1>1, <1>5, <2>2
    <3>2. Follower(q[j]) \in {AnyPc, IF j = Len(q) THEN n ELSE q[j + 1].pc}
      BY <3>1 DEF Chained
    <3>3. i # Len(r) => r[i + 1] = q[j + 1]
      BY <1>1, <1>5, <2>2
    <3> HIDE DEF j
    <3>4. QED BY <3>1, <3>2, <3>3
  <2>3. QED BY <1>5, <2>1, <2>2
<1>8. QED BY <1>1, <1>6, <1>7 DEF r

(* What there is between Fetch1 and Decode.                                *)
WordOf == LinesOf(Now) \cup FetchesOf(Now) \cup {fetch1}

(* The words from Decode's input to Fetch1's pc follow each other.         *)
LEMMA WordsOnTheWay ==
  ASSUME IInv, Conveyed
  PROVE  /\ Words \in Seq(WordOf)
         /\ Words # <<>> /\ Len(Words) \in Nat \ {0}
         /\ NextFetch = fetch1 => /\ Linked(Words, NextPc(fetch1.pc))
                                  /\ Words[1].pc = FirstWord
         /\ phase = "fetch1" /\ branch.out # Bubble => Words = <<fetch1>>
<1> DEFINE T == WordOf
           q1 == decodeIn.queue  q2 == LineDue  q3 == f2ToD.in
           q4 == fetch2In.queue  q5 == FetchDue  q6 == f1ToF2.in
           q7 == <<fetch1>>
<1>1. /\ q1 \in Seq(T) /\ q2 \in Seq(T) /\ q3 \in Seq(T) /\ q4 \in Seq(T)
      /\ q5 \in Seq(T) /\ q6 \in Seq(T) /\ q7 \in Seq(T)
      /\ decodeIn.elem = Bubble /\ fetch2In.elem = Bubble
  <2>1. /\ LinesOf(Now) \subseteq T /\ FetchesOf(Now) \subseteq T /\ fetch1 \in T
    BY DEF WordOf
  <2> HIDE DEF T
  <2>2. /\ q1 \in Seq(LinesOf(Now)) /\ decodeIn.elem = Bubble
        /\ q4 \in Seq(FetchesOf(Now)) /\ fetch2In.elem = Bubble
    BY SettledBuffer DEF Conveyed, StreamsKept, OneStream
  <2>3. /\ q2 \in Seq(LinesOf(Now)) /\ q3 \in Seq(LinesOf(Now))
        /\ q5 \in Seq(FetchesOf(Now)) /\ q6 \in Seq(FetchesOf(Now))
    BY WireIsSeq DEF Conveyed, StreamsKept, OneStream
  <2>4. q7 \in Seq(T)
    BY <2>1
  <2>5. /\ \A q \in Seq(LinesOf(Now)) : q \in Seq(T)
        /\ \A q \in Seq(FetchesOf(Now)) : q \in Seq(T)
    BY <2>1, SeqMonotonic
  <2>6. QED BY <2>2, <2>3, <2>4, <2>5
<1>2. Words = q1 \o q2 \o q3 \o q4 \o q5 \o q6 \o q7
  <2>1. Contents(decodeIn) = q1 /\ Contents(fetch2In) = q4
    BY <1>1, ConcatEmptySeq DEF Contents, Bubble
  <2>2. QED BY <2>1 DEF Words
<1> DEFINE w2 == q1 \o q2  w3 == w2 \o q3  w4 == w3 \o q4  w5 == w4 \o q5
           w6 == w5 \o q6  w7 == w6 \o q7
<1>3. /\ WordsLinked
      /\ q1 # <<>> \/ q1 = Bubble
  BY DEF Conveyed, WordsKept, Bubble
<1>4. /\ Linked(q6, NextFetch.pc) /\ Linked(q5, WordF1) /\ Linked(q4, WordF1Due)
      /\ Linked(q3, WordF2) /\ Linked(q2, WordD) /\ Linked(q1, WordDDue)
  BY <1>3 DEF WordsLinked
<1>5. /\ WordF1 = FirstPc(q6, NextFetch.pc) /\ WordF1Due = FirstPc(q5, WordF1)
      /\ WordF2 = FirstPc(q4, WordF1Due) /\ WordD = FirstPc(q3, WordF2)
      /\ WordDDue = FirstPc(q2, WordD) /\ FirstWord = FirstPc(q1, WordDDue)
  BY DEF WordF1, WordF1Due, WordF2, WordD, WordDDue, FirstWord
<1>6. phase = "fetch1" /\ branch.out # Bubble =>
        /\ q1 = <<>> /\ q2 = <<>> /\ q3 = <<>> /\ q4 = <<>> /\ q5 = <<>>
        /\ q6 = <<>>
  BY DEF Conveyed, StreamsKept, WrittenOnce, Flushed, LineDue, FetchDue, Due,
         Bubble
<1>7. /\ Linked(q7, NextPc(fetch1.pc))
      /\ FirstPc(q7, NextPc(fetch1.pc)) = fetch1.pc
  <2>1. Len(q7) = 1 /\ q7[1] = fetch1 /\ q7 # <<>>
    OBVIOUS
  <2> HIDE DEF q7
  <2>2. QED BY <2>1 DEF Linked, FirstPc
<1>8. q7 # <<>> /\ Len(q7) = 1
  OBVIOUS
<1> HIDE DEF T, q1, q2, q3, q4, q5, q6, q7
<1>9. w2 \in Seq(T) /\ Linked(w2, WordD) /\ FirstPc(w2, WordD) = FirstWord
  BY <1>1, <1>4, <1>5, LinkedConcat
<1> HIDE DEF w2
<1>10. w3 \in Seq(T) /\ Linked(w3, WordF2) /\ FirstPc(w3, WordF2) = FirstWord
  BY <1>1, <1>4, <1>5, <1>9, LinkedConcat
<1> HIDE DEF w3
<1>11. /\ w4 \in Seq(T) /\ Linked(w4, WordF1Due)
       /\ FirstPc(w4, WordF1Due) = FirstWord
  BY <1>1, <1>4, <1>5, <1>10, LinkedConcat
<1> HIDE DEF w4
<1>12. w5 \in Seq(T) /\ Linked(w5, WordF1) /\ FirstPc(w5, WordF1) = FirstWord
  BY <1>1, <1>4, <1>5, <1>11, LinkedConcat
<1> HIDE DEF w5
<1>13. /\ w6 \in Seq(T) /\ Linked(w6, NextFetch.pc)
       /\ FirstPc(w6, NextFetch.pc) = FirstWord
  BY <1>1, <1>4, <1>5, <1>12, LinkedConcat
<1> HIDE DEF w6
<1>14. w7 \in Seq(T) /\ w7 # <<>> /\ Len(w7) \in Nat \ {0}
  <2>1. w7 \in Seq(T) /\ Len(w7) = Len(w6) + Len(q7)
    BY <1>1, <1>13, ConcatProperties
  <2>2. Len(w6) \in Nat
    BY <1>13
  <2> HIDE DEF w7
  <2>3. Len(w7) \in Nat \ {0}
    BY <1>8, <2>1, <2>2
  <2>4. Len(<<>>) = 0
    OBVIOUS
  <2>5. QED BY <2>1, <2>3, <2>4
<1>15. ASSUME NextFetch = fetch1
       PROVE  /\ Linked(w7, NextPc(fetch1.pc))
              /\ FirstPc(w7, NextPc(fetch1.pc)) = FirstWord
  BY <1>1, <1>7, <1>13, <1>15, LinkedConcat
<1>16. Words = w7
  BY <1>2 DEF w7, w6, w5, w4, w3, w2
<1>17. ASSUME phase = "fetch1", branch.out # Bubble
       PROVE  w7 = q7
  <2>1. w2 = <<>>
    BY <1>6, <1>17, EmptySeq, ConcatEmptySeq DEF w2
  <2>2. w3 = <<>>
    BY <1>6, <1>17, <2>1, EmptySeq, ConcatEmptySeq DEF w3
  <2>3. w4 = <<>>
    BY <1>6, <1>17, <2>2, EmptySeq, ConcatEmptySeq DEF w4
  <2>4. w5 = <<>>
    BY <1>6, <1>17, <2>3, EmptySeq, ConcatEmptySeq DEF w5
  <2>5. w6 = <<>>
    BY <1>6, <1>17, <2>4, EmptySeq, ConcatEmptySeq DEF w6
  <2>6. QED BY <1>1, <2>5, ConcatEmptySeq
<1> HIDE DEF w7
<1>18. QED BY <1>14, <1>15, <1>16, <1>17 DEF FirstPc, T, q7

(* The instructions from Execute's input to Decode's pc follow each other. *)
LEMMA InstsOnTheWay ==
  ASSUME IInv, Conveyed
  PROVE  /\ Insts \in Seq(InstsOf(Now))
         /\ Chained(Insts, PcD) /\ FirstPc(Insts, PcD) = FirstInst
         /\ phase = "fetch1" /\ branch.out # Bubble => Insts = <<>>
<1> DEFINE T == InstsOf(Now)
           q1 == executeIn.queue  q2 == InstDue  q3 == dToE.in
           w2 == q1 \o q2
<1>1. /\ q1 \in Seq(T) /\ q2 \in Seq(T) /\ q3 \in Seq(T)
      /\ executeIn.elem = Bubble
  BY SettledBuffer, WireIsSeq DEF Conveyed, StreamsKept, OneStream
<1>2. Insts = w2 \o q3
  <2>1. Contents(executeIn) = q1
    BY <1>1, ConcatEmptySeq DEF Contents, Bubble
  <2>2. QED BY <2>1 DEF Insts
<1>3. Chained(q3, PcD) /\ Chained(q2, PcDDriven) /\ Chained(q1, PcDue)
  BY DEF Conveyed, InstsChained
<1>4. /\ PcDDriven = FirstPc(q3, PcD) /\ PcDue = FirstPc(q2, PcDDriven)
      /\ FirstInst = FirstPc(q1, PcDue)
  BY DEF PcDDriven, PcDue, FirstInst
<1> HIDE DEF T, q1, q2, q3
<1>5. /\ w2 \in Seq(T) /\ Chained(w2, PcDDriven)
      /\ FirstPc(w2, PcDDriven) = FirstInst
  BY <1>1, <1>3, <1>4, ChainedConcat
<1> HIDE DEF w2
<1>6. /\ w2 \o q3 \in Seq(T) /\ Chained(w2 \o q3, PcD)
      /\ FirstPc(w2 \o q3, PcD) = FirstInst
  BY <1>1, <1>3, <1>4, <1>5, ChainedConcat
<1>7. ASSUME phase = "fetch1", branch.out # Bubble
      PROVE  w2 \o q3 = <<>>
  <2>1. q1 = <<>> /\ q2 = <<>> /\ q3 = <<>>
    BY <1>7 DEF Conveyed, StreamsKept, Flushed, InstDue, Due, Bubble, q1, q2, q3
  <2>2. w2 = <<>>
    BY <2>1, EmptySeq, ConcatEmptySeq DEF w2
  <2>3. QED BY <2>1, <2>2, EmptySeq, ConcatEmptySeq
<1>8. QED BY <1>2, <1>6, <1>7 DEF T

(* A sequence all of one stream has its places at 1 .. Len(q).             *)
LEMMA AllPlaces ==
  ASSUME NEW S, NEW q \in Seq(S), NEW s, \A x \in S : x.stream = s
  PROVE  /\ Places(q, s) = 1 .. Len(q)
         /\ \A i : IsFirst(Places(q, s), i) => i = 1 /\ q # <<>>
         /\ \A i, j : IsNext(Places(q, s), i, j) =>
              i \in 1 .. Len(q) /\ i # Len(q) /\ j = i + 1
         /\ \A i \in Places(q, s) :
              (\A k \in Places(q, s) : k <= i) => i = Len(q)
         /\ Places(q, s) = {} <=> q = <<>>
<1> DEFINE n == Len(q)  P == 1 .. n
<1>1. n \in Nat /\ (q = <<>> <=> n = 0)
  OBVIOUS
<1>2. Places(q, s) = P
  <2>1. \A i \in P : q[i] \in S
    OBVIOUS
  <2>2. QED BY <2>1 DEF Places
<1> HIDE DEF n
<1>3. P = {} <=> n = 0
  BY <1>1
<1>4. ASSUME NEW i, IsFirst(P, i)
      PROVE  i = 1 /\ n # 0
  <2>1. i \in Nat /\ 1 <= i /\ i <= n
    BY <1>1, <1>4 DEF IsFirst
  <2>2. 1 \in P
    BY <1>1, <2>1
  <2>3. i <= 1
    BY <1>4, <2>2 DEF IsFirst
  <2>4. QED BY <1>1, <2>1, <2>3
<1>5. ASSUME NEW i, NEW j, IsNext(P, i, j)
      PROVE  i \in P /\ i # n /\ j = i + 1
  <2>1. i \in P /\ j \in P /\ i < j
    BY <1>5 DEF IsNext
  <2>2. i + 1 \in P /\ i # n
    BY <1>1, <2>1
  <2>3. i + 1 <= i \/ j <= i + 1
    BY <1>5, <2>2 DEF IsNext
  <2>4. QED BY <1>1, <2>1, <2>2, <2>3
<1>6. ASSUME NEW i \in P, \A k \in P : k <= i
      PROVE  i = n
  <2>1. n \in P
    BY <1>1
  <2>2. n <= i
    BY <1>6, <2>1
  <2>3. QED BY <1>1, <2>2
<1>7. QED BY <1>1, <1>2, <1>3, <1>4, <1>5, <1>6 DEF n

(* While a branch is on its way to Fetch2, or has just reached it, nothing *)
(* of its stream is in the front end yet.                                  *)
NothingYet ==
  /\ Places(Insts, execute.streamSeqNum) = {}
  /\ Places(Words, execute.streamSeqNum) = {}
  /\ decode.lastStreamSeqNum # execute.streamSeqNum

(* So it is until Fetch1 has heard of the branch that opened it.         *)
LEMMA NothingOfTheNewStream ==
  ASSUME IInv, Conveyed, Behind,
         \/ execute.streamSeqNum # Now
         \/ phase = "fetch1" /\ branch.out # Bubble
  PROVE  NothingYet
<1> DEFINE s == execute.streamSeqNum
<1>1. /\ Now \in Nat /\ s \in Nat /\ fetch1.stream \in Nat
      /\ decode.lastStreamSeqNum \in Nat
      /\ branch.in \in Wire(BranchData) /\ branch.out \in Wire(BranchData)
  <2>1. \A x \in Stream : x \in Nat
    BY DEF Stream, FirstStream
  <2>2. QED BY <2>1, Wires DEF DecodeState, Fetch
<1>2. s >= Now /\ decode.lastStreamSeqNum <= Now
  <2>1. branch.in # Bubble => s > Now
    BY DEF Conveyed, StreamsKept, Redirects
  <2>2. branch.in = Bubble /\ branch.out # Bubble => s = branch.out[1].stream
    BY DEF Conveyed, StreamsKept, Redirects
  <2>3. branch.in = Bubble /\ branch.out = Bubble => s = Now
    BY DEF Conveyed, StreamsKept, Redirects
  <2>4. branch.out # Bubble =>
          branch.out[1].stream > Now \/ branch.out[1].stream = Now
    BY DEF Conveyed, StreamsKept, Redirects
  <2>5. branch.out # Bubble => branch.out[1].stream \in Nat
    BY <1>1, BranchWire
  <2>6. decode.lastStreamSeqNum <= Now
    BY DEF Conveyed, StreamsKept, OneStream
  <2> HIDE DEF s
  <2>7. QED BY <1>1, <2>1, <2>2, <2>3, <2>4, <2>5, <2>6
<1>3. NextFetch.stream = Now
  BY DEF Conveyed, StreamsKept, OneStream
<1>4. IF phase = "fetch1" /\ branch.out # Bubble
      THEN fetch1.stream < Now /\ decode.lastStreamSeqNum < Now
      ELSE fetch1.stream = Now
  BY <1>3 DEF Behind, NextFetch, Redirected
<1>5. fetch1.stream # s /\ decode.lastStreamSeqNum # s
  <2> HIDE DEF s
  <2>1. CASE phase = "fetch1" /\ branch.out # Bubble
    BY <1>1, <1>2, <1>4, <2>1
  <2>2. CASE ~(phase = "fetch1" /\ branch.out # Bubble)
    <3>1. s # Now
      BY <2>2 DEF s
    <3>2. QED BY <1>1, <1>2, <1>4, <2>2, <3>1
  <2>3. QED BY <2>1, <2>2
<1>6. Insts \in Seq(InstsOf(Now)) /\ Words \in Seq(WordOf)
  BY InstsOnTheWay, WordsOnTheWay
<1>7. CASE phase = "fetch1" /\ branch.out # Bubble
  <2>1. Insts = <<>> /\ Words = <<fetch1>>
    BY <1>7, InstsOnTheWay, WordsOnTheWay
  <2>2. Len(<<>>) = 0 /\ Len(<<fetch1>>) = 1 /\ <<fetch1>>[1] = fetch1
    OBVIOUS
  <2>3. 1 .. 0 = {} /\ 1 .. 1 = {1}
    OBVIOUS
  <2>4. Places(Insts, s) = {}
    BY <2>1, <2>2, <2>3 DEF Places
  <2>5. Places(Words, s) = {}
    BY <1>5, <2>1, <2>2, <2>3 DEF Places
  <2>6. QED BY <1>5, <2>4, <2>5 DEF NothingYet
<1>8. CASE s # Now
  <2>1. /\ \A x \in InstsOf(Now) : x.stream # s
        /\ \A x \in WordOf : x.stream # s
    BY <1>5, <1>8 DEF InstsOf, WordOf, LinesOf, FetchesOf
  <2>2. /\ \A i \in 1 .. Len(Insts) : Insts[i] \in InstsOf(Now)
        /\ \A i \in 1 .. Len(Words) : Words[i] \in WordOf
    BY <1>6, ElementOfSeq
  <2>3. Places(Insts, s) = {} /\ Places(Words, s) = {}
    BY <2>1, <2>2 DEF Places
  <2>4. QED BY <1>5, <2>3 DEF NothingYet
<1>9. QED BY <1>7, <1>8

(* From the pc Execute expects to the pc Fetch1 emits next, the front end  *)
(* holds the current stream without a gap.                                 *)
LEMMA ConveyedHasNoGap ==
  ASSUME IInv, Conveyed, Behind
  PROVE  NoGap
<1> DEFINE s == execute.streamSeqNum
           I == Places(Insts, s)  W == Places(Words, s)
           started == decode.havePC /\ decode.lastStreamSeqNum = s
           LeadsTo(pc) ==
             IF I = {} THEN execute.expect \in {pc, AnyPc}
             ELSE \A i \in I : (\A k \in I : k <= i) =>
                    Follower(Insts[i]) \in {pc, AnyPc}
           Conclusion ==
             /\ \A i, j \in W :
                  IsNext(W, i, j) => Words[j].pc = NextPc(Words[i].pc)
             /\ \A i, j \in I :
                  IsNext(I, i, j) => Follower(Insts[i]) \in {Insts[j].pc, AnyPc}
             /\ \A i \in I : IsFirst(I, i) =>
                  execute.expect \in {Insts[i].pc, AnyPc}
             /\ IF started
                THEN /\ LeadsTo(decode.pc)
                     /\ \A j \in W : IsFirst(W, j) =>
                          Base(Words[j].pc) = Base(NeededParcel)
                ELSE \A j \in W : IsFirst(W, j) => LeadsTo(Words[j].pc)
<1> SUFFICES Conclusion
  BY Zenon DEF NoGap
<1>1. CASE \/ s # Now
           \/ phase = "fetch1" /\ branch.out # Bubble
  <2>1. I = {} /\ W = {} /\ ~started
    BY <1>1, NothingOfTheNewStream DEF NothingYet
  <2> HIDE DEF I, W, started, LeadsTo
  <2>2. QED BY <2>1
<1>2. CASE /\ s = Now
           /\ ~(phase = "fetch1" /\ branch.out # Bubble)
  <2>1. NextFetch = fetch1 /\ fetch1.stream = Now
    BY <1>2 DEF Conveyed, StreamsKept, OneStream, NextFetch, Redirected
  <2>2. /\ Words \in Seq(WordOf) /\ Words # <<>>
        /\ Linked(Words, NextPc(fetch1.pc)) /\ Words[1].pc = FirstWord
        /\ Insts \in Seq(InstsOf(Now))
        /\ Chained(Insts, PcD) /\ FirstPc(Insts, PcD) = FirstInst
    BY <2>1, WordsOnTheWay, InstsOnTheWay
  <2>3. /\ \A x \in InstsOf(Now) : x.stream = s
        /\ \A x \in WordOf : x.stream = s
    BY <1>2, <2>1 DEF InstsOf, WordOf, LinesOf, FetchesOf
  <2>4. /\ \A i : IsFirst(W, i) => i = 1
        /\ \A i, j : IsNext(W, i, j) =>
             i \in 1 .. Len(Words) /\ i # Len(Words) /\ j = i + 1
    BY <2>2, <2>3, AllPlaces
  <2>5. /\ I = 1 .. Len(Insts) /\ (I = {} <=> Insts = <<>>)
        /\ \A i : IsFirst(I, i) => i = 1 /\ Insts # <<>>
        /\ \A i, j : IsNext(I, i, j) =>
             i \in 1 .. Len(Insts) /\ i # Len(Insts) /\ j = i + 1
        /\ \A i \in I : (\A k \in I : k <= i) => i = Len(Insts)
    BY <2>2, <2>3, AllPlaces
  <2>6. started <=> Begun(decode)
    BY <1>2 DEF Begun
  <2>7. PcD = IF started THEN decode.pc ELSE Words[1].pc
    BY <2>2, <2>6 DEF PcD, PcOf
  <2>8. started => Base(Words[1].pc) = Base(NeededParcel)
    <3>1. phase = "fetch2" => branch.out = Bubble
      <4>1. /\ Now \in Nat /\ branch.in \in Wire(BranchData)
            /\ branch.out \in Wire(BranchData)
        BY Wires
      <4>2. branch.in # Bubble => s > Now
        BY DEF Conveyed, StreamsKept, Redirects
      <4>3. branch.in = Bubble /\ branch.out # Bubble /\ phase = "fetch2" =>
              s = branch.out[1].stream /\ branch.out[1].stream > Now
        BY DEF Conveyed, StreamsKept, Redirects
      <4> HIDE DEF s
      <4>4. QED BY <1>2, <4>1, <4>2, <4>3
    <3>2. NeededParcel = Needed(decode)
      BY DEF NeededParcel, Needed
    <3>3. QED BY <2>2, <2>6, <3>1, <3>2 DEF Conveyed, WordsKept, WordNeeded
  <2>9. execute.expect \in {AnyPc, FirstInst}
    BY <1>2 DEF Conveyed, InstsChained
  <2>10. LeadsTo(PcD)
    <3>1. CASE Insts = <<>>
      BY <2>2, <2>5, <2>9, <3>1 DEF FirstPc
    <3>2. CASE Insts # <<>>
      <4>1. ASSUME NEW i \in I, \A k \in I : k <= i
            PROVE  Follower(Insts[i]) \in {PcD, AnyPc}
        <5>1. i = Len(Insts) /\ i \in 1 .. Len(Insts)
          BY <2>5, <4>1
        <5> HIDE DEF I
        <5>2. QED BY <2>2, <5>1 DEF Chained
      <4>2. I # {}
        BY <2>5, <3>2
      <4> HIDE DEF I
      <4>3. QED BY <4>1, <4>2
    <3>3. QED BY <3>1, <3>2
  <2>11. \A i, j \in W :
           IsNext(W, i, j) => Words[j].pc = NextPc(Words[i].pc)
    <3> HIDE DEF W
    <3>1. QED BY <2>2, <2>4 DEF Linked
  <2>12. \A i, j \in I :
           IsNext(I, i, j) => Follower(Insts[i]) \in {Insts[j].pc, AnyPc}
    <3> HIDE DEF I
    <3>1. QED BY <2>2, <2>5 DEF Chained
  <2>13. \A i \in I : IsFirst(I, i) => execute.expect \in {Insts[i].pc, AnyPc}
    <3> HIDE DEF I
    <3>1. Insts # <<>> => FirstInst = Insts[1].pc
      BY <2>2 DEF FirstPc
    <3>2. QED BY <2>5, <2>9, <3>1
  <2> HIDE DEF I, W, started, LeadsTo
  <2>14. CASE started
    <3>1. LeadsTo(decode.pc)
      BY <2>7, <2>10, <2>14
    <3>2. QED BY <2>4, <2>8, <2>11, <2>12, <2>13, <2>14, <3>1
  <2>15. CASE ~started
    <3>1. LeadsTo(Words[1].pc)
      BY <2>7, <2>10, <2>15
    <3>2. QED BY <2>4, <2>11, <2>12, <2>13, <2>15, <3>1
  <2>16. QED BY <2>14, <2>15
<1>3. QED BY <1>1, <1>2

(* Whatever redirects, refusals and discarded requests there are, Execute  *)
(* finds the instructions of the current stream one after the other, and   *)
(* the words behind them follow each other up to the pc of Fetch1.         *)
THEOREM NoGapInTheStream == Spec => []NoGap
<1>1. Init => Behind
  BY DEF Init, Behind
<1>2. IInv /\ Conveyed /\ Behind /\ [Next]_vars => Behind'
  BY NextBehind
<1>3. IInv /\ Conveyed /\ Behind => NoGap
  BY ConveyedHasNoGap
<1>4. QED BY <1>1, <1>2, <1>3, ConveysOneStream, Invariance, PTL DEF Spec
=============================================================================
