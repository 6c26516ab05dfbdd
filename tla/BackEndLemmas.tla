---------------------------- MODULE BackEndLemmas ----------------------------
(***************************************************************************)
(* What the operators the back end is built from return, preserve and      *)
(* bound: queues of instructions, the input buffers of Execute, Memory and *)
(* Writeback, and the functional units.                                    *)
(***************************************************************************)
EXTENDS BackEnd, FiniteSetTheorems, SequenceTheorems, WellFoundedInduction, TLAPS

-----------------------------------------------------------------------------
(* Sequences of execSeqNums.                                               *)

Increasing(q) == \A i, j \in 1 .. Len(q) : i < j => q[i] < q[j]

(* A set of numbers has a least one.                                       *)
LEMMA NatMin ==
  ASSUME NEW T \in SUBSET Nat, T # {}
  PROVE  \E x \in T : \A y \in T : x <= y
<1> DEFINE R == {p \in Nat \X Nat : p[1] < p[2]}
<1>1. IsWellFoundedOn(R, Nat)
  BY NatLessThanWellFounded DEF OpToRel
<1>2. PICK x \in T : \A y \in T : ~(<<y, x>> \in R)
  BY <1>1, WFMin
<1>3. ASSUME NEW y \in T PROVE x <= y
  <2>1. <<y, x>> \in Nat \X Nat /\ x \in Nat /\ y \in Nat
    OBVIOUS
  <2>2. ~(y < x)
    BY <1>2, <2>1
  <2>3. QED BY <2>1, <2>2
<1>4. QED BY <1>3

(* An entry of a sequence has a place in it.                               *)
LEMMA IdsDef ==
  ASSUME NEW q, NEW n
  PROVE  n \in Ids(q) <=> \E i \in 1 .. Len(q) : q[i] = n
BY DEF Ids

(* A bubble has no entries, a packet of one instruction has that one.      *)
LEMMA IdsOfPacket ==
  /\ Ids(<<>>) = {}
  /\ \A n : Ids(<<n>>) = {n}
<1>1. Ids(<<>>) = {}
  BY DEF Ids
<1>2. ASSUME NEW n PROVE Ids(<<n>>) = {n}
  <2>1. Len(<<n>>) = 1 /\ <<n>>[1] = n
    OBVIOUS
  <2>2. QED BY <2>1 DEF Ids
<1>3. QED BY <1>1, <1>2

(* The entries of a sequence over S are in S.                              *)
LEMMA IdsIn ==
  ASSUME NEW S, NEW q \in Seq(S)
  PROVE  Ids(q) \subseteq S
BY DEF Ids

(* push_back on a queue, with an entry above all others.                   *)
LEMMA AppendIds ==
  ASSUME NEW S, NEW q \in Seq(S), NEW x \in S
  PROVE  /\ Append(q, x) \in Seq(S)
         /\ Len(Append(q, x)) = Len(q) + 1
         /\ Ids(Append(q, x)) = Ids(q) \cup {x}
<1> DEFINE r == Append(q, x)
<1>1. r \in Seq(S) /\ Len(r) = Len(q) + 1 /\ Len(q) \in Nat
  OBVIOUS
<1>2. /\ \A i \in 1 .. Len(q) : r[i] = q[i]
      /\ r[Len(q) + 1] = x
  OBVIOUS
<1>3. ASSUME NEW y \in Ids(r) PROVE y \in Ids(q) \cup {x}
  BY <1>1, <1>2 DEF Ids
<1>4. ASSUME NEW y \in Ids(q) PROVE y \in Ids(r)
  <2>1. PICK i \in 1 .. Len(q) : y = q[i]
    BY <1>4 DEF Ids
  <2>2. i \in 1 .. Len(r) /\ r[i] = y
    BY <2>1, <1>1, <1>2
  <2>3. QED BY <2>2 DEF Ids
<1>5. x \in Ids(r)
  BY <1>1, <1>2 DEF Ids
<1>6. QED BY <1>1, <1>3, <1>4, <1>5

(* ... keeps the order.                                                    *)
LEMMA AppendIncreasing ==
  ASSUME NEW q \in Seq(Nat), Increasing(q),
         NEW x \in Nat, \A y \in Ids(q) : y < x
  PROVE  Increasing(Append(q, x))
<1> DEFINE r == Append(q, x)
<1>1. Len(r) = Len(q) + 1 /\ Len(q) \in Nat
  OBVIOUS
<1>2. /\ \A i \in 1 .. Len(q) : r[i] = q[i] /\ q[i] < x
      /\ r[Len(q) + 1] = x
  BY DEF Ids
<1>3. SUFFICES ASSUME NEW i \in 1 .. Len(r), NEW j \in 1 .. Len(r), i < j
               PROVE  r[i] < r[j]
  BY DEF Increasing
<1>4. i \in 1 .. Len(q)
  BY <1>1, <1>3
<1>5. CASE j \in 1 .. Len(q)
  BY <1>2, <1>3, <1>4, <1>5 DEF Increasing
<1>6. CASE j = Len(q) + 1
  BY <1>2, <1>4, <1>6
<1>7. QED BY <1>1, <1>5, <1>6

(* pop_front.                                                              *)
LEMMA TailIds ==
  ASSUME NEW S, NEW q \in Seq(S), q # <<>>
  PROVE  /\ Tail(q) \in Seq(S) /\ Len(q) >= 1
         /\ Len(Tail(q)) = Len(q) - 1
         /\ \A i \in 1 .. Len(Tail(q)) : Tail(q)[i] = q[i + 1]
         /\ Ids(Tail(q)) \subseteq Ids(q)
         /\ q[1] \in Ids(q)
<1>1. /\ Tail(q) \in Seq(S) /\ Len(q) \in Nat /\ Len(q) >= 1
      /\ Len(Tail(q)) = Len(q) - 1
      /\ \A i \in 1 .. Len(Tail(q)) : Tail(q)[i] = q[i + 1]
  OBVIOUS
<1>2. ASSUME NEW y \in Ids(Tail(q)) PROVE y \in Ids(q)
  <2>1. PICK i \in 1 .. Len(Tail(q)) : y = Tail(q)[i]
    BY <1>2 DEF Ids
  <2>2. i + 1 \in 1 .. Len(q) /\ q[i + 1] = y
    BY <1>1, <2>1
  <2>3. QED BY <2>2 DEF Ids
<1>3. q[1] \in Ids(q)
  BY <1>1 DEF Ids
<1>4. QED BY <1>1, <1>2, <1>3

(* ... of an increasing queue takes its least entry off.                   *)
LEMMA TailIncreasing ==
  ASSUME NEW q \in Seq(Nat), Increasing(q), q # <<>>
  PROVE  /\ Increasing(Tail(q))
         /\ \A y \in Ids(Tail(q)) : q[1] < y
<1>1. /\ Len(q) \in Nat /\ Len(q) >= 1 /\ Len(Tail(q)) = Len(q) - 1
      /\ \A i \in 1 .. Len(Tail(q)) : Tail(q)[i] = q[i + 1]
  BY TailIds
<1>2. ASSUME NEW i \in 1 .. Len(Tail(q)), NEW j \in 1 .. Len(Tail(q)), i < j
      PROVE  Tail(q)[i] < Tail(q)[j]
  <2>1. i + 1 \in 1 .. Len(q) /\ j + 1 \in 1 .. Len(q) /\ i + 1 < j + 1
    BY <1>1, <1>2
  <2>2. q[i + 1] < q[j + 1]
    BY <2>1 DEF Increasing
  <2>3. QED BY <1>1, <2>2
<1>3. ASSUME NEW i \in 1 .. Len(Tail(q)) PROVE q[1] < Tail(q)[i]
  <2>1. i + 1 \in 1 .. Len(q) /\ 1 \in 1 .. Len(q) /\ 1 < i + 1
    BY <1>1
  <2>2. QED BY <1>1, <2>1 DEF Increasing
<1>4. QED BY <1>2, <1>3 DEF Increasing, Ids

(* inFlightInsts.erase(it).                                                *)
LEMMA RemoveAtIds ==
  ASSUME NEW S \in SUBSET Nat, NEW q \in Seq(S), Increasing(q),
         NEW k \in 1 .. Len(q)
  PROVE  LET r == Seqs!RemoveAt(q, k)
         IN  /\ r \in Seq(S) /\ Len(r) = Len(q) - 1
             /\ Ids(r) = Ids(q) \ {q[k]}
             /\ Increasing(r)
<1> DEFINE r == Seqs!RemoveAt(q, k)
           from(i) == IF i < k THEN i ELSE i + 1
<1>1. r = SubSeq(q, 1, k - 1) \o SubSeq(q, k + 1, Len(q))
  BY DEF Seqs!RemoveAt
<1>l. Len(q) \in Nat /\ k \in Nat /\ k >= 1 /\ \A i \in 1 .. Len(q) : q[i] \in S
  OBVIOUS
<1>2. /\ SubSeq(q, 1, k - 1) \in Seq(S) /\ Len(SubSeq(q, 1, k - 1)) = k - 1
      /\ \A i \in 1 .. k - 1 : SubSeq(q, 1, k - 1)[i] = q[i]
  <2>1. \A i \in 1 .. k - 1 : q[i] \in S
    BY <1>l
  <2>2. /\ SubSeq(q, 1, k - 1) \in Seq(S)
        /\ Len(SubSeq(q, 1, k - 1)) = IF 1 <= k - 1 THEN k - 1 - 1 + 1 ELSE 0
        /\ \A i \in 1 .. k - 1 - 1 + 1 : SubSeq(q, 1, k - 1)[i] = q[1 + i - 1]
    BY <1>l, <2>1, SubSeqProperties
  <2>3. QED BY <1>l, <2>2
<1>3. /\ SubSeq(q, k + 1, Len(q)) \in Seq(S)
      /\ Len(SubSeq(q, k + 1, Len(q))) = Len(q) - k
      /\ \A i \in 1 .. Len(q) - k : SubSeq(q, k + 1, Len(q))[i] = q[k + i]
  <2>1. \A i \in k + 1 .. Len(q) : q[i] \in S
    BY <1>l
  <2>2. /\ SubSeq(q, k + 1, Len(q)) \in Seq(S)
        /\ Len(SubSeq(q, k + 1, Len(q))) =
             IF k + 1 <= Len(q) THEN Len(q) - (k + 1) + 1 ELSE 0
        /\ \A i \in 1 .. Len(q) - (k + 1) + 1 :
             SubSeq(q, k + 1, Len(q))[i] = q[k + 1 + i - 1]
    BY <1>l, <2>1, SubSeqProperties
  <2>3. QED BY <1>l, <2>2
<1>c. /\ r \in Seq(S) /\ Len(r) = (k - 1) + (Len(q) - k)
      /\ \A i \in 1 .. (k - 1) + (Len(q) - k) :
           r[i] = IF i <= k - 1 THEN SubSeq(q, 1, k - 1)[i]
                  ELSE SubSeq(q, k + 1, Len(q))[i - (k - 1)]
  <2> DEFINE s1 == SubSeq(q, 1, k - 1)
             s2 == SubSeq(q, k + 1, Len(q))
  <2>1. s1 \in Seq(S) /\ s2 \in Seq(S) /\ Len(s1) = k - 1 /\ Len(s2) = Len(q) - k
    BY <1>2, <1>3
  <2> HIDE DEF s1, s2
  <2>2. /\ s1 \o s2 \in Seq(S)
        /\ Len(s1 \o s2) = Len(s1) + Len(s2)
        /\ \A i \in 1 .. Len(s1) + Len(s2) :
             (s1 \o s2)[i] = IF i <= Len(s1) THEN s1[i] ELSE s2[i - Len(s1)]
    BY <2>1, ConcatProperties
  <2>3. /\ s1 \o s2 \in Seq(S)
        /\ Len(s1 \o s2) = (k - 1) + (Len(q) - k)
        /\ \A i \in 1 .. (k - 1) + (Len(q) - k) :
             (s1 \o s2)[i] = IF i <= k - 1 THEN s1[i] ELSE s2[i - (k - 1)]
    BY <2>1, <2>2
  <2>4. QED BY <1>1, <2>3 DEF s1, s2
<1>4. r \in Seq(S) /\ Len(r) = Len(q) - 1
  BY <1>l, <1>c
<1>5. ASSUME NEW i \in 1 .. Len(r)
      PROVE  from(i) \in 1 .. Len(q) /\ from(i) # k /\ r[i] = q[from(i)]
  <2>1. CASE i < k
    BY <1>l, <1>c, <1>2, <1>4, <2>1
  <2>2. CASE ~(i < k)
    <3>1. i - (k - 1) \in 1 .. Len(q) - k
      BY <1>l, <1>4, <2>2
    <3>2. r[i] = SubSeq(q, k + 1, Len(q))[i - (k - 1)]
      BY <1>l, <1>c, <1>4, <2>2
    <3>3. r[i] = q[k + (i - (k - 1))] /\ k + (i - (k - 1)) = i + 1
      BY <1>l, <1>3, <3>1, <3>2
    <3>4. QED BY <1>l, <1>4, <2>2, <3>3
  <2>3. QED BY <2>1, <2>2
<1>6. Increasing(r)
  <2>1. SUFFICES ASSUME NEW i \in 1 .. Len(r), NEW j \in 1 .. Len(r), i < j
                 PROVE  r[i] < r[j]
    BY DEF Increasing
  <2>2. from(i) < from(j)
    BY <2>1, <1>l, <1>4
  <2>3. QED BY <1>5, <2>2 DEF Increasing
<1>7. ASSUME NEW y \in Ids(r) PROVE y \in Ids(q) \ {q[k]}
  <2>1. PICK i \in 1 .. Len(r) : y = r[i]
    BY <1>7 DEF Ids
  <2>2. from(i) \in 1 .. Len(q) /\ from(i) # k /\ y = q[from(i)]
    BY <1>5, <2>1
  <2>3. q[from(i)] # q[k]
    <3>1. q[from(i)] \in Nat /\ q[k] \in Nat
      BY <1>l, <2>2
    <3>2. from(i) < k \/ k < from(i)
      BY <1>l, <2>2
    <3>3. q[from(i)] < q[k] \/ q[k] < q[from(i)]
      <4>1. \A a, b \in 1 .. Len(q) : a < b => q[a] < q[b]
        BY DEF Increasing
      <4> HIDE DEF from
      <4>2. QED BY <2>2, <3>2, <4>1
    <3>4. QED BY <3>1, <3>3
  <2>4. QED BY <2>2, <2>3 DEF Ids
<1>8. ASSUME NEW y \in Ids(q) \ {q[k]} PROVE y \in Ids(r)
  <2>1. PICK m \in 1 .. Len(q) : y = q[m]
    BY <1>8 DEF Ids
  <2>2. m # k
    BY <1>8, <2>1
  <2> DEFINE i == IF m < k THEN m ELSE m - 1
  <2>3. i \in 1 .. Len(r) /\ from(i) = m
    BY <1>l, <1>4, <2>1, <2>2
  <2>4. r[i] = y
    BY <1>5, <2>1, <2>3
  <2>5. QED BY <2>3, <2>4 DEF Ids
<1>9. QED BY <1>4, <1>6, <1>7, <1>8
-----------------------------------------------------------------------------
(* The input buffers of Memory and Writeback.                              *)

(* occupied counts the instructions in the packets: t[i] are those from    *)
(* packet i on.                                                            *)
Tally(b) ==
  \E t \in [1 .. Len(b.queue) + 1 -> Nat] :
    /\ t[1] = b.occupied /\ t[Len(b.queue) + 1] = 0
    /\ \A i \in 1 .. Len(b.queue) : t[i] = Len(b.queue[i]) + t[i + 1]

OneAPacket(b) ==
  /\ \A i \in 1 .. Len(b.queue) : Len(b.queue[i]) = 1
  /\ b.queue = <<>> => b.index = 0

(* Whatever is in c is in b.                                               *)
Fewer(c, b) == \A n : ContainsExecSeqNum(c, n) => ContainsExecSeqNum(b, n)

(* A buffer is its four fields.                                            *)
LEMMA IsbFields ==
  ASSUME NEW b \in IsbOf(Num)
  PROVE  /\ b.queue \in Seq(Seq(Num)) /\ b.reserved \in Nat
         /\ b.occupied \in Nat /\ b.index \in Nat
         /\ Len(b.queue) \in Nat
         /\ \A i \in 1 .. Len(b.queue) :
              /\ b.queue[i] \in Seq(Num) /\ Len(b.queue[i]) \in Nat
              /\ \A j \in 1 .. Len(b.queue[i]) : b.queue[i][j] \in Num
<1>1. b.queue \in Seq(Seq(Num)) /\ b.reserved \in Nat /\ b.occupied \in Nat /\ b.index \in Nat
  BY DEF IsbOf
<1>2. \A i \in 1 .. Len(b.queue) : b.queue[i] \in Seq(Num)
  BY <1>1
<1>3. QED BY <1>1, <1>2

(* An empty buffer counts nothing.                                         *)
LEMMA EmptyKept == EmptyIsb \in IsbOf(Num) /\ Tally(EmptyIsb) /\ OneAPacket(EmptyIsb)
<1>1. EmptyIsb \in IsbOf(Num)
  BY DEF EmptyIsb, IsbOf
<1>2. Len(EmptyIsb.queue) = 0 /\ EmptyIsb.occupied = 0 /\ EmptyIsb.index = 0
  BY DEF EmptyIsb
<1>3. Tally(EmptyIsb)
  <2> DEFINE t == [i \in 1 .. 1 |-> 0]
  <2>1. t \in [1 .. Len(EmptyIsb.queue) + 1 -> Nat] /\ t[1] = 0
    BY <1>2
  <2> HIDE DEF t
  <2>2. QED BY <1>2, <2>1 DEF Tally
<1>4. OneAPacket(EmptyIsb)
  BY <1>2 DEF OneAPacket
<1>5. QED BY <1>1, <1>3, <1>4

(* setTail() of a packet whose slots are reserved: occupied grows by what  *)
(* reserved loses.                                                         *)
LEMMA PushPacketKeeps ==
  ASSUME NEW b \in IsbOf(Num), Tally(b), NEW p \in Seq(Num), b.reserved = Len(p)
  PROVE  LET c == PushPacket(b, p)
         IN  /\ c \in IsbOf(Num) /\ Tally(c)
             /\ c.reserved = 0 /\ c.index = b.index
             /\ c.queue = IF p = <<>> THEN b.queue ELSE Append(b.queue, p)
             /\ \A n : ContainsExecSeqNum(c, n)
                         => ContainsExecSeqNum(b, n) \/ n \in Ids(p)
<1> DEFINE c == PushPacket(b, p)
<1>1. CASE p = <<>>
  <2>1. c = b /\ Len(p) = 0
    BY <1>1 DEF PushPacket
  <2>2. QED BY <1>1, <2>1
<1>2. CASE p # <<>>
  <2>1. c = [b EXCEPT !.queue = Append(b.queue, p), !.reserved = b.reserved - Len(p),
                      !.occupied = b.occupied + Len(p)]
    BY <1>2 DEF PushPacket
  <2>2. /\ b.queue \in Seq(Seq(Num)) /\ b.occupied \in Nat /\ b.index \in Nat
        /\ Len(b.queue) \in Nat /\ Len(p) \in Nat
    BY IsbFields
  <2>3. /\ Append(b.queue, p) \in Seq(Seq(Num))
        /\ Len(Append(b.queue, p)) = Len(b.queue) + 1
        /\ \A i \in 1 .. Len(b.queue) : Append(b.queue, p)[i] = b.queue[i]
        /\ Append(b.queue, p)[Len(b.queue) + 1] = p
    BY <2>2
  <2> DEFINE q == Append(b.queue, p)
             o == b.occupied + Len(p)
             r == b.reserved - Len(p)
  <2>a. r \in Nat /\ r = 0 /\ o \in Nat /\ q \in Seq(Seq(Num))
    BY <2>2, <2>3
  <2>b. c = [b EXCEPT !.queue = q, !.reserved = r, !.occupied = o]
    BY <2>1
  <2>c. /\ c \in IsbOf(Num)
        /\ c.queue = q /\ c.reserved = r /\ c.occupied = o /\ c.index = b.index
    <3> HIDE DEF c, q, o, r
    <3>1. b \in [queue : Seq(Seq(Num)), reserved : Nat, occupied : Nat, index : Nat]
      BY DEF IsbOf
    <3>2. /\ c \in [queue : Seq(Seq(Num)), reserved : Nat, occupied : Nat, index : Nat]
          /\ c.queue = q /\ c.reserved = r /\ c.occupied = o /\ c.index = b.index
      BY <2>a, <2>b, <3>1
    <3>3. QED BY <3>2 DEF IsbOf
  <2>4. /\ c.queue = Append(b.queue, p) /\ c.reserved = 0 /\ c.index = b.index
        /\ c.occupied = b.occupied + Len(p)
    BY <2>a, <2>c
  <2>5. c \in IsbOf(Num)
    BY <2>c
  <2>6. Tally(c)
    <3>1. PICK t \in [1 .. Len(b.queue) + 1 -> Nat] :
            /\ t[1] = b.occupied /\ t[Len(b.queue) + 1] = 0
            /\ \A i \in 1 .. Len(b.queue) : t[i] = Len(b.queue[i]) + t[i + 1]
      BY DEF Tally
    <3> DEFINE L == Len(b.queue)
               u == [i \in 1 .. L + 2 |-> IF i = L + 2 THEN 0 ELSE t[i] + Len(p)]
    <3>2. u \in [1 .. L + 2 -> Nat]
      BY <2>2
    <3>3. u[1] = b.occupied + Len(p) /\ u[L + 2] = 0 /\ u[L + 1] = Len(p)
      BY <2>2, <3>1
    <3>4. ASSUME NEW i \in 1 .. L + 1
          PROVE  u[i] = Len(Append(b.queue, p)[i]) + u[i + 1]
      <4>1. CASE i = L + 1
        BY <2>2, <2>3, <3>3, <4>1
      <4>2. CASE i # L + 1
        <5>1. i \in 1 .. L /\ i + 1 \in 1 .. L + 1
          BY <2>2, <4>2
        <5>2. u[i] = t[i] + Len(p) /\ u[i + 1] = t[i + 1] + Len(p)
          BY <2>2, <5>1
        <5>3. t[i] = Len(b.queue[i]) + t[i + 1] /\ Len(b.queue[i]) \in Nat
              /\ t[i + 1] \in Nat
          BY <3>1, <5>1, IsbFields
        <5>4. Append(b.queue, p)[i] = b.queue[i] /\ Len(p) \in Nat
          BY <2>2, <2>3, <5>1
        <5> HIDE DEF u
        <5>5. QED BY <5>2, <5>3, <5>4
      <4>3. QED BY <4>1, <4>2
    <3>5. Len(c.queue) = L + 1 /\ (L + 1) + 1 = L + 2
      BY <2>2, <2>3, <2>4
    <3>6. /\ u \in [1 .. Len(c.queue) + 1 -> Nat]
          /\ u[1] = c.occupied /\ u[Len(c.queue) + 1] = 0
          /\ \A i \in 1 .. Len(c.queue) : u[i] = Len(c.queue[i]) + u[i + 1]
      <4> HIDE DEF c, u
      <4>1. QED BY <2>4, <3>2, <3>3, <3>4, <3>5
    <3> HIDE DEF c, u
    <3>7. QED BY <3>6 DEF Tally
  <2>7. ASSUME NEW n, ContainsExecSeqNum(c, n)
        PROVE  ContainsExecSeqNum(b, n) \/ n \in Ids(p)
    <3> HIDE DEF c
    <3>1. PICK i \in 1 .. Len(b.queue) + 1 :
            \E j \in 1 .. Len(Append(b.queue, p)[i]) : Append(b.queue, p)[i][j] = n
      BY <2>3, <2>4, <2>7 DEF ContainsExecSeqNum
    <3>2. CASE i = Len(b.queue) + 1
      BY <2>3, <3>1, <3>2 DEF Ids
    <3>3. CASE i # Len(b.queue) + 1
      <4>1. i \in 1 .. Len(b.queue)
        BY <2>2, <3>1, <3>3
      <4>a. Append(b.queue, p)[i] = b.queue[i]
        BY <2>3, <4>1
      <4>2. \E j \in 1 .. Len(b.queue[i]) : b.queue[i][j] = n
        BY <3>1, <4>a
      <4>3. QED BY <4>1, <4>2 DEF ContainsExecSeqNum
    <3>4. QED BY <3>2, <3>3
  <2>8. QED BY <1>2, <2>4, <2>5, <2>6, <2>7
<1>3. QED BY <1>1, <1>2

(* pop() of a packet.                                                      *)
LEMMA PopPacketKeeps ==
  ASSUME NEW b \in IsbOf(Num), Tally(b)
  PROVE  LET c == PopPacket(b)
         IN  /\ c \in IsbOf(Num) /\ Tally(c)
             /\ c.reserved = b.reserved /\ c.index = b.index
             /\ c.queue = IF b.queue = <<>> THEN <<>> ELSE Tail(b.queue)
             /\ Fewer(c, b)
<1> DEFINE c == PopPacket(b)
<1>1. CASE b.queue = <<>>
  BY <1>1 DEF PopPacket, Fewer
<1>2. CASE b.queue # <<>>
  <2> DEFINE L == Len(b.queue)
  <2>1. c = [b EXCEPT !.queue = Tail(b.queue), !.occupied = b.occupied - Len(Head(b.queue))]
    BY <1>2 DEF PopPacket
  <2>2. /\ b.queue \in Seq(Seq(Num)) /\ b.occupied \in Nat
        /\ L \in Nat /\ L >= 1 /\ Head(b.queue) = b.queue[1]
        /\ Tail(b.queue) \in Seq(Seq(Num)) /\ Len(Tail(b.queue)) = L - 1
        /\ \A i \in 1 .. L - 1 : Tail(b.queue)[i] = b.queue[i + 1]
    BY <1>2, IsbFields
  <2>3. PICK t \in [1 .. L + 1 -> Nat] :
          /\ t[1] = b.occupied /\ t[L + 1] = 0
          /\ \A i \in 1 .. L : t[i] = Len(b.queue[i]) + t[i + 1]
    BY DEF Tally
  <2>4. /\ b.occupied = Len(b.queue[1]) + t[2] /\ t[2] \in Nat
        /\ Len(b.queue[1]) \in Nat
    <3>1. 1 \in 1 .. L /\ 2 \in 1 .. L + 1 /\ 1 + 1 = 2
      BY <2>2
    <3>2. Len(b.queue[1]) \in Nat
      BY <3>1, IsbFields
    <3>3. QED BY <2>3, <3>1, <3>2
  <2>5. b.occupied - Len(Head(b.queue)) = t[2]
    BY <2>2, <2>4
  <2>6. c \in IsbOf(Num)
    BY <2>1, <2>2, <2>4, <2>5 DEF IsbOf
  <2>7. /\ c.queue = Tail(b.queue) /\ c.occupied = t[2]
        /\ c.reserved = b.reserved /\ c.index = b.index
    BY <2>1, <2>5 DEF IsbOf
  <2>8. Tally(c)
    <3> DEFINE u == [i \in 1 .. L |-> t[i + 1]]
    <3>1. u \in [1 .. L -> Nat] /\ u[1] = t[2] /\ u[L] = 0
      <4>1. \A i \in 1 .. L : i + 1 \in 1 .. L + 1 /\ t[i + 1] \in Nat
        <5>1. \A i \in 1 .. L : i + 1 \in 1 .. L + 1
          BY <2>2
        <5>2. QED BY <5>1
      <4>2. 1 \in 1 .. L /\ L \in 1 .. L /\ 1 + 1 = 2
        BY <2>2
      <4>3. QED BY <2>3, <4>1, <4>2
    <3>2. ASSUME NEW i \in 1 .. L - 1 PROVE u[i] = Len(Tail(b.queue)[i]) + u[i + 1]
      <4>1. i \in 1 .. L /\ i + 1 \in 1 .. L
        BY <2>2
      <4>2. u[i] = t[i + 1] /\ u[i + 1] = t[i + 1 + 1]
        BY <4>1
      <4>3. QED BY <2>2, <2>3, <4>1, <4>2
    <3>3. Len(c.queue) + 1 = L /\ Len(c.queue) = L - 1
      BY <2>2, <2>7
    <3> HIDE DEF u
    <3>4. QED BY <2>7, <3>1, <3>2, <3>3 DEF Tally
  <2>9. Fewer(c, b)
    <3>1. SUFFICES ASSUME NEW n, ContainsExecSeqNum(c, n)
                   PROVE  ContainsExecSeqNum(b, n)
      BY DEF Fewer
    <3>a. Len(c.queue) = L - 1 /\ \A i \in 1 .. L - 1 : c.queue[i] = b.queue[i + 1]
      BY <2>2, <2>7
    <3> HIDE DEF c
    <3>2. PICK i \in 1 .. L - 1 : \E j \in 1 .. Len(b.queue[i + 1]) : b.queue[i + 1][j] = n
      BY <3>a, <3>1 DEF ContainsExecSeqNum
    <3>3. i + 1 \in 1 .. L
      BY <2>2
    <3>4. QED BY <3>2, <3>3 DEF ContainsExecSeqNum
  <2>10. QED BY <1>2, <2>6, <2>7, <2>8, <2>9
<1>3. QED BY <1>1, <1>2

(* The reader moves its index.                                             *)
LEMMA IndexKeeps ==
  ASSUME NEW b \in IsbOf(Num), Tally(b), NEW k \in Nat
  PROVE  LET c == [b EXCEPT !.index = k]
         IN  /\ c \in IsbOf(Num) /\ Tally(c) /\ Fewer(c, b)
             /\ c.reserved = b.reserved /\ c.queue = b.queue /\ c.index = k
<1> DEFINE c == [b EXCEPT !.index = k]
<1>1. /\ c \in IsbOf(Num) /\ c.reserved = b.reserved /\ c.queue = b.queue
      /\ c.index = k /\ c.occupied = b.occupied
  BY DEF IsbOf
<1>2. QED BY <1>1 DEF Tally, Fewer, ContainsExecSeqNum

(* A slot is reserved.                                                     *)
LEMMA ReserveEntryKeeps ==
  ASSUME NEW b \in IsbOf(Num), Tally(b)
  PROVE  LET c == ReserveEntry(b)
         IN  /\ c \in IsbOf(Num) /\ Tally(c) /\ Fewer(c, b)
             /\ c.reserved = b.reserved + 1 /\ c.queue = b.queue
             /\ c.index = b.index
<1> DEFINE c == ReserveEntry(b)
<1>1. /\ c \in IsbOf(Num) /\ c.reserved = b.reserved + 1 /\ c.queue = b.queue
      /\ c.index = b.index /\ c.occupied = b.occupied
  BY DEF IsbOf, ReserveEntry
<1>2. QED BY <1>1 DEF Tally, Fewer, ContainsExecSeqNum

(* resetConsumedInputs(): the front packet goes, or nothing does.          *)
LEMMA ResetConsumedKeeps ==
  ASSUME NEW b \in IsbOf(Num), Tally(b)
  PROVE  LET c == ResetConsumed(b)
         IN  /\ c \in IsbOf(Num) /\ Tally(c) /\ Fewer(c, b)
             /\ c.reserved = b.reserved
             /\ \/ /\ c = b
                   /\ b.queue # <<>> => b.index < Len(b.queue[1])
                \/ /\ b.queue # <<>> /\ b.index >= Len(b.queue[1])
                   /\ c.queue = Tail(b.queue) /\ c.index = 0
<1> DEFINE c == ResetConsumed(b)
<1>0. /\ b.index \in Nat
      /\ b.queue # <<>> => Head(b.queue) = b.queue[1] /\ Len(b.queue[1]) \in Nat
  <2>1. b.index \in Nat /\ b.queue \in Seq(Seq(Num))
    BY IsbFields
  <2>2. b.queue # <<>> => Head(b.queue) = b.queue[1] /\ b.queue[1] \in Seq(Num)
    BY <2>1
  <2>3. QED BY <2>1, <2>2
<1>1. CASE b.queue # <<>> /\ b.index >= Len(b.queue[1])
  <2>1. c = [PopPacket(b) EXCEPT !.index = 0]
    BY <1>0, <1>1 DEF ResetConsumed
  <2>2. /\ PopPacket(b) \in IsbOf(Num) /\ Tally(PopPacket(b))
        /\ PopPacket(b).reserved = b.reserved
        /\ PopPacket(b).queue = Tail(b.queue) /\ Fewer(PopPacket(b), b)
    BY <1>1, PopPacketKeeps
  <2>3. /\ c \in IsbOf(Num) /\ Tally(c) /\ Fewer(c, PopPacket(b))
        /\ c.reserved = PopPacket(b).reserved /\ c.queue = PopPacket(b).queue
        /\ c.index = 0
    BY <2>1, <2>2, IndexKeeps
  <2>4. Fewer(c, b)
    BY <2>2, <2>3 DEF Fewer
  <2>5. QED BY <1>1, <2>2, <2>3, <2>4
<1>2. CASE ~(b.queue # <<>> /\ b.index >= Len(b.queue[1]))
  <2>1. c = b
    BY <1>0, <1>2 DEF ResetConsumed
  <2>2. QED BY <1>0, <1>2, <2>1 DEF Fewer
<1>3. QED BY <1>1, <1>2

(* The entry the reader looks at is in the front packet.                   *)
LEMMA FrontEntryIn ==
  ASSUME NEW b \in IsbOf(Num), FrontEntry(b) # NoInst
  PROVE  /\ b.queue # <<>> /\ b.index < Len(b.queue[1])
         /\ FrontEntry(b) = b.queue[1][b.index + 1]
         /\ FrontEntry(b) \in Num /\ ContainsExecSeqNum(b, FrontEntry(b))
<1>1. b.queue \in Seq(Seq(Num)) /\ b.index \in Nat /\ b.queue # <<>>
      /\ Head(b.queue) = b.queue[1] /\ Len(b.queue) >= 1 /\ Len(b.queue) \in Nat
  BY IsbFields DEF FrontEntry
<1>2. b.index < Len(b.queue[1]) /\ FrontEntry(b) = b.queue[1][b.index + 1]
  BY <1>1 DEF FrontEntry
<1>3. 1 \in 1 .. Len(b.queue) /\ b.queue[1] \in Seq(Num)
  BY <1>1
<1>4. b.index + 1 \in 1 .. Len(b.queue[1])
  BY <1>1, <1>2, <1>3
<1>5. QED BY <1>1, <1>2, <1>3, <1>4 DEF ContainsExecSeqNum

(* With one instruction a packet the reader has still to take all of them, *)
(* but for the front one if it has consumed it.                            *)
LEMMA WaitingOne ==
  ASSUME NEW b \in IsbOf(Num), OneAPacket(b)
  PROVE  Waiting(b) =
           {b.queue[i][1] : i \in {k \in 1 .. Len(b.queue) : k = 1 => b.index = 0}}
<1>0. /\ b.index \in Nat
      /\ \A i \in 1 .. Len(b.queue) : Len(b.queue[i]) = 1 /\ b.queue[i][1] \in Num
  BY IsbFields DEF OneAPacket
<1>1. ASSUME NEW n \in Waiting(b)
      PROVE  \E i \in 1 .. Len(b.queue) : (i = 1 => b.index = 0) /\ n = b.queue[i][1]
  <2>1. PICK i \in 1 .. Len(b.queue) : \E j \in 1 .. Len(b.queue[i]) :
               b.queue[i][j] = n /\ (i = 1 => j > b.index)
    BY <1>1 DEF Waiting
  <2>2. b.queue[i][1] = n /\ (i = 1 => 1 > b.index)
    BY <1>0, <2>1
  <2>3. QED BY <1>0, <2>2
<1>2. ASSUME NEW i \in 1 .. Len(b.queue), i = 1 => b.index = 0
      PROVE  b.queue[i][1] \in Waiting(b)
  <2>1. 1 \in 1 .. Len(b.queue[i]) /\ (i = 1 => 1 > b.index)
    BY <1>0, <1>2
  <2>2. QED BY <1>0, <2>1 DEF Waiting
<1>3. QED BY <1>1, <1>2

(* The packets are in the order of decoding.                               *)
Ordered(b) ==
  \A i, j \in 1 .. Len(b.queue) : i < j => b.queue[i][1] < b.queue[j][1]

(* A packet of one instruction, younger than all others, joins them.       *)
LEMMA PushOne ==
  ASSUME NEW b \in IsbOf(Num), Tally(b), OneAPacket(b),
         NEW p \in Seq(Num), Len(p) <= 1, b.reserved = Len(p)
  PROVE  LET c == PushPacket(b, p)
         IN  /\ OneAPacket(c)
             /\ Waiting(c) = Waiting(b) \cup Ids(p)
             /\ Ordered(b) /\ (\A i \in 1 .. Len(b.queue) : \A n \in Ids(p) :
                                 b.queue[i][1] < n)
                  => Ordered(c)
<1> DEFINE c == PushPacket(b, p)
           q == b.queue
           L == Len(b.queue)
<1>1. /\ c \in IsbOf(Num) /\ c.index = b.index
      /\ c.queue = IF p = <<>> THEN q ELSE Append(q, p)
  BY PushPacketKeeps
<1>2. /\ q \in Seq(Seq(Num)) /\ L \in Nat /\ b.index \in Nat
      /\ \A i \in 1 .. L : q[i] \in Seq(Num) /\ q[i][1] \in Num /\ Len(q[i]) = 1
  BY IsbFields DEF OneAPacket
<1>3. CASE p = <<>>
  <2>1. c = b
    BY <1>3 DEF PushPacket
  <2>2. QED BY <1>3, <2>1, IdsOfPacket
<1>4. CASE p # <<>>
  <2>1. Len(p) = 1 /\ p[1] \in Num
    <3> HIDE DEF c, q, L
    <3>1. Len(p) \in Nat /\ Len(p) # 0
      BY <1>4
    <3>2. \A k \in Nat : k # 0 /\ k <= 1 => k = 1
      OBVIOUS
    <3>3. Len(p) = 1
      BY <3>1, <3>2
    <3>4. p[1] \in Num
      BY <3>3
    <3>5. QED BY <3>3, <3>4
  <2>2. Ids(p) = {p[1]}
    BY <2>1 DEF Ids
  <2>3. /\ c.queue # <<>> /\ Len(c.queue) = L + 1
        /\ \A i \in 1 .. L : c.queue[i] = q[i]
        /\ c.queue[L + 1] = p
    <3> HIDE DEF c
    <3>1. QED BY <1>1, <1>2, <1>4, AppendProperties
  <2> HIDE DEF c, q, L
  <2>4. OneAPacket(c)
    <3>1. ASSUME NEW i \in 1 .. Len(c.queue) PROVE Len(c.queue[i]) = 1
      <4>1. i \in 1 .. L \/ i = L + 1
        BY <1>2, <2>3
      <4>2. CASE i = L + 1
        BY <2>1, <2>3, <4>2
      <4>3. CASE i \in 1 .. L
        BY <1>2, <2>3, <4>3
      <4>4. QED BY <4>1, <4>2, <4>3
    <3>2. QED BY <2>3, <3>1 DEF OneAPacket
  <2>5. Waiting(c) = {c.queue[i][1] : i \in {k \in 1 .. Len(c.queue) : k = 1 => c.index = 0}}
    BY <1>1, <2>4, WaitingOne
  <2>6. Waiting(b) = {q[i][1] : i \in {k \in 1 .. L : k = 1 => b.index = 0}}
    BY WaitingOne DEF q, L
  <2>7. L = 0 => b.index = 0
    BY <1>2 DEF OneAPacket, q, L
  <2>8. ASSUME NEW n \in Waiting(c) PROVE n \in Waiting(b) \cup {p[1]}
    <3>1. PICK i \in 1 .. L + 1 : (i = 1 => b.index = 0) /\ n = c.queue[i][1]
      BY <1>1, <2>3, <2>5
    <3>2. CASE i = L + 1
      BY <2>3, <3>1, <3>2
    <3>3. CASE i # L + 1
      <4>1. i \in 1 .. L
        BY <1>2, <3>1, <3>3
      <4>2. n = q[i][1]
        BY <2>3, <3>1, <4>1
      <4>3. QED BY <2>6, <3>1, <4>1, <4>2
    <3>4. QED BY <3>2, <3>3
  <2>9. ASSUME NEW n \in Waiting(b) PROVE n \in Waiting(c)
    <3>1. PICK i \in 1 .. L : (i = 1 => b.index = 0) /\ n = q[i][1]
      BY <2>6
    <3>2. i \in 1 .. L + 1 /\ n = c.queue[i][1]
      BY <1>2, <2>3, <3>1
    <3>3. QED BY <1>1, <2>3, <2>5, <3>1, <3>2
  <2>10. p[1] \in Waiting(c)
    <3>1. L + 1 \in 1 .. L + 1 /\ (L + 1 = 1 => b.index = 0)
      BY <1>2, <2>7
    <3>2. QED BY <1>1, <2>3, <2>5, <3>1
  <2>11. Waiting(c) = Waiting(b) \cup Ids(p)
    BY <2>2, <2>8, <2>9, <2>10
  <2>12. ASSUME Ordered(b), \A i \in 1 .. L : \A n \in Ids(p) : q[i][1] < n
         PROVE  Ordered(c)
    <3>1. SUFFICES ASSUME NEW i \in 1 .. L + 1, NEW j \in 1 .. L + 1, i < j
                   PROVE  c.queue[i][1] < c.queue[j][1]
      BY <2>3 DEF Ordered
    <3>2. i \in 1 .. L
      BY <1>2, <3>1
    <3>3. CASE j = L + 1
      <4>1. c.queue[j][1] = p[1] /\ c.queue[i][1] = q[i][1]
        BY <2>3, <3>2, <3>3
      <4>2. QED BY <2>2, <2>12, <3>2, <4>1
    <3>4. CASE j # L + 1
      <4>1. j \in 1 .. L
        BY <1>2, <3>1, <3>4
      <4>2. q[i][1] < q[j][1]
        BY <2>12, <3>1, <3>2, <4>1 DEF Ordered, q, L
      <4>3. QED BY <2>3, <3>2, <4>1, <4>2
    <3>5. QED BY <3>3, <3>4
  <2>13. QED BY <2>4, <2>11, <2>12 DEF c, q, L
<1>5. QED BY <1>3, <1>4

(* Once what is consumed is dropped, the front packet is the next to take. *)
LEMMA ResetOne ==
  ASSUME NEW b \in IsbOf(Num), Tally(b), OneAPacket(b)
  PROVE  LET c == ResetConsumed(b)
         IN  /\ OneAPacket(c) /\ c.index = 0
             /\ Waiting(c) = Waiting(b)
             /\ Ordered(b) => Ordered(c)
<1> DEFINE c == ResetConsumed(b)
           q == b.queue
           L == Len(b.queue)
<1>1. /\ c \in IsbOf(Num)
      /\ \/ /\ c = b
            /\ b.queue # <<>> => b.index < Len(b.queue[1])
         \/ /\ b.queue # <<>> /\ b.index >= Len(b.queue[1])
            /\ c.queue = Tail(b.queue) /\ c.index = 0
  BY ResetConsumedKeeps
<1>2. /\ q \in Seq(Seq(Num)) /\ L \in Nat /\ b.index \in Nat
      /\ \A i \in 1 .. L : q[i] \in Seq(Num) /\ q[i][1] \in Num /\ Len(q[i]) = 1
      /\ q # <<>> => 1 \in 1 .. L
  BY IsbFields DEF OneAPacket
<1>3. CASE c = b /\ (q # <<>> => b.index < Len(q[1]))
  <2>0. q = <<>> => b.index = 0
    BY DEF OneAPacket
  <2> HIDE DEF c, q, L
  <2>a. q # <<>> => Len(q[1]) = 1
    BY <1>2
  <2>1. b.index = 0
    <3>1. CASE q = <<>>
      BY <2>0, <3>1
    <3>2. CASE q # <<>>
      <4>1. b.index < 1 /\ b.index \in Nat
        BY <1>2, <1>3, <2>a, <3>2
      <4>2. QED BY <4>1
    <3>3. QED BY <3>1, <3>2
  <2> USE DEF c
  <2>2. QED BY <1>3, <2>1
<1>4. CASE q # <<>> /\ b.index >= Len(q[1]) /\ c.queue = Tail(q) /\ c.index = 0
  <2>1. /\ Len(c.queue) = L - 1 /\ L >= 1 /\ b.index >= 1
        /\ \A i \in 1 .. L - 1 : c.queue[i] = q[i + 1]
    <3> HIDE DEF c
    <3>1. QED BY <1>2, <1>4
  <2> HIDE DEF c, q, L
  <2>2. \A i \in 1 .. L - 1 : i + 1 \in 1 .. L /\ i + 1 # 1
    BY <1>2
  <2>3. OneAPacket(c)
    BY <1>2, <1>4, <2>1, <2>2 DEF OneAPacket
  <2>4. Waiting(c) = {c.queue[i][1] : i \in {k \in 1 .. Len(c.queue) : k = 1 => c.index = 0}}
    BY <1>1, <2>3, WaitingOne
  <2>5. Waiting(b) = {q[i][1] : i \in {k \in 1 .. L : k = 1 => b.index = 0}}
    BY WaitingOne DEF q, L
  <2>6. ASSUME NEW n \in Waiting(c) PROVE n \in Waiting(b)
    <3>1. PICK i \in 1 .. L - 1 : n = c.queue[i][1]
      BY <2>1, <2>4
    <3>2. n = q[i + 1][1] /\ i + 1 \in 1 .. L /\ i + 1 # 1
      BY <2>1, <2>2, <3>1
    <3>3. QED BY <2>5, <3>2
  <2>7. ASSUME NEW n \in Waiting(b) PROVE n \in Waiting(c)
    <3>1. PICK i \in 1 .. L : (i = 1 => b.index = 0) /\ n = q[i][1]
      BY <2>5
    <3>2. i # 1 /\ i - 1 \in 1 .. L - 1 /\ (i - 1) + 1 = i
      BY <1>2, <2>1, <3>1
    <3>3. n = c.queue[i - 1][1]
      BY <2>1, <3>1, <3>2
    <3>4. QED BY <1>4, <2>1, <2>4, <3>2, <3>3
  <2>8. ASSUME Ordered(b) PROVE Ordered(c)
    <3>1. SUFFICES ASSUME NEW i \in 1 .. L - 1, NEW j \in 1 .. L - 1, i < j
                   PROVE  c.queue[i][1] < c.queue[j][1]
      BY <2>1 DEF Ordered
    <3>2. q[i + 1][1] < q[j + 1][1]
      BY <1>2, <2>2, <2>8, <3>1 DEF Ordered, q, L
    <3>3. QED BY <2>1, <3>2
  <2>9. QED BY <1>4, <2>3, <2>6, <2>7, <2>8 DEF c
<1>5. QED BY <1>1, <1>3, <1>4

(* The reader takes the front one, or several, which is the same.          *)
LEMMA TakeOne ==
  ASSUME NEW b \in IsbOf(Num), Tally(b), OneAPacket(b), b.index = 0, Ordered(b),
         MaxInst \in Nat, FrontEntry(b) # NoInst, NEW k \in Nat
  PROVE  LET c == [b EXCEPT !.index = k]
         IN  /\ OneAPacket(c) /\ Ordered(c)
             /\ FrontEntry(b) = b.queue[1][1]
             /\ Waiting(c) \subseteq Waiting(b) /\ FrontEntry(b) \in Waiting(b)
             /\ k > 0 => \A n \in Waiting(c) : FrontEntry(b) < n
<1> DEFINE c == [b EXCEPT !.index = k]
           q == b.queue
           L == Len(b.queue)
<1>1. c \in IsbOf(Num) /\ c.queue = q /\ c.index = k
  BY IndexKeeps
<1>2. q # <<>> /\ FrontEntry(b) = q[1][1] /\ L \in Nat /\ 1 \in 1 .. L
  <2>1. b.queue # <<>> /\ FrontEntry(b) = b.queue[1][b.index + 1]
    BY FrontEntryIn
  <2>2. q \in Seq(Seq(Num)) /\ L \in Nat
    BY IsbFields
  <2>3. L >= 1
    BY <2>1, <2>2
  <2>4. QED BY <2>1, <2>2, <2>3
<1> HIDE DEF c, q, L
<1>3. OneAPacket(c) /\ Ordered(c)
  BY <1>1, <1>2 DEF OneAPacket, Ordered, q
<1>4. Waiting(b) = {q[i][1] : i \in {m \in 1 .. L : m = 1 => b.index = 0}}
  BY WaitingOne DEF q, L
<1>5. Waiting(c) = {q[i][1] : i \in {m \in 1 .. L : m = 1 => k = 0}}
  BY <1>1, <1>3, WaitingOne DEF L, q
<1>6. ASSUME k > 0, NEW n \in Waiting(c) PROVE FrontEntry(b) < n
  <2>1. PICK i \in 1 .. L : i # 1 /\ n = q[i][1]
    BY <1>5, <1>6
  <2>2. 1 < i
    BY <1>2, <2>1
  <2>3. QED BY <1>2, <2>1, <2>2 DEF Ordered, q, L
<1>7. QED BY <1>2, <1>3, <1>4, <1>5, <1>6 DEF c, q
-----------------------------------------------------------------------------
(* The input buffer of Execute.                                            *)

BufferFields == [queue : Seq(Num), elem : Wire(Num), reserved : Nat]

(* A wire of delay 1 is empty or carries one instruction.                  *)
LEMMA WireIds ==
  ASSUME NEW S, NEW w \in Wire(S)
  PROVE  \/ w = Bubble /\ Ids(w) = {}
         \/ w # Bubble /\ w = <<w[1]>> /\ w[1] \in S /\ Ids(w) = {w[1]}
<1>1. CASE w = Bubble
  BY <1>1, IdsOfPacket DEF Bubble
<1>2. CASE w # Bubble
  <2>1. PICK x \in S : w = <<x>>
    BY <1>2 DEF Wire
  <2>2. w[1] = x /\ Ids(w) = {x}
    BY <2>1, IdsOfPacket
  <2>3. QED BY <1>2, <2>1, <2>2
<1>3. QED BY <1>1, <1>2

(* A buffer an instruction can be taken from: elem stands for the queue    *)
(* while that is empty.                                                    *)
Pointed(b) ==
  /\ b \in BufferOf(Num)
  /\ Increasing(b.queue)
  /\ b.elem # Bubble => b.queue = <<>>

(* An empty queue is in order.                                             *)
LEMMA EmptyIncreasing == Increasing(<<>>)
BY DEF Increasing

(* The latch's element meets the queue; draining empties both.             *)
LEMMA ExecuteInputKeeps ==
  ASSUME executeIn \in BufferOf(Num), executeIn.elem = Bubble, dToE \in Wire(Num),
         MaxInst \in Nat, Increasing(executeIn.queue),
         \A x \in Ids(executeIn.queue), y \in Ids(dToE) : x < y
  PROVE  /\ Pointed(ExecuteInput)
         /\ Ids(ExecuteInput.elem) \cup Ids(ExecuteInput.queue)
              \subseteq Ids(executeIn.queue) \cup Ids(dToE)
<1> DEFINE b == SetTail(executeIn, dToE)
<1>0. executeIn \in BufferFields
  BY DEF BufferOf, BufferFields
<1>1. /\ Pointed(b)
      /\ Ids(b.elem) \cup Ids(b.queue) \subseteq Ids(executeIn.queue) \cup Ids(dToE)
  <2>1. CASE dToE = Bubble
    BY <2>1, IdsOfPacket DEF SetTail, Pointed, Bubble
  <2>2. CASE dToE # Bubble /\ executeIn.queue = <<>>
    <3>1. b = [executeIn EXCEPT !.elem = dToE]
      BY <2>2 DEF SetTail
    <3>2. b \in BufferFields /\ b.elem = dToE /\ b.queue = <<>>
      BY <1>0, <2>2, <3>1 DEF BufferFields
    <3>3. QED BY <3>2, EmptyIncreasing, IdsOfPacket DEF Pointed, BufferOf, BufferFields
  <2>3. CASE dToE # Bubble /\ executeIn.queue # <<>>
    <3>1. dToE[1] \in Num /\ Ids(dToE) = {dToE[1]}
      BY <2>3, WireIds
    <3> DEFINE r == IF executeIn.reserved # 0 THEN executeIn.reserved - 1
                    ELSE executeIn.reserved
               q == Append(executeIn.queue, dToE[1])
    <3>2. b = [[executeIn EXCEPT !.reserved = r] EXCEPT !.queue =
                 Append(executeIn.queue, dToE[1])]
      <4>1. b = [[executeIn EXCEPT !.reserved = r] EXCEPT !.queue =
                  Append([executeIn EXCEPT !.reserved = r].queue, dToE[1])]
        BY <2>3 DEF SetTail, Push, FreeReservation
      <4>2. [executeIn EXCEPT !.reserved = r].queue = executeIn.queue
        BY <1>0 DEF BufferFields
      <4>3. QED BY <4>1, <4>2
    <3>3. r \in Nat
      BY <1>0 DEF BufferFields
    <3>4. q \in Seq(Num) /\ Ids(q) = Ids(executeIn.queue) \cup {dToE[1]}
      BY <1>0, <3>1, AppendIds DEF BufferFields
    <3>5. b \in BufferFields /\ b.queue = q /\ b.elem = Bubble
      <4> HIDE DEF r, q
      <4>1. b = [[executeIn EXCEPT !.reserved = r] EXCEPT !.queue = q]
        BY <3>2 DEF q
      <4> HIDE DEF b
      <4>2. QED BY <1>0, <3>3, <3>4, <4>1 DEF BufferFields
    <3>6. Increasing(q)
      <4>1. executeIn.queue \in Seq(Nat) /\ dToE[1] \in Nat
        BY <1>0, <3>1 DEF BufferFields, Num
      <4>2. \A y \in Ids(executeIn.queue) : y < dToE[1]
        BY <3>1
      <4>3. QED BY <4>1, <4>2, AppendIncreasing
    <3> HIDE DEF r, q, b
    <3>7. QED BY <3>1, <3>4, <3>5, <3>6, IdsOfPacket
              DEF Pointed, BufferOf, BufferFields, Bubble
  <2>4. QED BY <2>1, <2>2, <2>3
<1>2. CASE ~execute.draining
  <2>1. ExecuteInput = b
    BY <1>2 DEF ExecuteInput
  <2>2. QED BY <1>1, <2>1
<1>3. CASE execute.draining
  <2> DEFINE c == PopAll(b)
  <2>1. ExecuteInput = c
    BY <1>3 DEF ExecuteInput
  <2>2. c \in BufferFields /\ c.elem = Bubble /\ c.queue = <<>>
    <3>1. b \in BufferFields
      BY <1>1 DEF Pointed, BufferOf, BufferFields
    <3> HIDE DEF b
    <3>2. FreeReservation(b) \in BufferFields
      BY <3>1 DEF FreeReservation, BufferFields
    <3> DEFINE d == IF b.elem # Bubble THEN FreeReservation(b) ELSE b
    <3>3. d \in BufferFields /\ c = [d EXCEPT !.elem = Bubble, !.queue = <<>>]
      BY <3>1, <3>2 DEF PopAll
    <3>4. Bubble \in Wire(Num)
      BY DEF Wire
    <3>e. <<>> \in Seq(Num)
      OBVIOUS
    <3> HIDE DEF d, c
    <3>5. c \in BufferFields /\ c.elem = Bubble /\ c.queue = <<>>
      BY <3>3, <3>4, <3>e DEF BufferFields
    <3>6. QED BY <3>5
  <2>3. QED BY <2>1, <2>2, EmptyIncreasing, IdsOfPacket
            DEF Pointed, BufferOf, BufferFields, Bubble
<1>4. QED BY <1>2, <1>3

(* The instruction at the end of the line is the oldest, and is taken off. *)
LEMMA PopInputKeeps ==
  ASSUME NEW b, Pointed(b), MaxInst \in Nat
  PROVE  LET c == PopInput(b)
         IN  /\ Pointed(c) /\ c.elem = Bubble
             /\ Ids(c.queue) \subseteq Ids(b.elem) \cup Ids(b.queue)
             /\ ~IsEmpty(b) => /\ Front(b) \in Ids(b.elem) \cup Ids(b.queue)
                               /\ \A m \in Ids(c.queue) : Front(b) < m
<1> DEFINE c == PopInput(b)
<1>0. b \in BufferFields /\ Increasing(b.queue) /\ (b.elem # Bubble => b.queue = <<>>)
  BY DEF Pointed, BufferOf, BufferFields
<1>1. CASE IsEmpty(b)
  BY <1>1 DEF PopInput, IsEmpty
<1>2. CASE b.elem # Bubble
  <2>1. c = [FreeReservation(b) EXCEPT !.elem = Bubble]
    BY <1>2 DEF PopInput, IsEmpty, Pop
  <2>2. FreeReservation(b) \in BufferFields /\ FreeReservation(b).queue = <<>>
    BY <1>0, <1>2 DEF FreeReservation, BufferFields
  <2>3. c \in BufferFields /\ c.elem = Bubble /\ c.queue = <<>>
    BY <2>1, <2>2 DEF BufferFields, Wire
  <2>4. Front(b) \in Ids(b.elem)
    <3>1. Front(b) = b.elem[1] /\ b.elem \in Wire(Num)
      BY <1>0, <1>2 DEF Front, BufferFields
    <3>2. QED BY <1>2, <3>1, WireIds
  <2>5. Pointed(c) /\ Ids(c.queue) = {}
    BY <2>3, EmptyIncreasing, IdsOfPacket DEF Pointed, BufferOf, BufferFields, Bubble
  <2>6. QED BY <2>3, <2>4, <2>5
<1>3. CASE b.elem = Bubble /\ b.queue # <<>>
  <2>1. c = [b EXCEPT !.queue = Tail(b.queue)] /\ Front(b) = b.queue[1]
    BY <1>3 DEF PopInput, IsEmpty, Pop, Front
  <2>2. b.queue \in Seq(Num) /\ b.queue \in Seq(Nat)
    BY <1>0 DEF BufferFields, Num
  <2>3. /\ Tail(b.queue) \in Seq(Num) /\ Ids(Tail(b.queue)) \subseteq Ids(b.queue)
        /\ b.queue[1] \in Ids(b.queue)
    BY <1>3, <2>2, TailIds
  <2>4. Increasing(Tail(b.queue)) /\ \A y \in Ids(Tail(b.queue)) : b.queue[1] < y
    BY <1>0, <1>3, <2>2, TailIncreasing
  <2>5. c \in BufferFields /\ c.elem = Bubble /\ c.queue = Tail(b.queue)
    BY <1>0, <1>3, <2>1, <2>3 DEF BufferFields
  <2>6. Pointed(c)
    BY <2>4, <2>5 DEF Pointed, BufferOf, BufferFields, Bubble
  <2>7. QED BY <2>1, <2>3, <2>4, <2>5, <2>6
<1>4. QED BY <1>1, <1>2, <1>3 DEF IsEmpty

(* PushTail keeps what is there.                                           *)
LEMMA PushTailKeeps ==
  ASSUME NEW b, Pointed(b)
  PROVE  LET c == PushTail(b)
         IN  /\ Pointed(c) /\ c.elem = Bubble
             /\ Ids(c.queue) = Ids(b.elem) \cup Ids(b.queue)
<1> DEFINE c == PushTail(b)
<1>0. b \in BufferFields /\ Increasing(b.queue) /\ (b.elem # Bubble => b.queue = <<>>)
  BY DEF Pointed, BufferOf, BufferFields
<1>1. CASE b.elem = Bubble
  BY <1>1, IdsOfPacket DEF PushTail, Bubble
<1>2. CASE b.elem # Bubble
  <2>1. b.elem[1] \in Num /\ Ids(b.elem) = {b.elem[1]} /\ b.queue = <<>>
    BY <1>0, <1>2, WireIds DEF BufferFields
  <2> DEFINE f == FreeReservation(b)
             q == Append(<<>>, b.elem[1])
  <2>2. f \in BufferFields /\ f.queue = <<>>
    BY <1>0, <2>1 DEF FreeReservation, BufferFields
  <2>3. q = <<b.elem[1]>> /\ q \in Seq(Num) /\ Ids(q) = Ids(b.elem)
    BY <2>1, IdsOfPacket
  <2>4. c = [[f EXCEPT !.queue = q] EXCEPT !.elem = Bubble]
    BY <1>2, <2>2 DEF PushTail, Push
  <2>5. c \in BufferFields /\ c.queue = q /\ c.elem = Bubble
    <3> HIDE DEF c, f, q
    <3>1. QED BY <2>2, <2>3, <2>4 DEF BufferFields, Wire
  <2>6. Increasing(q)
    BY <2>3 DEF Increasing
  <2> HIDE DEF q
  <2>7. Pointed(c)
    BY <2>5, <2>6 DEF Pointed, BufferOf, BufferFields, Bubble
  <2>8. Ids(c.queue) = Ids(b.elem) \cup Ids(b.queue)
    BY <2>1, <2>3, <2>5, IdsOfPacket
  <2>9. QED BY <2>5, <2>7, <2>8
<1>3. QED BY <1>1, <1>2
-----------------------------------------------------------------------------
(* The functional units.                                                   *)

UnitFields == [pipe : Seq({NoInst} \cup Num), stalled : BOOLEAN, wait : Nat]

(* advance(): a stalled pipeline stands still; another moves everything on *)
(* by a stage, loses its front and stalls for the new one.                 *)
LEMMA AdvanceKeeps ==
  ASSUME NEW f \in UnitFields, NEW lat \in Nat, Len(f.pipe) > 1
  PROVE  LET g == Advance(f, lat)
         IN  /\ g \in UnitFields /\ Len(g.pipe) = Len(f.pipe)
             /\ f.stalled => g.pipe = f.pipe /\ g.stalled
             /\ ~f.stalled =>
                  /\ g.pipe[1] = NoInst
                  /\ \A i \in 2 .. Len(f.pipe) : g.pipe[i] = f.pipe[i - 1]
                  /\ g.stalled <=> g.pipe[Len(f.pipe)] # NoInst
<1> DEFINE g == Advance(f, lat)
           w == IF AlreadyPushed(f) THEN lat
                ELSE IF f.stalled THEN f.wait ELSE OneLess(f.wait)
           p == <<NoInst>> \o SubSeq(f.pipe, 1, Len(f.pipe) - 1)
           L == Len(f.pipe)
           S == {NoInst} \cup Num
<1>1. g = [Shift(f) EXCEPT !.wait = w] /\ w \in Nat
  BY DEF Advance, UnitFields, OneLess
<1>2. /\ f.pipe \in Seq(S) /\ L \in Nat /\ L > 1
      /\ \A i \in 1 .. L - 1 : f.pipe[i] \in S
  BY DEF UnitFields
<1>3. CASE f.stalled
  <2>1. Shift(f) = f
    BY <1>3 DEF Shift
  <2> HIDE DEF w, g
  <2>2. g = [f EXCEPT !.wait = w]
    BY <1>1, <2>1
  <2>3. g \in UnitFields /\ g.pipe = f.pipe /\ g.stalled = f.stalled
    BY <1>1, <2>2 DEF UnitFields
  <2>4. QED BY <1>3, <2>3 DEF g
<1>4. CASE ~f.stalled
  <2> DEFINE s == SubSeq(f.pipe, 1, L - 1)
  <2>1. /\ s \in Seq(S) /\ Len(s) = L - 1
        /\ \A i \in 1 .. L - 1 : s[i] = f.pipe[i]
    <3>1. /\ s \in Seq(S)
          /\ Len(s) = IF 1 <= L - 1 THEN L - 1 - 1 + 1 ELSE 0
          /\ \A i \in 1 .. L - 1 - 1 + 1 : s[i] = f.pipe[1 + i - 1]
      BY <1>2, SubSeqProperties
    <3> HIDE DEF s, L
    <3>2. QED BY <1>2, <3>1
  <2>2. /\ p \in Seq(S) /\ Len(p) = L /\ p[1] = NoInst
        /\ \A i \in 2 .. L : p[i] = f.pipe[i - 1]
    <3> DEFINE o == <<NoInst>>
    <3>1. o \in Seq(S) /\ Len(o) = 1 /\ o[1] = NoInst /\ p = o \o s
      OBVIOUS
    <3> HIDE DEF o, s, p, L
    <3>2. /\ p \in Seq(S) /\ Len(p) = Len(o) + Len(s)
          /\ \A i \in 1 .. Len(o) + Len(s) :
               p[i] = IF i <= Len(o) THEN o[i] ELSE s[i - Len(o)]
      BY <2>1, <3>1, ConcatProperties
    <3>3. QED BY <1>2, <2>1, <3>1, <3>2
  <2> DEFINE z == p[Len(p)] # NoInst
  <2>3. Shift(f) = [f EXCEPT !.pipe = p, !.stalled = z]
    BY <1>4 DEF Shift
  <2>4. z \in BOOLEAN
    OBVIOUS
  <2>5. /\ g \in UnitFields /\ g.pipe = p /\ g.stalled = z
    <3> HIDE DEF p, z, w, g
    <3>1. Shift(f) \in UnitFields /\ Shift(f).pipe = p /\ Shift(f).stalled = z
      BY <2>2, <2>3, <2>4 DEF UnitFields
    <3>2. QED BY <1>1, <3>1 DEF UnitFields
  <2> HIDE DEF p, w, g, L
  <2>6. QED BY <1>4, <2>2, <2>5 DEF g, L
<1>5. QED BY <1>3, <1>4

(* A cycle without advance().                                              *)
LEMMA SkipCycleKeeps ==
  ASSUME NEW f \in UnitFields
  PROVE  LET g == SkipCycle(f)
         IN  g \in UnitFields /\ g.pipe = f.pipe /\ g.stalled = f.stalled
<1>1. OneLess(f.wait) \in Nat
  BY DEF UnitFields, OneLess
<1>2. QED BY <1>1 DEF SkipCycle, UnitFields

(* An instruction enters the first stage.                                  *)
LEMMA PushUnitKeeps ==
  ASSUME NEW f \in UnitFields, NEW n \in Num, Len(f.pipe) > 1
  PROVE  LET g == PushUnit(f, n)
         IN  /\ g \in UnitFields /\ Len(g.pipe) = Len(f.pipe)
             /\ g.stalled = f.stalled
             /\ g.pipe[1] = n
             /\ \A i \in 2 .. Len(f.pipe) : g.pipe[i] = f.pipe[i]
<1> DEFINE g == PushUnit(f, n)
           p == [f.pipe EXCEPT ![1] = n]
           S == {NoInst} \cup Num
<1>1. f.pipe \in Seq(S) /\ Len(f.pipe) \in Nat /\ 1 \in 1 .. Len(f.pipe) /\ n \in S
  BY DEF UnitFields
<1>2. /\ p \in Seq(S) /\ Len(p) = Len(f.pipe)
      /\ \A j \in 1 .. Len(f.pipe) : p[j] = IF j = 1 THEN n ELSE f.pipe[j]
  BY <1>1, ExceptSeq
<1>3. g = [f EXCEPT !.pipe = p]
  BY DEF PushUnit
<1>4. g \in UnitFields /\ g.pipe = p /\ g.stalled = f.stalled
  <2> HIDE DEF g, p
  <2>1. QED BY <1>2, <1>3 DEF UnitFields
<1> HIDE DEF p, g
<1>5. QED BY <1>1, <1>2, <1>4 DEF g
=============================================================================
