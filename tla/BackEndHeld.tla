---------------------------- MODULE BackEndHeld ----------------------------
(***************************************************************************)
(* Each instruction is in one place between issue and retirement, ORDER    *)
(* names it there, rename_id says of each register whether one that writes *)
(* it is on that way, and an operand is found where its writer is.         *)
(***************************************************************************)
EXTENDS BackEndPath

-----------------------------------------------------------------------------
(* ORDER, as the sequence of what it holds.                                *)

(* A buffer with one instruction a packet is flattened packet by packet.   *)
LEMMA FlatOne ==
  ASSUME NEW S, NEW q \in Seq(Seq(S)), \A i \in 1 .. Len(q) : Len(q[i]) = 1
  PROVE  Flat(q) = [i \in 1 .. Len(q) |-> q[i][1]]
<1> DEFINE step(f) == [i \in 1 .. Len(q) |-> IF i = 1 THEN q[i] ELSE f[i - 1] \o q[i]]
           prefix == [i \in 1 .. Len(q) |-> [j \in 1 .. i |-> q[j][1]]]
           flatten == CHOOSE f : f = step(f)
<1>1. CASE Len(q) = 0
  BY <1>1 DEF Flat, Seqs!FlattenSeq
<1>2. CASE Len(q) # 0
  <2>1. Flat(q) = flatten[Len(q)]
    BY <1>2 DEF Flat, Seqs!FlattenSeq
  <2>2. \A i \in 1 .. Len(q) : q[i] = <<q[i][1]>>
    OBVIOUS
  <2>3. prefix = step(prefix)
    <3>1. ASSUME NEW i \in 1 .. Len(q)
          PROVE  prefix[i] = IF i = 1 THEN q[i] ELSE prefix[i - 1] \o q[i]
      <4>1. CASE i = 1
        BY <2>2, <4>1
      <4>2. CASE i # 1
        <5>1. i - 1 \in 1 .. Len(q) /\ i \in Nat
          BY <4>2
        <5>2. prefix[i - 1] = [j \in 1 .. i - 1 |-> q[j][1]]
          BY <5>1
        <5>3. \A j \in 1 .. i - 1 : j \in 1 .. Len(q) /\ q[j][1] \in S
          BY <5>1
        <5>4. prefix[i - 1] \in Seq(S) /\ Len(prefix[i - 1]) = i - 1
          BY <5>1, <5>2, <5>3
        <5>5. prefix[i - 1] \o <<q[i][1]>> = [j \in 1 .. i |-> q[j][1]]
          BY <5>1, <5>2, <5>4
        <5>6. QED BY <2>2, <4>2, <5>5
      <4>3. QED BY <4>1, <4>2
    <3>2. QED BY <3>1
  <2>4. flatten = step(flatten)
    BY <2>3
  <2> DEFINE Off == {i \in 1 .. Len(q) : flatten[i] # prefix[i]}
  <2> HIDE DEF prefix, flatten
  <2>5. \A f : f = step(f) =>
          \A i \in 1 .. Len(q) : f[i] = IF i = 1 THEN q[i] ELSE f[i - 1] \o q[i]
    OBVIOUS
  <2> HIDE DEF step
  <2>6. Off = {}
    <3> SUFFICES ASSUME Off # {} PROVE FALSE
      OBVIOUS
    <3>1. Off \subseteq Nat
      OBVIOUS
    <3>2. PICK x \in Off : \A y \in Off : x <= y
      <4> HIDE DEF Off
      <4>1. QED BY <3>1, NatMin
    <3>3. /\ flatten[x] = IF x = 1 THEN q[x] ELSE flatten[x - 1] \o q[x]
          /\ prefix[x] = IF x = 1 THEN q[x] ELSE prefix[x - 1] \o q[x]
      BY <2>3, <2>4, <2>5
    <3>4. x # 1 => x - 1 \in 1 .. Len(q) /\ x - 1 \notin Off
      BY <3>2
    <3>5. QED BY <3>3, <3>4
  <2>7. Len(q) \in 1 .. Len(q)
    BY <1>2
  <2>8. flatten[Len(q)] = prefix[Len(q)]
    BY <2>6, <2>7
  <2>9. QED BY <2>1, <2>7, <2>8 DEF prefix
<1>3. QED BY <1>1, <1>2

(* What is still to be taken of it: at most the front packet is taken.     *)
LEMMA RestOne ==
  ASSUME MaxInst \in Nat, NEW b \in IsbOf(Num), OneAPacket(b), Ordered(b), b.index <= 1
  PROVE  /\ Rest(b) \in Seq(Num)
         /\ Ids(Rest(b)) = Waiting(b)
         /\ Increasing(Rest(b))
<1> DEFINE q == b.queue
           s == [i \in 1 .. Len(q) |-> q[i][1]]
           r == [i \in 1 .. Len(q) - b.index |-> q[i + b.index][1]]
<1>1. /\ q \in Seq(Seq(Num)) /\ Len(q) \in Nat /\ b.index \in 0 .. 1
      /\ \A i \in 1 .. Len(q) : Len(q[i]) = 1 /\ q[i][1] \in Num
      /\ q = <<>> => b.index = 0
      /\ Num \subseteq Nat
  <2>1. /\ q \in Seq(Seq(Num)) /\ Len(q) \in Nat /\ b.index \in 0 .. 1
        /\ \A i \in 1 .. Len(q) : Len(q[i]) = 1
        /\ \A i \in 1 .. Len(q) : \A j \in 1 .. Len(q[i]) : q[i][j] \in Num
        /\ q = <<>> => b.index = 0
    BY IsbFields DEF OneAPacket
  <2> HIDE DEF q
  <2>2. \A i \in 1 .. Len(q) : q[i][1] \in Num
    <3> SUFFICES ASSUME NEW i \in 1 .. Len(q) PROVE q[i][1] \in Num
      OBVIOUS
    <3>1. Len(q[i]) = 1 /\ \A j \in 1 .. Len(q[i]) : q[i][j] \in Num
      BY <2>1
    <3>2. QED BY <3>1
  <2>3. QED BY <2>1, <2>2 DEF Num
<1>2. Flat(q) = s
  <2> HIDE DEF q
  <2>1. QED BY <1>1, FlatOne
<1>3. Rest(b) = SubSeq(s, b.index + 1, Len(s))
  BY <1>2 DEF Rest
<1>4. Len(q) - b.index \in Nat
  <2>1. q # <<>> => Len(q) > 0
    BY <1>1
  <2> HIDE DEF q
  <2>2. QED BY <1>1, <2>1
<1> HIDE DEF q
<1>5. Rest(b) = r /\ r \in Seq(Num) /\ Len(r) = Len(q) - b.index
  <2>1. s \in Seq(Num) /\ Len(s) = Len(q)
    BY <1>1
  <2>2. r \in Seq(Num) /\ Len(r) = Len(q) - b.index
    <3>1. \A i \in 1 .. Len(q) - b.index : q[i + b.index][1] \in Num
      <4> SUFFICES ASSUME NEW i \in 1 .. Len(q) - b.index PROVE q[i + b.index][1] \in Num
        OBVIOUS
      <4>1. i + b.index \in 1 .. Len(q)
        BY <1>1
      <4>2. QED BY <1>1, <4>1
    <3>2. QED BY <1>4, <3>1
  <2>3. CASE b.index = 0
    <3>1. SubSeq(s, 1, Len(s)) = s
      BY <2>1
    <3>2. r = s
      BY <1>1, <2>3
    <3>3. QED BY <1>3, <2>2, <2>3, <3>1, <3>2
  <2>4. CASE b.index = 1
    <3>1. SubSeq(s, 2, Len(s)) = [i \in 1 .. Len(s) - 1 |-> s[i + 1]]
      BY <1>4, <2>1, <2>4
    <3>2. \A i \in 1 .. Len(q) - 1 : s[i + 1] = q[i + 1][1]
      BY <1>1
    <3>3. r = [i \in 1 .. Len(q) - 1 |-> q[i + 1][1]]
      BY <2>4
    <3>4. SubSeq(s, 2, Len(s)) = r
      <4>1. SubSeq(s, 2, Len(s)) = [i \in 1 .. Len(q) - 1 |-> s[i + 1]]
        BY <2>1, <3>1
      <4>2. [i \in 1 .. Len(q) - 1 |-> s[i + 1]] = [i \in 1 .. Len(q) - 1 |-> q[i + 1][1]]
        BY <3>2
      <4>3. QED BY <3>3, <4>1, <4>2
    <3>5. Rest(b) = SubSeq(s, 2, Len(s))
      BY <1>3, <2>4
    <3>6. QED BY <2>2, <3>4, <3>5
  <2>5. QED BY <1>1, <2>3, <2>4
<1>6. \A n : n \in Ids(r) <=> \E i \in 1 .. Len(q) : (i = 1 => b.index = 0) /\ q[i][1] = n
  <2> TAKE n
  <2>1. n \in Ids(r) <=> \E i \in 1 .. Len(r) : r[i] = n
    BY IdsDef
  <2>2. ASSUME NEW i \in 1 .. Len(r), r[i] = n
        PROVE  \E k \in 1 .. Len(q) : (k = 1 => b.index = 0) /\ q[k][1] = n
    <3>1. i + b.index \in 1 .. Len(q) /\ (i + b.index = 1 => b.index = 0)
      BY <1>1, <1>5
    <3>2. q[i + b.index][1] = n
      BY <1>1, <1>5, <2>2
    <3>3. QED BY <3>1, <3>2
  <2>3. ASSUME NEW k \in 1 .. Len(q), k = 1 => b.index = 0, q[k][1] = n
        PROVE  \E i \in 1 .. Len(r) : r[i] = n
    <3>1. k - b.index \in 1 .. Len(r) /\ (k - b.index) + b.index = k
      BY <1>1, <1>5, <2>3
    <3>2. r[k - b.index] = n
      BY <1>1, <1>5, <2>3, <3>1
    <3>3. QED BY <3>1, <3>2
  <2>4. QED BY <2>1, <2>2, <2>3
<1>7. Ids(r) = Waiting(b)
  <2>1. Waiting(b) = {q[i][1] : i \in {k \in 1 .. Len(q) : k = 1 => b.index = 0}}
    BY WaitingOne DEF q
  <2> HIDE DEF r
  <2>2. QED BY <1>6, <2>1
<1>8. Increasing(r)
  <2> SUFFICES ASSUME NEW i \in 1 .. Len(r), NEW j \in 1 .. Len(r), i < j
               PROVE  r[i] < r[j]
    BY DEF Increasing
  <2>1. /\ i + b.index \in 1 .. Len(q) /\ j + b.index \in 1 .. Len(q)
        /\ i + b.index < j + b.index
    <3>1. Len(r) = Len(q) - b.index /\ Len(q) \in Nat /\ b.index \in Nat
      BY <1>1, <1>5
    <3> HIDE DEF q, r
    <3>2. QED BY <3>1
  <2>2. q[i + b.index][1] < q[j + b.index][1]
    BY <2>1 DEF Ordered, q
  <2>3. r[i] = q[i + b.index][1] /\ r[j] = q[j + b.index][1]
    BY <1>5
  <2> HIDE DEF q, r
  <2>4. QED BY <2>2, <2>3
<1>9. QED BY <1>5, <1>7, <1>8

(* Sequences one after the other.                                          *)
LEMMA ConcatIds ==
  ASSUME NEW S \in SUBSET Nat, NEW s \in Seq(S), NEW t \in Seq(S)
  PROVE  /\ s \o t \in Seq(S)
         /\ Ids(s \o t) = Ids(s) \cup Ids(t)
         /\ Increasing(s) /\ Increasing(t) /\ (\A x \in Ids(s), y \in Ids(t) : x < y)
              => Increasing(s \o t)
<1> DEFINE u == s \o t
<1>1. /\ u \in Seq(S) /\ Len(u) = Len(s) + Len(t) /\ Len(s) \in Nat /\ Len(t) \in Nat
      /\ \A i \in 1 .. Len(s) : u[i] = s[i]
      /\ \A i \in 1 .. Len(u) : i > Len(s) => u[i] = t[i - Len(s)]
  OBVIOUS
<1> HIDE DEF u
<1>2. \A i \in 1 .. Len(u) :
        \/ i \in 1 .. Len(s) /\ u[i] = s[i] /\ s[i] \in Ids(s)
        \/ /\ i > Len(s) /\ i - Len(s) \in 1 .. Len(t) /\ u[i] = t[i - Len(s)]
           /\ t[i - Len(s)] \in Ids(t)
  <2> SUFFICES ASSUME NEW i \in 1 .. Len(u)
               PROVE  \/ i \in 1 .. Len(s) /\ u[i] = s[i] /\ s[i] \in Ids(s)
                      \/ /\ i > Len(s) /\ i - Len(s) \in 1 .. Len(t)
                         /\ u[i] = t[i - Len(s)] /\ t[i - Len(s)] \in Ids(t)
    OBVIOUS
  <2>1. CASE i \in 1 .. Len(s)
    BY <1>1, <2>1, IdsDef
  <2>2. CASE i > Len(s)
    <3>1. i - Len(s) \in 1 .. Len(t) /\ u[i] = t[i - Len(s)]
      BY <1>1, <2>2
    <3>2. t[i - Len(s)] \in Ids(t)
      BY <3>1, IdsDef
    <3>3. QED BY <2>2, <3>1, <3>2
  <2>3. QED BY <1>1, <2>1, <2>2
<1>3. Ids(u) \subseteq Ids(s) \cup Ids(t)
  <2> SUFFICES ASSUME NEW i \in 1 .. Len(u) PROVE u[i] \in Ids(s) \cup Ids(t)
    BY IdsDef
  <2>1. QED BY <1>2
<1>4. Ids(s) \subseteq Ids(u)
  <2>1. \A i \in 1 .. Len(s) : i \in 1 .. Len(u)
    BY <1>1
  <2>2. QED BY <1>1, <2>1, IdsDef
<1>5. Ids(t) \subseteq Ids(u)
  <2> SUFFICES ASSUME NEW i \in 1 .. Len(t) PROVE t[i] \in Ids(u)
    BY IdsDef
  <2>1. i + Len(s) \in 1 .. Len(u) /\ i + Len(s) > Len(s) /\ (i + Len(s)) - Len(s) = i
    BY <1>1
  <2>2. u[i + Len(s)] = t[i]
    BY <1>1, <2>1
  <2>3. QED BY <2>1, <2>2, IdsDef
<1>6. ASSUME Increasing(s), Increasing(t), \A x \in Ids(s), y \in Ids(t) : x < y
      PROVE  Increasing(u)
  <2> SUFFICES ASSUME NEW i \in 1 .. Len(u), NEW j \in 1 .. Len(u), i < j
               PROVE  u[i] < u[j]
    BY DEF Increasing
  <2>1. CASE j \in 1 .. Len(s)
    <3>1. i \in 1 .. Len(s)
      BY <1>1, <2>1
    <3>2. QED BY <1>1, <1>6, <2>1, <3>1 DEF Increasing
  <2>2. CASE i > Len(s)
    <3>1. j > Len(s) /\ i - Len(s) < j - Len(s)
      BY <1>1, <2>2
    <3>2. /\ i - Len(s) \in 1 .. Len(t) /\ j - Len(s) \in 1 .. Len(t)
          /\ u[i] = t[i - Len(s)] /\ u[j] = t[j - Len(s)]
      BY <1>1, <2>2, <3>1
    <3>3. QED BY <1>6, <3>1, <3>2 DEF Increasing
  <2>3. CASE i \in 1 .. Len(s) /\ j > Len(s)
    <3>1. u[i] \in Ids(s)
      BY <1>1, <2>3, IdsDef
    <3>2. j \notin 1 .. Len(s)
      BY <1>1, <2>3
    <3>3. u[j] \in Ids(t)
      BY <1>2, <3>2
    <3>4. QED BY <1>6, <3>1, <3>3
  <2>4. /\ i > Len(s) \/ i \in 1 .. Len(s)
        /\ j > Len(s) \/ j \in 1 .. Len(s)
    BY <1>2
  <2>5. QED BY <2>1, <2>2, <2>3, <2>4
<1>7. QED BY <1>1, <1>3, <1>4, <1>5, <1>6 DEF u
-----------------------------------------------------------------------------
(* One place at a time.                                                    *)

(* No instruction twice in a packet, or in the packets of a buffer.        *)
Once(p) == \A i, j \in 1 .. Len(p) : p[i] = p[j] => i = j

Distinct(b) ==
  \A i, k \in 1 .. Len(b.queue) :
    \A j \in 1 .. Len(b.queue[i]), l \in 1 .. Len(b.queue[k]) :
      b.queue[i][j] = b.queue[k][l] => i = k /\ j = l

(* The index is in the front packet.                                       *)
Indexed(b) == b.queue = <<>> => b.index = 0

(* A packet joins those that wait.                                         *)
LEMMA PacketJoins ==
  ASSUME NEW b \in IsbOf(Num), Tally(b), NEW p \in Seq(Num), b.reserved = Len(p)
  PROVE  LET c == PushPacket(b, p)
         IN  /\ Waiting(c) \subseteq Waiting(b) \cup Ids(p)
             /\ Indexed(b) => Indexed(c) /\ Waiting(c) = Waiting(b) \cup Ids(p)
             /\ Distinct(b) /\ Once(p) /\ (\A n \in Ids(p) : ~ContainsExecSeqNum(b, n))
                  => Distinct(c)
<1> DEFINE c == PushPacket(b, p)
           q == b.queue
<1>1. /\ q \in Seq(Seq(Num)) /\ Len(q) \in Nat /\ p \in Seq(Num) /\ b.index \in Nat
      /\ c.index = b.index /\ c.queue = IF p = <<>> THEN q ELSE Append(q, p)
      /\ Ids(p) \subseteq Num
  BY IsbFields, PushPacketKeeps, IdsIn
<1> HIDE DEF c
<1>2. CASE p = <<>>
  <2>1. c.queue = q /\ Ids(p) = {} /\ c.index = b.index
    BY <1>1, <1>2, IdsOfPacket
  <2>2. Waiting(c) = Waiting(b)
    BY <2>1 DEF Waiting
  <2>3. Distinct(b) => Distinct(c)
    BY <2>1 DEF Distinct
  <2>4. QED BY <2>1, <2>2, <2>3 DEF Indexed, c
<1>3. CASE p # <<>>
  <2>1. /\ c.queue = Append(q, p) /\ Len(c.queue) = Len(q) + 1
        /\ \A i \in 1 .. Len(q) : c.queue[i] = q[i]
        /\ c.queue[Len(q) + 1] = p /\ c.queue # <<>>
    <3> HIDE DEF q
    <3>1. c.queue = Append(q, p) /\ p \in Seq(Num)
      BY <1>1, <1>3
    <3>2. /\ Len(Append(q, p)) = Len(q) + 1 /\ Append(q, p)[Len(q) + 1] = p
          /\ \A i \in 1 .. Len(q) : Append(q, p)[i] = q[i]
      BY <1>1
    <3>3. c.queue # <<>>
      BY <1>1, <3>1, <3>2
    <3>4. QED BY <3>1, <3>2, <3>3
  <2>2. \A i \in 1 .. Len(c.queue) : i \in 1 .. Len(q) \/ i = Len(q) + 1
    BY <1>1, <2>1
  <2>3. Waiting(c) \subseteq Waiting(b) \cup Ids(p)
    <3> SUFFICES ASSUME NEW n \in Num, NEW i \in 1 .. Len(c.queue),
                        NEW j \in 1 .. Len(c.queue[i]), c.queue[i][j] = n,
                        i = 1 => j > b.index
                 PROVE  n \in Waiting(b) \cup Ids(p)
      BY <1>1 DEF Waiting
    <3>1. CASE i \in 1 .. Len(q)
      BY <2>1, <3>1 DEF Waiting
    <3>2. CASE i = Len(q) + 1
      BY <2>1, <3>2, IdsDef
    <3>3. QED BY <2>2, <3>1, <3>2
  <2>4. ASSUME Indexed(b) PROVE Waiting(b) \cup Ids(p) \subseteq Waiting(c)
    <3>1. ASSUME NEW n \in Num, NEW i \in 1 .. Len(q), NEW j \in 1 .. Len(q[i]),
                 q[i][j] = n, i = 1 => j > b.index
          PROVE  n \in Waiting(c)
      <4>1. i \in 1 .. Len(c.queue) /\ c.queue[i] = q[i]
        BY <1>1, <2>1
      <4>2. QED BY <1>1, <3>1, <4>1 DEF Waiting
    <3>2. ASSUME NEW j \in 1 .. Len(p)
          PROVE  p[j] \in Waiting(c)
      <4>1. Len(q) + 1 \in 1 .. Len(c.queue) /\ p[j] \in Num
        BY <1>1, <2>1
      <4>2. Len(q) + 1 = 1 => j > c.index
        <5>1. Len(q) = 0 => q = <<>>
          BY <1>1
        <5>2. QED BY <1>1, <2>4, <5>1 DEF Indexed
      <4>3. QED BY <2>1, <4>1, <4>2 DEF Waiting
    <3>3. Waiting(b) \subseteq Waiting(c)
      BY <3>1 DEF Waiting
    <3>4. Ids(p) \subseteq Waiting(c)
      BY <3>2, IdsDef
    <3>5. QED BY <3>3, <3>4
  <2>5. ASSUME Distinct(b), Once(p), \A n \in Ids(p) : ~ContainsExecSeqNum(b, n)
        PROVE  Distinct(c)
    <3> SUFFICES ASSUME NEW i \in 1 .. Len(c.queue), NEW k \in 1 .. Len(c.queue),
                        NEW j \in 1 .. Len(c.queue[i]), NEW l \in 1 .. Len(c.queue[k]),
                        c.queue[i][j] = c.queue[k][l]
                 PROVE  i = k /\ j = l
      BY DEF Distinct
    <3>1. ASSUME NEW x \in 1 .. Len(q), NEW y \in 1 .. Len(q[x]), NEW z \in 1 .. Len(p)
          PROVE  q[x][y] # p[z]
      <4>1. p[z] \in Ids(p)
        BY IdsDef
      <4>2. ~ContainsExecSeqNum(b, p[z])
        BY <2>5, <4>1
      <4>3. QED BY <4>2 DEF ContainsExecSeqNum
    <3>2. CASE i \in 1 .. Len(q) /\ k \in 1 .. Len(q)
      BY <2>1, <2>5, <3>2 DEF Distinct
    <3>3. CASE i = Len(q) + 1 /\ k = Len(q) + 1
      BY <2>1, <2>5, <3>3 DEF Once
    <3>4. CASE i = Len(q) + 1 /\ k \in 1 .. Len(q)
      BY <2>1, <3>1, <3>4
    <3>5. CASE k = Len(q) + 1 /\ i \in 1 .. Len(q)
      BY <2>1, <3>1, <3>5
    <3>6. QED BY <2>2, <3>2, <3>3, <3>4, <3>5
  <2>6. QED BY <2>1, <2>3, <2>4, <2>5 DEF Indexed, c
<1>4. QED BY <1>2, <1>3

(* Only what has been taken is popped before the reader looks.             *)
LEMMA ResetLosesNothing ==
  ASSUME NEW b \in IsbOf(Num), Tally(b)
  PROVE  LET c == ResetConsumed(b)
         IN  /\ Waiting(c) = Waiting(b)
             /\ Indexed(b) => Indexed(c)
             /\ Distinct(b) => Distinct(c)
<1> DEFINE c == ResetConsumed(b)
           q == b.queue
<1>1. /\ q \in Seq(Seq(Num)) /\ Len(q) \in Nat /\ b.index \in Nat /\ c \in IsbOf(Num)
      /\ \A i \in 1 .. Len(q) : Len(q[i]) \in Nat
      /\ \/ c = b
         \/ /\ q # <<>> /\ b.index >= Len(q[1])
            /\ c.queue = Tail(q) /\ c.index = 0
  BY IsbFields, ResetConsumedKeeps
<1> HIDE DEF c
<1>2. CASE c = b
  BY <1>2 DEF c
<1>3. CASE q # <<>> /\ b.index >= Len(q[1]) /\ c.queue = Tail(q) /\ c.index = 0
  <2>1. /\ Len(c.queue) = Len(q) - 1 /\ Len(q) >= 1
        /\ \A i \in 1 .. Len(c.queue) : c.queue[i] = q[i + 1]
    BY <1>1, <1>3, TailIds
  <2>2. Waiting(c) \subseteq Waiting(b)
    <3> SUFFICES ASSUME NEW n \in Num, NEW i \in 1 .. Len(c.queue),
                        NEW j \in 1 .. Len(c.queue[i]), c.queue[i][j] = n
                 PROVE  n \in Waiting(b)
      BY DEF Waiting
    <3>1. i + 1 \in 1 .. Len(q) /\ c.queue[i] = q[i + 1] /\ i + 1 # 1
      BY <1>1, <2>1
    <3>2. QED BY <3>1 DEF Waiting
  <2>3. Waiting(b) \subseteq Waiting(c)
    <3> SUFFICES ASSUME NEW n \in Num, NEW i \in 1 .. Len(q),
                        NEW j \in 1 .. Len(q[i]), q[i][j] = n, i = 1 => j > b.index
                 PROVE  n \in Waiting(c)
      BY DEF Waiting
    <3>1. i # 1
      BY <1>1, <1>3
    <3>2. i - 1 \in 1 .. Len(c.queue) /\ c.queue[i - 1] = q[i]
      BY <1>1, <2>1, <3>1
    <3>3. j \in 1 .. Len(c.queue[i - 1]) /\ j > c.index
      BY <1>3, <3>2
    <3>4. QED BY <3>2, <3>3 DEF Waiting
  <2>4. ASSUME Distinct(b) PROVE Distinct(c)
    <3> SUFFICES ASSUME NEW i \in 1 .. Len(c.queue), NEW k \in 1 .. Len(c.queue),
                        NEW j \in 1 .. Len(c.queue[i]), NEW l \in 1 .. Len(c.queue[k]),
                        c.queue[i][j] = c.queue[k][l]
                 PROVE  i = k /\ j = l
      BY DEF Distinct
    <3>1. /\ i + 1 \in 1 .. Len(q) /\ k + 1 \in 1 .. Len(q)
          /\ c.queue[i] = q[i + 1] /\ c.queue[k] = q[k + 1]
      BY <1>1, <2>1
    <3>2. i + 1 = k + 1 /\ j = l
      BY <2>4, <3>1 DEF Distinct
    <3>3. QED BY <1>1, <2>1, <3>2
  <2>5. QED BY <1>3, <2>2, <2>3, <2>4 DEF Indexed, c
<1>4. QED BY <1>1, <1>2, <1>3

(* The entry at the front waits no more once it is taken; popping its      *)
(* packet may take others with it.                                         *)
LEMMA FrontIsTaken ==
  ASSUME NEW b \in IsbOf(Num), Tally(b), Distinct(b), FrontEntry(b) # NoInst
  PROVE  /\ FrontEntry(b) \in Waiting(b)
         /\ Waiting(ConsumeEntry(b)) = Waiting(b) \ {FrontEntry(b)}
         /\ Waiting(PopPacket(b)) \subseteq Waiting(b) \ {FrontEntry(b)}
         /\ Distinct(ConsumeEntry(b)) /\ Distinct(PopPacket(b))
         /\ Indexed(ConsumeEntry(b))
<1> DEFINE n == FrontEntry(b)
           q == b.queue
           c == ConsumeEntry(b)
           p == PopPacket(b)
<1>1. /\ q \in Seq(Seq(Num)) /\ Len(q) \in Nat /\ b.index \in Nat
      /\ \A i \in 1 .. Len(q) : Len(q[i]) \in Nat
      /\ q # <<>> /\ b.index < Len(q[1]) /\ n = q[1][b.index + 1] /\ n \in Num
  BY IsbFields, FrontEntryIn
<1>2. c.queue = q /\ c.index = b.index + 1
  BY <1>1 DEF ConsumeEntry, IsbOf
<1>3. p.queue = Tail(q) /\ p.index = b.index
  BY <1>1, PopPacketKeeps
<1>4. 1 \in 1 .. Len(q) /\ b.index + 1 \in 1 .. Len(q[1])
  <2>1. Len(q) >= 1
    BY <1>1
  <2>2. 1 \in 1 .. Len(q)
    BY <1>1, <2>1
  <2>3. Len(q[1]) \in Nat
    BY <1>1, <2>2
  <2>4. QED BY <1>1, <2>2, <2>3
<1>5. /\ Len(p.queue) = Len(q) - 1
      /\ \A i \in 1 .. Len(p.queue) : p.queue[i] = q[i + 1]
  BY <1>1, <1>3, TailIds
<1> HIDE DEF n, c, p
<1>6. \A i \in 1 .. Len(q) : \A j \in 1 .. Len(q[i]) :
        q[i][j] = n <=> i = 1 /\ j = b.index + 1
  <2> SUFFICES ASSUME NEW i \in 1 .. Len(q), NEW j \in 1 .. Len(q[i])
               PROVE  q[i][j] = n <=> i = 1 /\ j = b.index + 1
    OBVIOUS
  <2>1. n = q[1][b.index + 1]
    BY <1>1
  <2>2. q[i][j] = q[1][b.index + 1] => i = 1 /\ j = b.index + 1
    BY <1>4 DEF Distinct
  <2> HIDE DEF q
  <2>3. QED BY <2>1, <2>2
<1>7. n \in Waiting(b)
  <2>1. b.index + 1 > b.index
    BY <1>1
  <2>2. QED BY <1>1, <1>4, <2>1 DEF Waiting
<1>8. Waiting(c) = Waiting(b) \ {n}
  <2>1. ASSUME NEW m \in Num, NEW i \in 1 .. Len(q), NEW j \in 1 .. Len(q[i]), q[i][j] = m
        PROVE  (i = 1 => j > b.index + 1) <=> (i = 1 => j > b.index) /\ m # n
    <3>1. m = n <=> i = 1 /\ j = b.index + 1
      BY <1>6, <2>1
    <3>2. i = 1 => (j > b.index + 1 <=> j > b.index /\ j # b.index + 1)
      BY <1>1
    <3>3. QED BY <3>1, <3>2
  <2>2. Waiting(c) \subseteq Waiting(b) \ {n}
    BY <1>2, <2>1 DEF Waiting
  <2>3. Waiting(b) \ {n} \subseteq Waiting(c)
    BY <1>2, <2>1 DEF Waiting
  <2>4. QED BY <2>2, <2>3
<1>9. Waiting(p) \subseteq Waiting(b) \ {n}
  <2> SUFFICES ASSUME NEW m \in Num, NEW i \in 1 .. Len(p.queue),
                      NEW j \in 1 .. Len(p.queue[i]), p.queue[i][j] = m
               PROVE  m \in Waiting(b) \ {n}
    BY DEF Waiting
  <2>1. i + 1 \in 1 .. Len(q) /\ i + 1 # 1 /\ p.queue[i] = q[i + 1]
    BY <1>1, <1>5
  <2>2. m # n
    BY <1>6, <2>1
  <2>3. QED BY <2>1, <2>2 DEF Waiting
<1>10. Distinct(c)
  BY <1>2 DEF Distinct
<1>11. Distinct(p)
  <2> SUFFICES ASSUME NEW i \in 1 .. Len(p.queue), NEW k \in 1 .. Len(p.queue),
                      NEW j \in 1 .. Len(p.queue[i]), NEW l \in 1 .. Len(p.queue[k]),
                      p.queue[i][j] = p.queue[k][l]
               PROVE  i = k /\ j = l
    BY DEF Distinct
  <2>1. /\ i + 1 \in 1 .. Len(q) /\ k + 1 \in 1 .. Len(q)
        /\ p.queue[i] = q[i + 1] /\ p.queue[k] = q[k + 1]
    BY <1>1, <1>5
  <2>2. /\ j \in 1 .. Len(q[i + 1]) /\ l \in 1 .. Len(q[k + 1])
        /\ q[i + 1][j] = q[k + 1][l]
    BY <2>1
  <2>3. i + 1 = k + 1 /\ j = l
    BY <2>1, <2>2 DEF Distinct
  <2>4. QED BY <1>1, <1>5, <2>3
<1>12. Indexed(c)
  BY <1>1, <1>2 DEF Indexed
<1>13. QED BY <1>7, <1>8, <1>9, <1>10, <1>11, <1>12 DEF n, c, p

(* A box is the latch to one of Memory's buffers and the buffer.           *)
InBox(b, n) == n \in Ids(eTo[b]) \/ ContainsExecSeqNum(isb[b], n)
Unread(b) == Ids(eTo[b]) \cup Waiting(isb[b])

(* What is in flight has not been pushed, what has been pushed is in one   *)
(* box, and there once.  (A branch that faults would be pushed twice.)     *)
PlacedOnce ==
  /\ \A n \in Ids(execute.inFlight) : ~Past(n)
  /\ \A b \in Box : /\ Once(eTo[b]) /\ Distinct(isb[b])
                    /\ \A n \in Ids(eTo[b]) : ~ContainsExecSeqNum(isb[b], n)
  /\ \A b, c \in Box : \A n : InBox(b, n) /\ InBox(c, n) => b = c

(* What Memory has still to look for.                                      *)
ToBeMoved == Ids(execute.inFlight) \cup {n \in Num : \E b \in Box : n \in Unread(b)}

(* A step that neither pushes an instruction nor is Memory's.              *)
LEMMA BoxesLeftAlone ==
  ASSUME IInv, [Next]_vars,
         ~(PushFree \/ NotReady \/ PushBranch \/ PushResult \/ PushMemRef \/ MemoryEvaluate)
  PROVE  /\ \A b \in Box : eTo'[b] = eTo[b] /\ isb'[b] = isb[b]
         /\ isb'["ORDER"].index = isb["ORDER"].index
         /\ \A n : Past(n)' => Past(n)
         /\ \/ /\ Ids(execute'.inFlight) = Ids(execute.inFlight)
               /\ UNCHANGED <<eTo, isb>>
            \/ \E n, u : Issues(n, u)
<1>1. \A n : Past(n)' => Past(n)
  BY NothingPushed
<1>2. CASE ExecuteEvaluate
  <2>1. CASE NothingIssued
    BY <1>1, <2>1 DEF NothingIssued
  <2>2. ASSUME NEW n, NEW u, Issues(n, u)
        PROVE  /\ \A b \in Box : eTo'[b] = eTo[b] /\ isb'[b] = isb[b]
               /\ isb'["ORDER"].index = isb["ORDER"].index
    <3>1. n \in Num /\ FillSequence(n) /\ phase = "execute"
      BY <2>2, IssuesYoungest DEF Issues
    <3>2. QED BY <3>1, FillSequenceKeeps DEF IInv
  <2>3. QED BY <1>1, <1>2, <2>1, <2>2, ExecuteCases
<1>3. CASE WritebackEvaluate \/ SetStalls \/ DecodeEvaluate \/ UNCHANGED vars
  <2>1. eTo' = eTo /\ isb' = isb /\ execute'.inFlight = execute.inFlight
    <3>1. CASE WritebackEvaluate \/ DecodeEvaluate \/ UNCHANGED vars
      BY <3>1 DEF WritebackEvaluate, DecodeEvaluate, vars
    <3>2. CASE SetStalls
      BY <3>2 DEF SetStalls, IInv, TypeOK
    <3>3. QED BY <1>3, <3>1, <3>2
  <2>2. QED BY <1>1, <2>1
<1>4. CASE \/ \E n \in Num : FinishMemTranslation(n) \/ RecvTimingResp(n)
           \/ \E accept \in BOOLEAN : RecvReqRetry(accept)
  <2>1. eTo' = eTo /\ isb' = isb /\ execute' = execute
    BY <1>4, CallbackCases
  <2>2. QED BY <1>1, <2>1
<1>5. QED BY <1>2, <1>3, <1>4 DEF Next, Cycle

(* Numbers in boxes and what is read of them.                              *)
LEMMA WaitingIsContained ==
  ASSUME NEW b, NEW n \in Waiting(b)
  PROVE  ContainsExecSeqNum(b, n)
BY DEF Waiting, ContainsExecSeqNum

(* ORDER has no instruction twice.                                         *)
LEMMA OrderedIsDistinct ==
  ASSUME NEW b \in IsbOf(Num), OneAPacket(b), Ordered(b), MaxInst \in Nat
  PROVE  Distinct(b)
<1> SUFFICES ASSUME NEW i \in 1 .. Len(b.queue), NEW k \in 1 .. Len(b.queue),
                    NEW j \in 1 .. Len(b.queue[i]), NEW l \in 1 .. Len(b.queue[k]),
                    b.queue[i][j] = b.queue[k][l]
             PROVE  i = k /\ j = l
  BY DEF Distinct
<1>1. j = 1 /\ l = 1 /\ Len(b.queue) \in Nat
  BY IsbFields DEF OneAPacket
<1>2. b.queue[i][1] \in Num
  BY <1>1, IsbFields
<1>3. b.queue[i][1] \in Nat
  BY <1>2 DEF Num
<1>4. i < k => b.queue[i][1] < b.queue[k][1]
  BY DEF Ordered
<1>5. k < i => b.queue[k][1] < b.queue[i][1]
  BY DEF Ordered
<1>6. i = k
  BY <1>1, <1>3, <1>4, <1>5
<1>7. QED BY <1>1, <1>6

(* What Memory finds in a box.                                             *)
LEMMA TakenPlaces ==
  ASSUME IInv, PlacedOnce, NEW b \in Box
  PROVE  LET c == TakenIn[b]
         IN  /\ c \in IsbOf(Num) /\ Tally(c) /\ Distinct(c)
             /\ Waiting(c) \subseteq Unread(b)
             /\ Indexed(isb[b]) => Indexed(c) /\ Waiting(c) = Unread(b)
             /\ \A n : ContainsExecSeqNum(c, n) => InBox(b, n)
<1> DEFINE p == PushPacket(isb[b], eTo[b])
<1>1. /\ isb[b] \in IsbOf(Num) /\ Tally(isb[b]) /\ isb[b].reserved = Len(eTo[b])
      /\ eTo[b] \in Seq(Num)
  BY DEF IInv, TypeOK, MemoryBuffers
<1>2. /\ Once(eTo[b]) /\ Distinct(isb[b])
      /\ \A n \in Ids(eTo[b]) : ~ContainsExecSeqNum(isb[b], n)
  BY DEF PlacedOnce
<1>3. p \in IsbOf(Num) /\ Tally(p)
  BY <1>1, PushPacketKeeps
<1>4. /\ Waiting(p) \subseteq Unread(b) /\ Distinct(p)
      /\ Indexed(isb[b]) => Indexed(p) /\ Waiting(p) = Unread(b)
  BY <1>1, <1>2, PacketJoins DEF Unread
<1> HIDE DEF p
<1>5. /\ Waiting(ResetConsumed(p)) = Waiting(p)
      /\ Indexed(p) => Indexed(ResetConsumed(p))
      /\ Distinct(ResetConsumed(p))
  BY <1>3, <1>4, ResetLosesNothing
<1>6. TakenIn[b] = ResetConsumed(p)
  BY DEF TakenIn, p
<1>7. /\ TakenIn[b] \in IsbOf(Num) /\ Tally(TakenIn[b])
      /\ \A n : ContainsExecSeqNum(TakenIn[b], n) => InBox(b, n)
  BY MemoryTakesIn DEF InBox
<1>8. QED BY <1>4, <1>5, <1>6, <1>7

(* What is in a box has left Execute.                                      *)
LEMMA BoxesArePast ==
  ASSUME PlacedOnce, NEW b \in Box, NEW n, InBox(b, n)
  PROVE  Past(n) /\ n \notin Ids(execute.inFlight)
BY DEF PlacedOnce, Past, InBox

(* Memory takes the oldest instruction from ORDER.                         *)
LEMMA OrderIsTaken ==
  ASSUME IInv, MemoryEvaluate, NEW num \in Num, num = FrontEntry(TakenIn["ORDER"]),
         isb'["ORDER"] = [TakenIn["ORDER"] EXCEPT !.index = 1]
  PROVE  /\ num \in Chained /\ \A m \in Chained : num <= m
         /\ Chained' = Chained \ {num}
         /\ isb'["ORDER"].index = 1
<1> DEFINE o == TakenIn["ORDER"]
<1>1. /\ o \in IsbOf(Num) /\ Tally(o) /\ OneAPacket(o) /\ Ordered(o) /\ o.index = 0
      /\ Waiting(o) = Chained /\ num # NoInst /\ MaxInst \in Nat /\ Chained \subseteq Nat
  <2>1. /\ o \in IsbOf(Num) /\ Tally(o) /\ OneAPacket(o) /\ Ordered(o) /\ o.index = 0
        /\ Waiting(o) = Chained
    BY MemoryTakesIn
  <2>2. MaxInst \in Nat /\ Num \subseteq Nat \ {0} /\ Chained \subseteq Nat
    BY Named, PathNamed DEF IInv
  <2>3. QED BY <2>1, <2>2 DEF NoInst
<1>2. Ids(eTo'["ORDER"]) = {}
  <2>1. eTo' = NoPackets(Box \cup {"ORDER"})
    BY DEF MemoryEvaluate
  <2>2. eTo'["ORDER"] = <<>>
    BY <2>1 DEF NoPackets
  <2>3. QED BY <2>2, IdsOfPacket
<1>3. isb'["ORDER"] = ConsumeEntry(o)
  <2>1. ConsumeEntry(o) = [o EXCEPT !.index = o.index + 1]
    BY DEF ConsumeEntry
  <2> HIDE DEF o
  <2>2. [o EXCEPT !.index = o.index + 1] = [o EXCEPT !.index = 1]
    BY <1>1
  <2>3. QED BY <2>1, <2>2 DEF o
<1> HIDE DEF o
<1>4. Distinct(o)
  BY <1>1, OrderedIsDistinct
<1>5. num \in Waiting(o) /\ Waiting(ConsumeEntry(o)) = Waiting(o) \ {num}
  BY <1>1, <1>4, FrontIsTaken DEF o
<1>6. Chained' = Chained \ {num}
  BY <1>1, <1>2, <1>3, <1>5 DEF Chained
<1>7. \A m \in Chained : num <= m
  <2> SUFFICES ASSUME NEW m \in Chained, m # num PROVE num < m
    BY <1>1, <1>5
  <2>1. FrontEntry(o) # NoInst /\ num = FrontEntry(o) /\ 1 \in Nat /\ 1 > 0
    BY <1>1 DEF o
  <2> DEFINE c == [o EXCEPT !.index = 1]
  <2>2. \A n \in Waiting(c) : num < n
    BY <1>1, <2>1, TakeOne
  <2>3. m \in Waiting(c)
    BY <1>2, <1>6 DEF Chained, o
  <2>4. QED BY <2>2, <2>3
<1>8. isb'["ORDER"].index = 1
  BY <1>1 DEF o, IsbOf
<1>9. QED BY <1>1, <1>5, <1>6, <1>7, <1>8

(* Memory takes one instruction out of its box and out of ORDER, or none   *)
(* out of either; when it drops a packet, others may go with it.           *)
LEMMA MemoryPlaces ==
  ASSUME IInv, PlacedOnce, MemoryEvaluate
  PROVE  /\ \A b \in Box : /\ Distinct(isb'[b]) /\ eTo'[b] = <<>>
                           /\ Unread(b)' = Waiting(isb'[b])
         /\ \/ /\ Chained' = Chained /\ isb'["ORDER"].index = 0
               /\ UNCHANGED <<renameId, mTo>>
               /\ \A b \in Box : /\ Unread(b)' \subseteq Unread(b)
                                 /\ Indexed(isb[b]) => /\ Unread(b)' = Unread(b)
                                                       /\ Indexed(isb'[b])
            \/ \E num \in Chained :
                 /\ \A m \in Chained : num <= m
                 /\ Chained' = Chained \ {num} /\ isb'["ORDER"].index = 1
                 /\ num \notin Ids(execute.inFlight)
                 /\ \A b \in Box : Unread(b)' \subseteq Unread(b) \ {num}
                 /\ \/ /\ Stale(num) /\ renameId' = ClearInstDests(num)
                       /\ UNCHANGED mTo
                    \/ /\ \A b \in Box : Indexed(isb[b]) =>
                            Unread(b)' = Unread(b) \ {num} /\ Indexed(isb'[b])
                       /\ renameId' = renameId /\ Ids(mTo'["ORDER"]) = {num}
                       /\ \E box \in Box, to \in {"COMMON", "TRAP"} : Moves(num, box, to)
<1>1. /\ \A b \in Box : /\ TakenIn[b] \in IsbOf(Num) /\ Tally(TakenIn[b])
                        /\ Distinct(TakenIn[b])
                        /\ Waiting(TakenIn[b]) \subseteq Unread(b)
                        /\ Indexed(isb[b]) => /\ Indexed(TakenIn[b])
                                              /\ Waiting(TakenIn[b]) = Unread(b)
                        /\ \A n : ContainsExecSeqNum(TakenIn[b], n) => InBox(b, n)
  BY TakenPlaces
<1>2. \A b \in Box : eTo'[b] = <<>> /\ Unread(b)' = Waiting(isb'[b])
  <2> SUFFICES ASSUME NEW b \in Box PROVE eTo'[b] = <<>> /\ Unread(b)' = Waiting(isb'[b])
    OBVIOUS
  <2>1. eTo' = NoPackets(Box \cup {"ORDER"})
    BY DEF MemoryEvaluate
  <2>2. eTo'[b] = <<>>
    BY <2>1 DEF NoPackets
  <2>3. QED BY <2>2, IdsOfPacket DEF Unread
<1>3. CASE Waits
  <2>1. isb' = TakenIn /\ UNCHANGED <<renameId, mTo>>
    BY <1>3 DEF Waits
  <2>2. Chained' = Chained /\ isb'["ORDER"].index = 0
    <3>1. TakenIn["ORDER"].index = 0 /\ Waiting(TakenIn["ORDER"]) = Chained
      BY MemoryTakesIn
    <3>2. Ids(eTo'["ORDER"]) = {}
      BY IdsOfPacket DEF MemoryEvaluate, NoPackets
    <3>3. QED BY <2>1, <3>1, <3>2 DEF Chained
  <2>3. \A b \in Box : isb'[b] = TakenIn[b]
    BY <2>1
  <2>4. \A b \in Box : Distinct(isb'[b])
    BY <1>1, <2>3
  <2>5. \A b \in Box : /\ Unread(b)' \subseteq Unread(b)
                       /\ Indexed(isb[b]) => Unread(b)' = Unread(b) /\ Indexed(isb'[b])
    BY <1>1, <1>2, <2>3
  <2>6. QED BY <1>2, <2>1, <2>2, <2>4, <2>5
<1>4. ASSUME NEW num \in Num, NEW box \in Box, FrontEntry(TakenIn[box]) = num
      PROVE  /\ num # NoInst /\ num \notin Ids(execute.inFlight)
             /\ \A b \in Box \ {box} : /\ FrontEntry(TakenIn[b]) # num
                                       /\ num \notin Waiting(TakenIn[b])
                                       /\ num \notin Unread(b)
             /\ Waiting(ConsumeEntry(TakenIn[box])) = Waiting(TakenIn[box]) \ {num}
             /\ Waiting(PopPacket(TakenIn[box])) \subseteq Waiting(TakenIn[box]) \ {num}
             /\ Distinct(ConsumeEntry(TakenIn[box])) /\ Distinct(PopPacket(TakenIn[box]))
             /\ Indexed(ConsumeEntry(TakenIn[box]))
  <2>1. num # NoInst
    BY Named DEF IInv, NoInst
  <2>2. InBox(box, num)
    BY <1>1, <1>4, <2>1, FrontEntryIn
  <2>3. num \notin Ids(execute.inFlight)
    BY <2>2, BoxesArePast
  <2>4. \A b \in Box \ {box} : ~InBox(b, num)
    BY <2>2 DEF PlacedOnce
  <2>5. ASSUME NEW b \in Box \ {box}
        PROVE  /\ FrontEntry(TakenIn[b]) # num /\ num \notin Waiting(TakenIn[b])
               /\ num \notin Unread(b)
    <3>1. ~ContainsExecSeqNum(TakenIn[b], num)
      BY <1>1, <2>4
    <3>2. num \notin Waiting(TakenIn[b])
      BY <3>1, WaitingIsContained
    <3>3. FrontEntry(TakenIn[b]) # num
      BY <1>1, <2>1, <3>1, FrontEntryIn
    <3>4. num \notin Unread(b)
      BY <2>4, WaitingIsContained DEF InBox, Unread
    <3>5. QED BY <3>2, <3>3, <3>4
  <2>6. QED BY <1>1, <1>4, <2>1, <2>3, <2>5, FrontIsTaken
<1>5. ASSUME NEW num \in Num, num = FrontEntry(TakenIn["ORDER"]), Drops(num)
      PROVE  /\ \A b \in Box : Distinct(isb'[b])
             /\ num \in Chained /\ \A m \in Chained : num <= m
             /\ Chained' = Chained \ {num} /\ isb'["ORDER"].index = 1
             /\ num \notin Ids(execute.inFlight)
             /\ \A b \in Box : Unread(b)' \subseteq Unread(b) \ {num}
             /\ Stale(num) /\ renameId' = ClearInstDests(num) /\ UNCHANGED mTo
  <2> DEFINE holders == {b \in Box : FrontEntry(TakenIn[b]) = num}
  <2>1. PICK box \in Box : FrontEntry(TakenIn[box]) = num
    BY <1>5 DEF Drops
  <2>2. holders = {box}
    BY <1>4, <2>1
  <2>3. /\ Stale(num) /\ DiscardStale(TakenIn, num, holders)
        /\ Cardinality(holders) = 1 /\ "ORDER" \notin Box
    BY <1>5, <2>2, FS_Singleton DEF Drops, Box
  <2>4. DiscardStale(TakenIn, num, {box}) /\ Cardinality({box}) = 1
    BY <2>2, <2>3
  <2> HIDE DEF holders
  <2>5. DOMAIN TakenIn = Box \cup {"ORDER"}
    BY DEF TakenIn
  <2>6. /\ isb'["ORDER"] = [TakenIn["ORDER"] EXCEPT !.index = TakenIn["ORDER"].index + 1]
        /\ isb'[box] = PopPacket(TakenIn[box])
        /\ \A b \in Box \ {box} : isb'[b] = TakenIn[b]
    BY <2>3, <2>4, <2>5 DEF DiscardStale
  <2>7. isb'["ORDER"] = [TakenIn["ORDER"] EXCEPT !.index = 1]
    <3>1. TakenIn["ORDER"].index = 0
      BY MemoryTakesIn
    <3>2. QED BY <2>6, <3>1
  <2>8. /\ num \in Chained /\ \A m \in Chained : num <= m
        /\ Chained' = Chained \ {num} /\ isb'["ORDER"].index = 1
    BY <1>5, <2>7, OrderIsTaken
  <2>9. /\ \A b \in Box : Distinct(isb'[b])
        /\ \A b \in Box : Waiting(isb'[b]) \subseteq Unread(b) \ {num}
    <3> SUFFICES ASSUME NEW b \in Box
                 PROVE  Distinct(isb'[b]) /\ Waiting(isb'[b]) \subseteq Unread(b) \ {num}
      OBVIOUS
    <3>1. CASE b = box
      BY <1>1, <1>4, <2>1, <2>6, <3>1
    <3>2. CASE b # box
      BY <1>1, <1>4, <2>1, <2>6, <3>2
    <3>3. QED BY <3>1, <3>2
  <2>10. renameId' = ClearInstDests(num) /\ UNCHANGED mTo
    BY <2>3 DEF DiscardStale
  <2>11. QED BY <1>2, <1>4, <2>1, <2>3, <2>8, <2>9, <2>10
<1>6. ASSUME NEW num \in Num, num = FrontEntry(TakenIn["ORDER"]),
             NEW box \in Box, NEW to \in {"COMMON", "TRAP"}, Moves(num, box, to)
      PROVE  /\ \A b \in Box : Distinct(isb'[b])
             /\ num \in Chained /\ \A m \in Chained : num <= m
             /\ Chained' = Chained \ {num} /\ isb'["ORDER"].index = 1
             /\ num \notin Ids(execute.inFlight)
             /\ \A b \in Box : /\ Unread(b)' \subseteq Unread(b) \ {num}
                               /\ Indexed(isb[b]) =>
                                    Unread(b)' = Unread(b) \ {num} /\ Indexed(isb'[b])
             /\ renameId' = renameId /\ Ids(mTo'["ORDER"]) = {num}
  <2>1. /\ FrontEntry(TakenIn[box]) = num /\ "ORDER" \notin Box
        /\ isb'["ORDER"] = ConsumeEntry(TakenIn["ORDER"])
        /\ isb'[box] = ConsumeEntry(TakenIn[box])
        /\ \A b \in Box \ {box} : isb'[b] = TakenIn[b]
    BY <1>6 DEF Moves, Box
  <2>2. isb'["ORDER"] = [TakenIn["ORDER"] EXCEPT !.index = 1]
    <3>1. TakenIn["ORDER"].index = 0
      BY MemoryTakesIn
    <3>2. QED BY <2>1, <3>1 DEF ConsumeEntry
  <2>3. /\ num \in Chained /\ \A m \in Chained : num <= m
        /\ Chained' = Chained \ {num} /\ isb'["ORDER"].index = 1
    BY <1>6, <2>2, OrderIsTaken
  <2>4. ASSUME NEW b \in Box
        PROVE  /\ Distinct(isb'[b])
               /\ Unread(b)' \subseteq Unread(b) \ {num}
               /\ Indexed(isb[b]) => Unread(b)' = Unread(b) \ {num} /\ Indexed(isb'[b])
    <3>1. CASE b = box
      BY <1>1, <1>2, <1>4, <2>1, <3>1
    <3>2. CASE b # box
      BY <1>1, <1>2, <1>4, <2>1, <3>2
    <3>3. QED BY <3>1, <3>2
  <2>5. Ids(mTo'["ORDER"]) = {num} /\ renameId' = renameId
    <3>1. DOMAIN mTo = {"COMMON", "TRAP", "ORDER"}
      BY DEF IInv, TypeOK
    <3>2. mTo'["ORDER"] = <<num>>
      BY <1>6, <3>1 DEF Moves, PushOut
    <3>3. QED BY <1>6, <3>2, IdsOfPacket DEF Moves
  <2>6. QED BY <1>4, <2>1, <2>3, <2>4, <2>5
<1>7. CASE \E num \in Num : num = FrontEntry(TakenIn["ORDER"]) /\ Drops(num)
  <2>1. PICK num \in Num : num = FrontEntry(TakenIn["ORDER"]) /\ Drops(num)
    BY <1>7
  <2>2. QED BY <1>2, <1>5, <2>1
<1>8. CASE \E num \in Num : /\ num = FrontEntry(TakenIn["ORDER"])
                            /\ \E box \in Box, to \in {"COMMON", "TRAP"} : Moves(num, box, to)
  <2>1. PICK num \in Num, box \in Box, to \in {"COMMON", "TRAP"} :
          num = FrontEntry(TakenIn["ORDER"]) /\ Moves(num, box, to)
    BY <1>8
  <2>2. QED BY <1>2, <1>6, <2>1
<1>9. QED BY <1>3, <1>7, <1>8, MemoryCases

(* What is pushed is in flight no more.                                    *)
LEMMA PushedOnce ==
  ASSUME IInv, "execute" \notin Faults,
         PushFree \/ NotReady \/ PushBranch \/ PushResult \/ PushMemRef
  PROVE  /\ Current \in Ids(execute.inFlight) /\ UNCHANGED Elsewhere
         /\ \/ UNCHANGED <<eTo, isb>> /\ Ids(execute'.inFlight) = Ids(execute.inFlight)
            \/ /\ \E box \in Box : Put(box)
               /\ Ids(execute'.inFlight) = Ids(execute.inFlight) \ {Current}
<1>1. PICK d : PushStep(d)
  BY PushFreeStep, NotReadyStep, PushBranchStep, PushResultStep, PushMemRefStep
<1>2. /\ Current \in Ids(execute.inFlight) /\ UNCHANGED Elsewhere
      /\ Stays(d) => Ids(execute'.inFlight) = Ids(execute.inFlight)
      /\ Leaves(d) => Ids(execute'.inFlight) = Ids(execute.inFlight) \ {Current}
      /\ Stays(d) \/ Leaves(d)
  BY <1>1, PushKeepsInsts DEF PushStep
<1>3. CASE Leaves(d)
  BY <1>2, <1>3 DEF Leaves
<1>4. CASE Stays(d) /\ UNCHANGED <<eTo, isb>>
  BY <1>2, <1>4
<1>5. CASE Stays(d) /\ ~UNCHANGED <<eTo, isb>>
  <2>1. execute'.inFlight = execute.inFlight /\ ~KeepInFlight
    BY <1>5 DEF Stays, KeepInFlight
  <2>2. Ids(Erased(execute).inFlight) = Ids(execute.inFlight) \ {Current}
    <3>1. Pushing
      BY DEF PushFree, NotReady, PushBranch, PushResult, PushMemRef, Ready
    <3>2. Erased(execute).inFlight = Seqs!RemoveAt(execute.inFlight, execute.at)
      BY <3>1, ErasedFields
    <3>3. /\ execute.at \in 1 .. Len(execute.inFlight) /\ Increasing(execute.inFlight)
          /\ execute.inFlight \in Seq(Num) /\ Num \in SUBSET Nat
      BY <3>1, CurrentIn, Named DEF IInv, Flight
    <3>4. QED BY <3>2, <3>3, RemoveAtIds DEF Current
  <2>3. ASSUME execute'.inFlight = Erased(execute).inFlight PROVE FALSE
    BY <1>2, <2>1, <2>2, <2>3
  <2>4. CASE PushFree
    BY <2>1, <2>3, <2>4 DEF PushFree
  <2>5. CASE NotReady
    BY <2>1, <2>5 DEF NotReady
  <2>6. CASE PushBranch
    <3>1. execute' = [Erased(execute) EXCEPT !.streamSeqNum = execute.streamSeqNum + 1,
                                             !.draining = TRUE]
      BY <2>1, <2>6 DEF PushBranch
    <3>2. execute'.inFlight = Erased(execute).inFlight
      BY <3>1 DEF Erased, IInv, TypeOK
    <3>3. QED BY <2>3, <3>2
  <2>7. CASE PushResult
    BY <2>1, <2>3, <2>7 DEF PushResult, Leave
  <2>8. CASE PushMemRef
    BY <2>1, <2>3, <2>8 DEF PushMemRef, Leave
  <2>9. QED BY <2>4, <2>5, <2>6, <2>7, <2>8
<1>6. QED BY <1>2, <1>3, <1>4, <1>5

(* The instruction goes from one place to another.                         *)
LEMMA PushPlaces ==
  ASSUME IInv, PlacedOnce, "execute" \notin Faults,
         PushFree \/ NotReady \/ PushBranch \/ PushResult \/ PushMemRef
  PROVE  /\ PlacedOnce'
         /\ ToBeMoved' = ToBeMoved /\ Chained' = Chained
         /\ isb'["ORDER"].index = isb["ORDER"].index
         /\ \A b \in Box : Indexed(isb[b]) => Indexed(isb'[b])
<1>1. /\ Current \in Ids(execute.inFlight) /\ mTo' = mTo /\ retired' = retired
      /\ \/ UNCHANGED <<eTo, isb>> /\ Ids(execute'.inFlight) = Ids(execute.inFlight)
         \/ /\ \E box \in Box : Put(box)
            /\ Ids(execute'.inFlight) = Ids(execute.inFlight) \ {Current}
  BY PushedOnce DEF Elsewhere
<1>2. CASE UNCHANGED <<eTo, isb>> /\ Ids(execute'.inFlight) = Ids(execute.inFlight)
  <2>1. \A b \in Box : Unread(b)' = Unread(b) /\ (\A n : InBox(b, n)' <=> InBox(b, n))
    BY <1>2 DEF Unread, InBox
  <2>2. \A n : Past(n)' <=> Past(n)
    BY <1>1, <1>2 DEF Past
  <2>3. PlacedOnce'
    BY <1>2, <2>1, <2>2 DEF PlacedOnce
  <2>4. QED BY <1>2, <2>1, <2>3 DEF ToBeMoved, Chained
<1>3. ASSUME NEW box \in Box, Put(box),
             Ids(execute'.inFlight) = Ids(execute.inFlight) \ {Current}
      PROVE  /\ PlacedOnce'
             /\ ToBeMoved' = ToBeMoved /\ Chained' = Chained
             /\ isb'["ORDER"].index = isb["ORDER"].index
             /\ \A b \in Box : Indexed(isb[b]) => Indexed(isb'[b])
  <2> DEFINE c == Current
  <2>1. /\ DOMAIN eTo = Box \cup {"ORDER"} /\ DOMAIN isb = Box \cup {"ORDER"}
        /\ isb[box] \in IsbOf(Num) /\ Tally(isb[box]) /\ "ORDER" # box
        /\ eTo[box] \in Seq(Num) /\ c \in Num
    <3>1. Ids(execute.inFlight) \subseteq Num
      BY Named DEF IInv
    <3>2. QED BY <1>1, <3>1 DEF IInv, TypeOK, MemoryBuffers, Box
  <2> HIDE DEF c
  <2>2. /\ eTo'[box] = Append(eTo[box], c) /\ isb'[box] = ReserveEntry(isb[box])
        /\ \A b \in (Box \cup {"ORDER"}) \ {box} : eTo'[b] = eTo[b] /\ isb'[b] = isb[b]
    BY <1>3, <2>1 DEF Put, c
  <2>3. /\ Len(eTo'[box]) = Len(eTo[box]) + 1 /\ Len(eTo[box]) \in Nat
        /\ Ids(eTo'[box]) = Ids(eTo[box]) \cup {c}
        /\ eTo'[box][Len(eTo[box]) + 1] = c
        /\ \A i \in 1 .. Len(eTo[box]) : eTo'[box][i] = eTo[box][i]
        /\ isb'[box].queue = isb[box].queue /\ isb'[box].index = isb[box].index
    BY <2>1, <2>2, AppendIds, ReserveEntryKeeps
  <2>4. ~Past(c)
    BY <1>1 DEF PlacedOnce, c
  <2>5. \A b \in Box : ~InBox(b, c) /\ c \notin Unread(b)
    BY <2>4, WaitingIsContained DEF Past, InBox, Unread
  <2>6. Unread(box)' = Unread(box) \cup {c}
    BY <2>3 DEF Unread, Waiting
  <2>7. \A b \in Box \ {box} : Unread(b)' = Unread(b)
    BY <2>2 DEF Unread
  <2>8. \A n : InBox(box, n)' <=> InBox(box, n) \/ n = c
    BY <2>3 DEF InBox, ContainsExecSeqNum
  <2>9. \A b \in Box \ {box} : \A n : InBox(b, n)' <=> InBox(b, n)
    BY <2>2 DEF InBox
  <2>10. \A n : Past(n)' => Past(n) \/ n = c
    <3> SUFFICES ASSUME NEW n, Past(n)', ~Past(n) PROVE n = c
      OBVIOUS
    <3>1. PICK b \in Box : InBox(b, n)'
      BY <1>1 DEF Past, InBox
    <3>2. ~InBox(b, n)
      BY DEF Past, InBox
    <3>3. QED BY <2>8, <2>9, <3>1, <3>2
  <2>11. \A n \in Ids(execute'.inFlight) : ~Past(n)'
    BY <1>3, <2>10 DEF PlacedOnce, c
  <2>12. ASSUME NEW b \in Box
         PROVE  /\ Once(eTo'[b]) /\ Distinct(isb'[b])
                /\ \A n \in Ids(eTo'[b]) : ~ContainsExecSeqNum(isb'[b], n)
    <3>1. CASE b # box
      BY <2>2, <3>1 DEF PlacedOnce
    <3>2. CASE b = box
      <4>1. \A i \in 1 .. Len(eTo[box]) : eTo[box][i] # c
        BY <2>5, IdsDef DEF InBox
      <4>2. Once(eTo[box]) /\ Distinct(isb[box])
            /\ \A n \in Ids(eTo[box]) : ~ContainsExecSeqNum(isb[box], n)
        BY DEF PlacedOnce
      <4>3. \A i \in 1 .. Len(eTo'[box]) : i \in 1 .. Len(eTo[box]) \/ i = Len(eTo[box]) + 1
        BY <2>3
      <4>4. Once(eTo'[box])
        BY <2>3, <4>1, <4>2, <4>3 DEF Once
      <4>5. Distinct(isb'[box])
        BY <2>3, <4>2 DEF Distinct
      <4>6. \A n \in Ids(eTo'[box]) : ~ContainsExecSeqNum(isb'[box], n)
        <5>1. ~ContainsExecSeqNum(isb[box], c)
          BY <2>5 DEF InBox
        <5>2. \A n : ContainsExecSeqNum(isb'[box], n) <=> ContainsExecSeqNum(isb[box], n)
          BY <2>3 DEF ContainsExecSeqNum
        <5>3. QED BY <2>3, <4>2, <5>1, <5>2
      <4>7. QED BY <3>2, <4>4, <4>5, <4>6
    <3>3. QED BY <3>1, <3>2
  <2>13. ASSUME NEW a \in Box, NEW b \in Box, NEW n, InBox(a, n)', InBox(b, n)'
         PROVE  a = b
    <3>1. \A x, y \in Box : InBox(x, n) /\ InBox(y, n) => x = y
      BY DEF PlacedOnce
    <3>2. CASE n = c
      BY <2>5, <2>9, <2>13, <3>2
    <3>3. CASE n # c
      BY <2>8, <2>9, <2>13, <3>1, <3>3
    <3>4. QED BY <3>2, <3>3
  <2>14. PlacedOnce'
    BY <2>11, <2>12, <2>13 DEF PlacedOnce
  <2>15. \A n \in Num : (\E b \in Box : n \in Unread(b)')
                         <=> (\E b \in Box : n \in Unread(b)) \/ n = c
    BY <2>6, <2>7
  <2>16. ToBeMoved' = ToBeMoved
    <3>1. ToBeMoved' = Ids(execute'.inFlight) \cup {n \in Num : \E b \in Box : n \in Unread(b)'}
      BY DEF ToBeMoved
    <3>2. {n \in Num : \E b \in Box : n \in Unread(b)'}
            = {n \in Num : \E b \in Box : n \in Unread(b)} \cup {c}
      BY <2>1, <2>15
    <3>3. QED BY <1>1, <1>3, <3>1, <3>2 DEF ToBeMoved, c
  <2>17. Chained' = Chained /\ isb'["ORDER"].index = isb["ORDER"].index
    BY <2>1, <2>2 DEF Chained
  <2>18. \A b \in Box : Indexed(isb[b]) => Indexed(isb'[b])
    BY <2>2, <2>3 DEF Indexed
  <2>19. QED BY <2>14, <2>16, <2>17, <2>18
<1>4. QED BY <1>1, <1>2, <1>3

(* ... and stays in one place.                                             *)
LEMMA PlacedOnceKept ==
  ASSUME IInv, PlacedOnce, "execute" \notin Faults, [Next]_vars
  PROVE  PlacedOnce'
<1>1. CASE PushFree \/ NotReady \/ PushBranch \/ PushResult \/ PushMemRef
  BY <1>1, PushPlaces
<1>2. CASE MemoryEvaluate
  <2>1. /\ \A b \in Box : \A n : n \notin Ids(eTo'[b])
        /\ \A b \in Box : \A n : ContainsExecSeqNum(isb'[b], n) => InBox(b, n)
        /\ retired' = retired
        /\ \/ mTo' = mTo
           \/ \E num \in Num, box \in Box :
                Ids(mTo'["ORDER"]) = {num} /\ InBox(box, num)
    <3>1. ASSUME NEW num \in Num, NEW box \in Box, NEW to \in {"COMMON", "TRAP"},
                 mTo' = [b \in {"COMMON", "TRAP", "ORDER"} |->
                           IF b \in {to, "ORDER"} THEN <<num>> ELSE <<>>],
                 ContainsExecSeqNum(isb[box], num) \/ num \in Ids(eTo[box])
          PROVE  \E n \in Num, b \in Box : Ids(mTo'["ORDER"]) = {n} /\ InBox(b, n)
      <4>1. mTo'["ORDER"] = <<num>>
        BY <3>1
      <4>2. QED BY <3>1, <4>1, IdsOfPacket DEF InBox
    <3>2. QED BY <1>2, <3>1, MemoryPassesOn DEF InBox
  <2>2. \A b \in Box : \A n : InBox(b, n)' => InBox(b, n)
    BY <2>1 DEF InBox
  <2>3. \A n : Past(n)' => Past(n)
    <3> SUFFICES ASSUME NEW n, Past(n)' PROVE Past(n)
      OBVIOUS
    <3>1. CASE \E b \in Box : InBox(b, n)'
      BY <2>2, <3>1 DEF Past, InBox
    <3>2. CASE n \in Ids(mTo'["ORDER"]) \/ n \in Ids(retired')
      BY <2>1, <3>2 DEF Past, InBox
    <3>3. QED BY <3>1, <3>2 DEF Past, InBox
  <2>4. execute' = execute
    BY <1>2 DEF MemoryEvaluate
  <2>5. \A b \in Box : Distinct(isb'[b]) /\ eTo'[b] = <<>>
    BY <1>2, MemoryPlaces
  <2>6. \A b \in Box : Once(eTo'[b])
    BY <2>5 DEF Once
  <2>7. QED BY <2>1, <2>2, <2>3, <2>4, <2>5, <2>6 DEF PlacedOnce
<1>3. CASE ~(PushFree \/ NotReady \/ PushBranch \/ PushResult \/ PushMemRef \/ MemoryEvaluate)
  <2>1. /\ \A b \in Box : eTo'[b] = eTo[b] /\ isb'[b] = isb[b]
        /\ \A n : Past(n)' => Past(n)
        /\ \/ Ids(execute'.inFlight) = Ids(execute.inFlight)
           \/ \E n, u : Issues(n, u)
    BY <1>3, BoxesLeftAlone
  <2>2. \A b \in Box : \A n : InBox(b, n)' <=> InBox(b, n)
    BY <2>1 DEF InBox
  <2>3. ASSUME NEW n, NEW u, Issues(n, u)
        PROVE  Ids(execute'.inFlight) = Ids(execute.inFlight) \cup {n} /\ ~Past(n)
    <3>1. n \in ToIssue /\ n \in Num /\ n \in Nat
      BY <2>3, IssuesYoungest DEF Issues
    <3>2. Past(n) => n < n
      BY <3>1 DEF IInv, PastExecute
    <3>3. QED BY <2>3, <3>1, <3>2, IssuesYoungest
  <2>4. \A n \in Ids(execute'.inFlight) : ~Past(n)
    BY <2>1, <2>3 DEF PlacedOnce
  <2>5. QED BY <2>1, <2>2, <2>4 DEF PlacedOnce
<1>4. QED BY <1>1, <1>2, <1>3
-----------------------------------------------------------------------------
(* ORDER names what there is to move, also on wrong paths.                 *)

HeldIsNamed == ToBeMoved \subseteq Chained /\ isb["ORDER"].index <= 1

(* Without wrong paths Memory drops nothing, and it finds whatever it is   *)
(* told to look for.                                                       *)
NothingInShadow == \A n \in Decoded : NotInShadow(n)

NamedIsHeld == Chained \subseteq ToBeMoved /\ \A b \in Box : Indexed(isb[b])

(* A step of Memory.                                                       *)
LEMMA MemoryNames ==
  ASSUME IInv, PlacedOnce, MemoryEvaluate
  PROVE  /\ HeldIsNamed => HeldIsNamed'
         /\ \/ NamedIsHeld => NamedIsHeld'
            \/ \E num \in Chained : Stale(num) /\ \A m \in Chained : num <= m
<1>1. execute' = execute
  BY DEF MemoryEvaluate
<1>2. ToBeMoved' = Ids(execute.inFlight) \cup {n \in Num : \E b \in Box : n \in Unread(b)'}
  BY <1>1 DEF ToBeMoved
<1>3. CASE /\ Chained' = Chained /\ isb'["ORDER"].index = 0
           /\ \A b \in Box : /\ Unread(b)' \subseteq Unread(b)
                             /\ Indexed(isb[b]) => /\ Unread(b)' = Unread(b)
                                                   /\ Indexed(isb'[b])
  <2>1. ToBeMoved' \subseteq ToBeMoved
    BY <1>2, <1>3 DEF ToBeMoved
  <2>2. ASSUME NamedIsHeld PROVE NamedIsHeld'
    <3>1. \A b \in Box : Unread(b)' = Unread(b) /\ Indexed(isb'[b])
      BY <1>3, <2>2 DEF NamedIsHeld
    <3>2. ToBeMoved' = ToBeMoved
      BY <1>2, <3>1 DEF ToBeMoved
    <3>3. QED BY <1>3, <2>2, <3>1, <3>2 DEF NamedIsHeld
  <2>3. QED BY <1>3, <2>1, <2>2 DEF HeldIsNamed
<1>4. ASSUME NEW num \in Chained, \A m \in Chained : num <= m,
             Chained' = Chained \ {num}, isb'["ORDER"].index = 1,
             num \notin Ids(execute.inFlight),
             \A b \in Box : Unread(b)' \subseteq Unread(b) \ {num},
             \/ Stale(num)
             \/ \A b \in Box : Indexed(isb[b]) =>
                  Unread(b)' = Unread(b) \ {num} /\ Indexed(isb'[b])
      PROVE  /\ HeldIsNamed => HeldIsNamed'
             /\ \/ NamedIsHeld => NamedIsHeld'
                \/ \E n \in Chained : Stale(n) /\ \A m \in Chained : n <= m
  <2>1. ToBeMoved' \subseteq ToBeMoved \ {num}
    BY <1>2, <1>4 DEF ToBeMoved
  <2>2. ASSUME NamedIsHeld, ~Stale(num) PROVE NamedIsHeld'
    <3>1. \A b \in Box : Unread(b)' = Unread(b) \ {num} /\ Indexed(isb'[b])
      BY <1>4, <2>2 DEF NamedIsHeld
    <3>2. ToBeMoved \ {num} \subseteq ToBeMoved'
      BY <1>2, <3>1 DEF ToBeMoved
    <3>3. QED BY <1>4, <2>2, <3>1, <3>2 DEF NamedIsHeld
  <2>3. QED BY <1>4, <2>1, <2>2 DEF HeldIsNamed
<1>5. QED BY <1>3, <1>4, MemoryPlaces

(* What is issued takes its place in ORDER, if there is one.               *)
LEMMA IssueNames ==
  ASSUME IInv, OrderHasRoom, NEW n, NEW u, Issues(n, u)
  PROVE  ToBeMoved' = ToBeMoved \cup {n} /\ Chained' = Chained \cup {n}
<1>1. /\ n \in Num /\ FillSequence(n) /\ phase = "execute"
      /\ Ids(execute'.inFlight) = Ids(execute.inFlight) \cup {n}
  BY IssuesYoungest DEF Issues
<1>2. Chained' = Chained \cup {n}
  BY <1>1, OrderIsFilled
<1>3. \A b \in Box : eTo'[b] = eTo[b] /\ isb'[b] = isb[b]
  BY <1>1, FillSequenceKeeps DEF IInv
<1>4. \A b \in Box : Unread(b)' = Unread(b)
  BY <1>3 DEF Unread
<1>5. ToBeMoved' = Ids(execute'.inFlight) \cup {m \in Num : \E b \in Box : m \in Unread(b)'}
  BY DEF ToBeMoved
<1>6. ToBeMoved' = ToBeMoved \cup {n}
  BY <1>1, <1>4, <1>5 DEF ToBeMoved
<1>7. QED BY <1>2, <1>6

(* The steps that are not Memory's.                                        *)
LEMMA OthersName ==
  ASSUME IInv, PlacedOnce, OrderHasRoom, "execute" \notin Faults, [Next]_vars,
         ~MemoryEvaluate
  PROVE  (HeldIsNamed => HeldIsNamed') /\ (NamedIsHeld => NamedIsHeld')
<1>1. CASE PushFree \/ NotReady \/ PushBranch \/ PushResult \/ PushMemRef
  BY <1>1, PushPlaces DEF HeldIsNamed, NamedIsHeld
<1>2. CASE ~(PushFree \/ NotReady \/ PushBranch \/ PushResult \/ PushMemRef)
  <2>1. /\ \A b \in Box : isb'[b] = isb[b]
        /\ isb'["ORDER"].index = isb["ORDER"].index
        /\ \/ /\ Ids(execute'.inFlight) = Ids(execute.inFlight)
              /\ UNCHANGED <<eTo, isb>>
           \/ \E n, u : Issues(n, u)
    BY <1>2, BoxesLeftAlone
  <2>2. \A b \in Box : Indexed(isb[b]) => Indexed(isb'[b])
    BY <2>1
  <2>3. CASE Ids(execute'.inFlight) = Ids(execute.inFlight) /\ UNCHANGED <<eTo, isb>>
    <3>1. \A b \in Box : Unread(b)' = Unread(b)
      BY <2>3 DEF Unread
    <3>2. ToBeMoved' = ToBeMoved /\ Chained' = Chained
      BY <2>3, <3>1 DEF ToBeMoved, Chained
    <3>3. QED BY <2>1, <2>2, <3>2 DEF HeldIsNamed, NamedIsHeld
  <2>4. CASE \E n, u : Issues(n, u)
    <3>1. PICK n, u : Issues(n, u)
      BY <2>4
    <3>2. ToBeMoved' = ToBeMoved \cup {n} /\ Chained' = Chained \cup {n}
      BY <3>1, IssueNames
    <3>3. QED BY <2>1, <2>2, <3>2 DEF HeldIsNamed, NamedIsHeld
  <2>5. QED BY <2>1, <2>3, <2>4
<1>3. QED BY <1>1, <1>2

(* What an instruction is does not change once it is decoded, and a fault  *)
(* stays one.                                                              *)
LEMMA InstsKept ==
  ASSUME IInv, [Next]_vars
  PROVE  /\ Decoded \subseteq Decoded'
         /\ \A n \in Decoded : /\ insts'[n].op = insts[n].op
                               /\ insts'[n].stream = insts[n].stream
                               /\ insts'[n].dsts = insts[n].dsts
                               /\ insts[n].fault => insts'[n].fault
<1>1. /\ Decoded \subseteq Decoded'
      /\ \/ \A n \in Decoded : SameBut(n)
         \/ \E d : PushStep(d)
         \/ \E n, d : Answered(n, d)
  BY InstructionSteps
<1>2. CASE \A n \in Decoded : SameBut(n)
  BY <1>1, <1>2 DEF SameBut
<1>3. ASSUME NEW d, PushStep(d)
      PROVE  \A n \in Decoded : /\ insts'[n].op = insts[n].op
                                /\ insts'[n].stream = insts[n].stream
                                /\ insts'[n].dsts = insts[n].dsts
                                /\ insts[n].fault => insts'[n].fault
  BY <1>3, PushKeepsInsts
<1>4. ASSUME NEW k, NEW d, Answered(k, d)
      PROVE  \A n \in Decoded : /\ insts'[n].op = insts[n].op
                                /\ insts'[n].stream = insts[n].stream
                                /\ insts'[n].dsts = insts[n].dsts
                                /\ insts[n].fault => insts'[n].fault
  <2>1. /\ k \in Decoded /\ d \in DynInst /\ insts' = [insts EXCEPT ![k] = d]
        /\ d = [insts[k] EXCEPT !.req = d.req] /\ TypeOK
    BY <1>4 DEF Answered, IInv
  <2>2. insts'[k] = d /\ \A m \in Decoded : m # k => insts'[m] = insts[m]
    BY <2>1, OneInstChanges
  <2>3. insts[k] \in DynInst
    BY <2>1, Named
  <2>4. /\ d.op = insts[k].op /\ d.stream = insts[k].stream /\ d.fault = insts[k].fault
        /\ d.dsts = insts[k].dsts
    <3> DEFINE r == d.req
    <3>1. d = [insts[k] EXCEPT !.req = r]
      BY <2>1
    <3> HIDE DEF r
    <3>2. QED BY <2>3, <3>1 DEF DynInst
  <2>5. QED BY <2>2, <2>4
<1>5. QED BY <1>1, <1>2, <1>3, <1>4

(* Nothing comes out of the shadow of a branch.                            *)
LEMMA ShadowsRemain ==
  ASSUME IInv, [Next]_vars
  PROVE  /\ NothingInShadow' => NothingInShadow
         /\ \A n \in Decoded : NotInShadow(n)' <=> NotInShadow(n)
         /\ FirstBranchesOpen' => FirstBranchesOpen
<1>1. /\ Decoded \subseteq Decoded'
      /\ \A n \in Decoded : insts'[n].op = insts[n].op /\ insts'[n].stream = insts[n].stream
  BY InstsKept
<1>2. \A n \in Decoded : NotInShadow(n)' <=> NotInShadow(n)
  BY <1>1, ShadowsStay DEF IInv
<1>3. NothingInShadow' => NothingInShadow
  BY <1>1, <1>2 DEF NothingInShadow
<1>4. Opened \subseteq Opened'
  <2>1. CASE PushFree \/ NotReady \/ PushBranch \/ PushResult \/ PushMemRef
    <3>1. PICK d : PushStep(d)
      BY <2>1, PushFreeStep, NotReadyStep, PushBranchStep, PushResultStep, PushMemRefStep
    <3>2. QED BY <3>1, PushKeepsInsts DEF Opened
  <2>2. CASE ~(PushFree \/ NotReady \/ PushBranch \/ PushResult \/ PushMemRef)
    BY <2>2, SameOtherwise DEF Opened
  <2>3. QED BY <2>1, <2>2
<1>5. FirstBranchesOpen' => FirstBranchesOpen
  BY <1>2, <1>4 DEF FirstBranchesOpen, Opened
<1>6. QED BY <1>2, <1>3, <1>5

FoundInPlace ==
  /\ FollowsThePath /\ PlacedOnce /\ HeldIsNamed
  /\ NothingInShadow => NamedIsHeld

(* In the beginning there is nothing to find.                              *)
LEMMA PlacesInitially ==
  ASSUME Init
  PROVE  FoundInPlace
<1>1. FollowsThePath
  BY PathInitially
<1>2. /\ \A b \in Box \cup {"ORDER"} : isb[b] = EmptyIsb /\ eTo[b] = <<>>
      /\ execute.inFlight = <<>> /\ Ids(<<>>) = {} /\ "ORDER" \in Box \cup {"ORDER"}
  BY IdsOfPacket DEF Init, NoPackets
<1>3. /\ EmptyIsb.queue = <<>> /\ EmptyIsb.index = 0 /\ Waiting(EmptyIsb) = {}
      /\ Distinct(EmptyIsb) /\ Indexed(EmptyIsb) /\ Once(<<>>)
      /\ \A n : ~ContainsExecSeqNum(EmptyIsb, n)
  BY DEF EmptyIsb, Waiting, Distinct, Indexed, Once, ContainsExecSeqNum
<1>4. \A b \in Box : Unread(b) = {} /\ \A n : ~InBox(b, n)
  BY <1>2, <1>3 DEF Unread, InBox
<1>5. PlacedOnce
  BY <1>2, <1>3, <1>4 DEF PlacedOnce
<1>6. ToBeMoved = {}
  BY <1>2, <1>4 DEF ToBeMoved
<1>7. Chained = {} /\ isb["ORDER"].index = 0
  BY <1>2, <1>3 DEF Chained
<1>8. QED BY <1>1, <1>2, <1>3, <1>5, <1>6, <1>7 DEF FoundInPlace, HeldIsNamed, NamedIsHeld

(* Each step leaves everything where ORDER says.                           *)
LEMMA PlacesKept ==
  ASSUME FoundInPlace, OrderHasRoom, "execute" \notin Faults, [Next]_vars
  PROVE  FoundInPlace'
<1>1. IInv /\ FollowsThePath /\ PlacedOnce /\ HeldIsNamed
  BY DEF FoundInPlace, FollowsThePath
<1>2. FollowsThePath' /\ PlacedOnce'
  BY <1>1, PathKept, PlacedOnceKept
<1>3. HeldIsNamed'
  BY <1>1, MemoryNames, OthersName
<1>4. ASSUME NothingInShadow' PROVE NamedIsHeld'
  <2>1. NothingInShadow
    BY <1>1, <1>4, ShadowsRemain
  <2>2. NamedIsHeld
    BY <2>1 DEF FoundInPlace
  <2>3. ASSUME MemoryEvaluate, NEW num \in Chained, Stale(num), \A m \in Chained : num <= m
        PROVE  FALSE
    <3>1. FirstBranchesOpen
      BY <2>1 DEF NothingInShadow, FirstBranchesOpen, Opened
    <3>2. OnlyBranchesOpen /\ StreamsInOrder /\ OpenersKnown /\ PathFollowed
      BY <1>1, <3>1 DEF FollowsThePath, BranchesCounted, OnThePath
    <3>3. phase # "crashed"
      BY <2>3 DEF MemoryEvaluate
    <3>4. ~NotInShadow(num)
      BY <1>1, <2>3, <3>1, <3>2, <3>3, StaleIsShadowed
    <3>5. num \in Decoded
      BY <1>1, PathNamed
    <3>6. QED BY <2>1, <3>4, <3>5 DEF NothingInShadow
  <2>4. QED BY <1>1, <2>2, <2>3, MemoryNames, OthersName
<1>5. QED BY <1>2, <1>3, <1>4 DEF FoundInPlace

(* What Memory and Writeback have still to handle is what Memory has still *)
(* to move, and what is in the latch between them.                         *)
LEMMA HeldIsToBeMoved ==
  ASSUME IInv
  PROVE  Held = ToBeMoved \cup Ids(mTo["ORDER"])
<1>1. \A b \in {"COMMON", "TRAP", "ORDER"} : Waiting(wb[b]) = {}
  <2> SUFFICES ASSUME NEW b \in {"COMMON", "TRAP", "ORDER"} PROVE Waiting(wb[b]) = {}
    OBVIOUS
  <2>1. wb[b].queue = <<>>
    BY DEF IInv, WritebackBuffers
  <2>2. QED BY <2>1 DEF Waiting
<1>2. Ids(mTo["COMMON"]) \cup Ids(mTo["TRAP"]) = Ids(mTo["ORDER"])
  BY OnTheWay
<1>3. UNION {Ids(mTo[b]) \cup Waiting(wb[b]) : b \in {"COMMON", "TRAP"}} = Ids(mTo["ORDER"])
  <2>1. UNION {Ids(mTo[b]) \cup Waiting(wb[b]) : b \in {"COMMON", "TRAP"}}
          = (Ids(mTo["COMMON"]) \cup Waiting(wb["COMMON"]))
              \cup (Ids(mTo["TRAP"]) \cup Waiting(wb["TRAP"]))
    OBVIOUS
  <2>2. QED BY <1>1, <1>2, <2>1
<1>4. \A b \in Box : Unread(b) \subseteq Num
  <2> SUFFICES ASSUME NEW b \in Box PROVE Unread(b) \subseteq Num
    OBVIOUS
  <2>1. eTo[b] \in Seq(Num)
    BY DEF IInv, TypeOK
  <2>2. QED BY <2>1, IdsIn DEF Unread, Waiting
<1>5. UNION {Ids(eTo[b]) \cup Waiting(isb[b]) : b \in Box}
        = {n \in Num : \E b \in Box : n \in Unread(b)}
  <2>1. \A b \in Box : Unread(b) = Ids(eTo[b]) \cup Waiting(isb[b])
    BY DEF Unread
  <2> DEFINE All == UNION {Ids(eTo[b]) \cup Waiting(isb[b]) : b \in Box}
  <2>2. ASSUME NEW n \in All PROVE n \in Num /\ \E b \in Box : n \in Unread(b)
    <3>1. PICK b \in Box : n \in Ids(eTo[b]) \cup Waiting(isb[b])
      BY <2>2, Zenon
    <3>2. n \in Unread(b)
      BY <2>1, <3>1, Zenon
    <3>3. QED BY <1>4, <3>2
  <2>3. ASSUME NEW n \in Num, NEW b \in Box, n \in Unread(b) PROVE n \in All
    <3>1. n \in Ids(eTo[b]) \cup Waiting(isb[b])
      BY <2>1, <2>3, Zenon
    <3>2. QED BY <3>1, Zenon
  <2> DEFINE Some == {n \in Num : \E b \in Box : n \in Unread(b)}
  <2> HIDE DEF All
  <2>4. All \subseteq Some
    BY <2>2, Zenon
  <2>5. Some \subseteq All
    BY <2>3, Zenon
  <2> HIDE DEF Some
  <2>6. All = Some
    BY <2>4, <2>5
  <2>7. QED BY <2>6 DEF All, Some
<1>6. QED BY <1>3, <1>5 DEF Held, ToBeMoved

(* The chain of ORDER, in order.                                           *)
LEMMA TheOrderChain ==
  ASSUME IInv, isb["ORDER"].index <= 1
  PROVE  /\ OrderChain \in Seq(Num) /\ Increasing(OrderChain)
         /\ Ids(OrderChain) = Ids(mTo["ORDER"]) \cup Chained
<1> DEFINE w == Rest(wb["ORDER"])  m == mTo["ORDER"]  r == Rest(isb["ORDER"])  e == eTo["ORDER"]
<1>1. /\ m \in Seq(Num) /\ e \in Seq(Num) /\ isb["ORDER"] \in IsbOf(Num)
      /\ wb["ORDER"] \in IsbOf(Num) /\ MaxInst \in Nat /\ Num \in SUBSET Nat
      /\ OneAPacket(isb["ORDER"]) /\ Ordered(isb["ORDER"])
  BY Named DEF IInv, TypeOK, OrderKept
<1>2. w \in Seq(Num) /\ Ids(w) = {} /\ Increasing(w)
  <2>1. wb["ORDER"].queue = <<>> /\ wb["ORDER"].index = 0
    BY DEF IInv, WritebackBuffers
  <2>2. OneAPacket(wb["ORDER"]) /\ Ordered(wb["ORDER"]) /\ Waiting(wb["ORDER"]) = {}
    BY <2>1 DEF OneAPacket, Ordered, Waiting
  <2>3. QED BY <1>1, <2>1, <2>2, RestOne
<1>3. r \in Seq(Num) /\ Ids(r) = Waiting(isb["ORDER"]) /\ Increasing(r)
  BY <1>1, RestOne
<1>4. Increasing(m)
  <2>1. Len(m) <= 1
    <3>1. mTo["ORDER"] = <<>> \/ \E n \in Num : mTo["ORDER"] = <<n>>
      BY DEF IInv, WritebackBuffers
    <3>2. CASE mTo["ORDER"] = <<>>
      BY <3>2
    <3>3. CASE \E n \in Num : mTo["ORDER"] = <<n>>
      <4>1. PICK n \in Num : mTo["ORDER"] = <<n>>
        BY <3>3
      <4>2. QED BY <4>1
    <3>4. QED BY <3>1, <3>2, <3>3
  <2>2. Len(m) \in Nat
    BY <1>1
  <2> HIDE DEF m
  <2>3. QED BY <2>1, <2>2 DEF Increasing
<1>5. Increasing(e)
  <2>1. Len(e) <= 1
    BY DEF IInv, MemoryBuffers
  <2>2. Len(e) \in Nat
    BY <1>1
  <2> HIDE DEF e
  <2>3. QED BY <2>1, <2>2 DEF Increasing
<1>6. \A x \in Waiting(isb["ORDER"]), y \in Ids(e) : x < y
  <2>1. \A i \in 1 .. Len(isb["ORDER"].queue) : \A n \in Ids(e) : isb["ORDER"].queue[i][1] < n
    BY DEF IInv, OrderKept
  <2>2. QED BY <1>1, <2>1, WaitingOne
<1>7. \A x \in Ids(m), y \in Chained : x < y
  BY DEF IInv, LeavesInOrder
<1> HIDE DEF w, m, r, e
<1> DEFINE wm == w \o m
           wmr == wm \o r
<1>8. wm \in Seq(Num) /\ Ids(wm) = Ids(m) /\ Increasing(wm)
  <2>1. \A x \in Ids(w), y \in Ids(m) : x < y
    BY <1>2
  <2>2. /\ wm \in Seq(Num) /\ Increasing(wm)
        /\ Ids(wm) = Ids(w) \cup Ids(m)
    BY <1>1, <1>2, <1>4, <2>1, ConcatIds
  <2>3. QED BY <1>2, <2>2
<1> HIDE DEF wm
<1>9. wmr \in Seq(Num) /\ Ids(wmr) = Ids(m) \cup Waiting(isb["ORDER"]) /\ Increasing(wmr)
  <2>1. \A x \in Ids(wm), y \in Ids(r) : x < y
    BY <1>3, <1>7, <1>8 DEF Chained
  <2>2. QED BY <1>1, <1>3, <1>8, <2>1, ConcatIds
<1> HIDE DEF wmr
<1>10. /\ wmr \o e \in Seq(Num) /\ Increasing(wmr \o e)
       /\ Ids(wmr \o e) = Ids(m) \cup Chained
  <2>1. \A x \in Ids(wmr), y \in Ids(e) : x < y
    BY <1>6, <1>7, <1>9 DEF Chained, e
  <2>2. /\ wmr \o e \in Seq(Num) /\ Increasing(wmr \o e)
        /\ Ids(wmr \o e) = Ids(wmr) \cup Ids(e)
    BY <1>1, <1>5, <1>9, <2>1, ConcatIds
  <2>3. QED BY <1>9, <2>2 DEF Chained, e
<1>11. OrderChain = wmr \o e
  BY DEF OrderChain, w, m, r, e, wm, wmr
<1>12. QED BY <1>10, <1>11 DEF m

(* Whatever wrong paths there are, ORDER names everything that is between  *)
(* issue and retirement.                                                   *)
THEOREM WhatIsHeldIsNamed ==
  ASSUME "execute" \notin Faults
  PROVE  Spec /\ []OrderHasRoom => [](Held \subseteq Ids(OrderChain))
<1>1. Init => FoundInPlace
  BY PlacesInitially
<1>2. FoundInPlace /\ OrderHasRoom /\ [Next]_vars => FoundInPlace'
  BY PlacesKept
<1>3. FoundInPlace => Held \subseteq Ids(OrderChain)
  BY HeldIsToBeMoved, TheOrderChain DEF FoundInPlace, FollowsThePath, HeldIsNamed
<1>4. QED BY <1>1, <1>2, <1>3, PTL DEF Spec

(* And while nothing is fetched in the shadow of a branch it names nothing *)
(* else: Memory finds each instruction it waits for, now or later.         *)
THEOREM OrderAndBoxesAgree ==
  ASSUME "execute" \notin Faults
  PROVE  Spec /\ []OrderHasRoom => [](NothingInShadow => OrderNamesWhatIsHeld)
<1>1. Init => FoundInPlace
  BY PlacesInitially
<1>2. FoundInPlace /\ OrderHasRoom /\ [Next]_vars => FoundInPlace'
  BY PlacesKept
<1>3. FoundInPlace => (NothingInShadow => OrderNamesWhatIsHeld)
  <2> SUFFICES ASSUME FoundInPlace, NothingInShadow PROVE OrderNamesWhatIsHeld
    OBVIOUS
  <2>1. /\ Held = ToBeMoved \cup Ids(mTo["ORDER"])
        /\ OrderChain \in Seq(Num) /\ Increasing(OrderChain)
        /\ Ids(OrderChain) = Ids(mTo["ORDER"]) \cup Chained
    BY HeldIsToBeMoved, TheOrderChain DEF FoundInPlace, FollowsThePath, HeldIsNamed
  <2>2. ToBeMoved = Chained
    BY DEF FoundInPlace, HeldIsNamed, NamedIsHeld
  <2>3. \A i \in 1 .. Len(OrderChain) - 1 : OrderChain[i] < OrderChain[i + 1]
    <3> DEFINE c == OrderChain
    <3>1. Len(c) \in Nat /\ \A i, j \in 1 .. Len(c) : i < j => c[i] < c[j]
      BY <2>1 DEF Increasing
    <3> HIDE DEF c
    <3>2. \A i \in 1 .. Len(c) - 1 : i \in 1 .. Len(c) /\ i + 1 \in 1 .. Len(c) /\ i < i + 1
      BY <3>1
    <3>3. \A i \in 1 .. Len(c) - 1 : c[i] < c[i + 1]
      BY <3>1, <3>2
    <3>4. QED BY <3>3 DEF c
  <2>4. QED BY <2>1, <2>2, <2>3 DEF OrderNamesWhatIsHeld
<1>4. QED BY <1>1, <1>2, <1>3, PTL DEF Spec
-----------------------------------------------------------------------------
(* Nobody calls back on a request that is gone: what Memory drops while    *)
(* the cache still owes an answer is in the shadow of a branch.            *)
THEOREM RequestsAreHeld ==
  ASSUME "execute" \notin Faults, OneMemoryUnit
  PROVE  Spec /\ []OrderHasRoom => [](NothingInShadow => RequestsHeld)
<1> DEFINE Inv == FollowsThePath /\ AnswersKept /\ AccessesAwaitAnswers
<1>1. Init => Inv
  <2> SUFFICES ASSUME Init PROVE Inv
    OBVIOUS
  <2>1. dcache.cache = {}
    BY DEF Init
  <2>2. AccessesAwaitAnswers
    BY <2>1 DEF AccessesAwaitAnswers
  <2>3. QED BY <2>2, PathInitially, AnswersInitially
<1>2. Inv /\ OrderHasRoom /\ [Next]_vars => Inv'
  <2> SUFFICES ASSUME Inv, OrderHasRoom, [Next]_vars PROVE Inv'
    OBVIOUS
  <2>1. IInv
    BY DEF FollowsThePath
  <2>2. FollowsThePath'
    BY PathKept
  <2>3. AnswersKept' /\ AccessesAwaitAnswers'
    BY <2>1, AnswersKeptOn, AccessesAwaitKept
  <2>4. QED BY <2>2, <2>3
<1>3. Inv => (NothingInShadow => RequestsHeld)
  <2> SUFFICES ASSUME Inv, NothingInShadow PROVE RequestsHeld
    OBVIOUS
  <2>1. IInv /\ OnlyBranchesOpen /\ OnThePath
    BY DEF FollowsThePath, BranchesCounted
  <2>2. FirstBranchesOpen
    BY DEF NothingInShadow, FirstBranchesOpen, Opened
  <2>3. OpenersKnown /\ PathFollowed
    BY <2>1, <2>2 DEF OnThePath
  <2>4. dcache.cache \cup dcache.dtlb \subseteq Decoded
    BY <2>1 DEF IInv, RequestsTracked, TypeOK, Decoded, Num
  <2>5. dcache.dtlb \subseteq {n \in Ids(execute.inFlight) : insts[n].req = "InTranslation"}
    BY <2>1, <2>4 DEF IInv, RequestsTracked
  <2>6. ASSUME NEW n \in dcache.cache, Freed(n) PROVE FALSE
    <3>1. n \in Decoded
      BY <2>4
    <3>2. Lost(n) /\ n \notin Done
      BY <2>6 DEF AnswersKept, OnlyTheLostAreFreed, AccessesAwaitAnswers, Bypasses
    <3>3. ~NotInShadow(n)
      BY <2>1, <2>2, <2>3, <3>1, <3>2, LostIsShadowed
    <3>4. QED BY <3>1, <3>3 DEF NothingInShadow
  <2>7. \A n \in dcache.cache :
          /\ n \in Ids(execute.inFlight) \cup (Ids(eTo["MEMORY"]) \cup Waiting(isb["MEMORY"]))
          /\ insts[n].req = "SentToCache"
    BY <2>1, <2>6 DEF Freed, IInv, RequestsTracked
  <2>8. dcache.owesRetry => /\ dcache.retryRequest \in Decoded
                            /\ insts[dcache.retryRequest].req = "WaitingRetry"
    BY <2>1 DEF IInv, RequestsTracked, TypeOK, Decoded, Num
  <2>9. dcache.owesRetry => dcache.retryRequest \in Ids(execute.inFlight)
    BY <2>1, <2>8 DEF IInv, RequestsTracked
  <2>10. dcache.owesRetry <=> dcache.retryRequest # 0
    BY <2>1 DEF IInv, RequestsTracked
  <2>11. QED BY <2>5, <2>7, <2>8, <2>9, <2>10 DEF RequestsHeld
<1> HIDE DEF Inv
<1>4. QED BY <1>1, <1>2, <1>3, PTL DEF Spec
-----------------------------------------------------------------------------
(* What Decode adds.                                                       *)

(* What Decode makes of a static instruction.                              *)
NewInst(s) ==
  [op |-> s.op, dsts |-> s.dsts, srcs |-> s.srcs, stream |-> supply,
   fault |-> s.op = "FetchFault", fu |-> 0, forward |-> 0,
   req |-> "NotIssued", opens |-> 0]

(* Decode alone adds an instruction, the last.                             *)
LEMMA NewlyDecoded ==
  ASSUME IInv, [Next]_vars
  PROVE  \/ Decoded' = Decoded
         \/ /\ DecodeEvaluate
            /\ \E s \in StaticInsts :
                 /\ InShadow => s.op \in ShadowOps
                 /\ Decoded' = Decoded \cup {Len(insts) + 1}
                 /\ insts'[Len(insts) + 1] = NewInst(s)
                 /\ \A n \in Decoded : insts'[n] = insts[n]
<1>1. /\ insts \in Seq(DynInst) /\ Len(insts) \in Nat /\ Decoded = 1 .. Len(insts)
      /\ TypeOK
  BY Named DEF IInv, TypeOK, Decoded
<1>2. CASE PushFree \/ NotReady \/ PushBranch \/ PushResult \/ PushMemRef
  <2>1. PICK d : PushStep(d)
    BY <1>2, PushFreeStep, NotReadyStep, PushBranchStep, PushResultStep, PushMemRefStep
  <2>2. QED BY <2>1, PushKeepsInsts
<1>3. CASE \/ \E n \in Num : FinishMemTranslation(n) \/ RecvTimingResp(n)
           \/ \E accept \in BOOLEAN : RecvReqRetry(accept)
  <2>1. insts' = insts \/ \E n, d : Answered(n, d)
    BY <1>3, CallbackCases
  <2>2. ASSUME NEW n, NEW d, Answered(n, d) PROVE Decoded' = Decoded
    <3>1. insts' = [insts EXCEPT ![n] = d]
      BY <2>2 DEF Answered
    <3>2. Len([insts EXCEPT ![n] = d]) = Len(insts)
      BY <1>1
    <3>3. QED BY <3>1, <3>2 DEF Decoded
  <2>3. QED BY <2>1, <2>2 DEF Decoded
<1>4. CASE ExecuteEvaluate
  <2>1. insts' = insts \/ \E n, u : Issues(n, u)
    BY <1>4, ExecuteCases DEF NothingIssued
  <2>2. ASSUME NEW n, NEW u, Issues(n, u) PROVE Decoded' = Decoded
    <3>1. n \in Decoded /\ u \in {0} \cup Unit /\ MarkupInstDests(n, u)
      BY <2>2, IssuesYoungest DEF Issues
    <3>2. QED BY <1>1, <3>1, MarkupKeeps DEF Decoded
  <2>3. QED BY <2>1, <2>2 DEF Decoded
<1>5. CASE WritebackEvaluate \/ MemoryEvaluate \/ SetStalls \/ UNCHANGED vars
  BY <1>5 DEF WritebackEvaluate, MemoryEvaluate, SetStalls, vars, Decoded
<1>6. CASE DecodeEvaluate
  <2>1. CASE insts' = insts
    BY <2>1 DEF Decoded
  <2>2. CASE insts' # insts
    <3>1. PICK s \in StaticInsts : (InShadow => s.op \in ShadowOps)
                                   /\ insts' = Append(insts, NewInst(s))
      BY <1>6, <2>2 DEF DecodeEvaluate, NewInst
    <3> DEFINE d == NewInst(s)
    <3>2. insts' = Append(insts, d)
      BY <3>1
    <3> HIDE DEF d
    <3>3. /\ Len(insts') = Len(insts) + 1
          /\ \A m \in 1 .. Len(insts) : insts'[m] = insts[m]
          /\ insts'[Len(insts) + 1] = d
      BY <1>1, <3>2
    <3>4. Decoded' = Decoded \cup {Len(insts) + 1}
      BY <1>1, <3>3 DEF Decoded
    <3>5. QED BY <1>1, <1>6, <3>1, <3>3, <3>4 DEF d
  <2>3. QED BY <2>1, <2>2
<1>7. QED BY <1>2, <1>3, <1>4, <1>5, <1>6 DEF Next, Cycle
-----------------------------------------------------------------------------
(* What rename_id says, on the way from issue() to Writeback: a register   *)
(* with a writer in flight is marked, and a marked register has one.       *)

(* The instructions whose marks count: those ORDER names, up to the latch  *)
(* to Writeback.                                                           *)
Marked == Chained \cup Ids(mTo["ORDER"])

(* An instruction is issued, and marked.                                   *)
Marks(n) ==
  /\ n \in ToIssue /\ n \in Num /\ Marked' = Marked \cup {n}
  /\ \A m \in Marked : m < n
  /\ \E u : Issues(n, u)

(* Memory drops the oldest, and its marks.                                 *)
Unmarks(n) ==
  /\ Stale(n) /\ n \in Chained /\ MemoryEvaluate
  /\ Marked' = Marked \ {n} /\ \A m \in Marked : n <= m
  /\ renameId' = ClearInstDests(n)

(* Writeback retires it.                                                   *)
Retires(n) ==
  /\ n \in Num /\ mTo["ORDER"] = <<n>> /\ retired' = Append(retired, n)
  /\ Marked' = Marked \ {n} /\ \A m \in Marked : n <= m
  /\ Commits(n)

(* Nothing else changes rename_id, or what it is to say.                   *)
LEMMA ScoreboardSteps ==
  ASSUME IInv, PlacedOnce, OrderHasRoom, [Next]_vars
  PROVE  \/ renameId' = renameId /\ Marked' = Marked
         \/ \E n : Marks(n)
         \/ \E n : Unmarks(n)
         \/ \E n : Retires(n)
<1>1. CASE PushFree \/ NotReady \/ PushBranch \/ PushResult \/ PushMemRef
  <2>1. PICK d : PushStep(d)
    BY <1>1, PushFreeStep, NotReadyStep, PushBranchStep, PushResultStep, PushMemRefStep
  <2>2. eTo'["ORDER"] = eTo["ORDER"] /\ isb'["ORDER"] = isb["ORDER"]
    BY <2>1, PushKeepsBuffers
  <2>3. renameId' = renameId /\ mTo' = mTo
    BY <2>1 DEF PushStep, Elsewhere
  <2>4. QED BY <2>2, <2>3 DEF Marked, Chained
<1>2. CASE MemoryEvaluate
  <2>1. mTo["ORDER"] = <<>> /\ Ids(mTo["ORDER"]) = {}
    BY <1>2, IdsOfPacket DEF IInv, WritebackBuffers, MemoryEvaluate
  <2>2. CASE Chained' = Chained /\ UNCHANGED <<renameId, mTo>>
    BY <2>2 DEF Marked
  <2>3. ASSUME NEW num \in Chained, \A m \in Chained : num <= m,
               Chained' = Chained \ {num}, Stale(num), renameId' = ClearInstDests(num),
               UNCHANGED mTo
        PROVE  Unmarks(num)
    BY <1>2, <2>1, <2>3 DEF Unmarks, Marked
  <2>4. ASSUME NEW num \in Chained, Chained' = Chained \ {num}, renameId' = renameId,
               Ids(mTo'["ORDER"]) = {num}
        PROVE  Marked' = Marked
    BY <2>1, <2>4 DEF Marked
  <2>5. QED BY <1>2, <2>2, <2>3, <2>4, MemoryPlaces
<1>3. CASE WritebackEvaluate
  <2>1. Chained' = Chained /\ Ids(mTo'["ORDER"]) = {}
    BY <1>3, IdsOfPacket DEF WritebackEvaluate, NoPackets, Chained
  <2>2. CASE mTo["ORDER"] = <<>> /\ UNCHANGED <<regs, renameId>>
    BY <2>1, <2>2, IdsOfPacket DEF Marked
  <2>3. ASSUME NEW n \in Num, mTo["ORDER"] = <<n>>, Commits(n),
               retired' = Append(retired, n)
        PROVE  Retires(n)
    <3>1. Ids(mTo["ORDER"]) = {n} /\ n \in Nat
      BY <2>3, IdsOfPacket, Named DEF IInv
    <3>2. \A m \in Chained : n < m
      BY <3>1 DEF IInv, LeavesInOrder
    <3>3. n \notin Chained
      BY <3>1, <3>2
    <3>4. Chained \subseteq Nat
      BY PathNamed
    <3>5. \A m \in Marked : n <= m
      BY <3>1, <3>2, <3>4 DEF Marked
    <3>6. Marked' = Marked \ {n}
      BY <2>1, <3>1, <3>3 DEF Marked
    <3>7. QED BY <2>3, <3>5, <3>6 DEF Retires
  <2>4. QED BY <1>3, <2>2, <2>3, WritebackEffect
<1>4. CASE ExecuteEvaluate
  <2>1. CASE NothingIssued
    BY <2>1 DEF NothingIssued, Marked, Chained
  <2>2. ASSUME NEW n, NEW u, Issues(n, u)
        PROVE  Marks(n)
    <3>1. Chained' = Chained \cup {n} /\ n \in Num /\ mTo' = mTo
      BY <2>2, IssueNames, IssuesYoungest DEF Issues
    <3>2. n \in ToIssue
      BY <2>2 DEF Issues
    <3>3. \A m \in Marked : m < n
      BY <3>2, PathNamed DEF Marked, Done
    <3>4. QED BY <2>2, <3>1, <3>2, <3>3 DEF Marks, Marked
  <2>3. QED BY <1>4, <2>1, <2>2, ExecuteCases
<1>5. CASE SetStalls \/ DecodeEvaluate \/ UNCHANGED vars
  BY <1>5 DEF SetStalls, DecodeEvaluate, vars, Marked, Chained
<1>6. CASE \/ \E n \in Num : FinishMemTranslation(n) \/ RecvTimingResp(n)
           \/ \E accept \in BOOLEAN : RecvReqRetry(accept)
  BY <1>6, CallbackCases DEF Marked, Chained
<1>7. QED BY <1>1, <1>2, <1>3, <1>4, <1>5, <1>6 DEF Next, Cycle
-----------------------------------------------------------------------------
(* A writer in flight is marked.                                           *)

(* Each of its registers carries its number or a younger one.              *)
MarksCover == \A n \in Marked : \A r \in insts[n].dsts : n <= renameId[r]

(* A fetch fault, which has no static instruction, is all that is a fault  *)
(* before it is issued.                                                    *)
FetchFaultsWriteNothing == \A s \in StaticInsts : s.op = "FetchFault" => s.dsts = {}

FaultsMarkNothing == \A n \in ToIssue : insts[n].fault => insts[n].dsts = {}

(* The faults of an execution on the path.                                 *)
FaultsOfTheProgram ==
  \A n \in Decoded : insts[n].fault => NotInShadow(n) /\ FirstBranchesOpen

(* Nothing is added to what waits to be issued but what Decode delivers.   *)
LEMMA ToIssueIsDecoded ==
  ASSUME IInv, [Next]_vars
  PROVE  \A n \in ToIssue' : n \in ToIssue \/ n \notin Decoded
<1>0. IInv' /\ Ids(Bubble) = {}
  BY NextIInv, IdsOfPacket DEF Bubble
<1>1. CASE PushFree \/ NotReady \/ PushBranch \/ PushResult \/ PushMemRef
  <2>1. PICK d : PushStep(d)
    BY <1>1, PushFreeStep, NotReadyStep, PushBranchStep, PushResultStep, PushMemRefStep
  <2>2. QED BY <2>1, PushKeepsInsts
<1>2. CASE MemoryEvaluate
  <2>1. phase = "memory" /\ phase' = "execute" /\ executeIn' = executeIn /\ dToE' = dToE
    BY <1>2 DEF MemoryEvaluate
  <2>2. QED BY <2>1 DEF ToIssue, Arriving
<1>3. CASE ExecuteEvaluate
  <2>1. CASE NothingIssued
    <3>1. Arriving' = Bubble
      BY <2>1 DEF NothingIssued, Arriving
    <3>2. QED BY <1>0, <2>1, <3>1 DEF NothingIssued, ToIssue
  <2>2. ASSUME NEW n, NEW u, Issues(n, u)
        PROVE  ToIssue' \subseteq ToIssue
    BY <2>2, IssuesYoungest
  <2>3. QED BY <1>3, <2>1, <2>2, ExecuteCases
<1>4. CASE DecodeEvaluate
  <2>1. Arriving = Bubble /\ Arriving' = dToE'
    BY <1>4 DEF DecodeEvaluate, Arriving
  <2>2. executeIn'.elem = executeIn.elem /\ executeIn'.queue = executeIn.queue
    <3>1. executeIn \in BufferFields
      BY DEF IInv, TypeOK, BufferOf, BufferFields
    <3>2. executeIn' = executeIn \/ executeIn' = Reserve(executeIn)
      BY <1>4 DEF DecodeEvaluate
    <3>3. QED BY <3>1, <3>2 DEF Reserve, BufferFields
  <2>3. dToE' = Bubble \/ dToE' = <<Len(insts) + 1>>
    BY <1>4 DEF DecodeEvaluate
  <2>4. \A n \in Ids(dToE') : n \notin Decoded
    <3>1. Ids(dToE') \subseteq {Len(insts) + 1}
      BY <1>0, <2>3, IdsOfPacket
    <3>2. Len(insts) \in Nat
      BY Named DEF IInv
    <3>3. QED BY <3>1, <3>2 DEF Decoded
  <2>5. QED BY <2>1, <2>2, <2>4 DEF ToIssue
<1>5. CASE \/ WritebackEvaluate \/ SetStalls \/ UNCHANGED vars
           \/ \E n \in Num : FinishMemTranslation(n) \/ RecvTimingResp(n)
           \/ \E accept \in BOOLEAN : RecvReqRetry(accept)
  BY <1>5, QuietSteps DEF Quiet
<1>6. QED BY <1>1, <1>2, <1>3, <1>4, <1>5 DEF Next, Cycle

(* What waits to be issued stays as it was decoded.                        *)
LEMMA FaultsMarkNothingKept ==
  ASSUME IInv, FaultsMarkNothing, FetchFaultsWriteNothing, [Next]_vars
  PROVE  FaultsMarkNothing'
<1> SUFFICES ASSUME NEW n \in ToIssue', insts'[n].fault
             PROVE  insts'[n].dsts = {}
  BY DEF FaultsMarkNothing
<1>1. CASE n \in ToIssue
  <2>1. n \in Decoded /\ insts'[n].dsts = insts[n].dsts
    BY <1>1, PathNamed, InstsKept
  <2>2. insts[n].fault
    <3>1. CASE PushFree \/ NotReady \/ PushBranch \/ PushResult \/ PushMemRef
      <4>1. PICK d : PushStep(d)
        BY <3>1, PushFreeStep, NotReadyStep, PushBranchStep, PushResultStep, PushMemRefStep
      <4>2. /\ Current \in Ids(execute.inFlight) /\ Current \in Nat
            /\ \A m \in Decoded : m # Current => insts'[m] = insts[m]
        BY <4>1, PushKeepsInsts, PathNamed
      <4>3. Current < n
        BY <1>1, <4>2 DEF IInv, Flight
      <4>4. n # Current
        BY <4>2, <4>3
      <4>5. QED BY <2>1, <4>2, <4>4
    <3>2. CASE ~(PushFree \/ NotReady \/ PushBranch \/ PushResult \/ PushMemRef)
      BY <2>1, <3>2, SameOtherwise
    <3>3. QED BY <3>1, <3>2
  <2>3. QED BY <1>1, <2>1, <2>2 DEF FaultsMarkNothing
<1>2. CASE n \notin Decoded
  <2>1. n \in Decoded'
    BY NextIInv, ToIssueNamed DEF IInv, Conveyor, Decoded
  <2>2. \E s \in StaticInsts : /\ Decoded' = Decoded \cup {Len(insts) + 1}
                               /\ insts'[Len(insts) + 1] = NewInst(s)
    BY <1>2, <2>1, NewlyDecoded
  <2>3. PICK s \in StaticInsts : insts'[n] = NewInst(s)
    BY <1>2, <2>1, <2>2
  <2>4. NewInst(s).fault = (s.op = "FetchFault") /\ NewInst(s).dsts = s.dsts
    BY DEF NewInst
  <2>5. QED BY <2>3, <2>4 DEF FetchFaultsWriteNothing
<1>3. QED BY <1>1, <1>2, ToIssueIsDecoded

(* A drop or a commit takes away no more than the instruction's own marks. *)
LEMMA OwnMarksCleared ==
  ASSUME TypeOK, NEW n \in Num, ~insts[n].fault, renameId' = ClearInstDests(n),
         NEW m \in Nat, NEW r \in Reg, m <= renameId[r], n < m
  PROVE  m <= renameId'[r]
<1>1. renameId[r] \in Nat /\ n \in Nat
  BY Named DEF TypeOK
<1>2. renameId[r] # n
  BY <1>1
<1>3. renameId'[r] = renameId[r]
  BY <1>2 DEF ClearInstDests
<1>4. QED BY <1>3

(* Marks last until the instruction leaves, unless Memory drops a fault.   *)
LEMMA MarksCoverKept ==
  ASSUME IInv, PlacedOnce, OrderHasRoom, FaultsMarkNothing, MarksCover, [Next]_vars
  PROVE  MarksCover' \/ \E n \in Decoded : insts[n].fault /\ Unmarks(n)
<1>1. /\ TypeOK /\ Marked \subseteq Decoded /\ Decoded \subseteq Nat /\ Decoded \subseteq Num
      /\ \A n \in Decoded : insts'[n].dsts = insts[n].dsts /\ insts[n].dsts \subseteq Reg
      /\ renameId \in [Reg -> {0} \cup Num] /\ Num \subseteq Nat
  <2>1. \A n \in Decoded : insts[n].dsts \subseteq Reg
    BY PathNamed DEF DynInst
  <2>2. QED BY <2>1, PathNamed, Named, InstsKept DEF IInv, TypeOK, Marked, Done
<1>2. CASE renameId' = renameId /\ Marked' = Marked
  BY <1>1, <1>2 DEF MarksCover
<1>3. ASSUME NEW n, Marks(n) PROVE MarksCover'
  <2>1. n \in ToIssue /\ n \in Decoded /\ n \in Nat
    BY <1>1, <1>3, PathNamed DEF Marks
  <2>2. CASE insts[n].fault
    <3>1. renameId' = renameId /\ insts[n].dsts = {}
      BY <1>3, <2>1, <2>2 DEF Marks, Issues, MarkupInstDests, FaultsMarkNothing
    <3>2. QED BY <1>1, <1>3, <2>1, <3>1 DEF MarksCover, Marks
  <2>3. CASE ~insts[n].fault
    <3>1. renameId' = [r \in Reg |-> IF r \in insts[n].dsts THEN n ELSE renameId[r]]
      BY <1>3, <2>3 DEF Marks, Issues, MarkupInstDests
    <3>2. SUFFICES ASSUME NEW m \in Marked', NEW r \in insts'[m].dsts
                   PROVE  m <= renameId'[r]
      BY DEF MarksCover
    <3>3. m = n \/ (m \in Marked /\ m < n)
      BY <1>3 DEF Marks
    <3>4. m \in Decoded /\ r \in insts[m].dsts /\ r \in Reg /\ m \in Nat
      BY <1>1, <2>1, <3>3
    <3>5. CASE r \in insts[n].dsts
      BY <2>1, <3>1, <3>3, <3>4, <3>5
    <3>6. CASE r \notin insts[n].dsts
      BY <3>1, <3>3, <3>4, <3>6 DEF MarksCover
    <3>7. QED BY <3>5, <3>6
  <2>4. QED BY <2>2, <2>3
<1>4. ASSUME NEW n \in Decoded, ~insts[n].fault, renameId' = ClearInstDests(n),
             Marked' = Marked \ {n}, \A m \in Marked : n <= m
      PROVE  MarksCover'
  <2> SUFFICES ASSUME NEW m \in Marked', NEW r \in insts'[m].dsts
               PROVE  m <= renameId'[r]
    BY DEF MarksCover
  <2>1. m \in Marked /\ m \in Decoded /\ m \in Nat /\ n \in Num /\ n \in Nat /\ n < m
    BY <1>1, <1>4
  <2>2. r \in Reg /\ m <= renameId[r]
    BY <1>1, <2>1 DEF MarksCover
  <2>3. QED BY <1>1, <1>4, <2>1, <2>2, OwnMarksCleared
<1>5. ASSUME NEW n, Unmarks(n)
      PROVE  MarksCover' \/ (n \in Decoded /\ insts[n].fault)
  BY <1>4, <1>5, PathNamed DEF Unmarks
<1>6. ASSUME NEW n, Retires(n) PROVE MarksCover'
  <2>1. n \in Decoded
    <3>1. n \in Ids(mTo["ORDER"])
      BY <1>6, IdsOfPacket DEF Retires
    <3>2. QED BY <1>1, <3>1 DEF Marked
  <2>2. CASE renameId' = renameId
    BY <1>1, <1>6, <2>2 DEF MarksCover, Retires
  <2>3. CASE ~insts[n].fault /\ renameId' = ClearInstDests(n)
    BY <1>4, <1>6, <2>1, <2>3 DEF Retires
  <2>4. QED BY <1>6, <2>2, <2>3 DEF Retires, Commits
<1>7. QED BY <1>2, <1>3, <1>5, <1>6, ScoreboardSteps
-----------------------------------------------------------------------------
(* Free registers.                                                         *)

Covered ==
  FoundInPlace /\ FaultsMarkNothing /\ (FaultsOfTheProgram => MarksCover)

(* In the beginning there is nothing to mark.                              *)
LEMMA CoveredInitially ==
  ASSUME Init
  PROVE  Covered
<1>1. FoundInPlace
  BY PlacesInitially
<1>2. IInv /\ Decoded = {}
  BY <1>1 DEF FoundInPlace, FollowsThePath, Init, Decoded
<1>3. Marked = {} /\ ToIssue = {}
  BY <1>2, PathNamed DEF Marked, Done
<1>4. QED BY <1>1, <1>3 DEF Covered, FaultsMarkNothing, MarksCover

(* Every step keeps them covered.                                          *)
LEMMA CoveredKept ==
  ASSUME Covered, FetchFaultsWriteNothing, OrderHasRoom, "execute" \notin Faults,
         [Next]_vars
  PROVE  Covered'
<1>1. IInv /\ FollowsThePath /\ PlacedOnce
  BY DEF Covered, FoundInPlace, FollowsThePath
<1>2. FoundInPlace' /\ FaultsMarkNothing'
  BY <1>1, PlacesKept, FaultsMarkNothingKept DEF Covered
<1>3. ASSUME FaultsOfTheProgram' PROVE MarksCover'
  <2>1. FaultsOfTheProgram
    <3> SUFFICES ASSUME NEW n \in Decoded, insts[n].fault
                 PROVE  NotInShadow(n) /\ FirstBranchesOpen
      BY DEF FaultsOfTheProgram
    <3>1. n \in Decoded' /\ insts'[n].fault
      BY <1>1, InstsKept
    <3>2. NotInShadow(n)' /\ FirstBranchesOpen'
      BY <1>3, <3>1 DEF FaultsOfTheProgram
    <3>3. QED BY <1>1, <3>2, ShadowsRemain
  <2>2. MarksCover /\ FaultsMarkNothing
    BY <2>1 DEF Covered
  <2>3. ASSUME NEW n \in Decoded, insts[n].fault, Unmarks(n) PROVE FALSE
    <3>1. NotInShadow(n) /\ FirstBranchesOpen
      BY <2>1, <2>3 DEF FaultsOfTheProgram
    <3>2. OnlyBranchesOpen /\ StreamsInOrder /\ OpenersKnown /\ PathFollowed
      BY <1>1, <3>1 DEF FollowsThePath, BranchesCounted, OnThePath
    <3>3. /\ phase # "crashed" /\ n \in Chained /\ Stale(n)
          /\ \A m \in Chained : n <= m
      BY <2>3 DEF Unmarks, MemoryEvaluate, Marked
    <3>4. QED BY <1>1, <3>1, <3>2, <3>3, StaleIsShadowed
  <2>4. QED BY <1>1, <2>2, <2>3, MarksCoverKept
<1>4. QED BY <1>2, <1>3 DEF Covered

(* Wrong-path instructions mark the registers they write and take their    *)
(* marks back, a younger writer takes the mark of an older one, and        *)
(* clearInstDests() of a fault takes all of them: a register the           *)
(* scoreboard calls free has no writer of the program in flight, as long   *)
(* as Memory drops no fault.                                               *)
THEOREM FreeRegisters ==
  ASSUME "execute" \notin Faults, FetchFaultsWriteNothing
  PROVE  Spec /\ []OrderHasRoom => [](FaultsOfTheProgram => FreeRegistersAreWritten)
<1>1. Init => Covered
  BY CoveredInitially
<1>2. Covered /\ OrderHasRoom /\ [Next]_vars => Covered'
  BY CoveredKept
<1>3. Covered => (FaultsOfTheProgram => FreeRegistersAreWritten)
  <2> SUFFICES ASSUME Covered, FaultsOfTheProgram, NEW n \in Decoded,
                      NEW r \in insts[n].dsts, n \in Held
               PROVE  renameId[r] # 0
    BY DEF FreeRegistersAreWritten
  <2>1. IInv /\ HeldIsNamed /\ MarksCover
    BY DEF Covered, FoundInPlace, FollowsThePath
  <2>2. n \in Marked
    BY <2>1, HeldIsToBeMoved DEF HeldIsNamed, Marked
  <2>3. n <= renameId[r]
    BY <2>1, <2>2 DEF MarksCover
  <2>4. n \in Nat /\ n > 0
    BY <2>1, Named DEF IInv, Decoded
  <2>5. QED BY <2>3, <2>4
<1>4. QED BY <1>1, <1>2, <1>3, PTL DEF Spec
-----------------------------------------------------------------------------
(* Busy registers.                                                         *)

(* What goes to Writeback by way of TRAP.                                  *)
Trapped(n) == insts[n].fault \/ insts[n].req = "Error"

NothingTrapped == \A n \in Ids(retired) : ~Trapped(n)

TrapsKept ==
  /\ \A n \in Num : InBox("TRAP", n) => insts[n].fault
  /\ \A n \in Ids(mTo["TRAP"]) : Trapped(n)

(* A mark is one of an instruction in flight, for a register it writes.    *)
MarksAreWriters ==
  \A r \in Reg : renameId[r] # 0 =>
    renameId[r] \in Marked /\ r \in insts[renameId[r]].dsts

(* trytoPush() puts nothing but faults into TRAP.                          *)
LEMMA PutsFaultsInTrap ==
  ASSUME IInv, PushFree \/ NotReady \/ PushBranch \/ PushResult \/ PushMemRef
  PROVE  \/ eTo' = eTo
         \/ \E box \in Box : Put(box) /\ (box = "TRAP" => insts'[Current].fault)
<1> DEFINE e == insts[Current]
<1>1. /\ Pushing /\ e \in DynInst /\ Current \in Decoded /\ insts \in Seq(DynInst)
      /\ Current \in DOMAIN insts /\ "BASE" \in Box
  <2>1. Pushing
    BY DEF PushFree, NotReady, PushBranch, PushResult, PushMemRef, Ready
  <2>2. /\ TypeOK /\ Current \in Decoded /\ insts[Current] \in DynInst
    BY <2>1, CurrentIn DEF IInv
  <2>3. insts \in Seq(DynInst)
    BY <2>2 DEF TypeOK
  <2>4. Current \in DOMAIN insts
    BY <2>2, <2>3 DEF Decoded
  <2>5. "BASE" \in Box
    BY DEF Box
  <2>6. QED BY <2>1, <2>2, <2>3, <2>4, <2>5
<1>2. \A d : TargetBox(d) = "TRAP" => d.fault
  BY DEF TargetBox, NoBox
<1>3. \A d : HasSlot(TargetBox(d)) => TargetBox(d) \in Box
  BY DEF TargetBox, HasSlot, Box, NoBox
<1>4. CASE PushFree
  <2>1. insts' = insts
    BY <1>4 DEF PushFree
  <2>2. eTo' = eTo \/ (HasSlot(TargetBox(e)) /\ Put(TargetBox(e)))
    BY <1>4 DEF PushFree, KeepInFlight
  <2>3. QED BY <1>2, <1>3, <2>1, <2>2
<1>5. CASE NotReady
  BY <1>5 DEF NotReady, KeepInFlight
<1>6. CASE PushBranch
  <2>1. eTo' = eTo \/ Put("BASE")
    BY <1>6 DEF PushBranch, KeepInFlight
  <2>2. QED BY <1>1, <2>1
<1>7. CASE PushResult
  <2>1. CASE KeepInFlight
    BY <2>1 DEF KeepInFlight
  <2>2. CASE ~KeepInFlight
    <3>1. PICK f \in MayFault("execute") :
            /\ insts' = [insts EXCEPT ![Current].fault = f]
            /\ HasSlot(TargetBox([e EXCEPT !.fault = f]))
            /\ Put(TargetBox([e EXCEPT !.fault = f]))
      BY <1>7, <2>2 DEF PushResult, Leave
    <3>2. insts'[Current].fault = f /\ [e EXCEPT !.fault = f].fault = f
      BY <1>1, <3>1 DEF DynInst
    <3> DEFINE g == [e EXCEPT !.fault = f]
    <3>3. HasSlot(TargetBox(g)) /\ Put(TargetBox(g)) /\ g.fault = insts'[Current].fault
      BY <3>1, <3>2
    <3> HIDE DEF g
    <3>4. TargetBox(g) \in Box /\ (TargetBox(g) = "TRAP" => insts'[Current].fault)
      BY <1>2, <1>3, <3>3
    <3>5. QED BY <3>3, <3>4
  <2>3. QED BY <2>1, <2>2
<1>8. CASE PushMemRef
  <2>1. CASE KeepInFlight
    BY <2>1 DEF KeepInFlight
  <2>2. CASE ~KeepInFlight
    <3> DEFINE Target(state) ==
          CASE state \in {"SentToCache", "Complete"} /\ MayPushMemReq -> "MEMORY"
            [] state \in {"Failed", "Error"} ->
                 TargetBox([e EXCEPT !.fault = state = "Failed"])
            [] OTHER -> NoBox
    <3>1. PICK state :
            /\ insts' = [insts EXCEPT
                         ![Current].fault = state = "Failed",
                         ![Current].req = IF state = "Error" /\ ~HasSlot(Target(state))
                                          THEN "NotIssued" ELSE state]
            /\ HasSlot(Target(state)) /\ Put(Target(state))
      BY <1>8, <2>2 DEF PushMemRef, Leave
    <3> DEFINE r == IF state = "Error" /\ ~HasSlot(Target(state)) THEN "NotIssued" ELSE state
               f == state = "Failed"
               box == Target(state)
    <3>2. insts' = [insts EXCEPT ![Current].fault = f, ![Current].req = r]
      BY <3>1
    <3>3. HasSlot(box) /\ Put(box)
      BY <3>1
    <3>4. box = "MEMORY" \/ box = NoBox \/ box = TargetBox([e EXCEPT !.fault = f])
      OBVIOUS
    <3>5. box # NoBox
      BY <3>3 DEF HasSlot
    <3> HIDE DEF f, r, box
    <3>6. insts'[Current].fault = f /\ [e EXCEPT !.fault = f].fault = f
      BY <1>1, <3>2 DEF DynInst
    <3>7. CASE box = "MEMORY"
      BY <3>3, <3>7 DEF Box
    <3>8. CASE box = TargetBox([e EXCEPT !.fault = f])
      <4> DEFINE g == [e EXCEPT !.fault = f]
      <4>1. box = TargetBox(g) /\ g.fault = insts'[Current].fault
        BY <3>6, <3>8
      <4> HIDE DEF g
      <4>2. box \in Box /\ (box = "TRAP" => insts'[Current].fault)
        BY <1>2, <1>3, <3>3, <4>1
      <4>3. QED BY <3>3, <4>2
    <3>9. QED BY <3>4, <3>5, <3>7, <3>8
  <2>3. QED BY <2>1, <2>2
<1>9. QED BY <1>4, <1>5, <1>6, <1>7, <1>8

(* What has been trapped stays so.                                         *)
LEMMA TrappedStays ==
  ASSUME IInv, PlacedOnce, [Next]_vars
  PROVE  \A n \in Num : Past(n) => n \in Decoded /\ (Trapped(n) => Trapped(n)')
<1> SUFFICES ASSUME NEW n \in Num, Past(n)
             PROVE  n \in Decoded /\ (Trapped(n) => Trapped(n)')
  OBVIOUS
<1>1. n \in Decoded /\ n \notin Ids(execute.inFlight)
  BY OnTheWay DEF PlacedOnce
<1>2. CASE insts[n].fault
  BY <1>1, <1>2, InstsKept DEF Trapped
<1>3. CASE insts[n].req = "Error"
  <2>1. CASE \A m \in Decoded : SameBut(m)
    BY <1>1, <1>3, <2>1 DEF SameBut, Trapped
  <2>2. ASSUME NEW d, PushStep(d) PROVE insts'[n] = insts[n]
    BY <1>1, <2>2, PushKeepsInsts
  <2>3. ASSUME NEW k, NEW d, Answered(k, d) PROVE insts'[n] = insts[n]
    <3>1. /\ k \in Decoded /\ d \in DynInst /\ insts' = [insts EXCEPT ![k] = d]
          /\ insts[k].req # "Error" /\ TypeOK
      BY <2>3 DEF Answered, IInv
    <3>2. k # n
      BY <1>3, <3>1
    <3>3. QED BY <1>1, <3>1, <3>2, OneInstChanges
  <2>4. QED BY <1>1, <1>3, <2>1, <2>2, <2>3, InstructionSteps DEF Trapped
<1>4. QED BY <1>1, <1>2, <1>3 DEF Trapped

(* Faults alone go through TRAP, and answers that are errors.              *)
LEMMA TrapsKeptOn ==
  ASSUME IInv, PlacedOnce, TrapsKept, [Next]_vars
  PROVE  TrapsKept' /\ (NothingTrapped' => NothingTrapped)
<1>0. /\ "TRAP" \in Box /\ Ids(mTo["TRAP"]) \subseteq Ids(mTo["ORDER"])
      /\ Ids(mTo["TRAP"]) \subseteq Num /\ Ids(retired) \subseteq Num
  BY IdsOfPacket, IdsIn DEF Box, IInv, WritebackBuffers, TypeOK
<1>1. \A n \in Num : InBox("TRAP", n) => n \in Decoded /\ insts[n].fault /\ insts'[n].fault
  <2>1. \A n \in Num : InBox("TRAP", n) => Past(n) /\ insts[n].fault
    BY <1>0 DEF InBox, Past, TrapsKept
  <2>2. QED BY <2>1, TrappedStays, InstsKept
<1>2. \A n \in Ids(mTo["TRAP"]) : Trapped(n)'
  <2>1. \A n \in Ids(mTo["TRAP"]) : Past(n) /\ Trapped(n)
    BY <1>0 DEF Past, TrapsKept
  <2>2. QED BY <1>0, <2>1, TrappedStays
<1>3. Ids(retired) \subseteq Ids(retired') => (NothingTrapped' => NothingTrapped)
  <2>1. \A n \in Ids(retired) : Trapped(n) => Trapped(n)'
    BY <1>0, TrappedStays DEF Past
  <2>2. QED BY <2>1 DEF NothingTrapped
<1>4. CASE PushFree \/ NotReady \/ PushBranch \/ PushResult \/ PushMemRef
  <2>1. PICK d : PushStep(d)
    BY <1>4, PushFreeStep, NotReadyStep, PushBranchStep, PushResultStep, PushMemRefStep
  <2>2. /\ Ids(eTo'["TRAP"]) \subseteq Ids(eTo["TRAP"]) \cup {Current}
        /\ Fewer(isb'["TRAP"], isb["TRAP"]) /\ mTo' = mTo /\ retired' = retired
    BY <1>0, <2>1, PutsCurrent
  <2>3. \A n \in Num : n \in Ids(eTo'["TRAP"]) => insts'[n].fault
    <3>1. CASE eTo' = eTo
      BY <1>1, <3>1 DEF InBox
    <3>2. ASSUME NEW box \in Box, Put(box), box = "TRAP" => insts'[Current].fault
          PROVE  \A n \in Num : n \in Ids(eTo'["TRAP"]) => insts'[n].fault
      <4>1. CASE box = "TRAP"
        BY <1>1, <2>2, <3>2, <4>1 DEF InBox
      <4>2. CASE box # "TRAP"
        <5>1. eTo'["TRAP"] = eTo["TRAP"]
          BY <1>0, <3>2, <4>2 DEF Put, IInv, TypeOK
        <5>2. QED BY <1>1, <5>1 DEF InBox
      <4>3. QED BY <4>1, <4>2
    <3>3. QED BY <1>4, <3>1, <3>2, PutsFaultsInTrap
  <2>4. \A n \in Num : ContainsExecSeqNum(isb'["TRAP"], n) => insts'[n].fault
    BY <1>1, <2>2 DEF Fewer, InBox
  <2>5. QED BY <1>2, <1>3, <2>2, <2>3, <2>4 DEF TrapsKept, InBox
<1>5. CASE MemoryEvaluate
  <2>1. \A n : InBox("TRAP", n)' => InBox("TRAP", n)
    BY <1>0, <1>5, MemoryPassesOn DEF InBox
  <2>2. insts' = insts /\ retired' = retired
    BY <1>5 DEF MemoryEvaluate
  <2>3. \A n \in Ids(mTo'["TRAP"]) : Trapped(n)
    <3>1. CASE mTo' = mTo
      BY <3>1 DEF TrapsKept
    <3>2. ASSUME NEW num \in Num, NEW box \in Box, NEW to \in {"COMMON", "TRAP"},
                 Moves(num, box, to), ContainsExecSeqNum(isb[box], num) \/ num \in Ids(eTo[box]),
                 mTo' = [b \in {"COMMON", "TRAP", "ORDER"} |->
                           IF b \in {to, "ORDER"} THEN <<num>> ELSE <<>>]
          PROVE  \A n \in Ids(mTo'["TRAP"]) : Trapped(n)
      <4>1. CASE to = "COMMON"
        BY <3>2, <4>1, IdsOfPacket
      <4>2. CASE to = "TRAP"
        <5>1. Ids(mTo'["TRAP"]) = {num}
          BY <3>2, <4>2, IdsOfPacket
        <5>2. Destination(box, num) = "TRAP"
          BY <3>2, <4>2 DEF Moves
        <5>3. box = "TRAP" \/ Trapped(num)
          BY <5>2 DEF Destination, NoBox, Trapped
        <5>4. box = "TRAP" => insts[num].fault
          BY <3>2 DEF TrapsKept, InBox
        <5>5. QED BY <5>1, <5>3, <5>4 DEF Trapped
      <4>3. QED BY <4>1, <4>2
    <3>3. QED BY <1>5, <3>1, <3>2, MemoryPassesOn
  <2>4. QED BY <1>1, <1>3, <2>1, <2>2, <2>3 DEF TrapsKept, Trapped
<1>6. CASE ~(PushFree \/ NotReady \/ PushBranch \/ PushResult \/ PushMemRef
             \/ MemoryEvaluate)
  <2>1. \A n : InBox("TRAP", n)' => InBox("TRAP", n)
    BY <1>0, <1>6, NothingPushed DEF InBox, ContainsExecSeqNum
  <2>2. Ids(mTo'["TRAP"]) \subseteq Ids(mTo["TRAP"]) /\ Ids(retired) \subseteq Ids(retired')
    BY <1>6, NothingPushed
  <2>3. QED BY <1>1, <1>2, <1>3, <2>1, <2>2 DEF TrapsKept
<1>7. QED BY <1>4, <1>5, <1>6

(* An instruction takes its own marks with it.                             *)
LEMMA MarksAreWritersKept ==
  ASSUME IInv, PlacedOnce, TrapsKept, OrderHasRoom, MarksAreWriters,
         NothingTrapped', [Next]_vars
  PROVE  MarksAreWriters'
<1>1. /\ TypeOK /\ Marked \subseteq Decoded
      /\ \A n \in Decoded : insts'[n].dsts = insts[n].dsts
      /\ renameId \in [Reg -> {0} \cup Num]
  BY PathNamed, InstsKept DEF IInv, TypeOK, Marked, Done
<1>2. CASE renameId' = renameId /\ Marked' = Marked
  BY <1>1, <1>2 DEF MarksAreWriters
<1>3. ASSUME NEW n, Marks(n) PROVE MarksAreWriters'
  <2> SUFFICES ASSUME NEW r \in Reg, renameId'[r] # 0
               PROVE  renameId'[r] \in Marked' /\ r \in insts'[renameId'[r]].dsts
    BY DEF MarksAreWriters
  <2>1. n \in Decoded /\ Marked' = Marked \cup {n}
    BY <1>3, PathNamed DEF Marks
  <2>2. renameId'[r] = renameId[r] \/ (renameId'[r] = n /\ r \in insts[n].dsts)
    BY <1>3 DEF Marks, Issues, MarkupInstDests
  <2>3. QED BY <1>1, <2>1, <2>2 DEF MarksAreWriters
<1>4. ASSUME NEW n, renameId' = ClearInstDests(n), Marked' = Marked \ {n}
      PROVE  MarksAreWriters'
  <2> SUFFICES ASSUME NEW r \in Reg, renameId'[r] # 0
               PROVE  renameId'[r] \in Marked' /\ r \in insts'[renameId'[r]].dsts
    BY DEF MarksAreWriters
  <2>1. renameId'[r] = renameId[r] /\ ~(r \in insts[n].dsts /\ renameId[r] = n)
    BY <1>4 DEF ClearInstDests, ClearScoreBoard, NoWriter
  <2>2. renameId[r] \in Marked /\ r \in insts[renameId[r]].dsts
    BY <2>1 DEF MarksAreWriters
  <2>3. QED BY <1>1, <1>4, <2>1, <2>2
<1>5. ASSUME NEW n, Unmarks(n) PROVE MarksAreWriters'
  BY <1>4, <1>5 DEF Unmarks
<1>6. ASSUME NEW n, Retires(n) PROVE MarksAreWriters'
  <2>1. /\ n \in Num /\ n \in Ids(mTo["ORDER"]) /\ Past(n) /\ mTo["ORDER"] = <<n>>
    BY <1>6, IdsOfPacket DEF Retires, Past
  <2>2. n \in Ids(retired')
    BY <1>1, <1>6, AppendIds DEF Retires, TypeOK
  <2>3. ~Trapped(n)
    BY <2>1, <2>2, TrappedStays DEF NothingTrapped
  <2>4. mTo["COMMON"] # <<>>
    <3>1. n \in Ids(mTo["COMMON"]) \cup Ids(mTo["TRAP"])
      BY <2>1, OnTheWay
    <3>2. n \in Ids(mTo["COMMON"])
      BY <2>3, <3>1 DEF TrapsKept
    <3>3. QED BY <3>2, IdsOfPacket
  <2>5. renameId' = ClearInstDests(n) /\ Marked' = Marked \ {n}
    BY <1>6, <2>3, <2>4 DEF Retires, Commits, Trapped
  <2>6. QED BY <1>4, <2>5
<1>7. QED BY <1>2, <1>3, <1>5, <1>6, ScoreboardSteps

(* In the beginning there is no mark, and nothing in TRAP.                 *)
LEMMA MarksInitially ==
  ASSUME Init
  PROVE  TrapsKept /\ MarksAreWriters
<1>1. /\ eTo["TRAP"] = <<>> /\ isb["TRAP"] = EmptyIsb /\ mTo["TRAP"] = <<>>
      /\ \A r \in Reg : renameId[r] = 0
  BY DEF Init, NoPackets, Box, NoWriter
<1>2. \A n : ~InBox("TRAP", n)
  BY <1>1, IdsOfPacket DEF InBox, ContainsExecSeqNum, EmptyIsb
<1>3. QED BY <1>1, <1>2, IdsOfPacket DEF TrapsKept, MarksAreWriters

(* What the scoreboard makes an instruction wait for is in flight, and is  *)
(* going to write, as long as Writeback has seen no trap: it takes away    *)
(* the marks of what commits, and of nothing else.                         *)
THEOREM BusyRegisters ==
  ASSUME "execute" \notin Faults
  PROVE  Spec /\ []OrderHasRoom
           => [](NothingInShadow /\ NothingTrapped => BusyRegistersWillBeWritten)
<1> DEFINE Inv == FoundInPlace /\ TrapsKept /\ (NothingTrapped => MarksAreWriters)
<1>1. Init => Inv
  BY PlacesInitially, MarksInitially
<1>2. Inv /\ OrderHasRoom /\ [Next]_vars => Inv'
  <2> SUFFICES ASSUME Inv, OrderHasRoom, [Next]_vars PROVE Inv'
    OBVIOUS
  <2>1. IInv /\ PlacedOnce
    BY DEF FoundInPlace, FollowsThePath
  <2>2. FoundInPlace' /\ TrapsKept' /\ (NothingTrapped' => NothingTrapped)
    BY <2>1, PlacesKept, TrapsKeptOn
  <2>3. QED BY <2>1, <2>2, MarksAreWritersKept
<1>3. Inv => (NothingInShadow /\ NothingTrapped => BusyRegistersWillBeWritten)
  <2> SUFFICES ASSUME Inv, NothingInShadow, NothingTrapped,
                      NEW r \in Reg, renameId[r] # 0
               PROVE  renameId[r] \in Held
    BY DEF BusyRegistersWillBeWritten
  <2>1. IInv /\ Chained \subseteq ToBeMoved /\ renameId[r] \in Marked
    BY DEF FoundInPlace, FollowsThePath, NamedIsHeld, MarksAreWriters
  <2>2. QED BY <2>1, HeldIsToBeMoved DEF Marked
<1> HIDE DEF Inv
<1>4. QED BY <1>1, <1>2, <1>3, PTL DEF Spec
-----------------------------------------------------------------------------
(* Programs without faults.                                                *)

NothingFails ==
  \A n \in Decoded : ~insts[n].fault /\ insts[n].req \notin {"Failed", "Error"}

NoFaults == Faults = {} /\ \A s \in StaticInsts : s.op # "FetchFault"

(* Where there are no faults none occurs.                                  *)
LEMMA NothingFailsKept ==
  ASSUME NoFaults, IInv, NothingFails, [Next]_vars
  PROVE  NothingFails'
<1>0. /\ TypeOK /\ insts \in Seq(DynInst) /\ Len(insts) \in Nat
      /\ Decoded = 1 .. Len(insts) /\ \A n \in Decoded : insts[n] \in DynInst
      /\ Faults = {}
  BY Named DEF IInv, TypeOK, Decoded, NoFaults
<1>1. CASE insts' = insts
  BY <1>1 DEF NothingFails, Decoded
<1>2. ASSUME NEW k \in Decoded, NEW d, insts' = [insts EXCEPT ![k] = d],
             ~d.fault, d.req \notin {"Failed", "Error"}
      PROVE  NothingFails'
  <2>1. /\ DOMAIN insts' = DOMAIN insts /\ Len(insts') = Len(insts)
        /\ insts'[k] = d /\ \A m \in Decoded : m # k => insts'[m] = insts[m]
    BY <1>0, <1>2
  <2>2. Decoded' = Decoded
    BY <2>1 DEF Decoded
  <2>3. QED BY <1>2, <2>1, <2>2 DEF NothingFails
<1>3. ASSUME NEW k \in Decoded, NEW r, insts' = [insts EXCEPT ![k].req = r],
             r \notin {"Failed", "Error"}
      PROVE  NothingFails'
  <2> DEFINE d == [insts[k] EXCEPT !.req = r]
  <2>1. insts' = [insts EXCEPT ![k] = d]
    BY <1>3
  <2>2. d.fault = insts[k].fault /\ d.req = r
    BY <1>0 DEF DynInst
  <2> HIDE DEF d
  <2>3. ~d.fault /\ d.req \notin {"Failed", "Error"}
    BY <1>3, <2>2 DEF NothingFails
  <2>4. QED BY <1>2, <2>1, <2>3
<1>4. ASSUME PushFree \/ NotReady \/ PushBranch \/ PushResult \/ PushMemRef
      PROVE  NothingFails'
  <2> DEFINE e == insts[Current]
  <2>1. Current \in Decoded /\ e \in DynInst /\ ~e.fault /\ e.req \notin {"Failed", "Error"}
    <3>1. Pushing
      BY <1>4 DEF PushFree, NotReady, PushBranch, PushResult, PushMemRef, Ready
    <3>2. QED BY <3>1, CurrentIn DEF NothingFails
  <2>2. CASE PushFree \/ NotReady
    BY <1>1, <2>2 DEF PushFree, NotReady
  <2>3. CASE PushBranch
    <3> DEFINE new == execute.streamSeqNum + 1
               d == [e EXCEPT !.opens = new]
    <3>1. insts' = insts \/ insts' = [insts EXCEPT ![Current].opens = new]
      BY <1>0, <2>3 DEF PushBranch
    <3> HIDE DEF new
    <3>2. d.fault = e.fault /\ d.req = e.req
      BY <2>1 DEF DynInst
    <3>3. insts' = insts \/ insts' = [insts EXCEPT ![Current] = d]
      BY <3>1
    <3> HIDE DEF d
    <3>4. QED BY <1>1, <1>2, <2>1, <3>2, <3>3
  <2>4. CASE PushResult
    <3> DEFINE d == [e EXCEPT !.fault = FALSE]
    <3>1. insts' = insts \/ insts' = [insts EXCEPT ![Current].fault = FALSE]
      BY <1>0, <2>4 DEF PushResult, MayFault
    <3>2. d.fault = FALSE /\ d.req = e.req
      BY <2>1 DEF DynInst
    <3>3. insts' = insts \/ insts' = [insts EXCEPT ![Current] = d]
      BY <3>1
    <3> HIDE DEF d
    <3>4. QED BY <1>1, <1>2, <2>1, <3>2, <3>3
  <2>5. CASE PushMemRef
    <3> DEFINE Dropped(state) ==
          /\ state = "Error"
          /\ ~HasSlot(CASE state \in {"SentToCache", "Complete"} /\ MayPushMemReq -> "MEMORY"
                        [] state \in {"Failed", "Error"} ->
                             TargetBox([e EXCEPT !.fault = state = "Failed"])
                        [] OTHER -> NoBox)
    <3>1. PICK state \in IF Initiates(e) THEN InitiateMemAccess ELSE {e.req} :
            insts' = [insts EXCEPT ![Current].fault = state = "Failed",
                                   ![Current].req = IF Dropped(state) THEN "NotIssued"
                                                    ELSE state]
      BY <2>5 DEF PushMemRef
    <3>2. state \notin {"Failed", "Error"}
      BY <1>0, <2>1, <3>1 DEF InitiateMemAccess, Translated, SendTimingMemReq
    <3> HIDE DEF Dropped
    <3> DEFINE r == IF Dropped(state) THEN "NotIssued" ELSE state
               d == [e EXCEPT !.fault = FALSE, !.req = r]
    <3>3. r \notin {"Failed", "Error"}
      BY <3>2
    <3>4. (state = "Failed") = FALSE
      BY <3>2
    <3>5. insts' = [insts EXCEPT ![Current].fault = FALSE, ![Current].req = r]
      BY <3>1, <3>4
    <3> HIDE DEF r
    <3>6. d.fault = FALSE /\ d.req = r
      BY <2>1 DEF DynInst
    <3>7. insts' = [insts EXCEPT ![Current] = d]
      BY <2>1, <3>5 DEF DynInst, Decoded
    <3> HIDE DEF d
    <3>8. QED BY <1>2, <2>1, <3>3, <3>6, <3>7
  <2>6. QED BY <1>4, <2>2, <2>3, <2>4, <2>5
<1>5. ASSUME NEW n \in Num, FinishMemTranslation(n) \/ RecvTimingResp(n)
      PROVE  NothingFails'
  <2>1. n \in Decoded
    BY <1>5 DEF FinishMemTranslation, RecvTimingResp, IInv, RequestsTracked, Decoded, Num
  <2>2. \/ insts' = insts
        \/ \E r : insts' = [insts EXCEPT ![n].req = r] /\ r \notin {"Failed", "Error"}
    BY <1>0, <1>5 DEF FinishMemTranslation, RecvTimingResp, Callback, Translated,
                      SendTimingMemReq
  <2>3. QED BY <1>1, <1>3, <2>1, <2>2
<1>6. ASSUME NEW accept \in BOOLEAN, RecvReqRetry(accept)
      PROVE  NothingFails'
  <2> DEFINE n == dcache.retryRequest
  <2>1. n \in Decoded
    BY <1>0, <1>6 DEF RecvReqRetry, IInv, RequestsTracked, TypeOK, Decoded, Num
  <2>2. insts' = insts \/ insts' = [insts EXCEPT ![n].req = "SentToCache"]
    BY <1>6 DEF RecvReqRetry
  <2>3. QED BY <1>1, <1>3, <2>1, <2>2
<1>7. CASE ExecuteEvaluate
  <2>1. ASSUME NEW n, NEW u, Issues(n, u)
        PROVE  NothingFails'
    <3>1. n \in Decoded /\ u \in {0} \cup Unit /\ MarkupInstDests(n, u) /\ TypeOK
      BY <2>1, IssuesYoungest DEF Issues, IInv
    <3>2. /\ Len(insts') = Len(insts)
          /\ \A m \in Decoded : m # n => insts'[m] = insts[m]
          /\ insts'[n].fault = insts[n].fault /\ insts'[n].req = insts[n].req
      BY <3>1, MarkupKeeps
    <3>3. QED BY <3>2 DEF NothingFails, Decoded
  <2>2. insts' = insts \/ \E n, u : Issues(n, u)
    BY <1>7, ExecuteCases DEF NothingIssued
  <2>3. QED BY <1>1, <2>1, <2>2
<1>8. CASE DecodeEvaluate
  <2>1. \/ insts' = insts
        \/ \E s \in StaticInsts : insts' = Append(insts, NewInst(s))
    BY <1>8 DEF DecodeEvaluate, NewInst
  <2>2. ASSUME NEW s \in StaticInsts, insts' = Append(insts, NewInst(s))
        PROVE  NothingFails'
    <3> DEFINE d == NewInst(s)
    <3>1. ~d.fault /\ d.req \notin {"Failed", "Error"}
      BY DEF NewInst, NoFaults
    <3> HIDE DEF d
    <3>2. insts' = Append(insts, d)
      BY <2>2 DEF d
    <3>3. /\ Len(insts') = Len(insts) + 1
          /\ \A m \in 1 .. Len(insts) : insts'[m] = insts[m]
          /\ insts'[Len(insts) + 1] = d
      BY <1>0, <3>2
    <3>4. \A m \in 1 .. Len(insts') : m \in 1 .. Len(insts) \/ m = Len(insts) + 1
      BY <1>0, <3>3
    <3>5. QED BY <1>0, <3>1, <3>3, <3>4 DEF NothingFails, Decoded
  <2>3. QED BY <1>1, <2>1, <2>2
<1>9. CASE WritebackEvaluate \/ MemoryEvaluate \/ SetStalls \/ UNCHANGED vars
  BY <1>1, <1>9 DEF WritebackEvaluate, MemoryEvaluate, SetStalls, vars
<1>10. QED BY <1>4, <1>5, <1>6, <1>7, <1>8, <1>9 DEF Next, Cycle

(* Where nothing faults, a register that rename_id calls free has no       *)
(* writer in flight, whatever wrong paths are fetched and dropped, nested  *)
(* ones too; and until an instruction follows a branch in its stream, a    *)
(* register it calls busy has one.  Both while ORDER has a place for what  *)
(* Execute issues.                                                         *)
THEOREM WithoutFaults ==
  ASSUME NoFaults
  PROVE  Spec /\ []OrderHasRoom
           => [](/\ FreeRegistersAreWritten
                 /\ NothingInShadow => BusyRegistersWillBeWritten)
<1>1. Spec => []IInv
  BY Invariance
<1>2. Init => NothingFails
  BY DEF Init, NothingFails, Decoded
<1>3. IInv /\ NothingFails /\ [Next]_vars => NothingFails'
  BY NothingFailsKept
<1>4. IInv /\ NothingFails => NothingTrapped /\ FaultsOfTheProgram
  <2>1. IInv => Ids(retired) \subseteq Decoded
    BY PathNamed DEF Done
  <2>2. QED BY <2>1 DEF NothingFails, NothingTrapped, Trapped, FaultsOfTheProgram
<1>5. "execute" \notin Faults /\ FetchFaultsWriteNothing
  BY DEF NoFaults, FetchFaultsWriteNothing
<1>6. Spec /\ []OrderHasRoom => [](FaultsOfTheProgram => FreeRegistersAreWritten)
  BY <1>5, FreeRegisters
<1>7. Spec /\ []OrderHasRoom
        => [](NothingInShadow /\ NothingTrapped => BusyRegistersWillBeWritten)
  BY <1>5, BusyRegisters
<1>8. QED BY <1>1, <1>2, <1>3, <1>4, <1>6, <1>7, PTL DEF Spec
-----------------------------------------------------------------------------
(* What an instruction reads, and where it looks for it.                   *)

SameOperands(n) ==
  insts'[n].srcs = insts[n].srcs /\ insts'[n].forward = insts[n].forward

(* One record is written, with the operands it had.                        *)
LEMMA WritesNoOperands ==
  ASSUME IInv, NEW k \in Decoded, NEW d, insts' = [insts EXCEPT ![k] = d],
         d.srcs = insts[k].srcs, d.forward = insts[k].forward
  PROVE  \A n \in Decoded : SameOperands(n)
<1>1. insts \in Seq(DynInst) /\ k \in 1 .. Len(insts) /\ Decoded = 1 .. Len(insts)
  BY DEF IInv, TypeOK, Decoded
<1>2. insts'[k] = d /\ \A m \in Decoded : m # k => insts'[m] = insts[m]
  BY <1>1
<1>3. QED BY <1>2 DEF SameOperands

(* markupInstDests() looks for the writers the instruction displaces.      *)
LEMMA MarkupLooks ==
  ASSUME IInv, NEW n \in Decoded, NEW u \in {0} \cup Unit, MarkupInstDests(n, u)
  PROVE  /\ \A m \in Decoded : m # n => SameOperands(m)
         /\ insts'[n].srcs = insts[n].srcs
         /\ ~insts[n].fault /\ insts'[n].forward = 0 =>
              \A r \in insts[n].dsts : renameId[r] = 0
<1> DEFINE d == insts[n]
           older == {renameId[r] : r \in d.dsts} \ {0}
           k == IF older = {} THEN d.forward ELSE CHOOSE m \in older : TRUE
           e == IF d.fault THEN [d EXCEPT !.fu = u] ELSE [d EXCEPT !.fu = u, !.forward = k]
<1>1. insts \in Seq(DynInst) /\ n \in 1 .. Len(insts) /\ d \in DynInst /\ TypeOK
  BY Named DEF IInv, TypeOK, Decoded
<1>2. \A m \in Decoded : m # n => SameOperands(m)
  BY <1>1, MarkupKeeps DEF SameOperands
<1> HIDE DEF d
<1>3. e.srcs = d.srcs /\ (~d.fault => e.forward = k)
  <2> HIDE DEF k
  <2>1. QED BY <1>1 DEF DynInst
<1>4. insts'[n] = e
  <2>1. CASE d.fault
    BY <1>1, <2>1 DEF MarkupInstDests, d
  <2>2. CASE ~d.fault
    <3>1. insts' = [insts EXCEPT ![n].fu = u,
                      ![n].forward = IF older = {} THEN @ ELSE CHOOSE m \in older : TRUE]
      BY <2>2 DEF MarkupInstDests, d, older
    <3>2. k = IF older = {} THEN d.forward ELSE CHOOSE m \in older : TRUE
      OBVIOUS
    <3> HIDE DEF older, k
    <3> DEFINE x == [d EXCEPT !.fu = u, !.forward = k]
    <3>3. insts' = [insts EXCEPT ![n] = x]
      BY <1>1, <3>1, <3>2 DEF d
    <3>4. e = x
      BY <2>2
    <3> HIDE DEF e, x
    <3>5. QED BY <1>1, <3>3, <3>4
  <2>3. QED BY <2>1, <2>2
<1>5. k = 0 => \A r \in d.dsts : renameId[r] = 0
  <2>1. older # {} => (CHOOSE m \in older : TRUE) \in older
    BY Zenon
  <2>2. 0 \notin older /\ \A r \in d.dsts : renameId[r] # 0 => renameId[r] \in older
    OBVIOUS
  <2> HIDE DEF older
  <2>3. QED BY <2>1, <2>2
<1> HIDE DEF e, k, older
<1>6. QED BY <1>2, <1>3, <1>4, <1>5 DEF d

(* Nobody but issue() touches them.                                        *)
LEMMA OperandsKept ==
  ASSUME IInv, [Next]_vars
  PROVE  /\ \A n \in Decoded : insts'[n].srcs = insts[n].srcs
         /\ \A n \in Decoded : n \notin ToIssue => SameOperands(n)
<1>0. /\ TypeOK /\ insts \in Seq(DynInst) /\ Len(insts) \in Nat
      /\ Decoded = 1 .. Len(insts) /\ \A n \in Decoded : insts[n] \in DynInst
  <2>1. TypeOK /\ insts \in Seq(DynInst)
    BY DEF IInv, TypeOK
  <2>2. Decoded = 1 .. Len(insts) /\ Len(insts) \in Nat
    BY <2>1 DEF Decoded
  <2> HIDE DEF DynInst
  <2>3. \A n \in 1 .. Len(insts) : insts[n] \in DynInst
    BY <2>1
  <2>4. QED BY <2>1, <2>2, <2>3
<1>1. CASE insts' = insts
  BY <1>1 DEF SameOperands
<1>2. CASE \A n \in Decoded : SameOperands(n)
  BY <1>2 DEF SameOperands
<1>3. ASSUME PushFree \/ NotReady \/ PushBranch \/ PushResult \/ PushMemRef
      PROVE  insts' = insts \/ \A n \in Decoded : SameOperands(n)
  <2> DEFINE c == Current
             e == insts[c]
  <2>1. c \in Decoded /\ e \in DynInst
    <3>1. Pushing
      BY <1>3 DEF PushFree, NotReady, PushBranch, PushResult, PushMemRef, Ready
    <3>2. QED BY <3>1, CurrentIn
  <2>2. CASE PushFree \/ NotReady
    BY <2>2 DEF PushFree, NotReady
  <2>3. CASE PushBranch
    <3> DEFINE new == execute.streamSeqNum + 1
               d == [e EXCEPT !.opens = new]
               f == [e EXCEPT !.fault = TRUE]
    <3>1. \/ insts' = insts
          \/ insts' = [insts EXCEPT ![c].opens = new]
          \/ insts' = [insts EXCEPT ![c].fault = TRUE]
      BY <2>3 DEF PushBranch
    <3> HIDE DEF new, c
    <3>2. /\ d.srcs = e.srcs /\ d.forward = e.forward
          /\ f.srcs = e.srcs /\ f.forward = e.forward
      BY <2>1 DEF DynInst
    <3>3. insts' = insts \/ insts' = [insts EXCEPT ![c] = d] \/ insts' = [insts EXCEPT ![c] = f]
      BY <3>1
    <3> HIDE DEF d, f
    <3>4. QED BY <2>1, <3>2, <3>3, WritesNoOperands
  <2>4. CASE PushResult
    <3>1. insts' = insts \/ \E f : insts' = [insts EXCEPT ![c].fault = f]
      BY <2>4 DEF PushResult
    <3>2. ASSUME NEW f, insts' = [insts EXCEPT ![c].fault = f]
          PROVE  \A n \in Decoded : SameOperands(n)
      <4> DEFINE d == [e EXCEPT !.fault = f]
      <4>1. d.srcs = e.srcs /\ d.forward = e.forward
        BY <2>1 DEF DynInst
      <4>2. insts' = [insts EXCEPT ![c] = d]
        BY <3>2
      <4> HIDE DEF d, c
      <4>3. QED BY <2>1, <4>1, <4>2, WritesNoOperands
    <3>3. QED BY <3>1, <3>2
  <2>5. CASE PushMemRef
    <3> DEFINE Dropped(state) ==
          /\ state = "Error"
          /\ ~HasSlot(CASE state \in {"SentToCache", "Complete"} /\ MayPushMemReq -> "MEMORY"
                        [] state \in {"Failed", "Error"} ->
                             TargetBox([e EXCEPT !.fault = state = "Failed"])
                        [] OTHER -> NoBox)
    <3>1. \E f, r : insts' = [insts EXCEPT ![c].fault = f, ![c].req = r]
      <4>1. PICK state \in IF Initiates(e) THEN InitiateMemAccess ELSE {e.req} :
              insts' = [insts EXCEPT ![c].fault = state = "Failed",
                                     ![c].req = IF Dropped(state) THEN "NotIssued"
                                                ELSE state]
        BY <2>5 DEF PushMemRef
      <4> DEFINE f == state = "Failed"
                 r == IF Dropped(state) THEN "NotIssued" ELSE state
      <4>2. insts' = [insts EXCEPT ![c].fault = f, ![c].req = r]
        BY <4>1
      <4> HIDE DEF f, r
      <4>3. QED BY <4>2
    <3> HIDE DEF Dropped
    <3>2. ASSUME NEW f, NEW r, insts' = [insts EXCEPT ![c].fault = f, ![c].req = r]
          PROVE  \A n \in Decoded : SameOperands(n)
      <4> DEFINE d == [e EXCEPT !.fault = f, !.req = r]
      <4> HIDE DEF c
      <4>1. d.srcs = e.srcs /\ d.forward = e.forward
        BY <2>1 DEF DynInst
      <4>2. insts' = [insts EXCEPT ![c] = d]
        BY <1>0, <2>1, <3>2
      <4> HIDE DEF d
      <4>3. QED BY <2>1, <4>1, <4>2, WritesNoOperands
    <3>3. QED BY <3>1, <3>2
  <2>6. QED BY <1>3, <2>2, <2>3, <2>4, <2>5
<1>5. CASE \/ \E n \in Num : FinishMemTranslation(n) \/ RecvTimingResp(n)
           \/ \E accept \in BOOLEAN : RecvReqRetry(accept)
  <2>1. insts' = insts \/ \E n, d : Answered(n, d)
    BY <1>5, CallbackCases
  <2>2. ASSUME NEW n, NEW d, Answered(n, d) PROVE \A m \in Decoded : SameOperands(m)
    <3>1. n \in Decoded /\ insts' = [insts EXCEPT ![n] = d] /\ d = [insts[n] EXCEPT !.req = d.req]
      BY <2>2 DEF Answered
    <3> DEFINE r == d.req
               c == [insts[n] EXCEPT !.req = r]
    <3>2. d = c
      BY <3>1
    <3> HIDE DEF r
    <3>3. c.srcs = insts[n].srcs /\ c.forward = insts[n].forward
      BY <1>0, <3>1 DEF DynInst
    <3> HIDE DEF c
    <3>4. QED BY <3>1, <3>2, <3>3, WritesNoOperands
  <2>3. QED BY <1>1, <1>2, <2>1, <2>2
<1>6. CASE ExecuteEvaluate
  <2>1. ASSUME NEW n, NEW u, Issues(n, u)
        PROVE  /\ \A m \in Decoded : m # n => SameOperands(m)
               /\ insts'[n].srcs = insts[n].srcs /\ n \in ToIssue
    <3>1. n \in Decoded /\ u \in {0} \cup Unit /\ MarkupInstDests(n, u) /\ n \in ToIssue
      BY <2>1, IssuesYoungest DEF Issues
    <3>2. QED BY <3>1, MarkupLooks
  <2>2. insts' = insts \/ \E n, u : Issues(n, u)
    BY <1>6, ExecuteCases DEF NothingIssued
  <2>3. QED BY <1>1, <2>1, <2>2 DEF SameOperands
<1>7. CASE DecodeEvaluate
  <2>1. insts' = insts \/ \E d : insts' = Append(insts, d)
    BY <1>7 DEF DecodeEvaluate
  <2>2. ASSUME NEW d, insts' = Append(insts, d) PROVE \A n \in Decoded : SameOperands(n)
    <3>1. \A n \in Decoded : insts'[n] = insts[n]
      BY <1>0, <2>2
    <3>2. QED BY <3>1 DEF SameOperands
  <2>3. QED BY <1>1, <1>2, <2>1, <2>2
<1>8. CASE WritebackEvaluate \/ MemoryEvaluate \/ SetStalls \/ UNCHANGED vars
  BY <1>1, <1>8 DEF WritebackEvaluate, MemoryEvaluate, SetStalls, vars
<1>9. QED BY <1>1, <1>2, <1>3, <1>5, <1>6, <1>7, <1>8 DEF Next, Cycle
-----------------------------------------------------------------------------
(* Undisturbed executions: without faults, and without wrong paths.        *)

(* Free instructions, which are never executed, write nothing.             *)
FreeInstsWriteNothing == \A s \in StaticInsts : s.op = "NoCost" => s.dsts = {}

FreeWriteNothing == \A n \in Decoded : insts[n].op = "NoCost" => insts[n].dsts = {}

Undisturbed ==
  /\ Covered /\ TrapsKept /\ NothingFails /\ FreeWriteNothing
  /\ NothingInShadow => MarksAreWriters

(* What is decoded stays free, or not.                                     *)
LEMMA FreeWriteNothingKept ==
  ASSUME IInv, FreeInstsWriteNothing, FreeWriteNothing, [Next]_vars
  PROVE  FreeWriteNothing'
<1>1. \A n \in Decoded : insts'[n].op = insts[n].op /\ insts'[n].dsts = insts[n].dsts
  BY InstsKept
<1>2. CASE Decoded' = Decoded
  BY <1>1, <1>2 DEF FreeWriteNothing
<1>3. ASSUME NEW s \in StaticInsts, Decoded' = Decoded \cup {Len(insts) + 1},
             insts'[Len(insts) + 1] = NewInst(s)
      PROVE  FreeWriteNothing'
  <2>1. NewInst(s).op = s.op /\ NewInst(s).dsts = s.dsts
    BY DEF NewInst
  <2>2. QED BY <1>1, <1>3, <2>1 DEF FreeWriteNothing, FreeInstsWriteNothing
<1>4. QED BY <1>2, <1>3, NewlyDecoded

(* In the beginning nothing disturbs.                                      *)
LEMMA UndisturbedInitially ==
  ASSUME Init
  PROVE  Undisturbed
<1>1. Decoded = {}
  BY DEF Init, Decoded
<1>2. QED BY <1>1, CoveredInitially, MarksInitially
          DEF Undisturbed, NothingFails, FreeWriteNothing

(* And nothing will.                                                       *)
LEMMA UndisturbedKept ==
  ASSUME NoFaults, FreeInstsWriteNothing, Undisturbed, OrderHasRoom, [Next]_vars
  PROVE  Undisturbed'
<1>1. IInv /\ PlacedOnce /\ Covered
  BY DEF Undisturbed, Covered, FoundInPlace, FollowsThePath
<1>2. "execute" \notin Faults /\ FetchFaultsWriteNothing
  BY DEF NoFaults, FetchFaultsWriteNothing
<1>3. Covered' /\ TrapsKept' /\ NothingFails' /\ FreeWriteNothing'
  BY <1>1, <1>2, CoveredKept, TrapsKeptOn, NothingFailsKept, FreeWriteNothingKept
     DEF Undisturbed
<1>4. IInv'
  BY <1>3 DEF Covered, FoundInPlace, FollowsThePath
<1>5. Ids(retired') \subseteq Decoded'
  <2>1. retired' \in Seq(Num) /\ Num \subseteq Nat \ {0}
    BY <1>1, <1>4, Named DEF IInv, TypeOK
  <2>2. Ids(retired') \subseteq Num
    BY <2>1, IdsIn
  <2>3. \A n \in Ids(retired') : n <= Len(insts')
    BY <1>4 DEF IInv, LeavesInOrder
  <2>4. Len(insts') \in Nat
    BY <1>4 DEF IInv, TypeOK
  <2>5. Decoded' = 1 .. Len(insts')
    BY DEF Decoded
  <2>6. ASSUME NEW n \in Ids(retired') PROVE n \in 1 .. Len(insts')
    <3>1. n \in Nat \ {0} /\ n <= Len(insts')
      BY <2>1, <2>2, <2>3
    <3>2. QED BY <2>4, <3>1
  <2>7. QED BY <2>5, <2>6
<1>6. NothingTrapped'
  BY <1>3, <1>5 DEF NothingFails, NothingTrapped, Trapped
<1>7. ASSUME NothingInShadow' PROVE MarksAreWriters'
  <2>1. NothingInShadow
    BY <1>1, <1>7, ShadowsRemain
  <2>2. QED BY <1>1, <1>6, <2>1, MarksAreWritersKept DEF Undisturbed
<1>8. QED BY <1>3, <1>7 DEF Undisturbed

(* What is known of a state of such an execution.                          *)
LEMMA UndisturbedStates ==
  ASSUME Undisturbed, NothingInShadow
  PROVE  /\ IInv /\ PlacedOnce /\ HeldIsNamed /\ NamedIsHeld
         /\ MarksCover /\ MarksAreWriters /\ TrapsKept /\ NothingFails
         /\ FirstBranchesOpen /\ OpenersKnown /\ PathFollowed
         /\ OnlyBranchesOpen /\ StreamsInOrder
         /\ \A n \in Decoded : \A r : Writes(n, r) <=> r \in insts[n].dsts
<1>1. /\ IInv /\ PlacedOnce /\ HeldIsNamed /\ NamedIsHeld /\ FollowsThePath
      /\ MarksAreWriters /\ TrapsKept /\ NothingFails /\ FreeWriteNothing
  BY DEF Undisturbed, Covered, FoundInPlace, FollowsThePath
<1>2. FirstBranchesOpen
  BY DEF NothingInShadow, FirstBranchesOpen, Opened
<1>3. OnlyBranchesOpen /\ StreamsInOrder /\ OpenersKnown /\ PathFollowed
  BY <1>1, <1>2 DEF FollowsThePath, BranchesCounted, OnThePath
<1>4. FaultsOfTheProgram
  BY <1>1 DEF NothingFails, FaultsOfTheProgram
<1>5. MarksCover
  BY <1>4 DEF Undisturbed, Covered
<1>6. \A n \in Decoded : \A r : Writes(n, r) <=> r \in insts[n].dsts
  BY <1>1 DEF NothingFails, FreeWriteNothing, Writes
<1>7. QED BY <1>1, <1>2, <1>3, <1>5, <1>6

(* Memory drops nothing.                                                   *)
LEMMA NothingDropped ==
  ASSUME Undisturbed, NothingInShadow, MemoryEvaluate
  PROVE  /\ ~\E num \in Chained : Stale(num) /\ \A m \in Chained : num <= m
         /\ ~\E num \in Num : num = FrontEntry(TakenIn["ORDER"]) /\ Drops(num)
<1>1. /\ IInv /\ FirstBranchesOpen /\ OpenersKnown /\ PathFollowed
      /\ OnlyBranchesOpen /\ StreamsInOrder /\ phase # "crashed"
  BY UndisturbedStates DEF MemoryEvaluate
<1>2. ASSUME NEW num \in Chained, Stale(num), \A m \in Chained : num <= m PROVE FALSE
  <2>1. ~NotInShadow(num)
    BY <1>1, <1>2, StaleIsShadowed
  <2>2. num \in Decoded
    BY <1>1, PathNamed
  <2>3. QED BY <2>1, <2>2 DEF NothingInShadow
<1>3. ASSUME NEW num \in Num, num = FrontEntry(TakenIn["ORDER"]), Drops(num) PROVE FALSE
  <2> DEFINE o == TakenIn["ORDER"]
             c == [o EXCEPT !.index = 1]
  <2>1. /\ o \in IsbOf(Num) /\ Tally(o) /\ OneAPacket(o) /\ Ordered(o) /\ o.index = 0
        /\ Waiting(o) = Chained
    BY <1>1, MemoryTakesIn
  <2>2. FrontEntry(o) # NoInst /\ num = FrontEntry(o) /\ MaxInst \in Nat /\ Num \subseteq Nat
    <3>1. MaxInst \in Nat /\ Num \subseteq Nat \ {0}
      BY <1>1, Named DEF IInv
    <3>2. num = FrontEntry(o)
      BY <1>3
    <3> HIDE DEF o
    <3>3. QED BY <3>1, <3>2 DEF NoInst
  <2> HIDE DEF o
  <2>3. /\ num \in Waiting(o) /\ \A m \in Waiting(c) : num < m
        /\ Waiting(o) \subseteq Waiting(c) \cup {num}
    <3>1. 1 \in Nat /\ 1 > 0
      OBVIOUS
    <3>2. /\ FrontEntry(o) \in Waiting(o) /\ \A m \in Waiting(c) : FrontEntry(o) < m
      BY <2>1, <2>2, <3>1, TakeOne
    <3>3. Waiting(o) \subseteq Waiting(c) \cup {FrontEntry(o)}
      BY <2>1, <2>2, <3>1, OnlyTheFrontIsSkipped
    <3>4. QED BY <2>2, <3>2, <3>3
  <2> HIDE DEF c
  <2>4. num \in Chained /\ \A m \in Chained : num <= m
    <3>1. Chained \subseteq Nat
      BY <1>1, PathNamed
    <3>2. QED BY <2>1, <2>2, <2>3, <3>1
  <2>5. QED BY <1>2, <1>3, <2>4 DEF Drops
<1>4. QED BY <1>2, <1>3
-----------------------------------------------------------------------------
(* Results, in BASE and in the register file.                              *)

(* The register file has the last of the writers retired.                  *)
RegsAreLatest ==
  \A r \in Reg :
    /\ regs[r] # 0 => regs[r] \in Ids(retired) /\ r \in insts[regs[r]].dsts
    /\ \A m \in Ids(retired) : r \in insts[m].dsts => m <= regs[r]

(* What Memory has taken from a packet of BASE it has moved, while the     *)
(* packet is still to be seen.                                             *)
ConsumedLeft == \A n : InBox("BASE", n) => n \in Unread("BASE") \cup Done

(* Memory moves what it takes, and keeps in BASE what it has yet to read.  *)
LEMMA MemoryMoves ==
  ASSUME Undisturbed, NothingInShadow, MemoryEvaluate
  PROVE  /\ Unread("BASE") \cup Done \subseteq Unread("BASE")' \cup Done'
         /\ \A n : InBox("BASE", n)' => InBox("BASE", n)
         /\ \A k \in Unread("BASE") : ContainsExecSeqNum(isb'["BASE"], k)
<1>1. IInv /\ PlacedOnce /\ NamedIsHeld /\ "BASE" \in Box
  BY UndisturbedStates DEF Box
<1>2. /\ retired' = retired /\ mTo["ORDER"] = <<>> /\ Ids(mTo["ORDER"]) = {}
      /\ \A n : InBox("BASE", n)' => InBox("BASE", n)
  <2>1. retired' = retired /\ mTo["ORDER"] = <<>>
    BY <1>1, MemoryPassesOn
  <2>2. \A n : InBox("BASE", n)' => InBox("BASE", n)
    BY <1>1, MemoryPassesOn DEF InBox
  <2>3. QED BY <2>1, <2>2, IdsOfPacket
<1>3. Indexed(isb["BASE"])
  BY <1>1 DEF NamedIsHeld
<1>4. Unread("BASE") \cup Done \subseteq Unread("BASE")' \cup Done'
  <2>1. CASE mTo' = mTo /\ Unread("BASE")' = Unread("BASE")
    BY <1>2, <2>1 DEF Done
  <2>2. ASSUME NEW num, Unread("BASE")' = Unread("BASE") \ {num}, Ids(mTo'["ORDER"]) = {num}
        PROVE  Unread("BASE") \cup Done \subseteq Unread("BASE")' \cup Done'
    BY <1>2, <2>2 DEF Done
  <2>3. QED BY <1>1, <1>3, <2>1, <2>2, MemoryPlaces, NothingDropped
<1>5. isb'["BASE"].queue = TakenIn["BASE"].queue
  <2>1. CASE Waits
    BY <2>1 DEF Waits
  <2>2. ASSUME NEW num, NEW box, NEW to, Moves(num, box, to)
        PROVE  isb'["BASE"].queue = TakenIn["BASE"].queue
    <3>1. isb'["BASE"] \in {TakenIn["BASE"], ConsumeEntry(TakenIn["BASE"])}
      BY <1>1, <2>2 DEF Moves
    <3>2. TakenIn["BASE"] \in IsbOf(Num)
      BY <1>1, MemoryTakesIn
    <3> HIDE DEF TakenIn
    <3>3. QED BY <3>1, <3>2 DEF ConsumeEntry, IsbOf
  <2>3. QED BY <1>1, <2>1, <2>2, MemoryCases, NothingDropped
<1>6. \A k \in Unread("BASE") : ContainsExecSeqNum(TakenIn["BASE"], k)
  BY <1>1, <1>3, TakenPlaces, WaitingIsContained
<1>7. \A k \in Unread("BASE") : ContainsExecSeqNum(isb'["BASE"], k)
  BY <1>5, <1>6 DEF ContainsExecSeqNum
<1>8. QED BY <1>2, <1>4, <1>7

(* trytoPush() adds to the latches, and leaves the packets as they are.    *)
LEMMA PushAdds ==
  ASSUME IInv, "execute" \notin Faults, NEW b \in Box,
         PushFree \/ NotReady \/ PushBranch \/ PushResult \/ PushMemRef
  PROVE  /\ Unread(b) \subseteq Unread(b)'
         /\ \A n : InBox(b, n)' => InBox(b, n) \/ n \in Unread(b)'
         /\ \A n : ContainsExecSeqNum(isb'[b], n) <=> ContainsExecSeqNum(isb[b], n)
<1>1. /\ Current \in Ids(execute.inFlight)
      /\ UNCHANGED <<eTo, isb>> \/ \E box \in Box : Put(box)
  BY PushedOnce
<1>2. /\ isb'[b].queue = isb[b].queue /\ isb'[b].index = isb[b].index
      /\ Ids(eTo[b]) \subseteq Ids(eTo'[b])
  <2> DEFINE c == Current
             q == eTo[b]
             i == isb[b]
  <2>1. /\ DOMAIN isb = Box \cup {"ORDER"} /\ DOMAIN eTo = Box \cup {"ORDER"}
        /\ i \in IsbOf(Num) /\ q \in Seq(Num) /\ c \in Num
    BY <1>1, Named DEF IInv, TypeOK
  <2> HIDE DEF c
  <2>2. CASE UNCHANGED <<eTo, isb>>
    BY <2>2
  <2>3. ASSUME NEW box \in Box, Put(box), b # box
        PROVE  eTo'[b] = eTo[b] /\ isb'[b] = isb[b]
    BY <2>1, <2>3 DEF Put
  <2>4. ASSUME Put(b)
        PROVE  isb'[b] = ReserveEntry(i) /\ eTo'[b] = Append(q, c)
    BY <2>1, <2>4 DEF Put, c
  <2> HIDE DEF q, i
  <2>5. /\ Ids(Append(q, c)) = Ids(q) \cup {c}
        /\ ReserveEntry(i).queue = i.queue /\ ReserveEntry(i).index = i.index
    BY <2>1, AppendIds DEF ReserveEntry, IsbOf
  <2>6. QED BY <1>1, <2>2, <2>3, <2>4, <2>5 DEF q, i
<1>3. \A n : ContainsExecSeqNum(isb'[b], n) <=> ContainsExecSeqNum(isb[b], n)
  BY <1>2 DEF ContainsExecSeqNum
<1>4. Waiting(isb'[b]) = Waiting(isb[b])
  BY <1>2 DEF Waiting
<1>5. Unread(b) \subseteq Unread(b)'
  BY <1>2, <1>4 DEF Unread
<1>6. \A n : InBox(b, n)' => InBox(b, n) \/ n \in Unread(b)'
  BY <1>3 DEF InBox, Unread
<1>7. QED BY <1>3, <1>5, <1>6

(* The steps that are neither leave BASE, and what has left it, alone.     *)
LEMMA OthersLeaveBase ==
  ASSUME IInv, [Next]_vars, ~MemoryEvaluate,
         ~(PushFree \/ NotReady \/ PushBranch \/ PushResult \/ PushMemRef)
  PROVE  /\ eTo'["BASE"] = eTo["BASE"] /\ isb'["BASE"] = isb["BASE"]
         /\ Done \subseteq Done'
<1>1. eTo'["BASE"] = eTo["BASE"] /\ isb'["BASE"] = isb["BASE"]
  BY BoxesLeftAlone DEF Box
<1>2. Done \subseteq Done'
  BY NothingPushed DEF Done
<1>3. QED BY <1>1, <1>2

(* What has been taken has been moved, after each step.                    *)
LEMMA ConsumedLeftKept ==
  ASSUME NoFaults, Undisturbed, NothingInShadow, ConsumedLeft, [Next]_vars
  PROVE  ConsumedLeft'
<1>1. IInv /\ "BASE" \in Box /\ "execute" \notin Faults
  BY UndisturbedStates DEF Box, NoFaults
<1>2. CASE PushFree \/ NotReady \/ PushBranch \/ PushResult \/ PushMemRef
  <2>1. Done' = Done
    BY <1>1, <1>2, PushedOnce DEF Elsewhere, Done
  <2>2. QED BY <1>1, <1>2, <2>1, PushAdds DEF ConsumedLeft
<1>3. CASE MemoryEvaluate
  BY <1>3, MemoryMoves DEF ConsumedLeft
<1>4. CASE ~MemoryEvaluate /\ ~(PushFree \/ NotReady \/ PushBranch \/ PushResult \/ PushMemRef)
  <2>1. Unread("BASE")' = Unread("BASE") /\ (\A n : InBox("BASE", n)' <=> InBox("BASE", n))
    BY <1>1, <1>4, OthersLeaveBase DEF Unread, InBox
  <2>2. QED BY <1>1, <1>4, <2>1, OthersLeaveBase DEF ConsumedLeft
<1>5. QED BY <1>2, <1>3, <1>4

(* A result stays in BASE until it is retired.                             *)
LEMMA BaseKept ==
  ASSUME NoFaults, Undisturbed, NothingInShadow, ConsumedLeft, [Next]_vars,
         NEW k \in Marked, InBase(k)
  PROVE  InBase(k)'
<1>1. IInv /\ "BASE" \in Box /\ "execute" \notin Faults
  BY UndisturbedStates DEF Box, NoFaults
<1>2. CASE PushFree \/ NotReady \/ PushBranch \/ PushResult \/ PushMemRef
  BY <1>1, <1>2, PushAdds DEF InBase
<1>3. CASE MemoryEvaluate
  <2>1. mTo["ORDER"] = <<>> /\ Ids(mTo["ORDER"]) = {}
    BY <1>1, <1>3, MemoryPassesOn, IdsOfPacket
  <2>2. k \in Chained
    BY <2>1 DEF Marked
  <2>3. k \notin Done
    <3>1. \A n \in Done : n < k
      BY <1>1, <2>2, PathNamed
    <3>2. k \in Nat
      BY <1>1, <2>2, PathNamed
    <3>3. QED BY <3>1, <3>2
  <2>4. k \in Unread("BASE")
    BY <2>3 DEF ConsumedLeft, InBox, InBase
  <2>5. QED BY <1>3, <2>4, MemoryMoves DEF InBase
<1>4. CASE ~MemoryEvaluate /\ ~(PushFree \/ NotReady \/ PushBranch \/ PushResult \/ PushMemRef)
  BY <1>1, <1>4, OthersLeaveBase DEF InBase
<1>5. QED BY <1>2, <1>3, <1>4

(* Writeback writes what it retires, after all that is older.              *)
LEMMA RegsKept ==
  ASSUME Undisturbed, NothingInShadow, RegsAreLatest, [Next]_vars
  PROVE  RegsAreLatest'
<1>1. /\ IInv /\ TypeOK /\ Ids(retired) \subseteq Decoded /\ Ids(retired) \subseteq Nat
      /\ TrapsKept /\ NothingFails
      /\ \A n \in Decoded : \A r : Writes(n, r) <=> r \in insts[n].dsts
      /\ \A n \in Decoded : insts'[n].dsts = insts[n].dsts
  BY UndisturbedStates, InstsKept, PathNamed DEF IInv, Done
<1>2. CASE regs' = regs /\ retired' = retired
  BY <1>1, <1>2 DEF RegsAreLatest
<1>3. CASE WritebackEvaluate
  <2>1. ASSUME NEW n \in Num, mTo["ORDER"] = <<n>>, retired' = Append(retired, n), Commits(n)
        PROVE  RegsAreLatest'
    <3>1. Ids(mTo["ORDER"]) = {n} /\ n \in Decoded /\ n \in Nat /\ n # 0
      BY <1>1, <2>1, IdsOfPacket, PathNamed, Named DEF Done
    <3>2. mTo["COMMON"] # <<>>
      <4>1. n \in Ids(mTo["COMMON"]) \cup Ids(mTo["TRAP"])
        BY <1>1, <3>1, OnTheWay
      <4>2. ~Trapped(n)
        BY <1>1, <3>1 DEF NothingFails, Trapped
      <4>3. n \in Ids(mTo["COMMON"])
        BY <1>1, <4>1, <4>2 DEF TrapsKept
      <4>4. QED BY <4>3, IdsOfPacket
    <3>3. regs' = [r \in Reg |-> IF r \in insts[n].dsts THEN n ELSE regs[r]]
      BY <1>1, <2>1, <3>1, <3>2 DEF Commits, NothingFails
    <3>4. Ids(retired') = Ids(retired) \cup {n}
      BY <1>1, <2>1, AppendIds DEF TypeOK
    <3>5. \A m \in Ids(retired) : m < n
      BY <1>1, <3>1 DEF IInv, LeavesInOrder
    <3>6. QED BY <1>1, <3>1, <3>3, <3>4, <3>5 DEF RegsAreLatest
  <2>2. QED BY <1>1, <1>2, <1>3, <2>1, WritebackEffect
<1>4. CASE MemoryEvaluate \/ SetStalls \/ DecodeEvaluate \/ ExecuteEvaluate \/ UNCHANGED vars
  BY <1>2, <1>4 DEF MemoryEvaluate, SetStalls, DecodeEvaluate, ExecuteEvaluate, vars
<1>5. CASE PushFree \/ NotReady \/ PushBranch \/ PushResult \/ PushMemRef
  BY <1>2, <1>5 DEF PushFree, NotReady, PushBranch, PushResult, PushMemRef, Elsewhere
<1>6. CASE \/ \E n \in Num : FinishMemTranslation(n) \/ RecvTimingResp(n)
           \/ \E accept \in BOOLEAN : RecvReqRetry(accept)
  BY <1>1, <1>2, <1>6, CallbackCases
<1>7. QED BY <1>3, <1>4, <1>5, <1>6 DEF Next, Cycle
-----------------------------------------------------------------------------
(* What waits in flight finds its operands.                                *)

(* The older writers of its sources have left their units, ...             *)
SourcesReady ==
  \A n \in Ids(execute.inFlight) : insts[n].op # "NoCost" =>
    \A r \in insts[n].srcs :
      renameId[r] # 0 /\ renameId[r] < n => InBase(renameId[r])

(* ... and no writer it has displaced is on its way.                       *)
FirstWriters ==
  \A n \in Ids(execute.inFlight) : insts[n].forward = 0 =>
    \A r \in insts[n].dsts : \A m \in Marked : r \in insts[m].dsts => n <= m

(* Nothing but issue() puts an instruction into flight.                    *)
LEMMA InFlightSteps ==
  ASSUME IInv, "execute" \notin Faults, [Next]_vars, NEW n \in Ids(execute'.inFlight)
  PROVE  \/ n \in Ids(execute.inFlight)
         \/ ExecuteEvaluate /\ \E u : Issues(n, u)
<1>1. CASE PushFree \/ NotReady \/ PushBranch \/ PushResult \/ PushMemRef
  BY <1>1, PushedOnce
<1>2. CASE ExecuteEvaluate
  <2>1. CASE NothingIssued
    <3>1. execute'.inFlight = execute.inFlight
      BY <2>1 DEF NothingIssued, IInv, TypeOK
    <3>2. QED BY <3>1
  <2>2. ASSUME NEW k, NEW u, Issues(k, u)
        PROVE  n \in Ids(execute.inFlight) \/ \E v : Issues(n, v)
    <3>1. Ids(execute'.inFlight) = Ids(execute.inFlight) \cup {k}
      BY <2>2, IssuesYoungest
    <3>2. n \in Ids(execute.inFlight) \/ n = k
      BY <3>1
    <3>3. QED BY <2>2, <3>2
  <2>3. QED BY <1>2, <2>1, <2>2, ExecuteCases
<1>3. CASE SetStalls
  BY <1>3 DEF SetStalls, IInv, TypeOK
<1>4. CASE WritebackEvaluate \/ MemoryEvaluate \/ DecodeEvaluate \/ UNCHANGED vars
  BY <1>4 DEF WritebackEvaluate, MemoryEvaluate, DecodeEvaluate, vars
<1>5. CASE \/ \E k \in Num : FinishMemTranslation(k) \/ RecvTimingResp(k)
           \/ \E accept \in BOOLEAN : RecvReqRetry(accept)
  BY <1>5, CallbackCases
<1>6. QED BY <1>1, <1>2, <1>3, <1>4, <1>5 DEF Next, Cycle

(* canInstIssue() has found the writers marked then in BASE.               *)
LEMMA IssuedIsReady ==
  ASSUME IInv, ExecuteEvaluate, NEW n, NEW u, Issues(n, u),
         insts[n].op # "NoCost", ~insts[n].fault,
         NEW r \in insts[n].srcs, renameId[r] # 0
  PROVE  InBase(renameId[r])
<1> DEFINE b == ExecuteInput
           m == Front(b)
           q == execute.inFlight
<1>1. q \in Seq(Num) /\ execute'.inFlight = Append(q, n)
  BY DEF Issues, IInv, TypeOK
<1>2. execute'.inFlight # q
  <2> HIDE DEF q
  <2>1. Len(Append(q, n)) = Len(q) + 1 /\ Len(q) \in Nat
    BY <1>1
  <2>2. QED BY <1>1, <2>1
<1>3. \/ execute' = [execute EXCEPT !.draining = FALSE]
      \/ EndOfLine(b, m) /\ (IssueFree(AdvancedUnits, m) \/ IssueToUnit(AdvancedUnits, m))
  BY DEF ExecuteEvaluate, IssueInst, DidntIssue
<1>4. EndOfLine(b, m) /\ (IssueFree(AdvancedUnits, m) \/ IssueToUnit(AdvancedUnits, m))
  <2>1. execute' # [execute EXCEPT !.draining = FALSE]
    BY <1>2 DEF IInv, TypeOK
  <2>2. QED BY <1>3, <2>1
<1>5. m = n
  <2> HIDE DEF b, m, q
  <2>1. execute'.inFlight = Append(execute.inFlight, m)
    BY <1>4 DEF EndOfLine, IInv, TypeOK
  <2>2. Append(q, m) = Append(q, n)
    BY <1>1, <2>1 DEF q
  <2>3. Append(q, m)[Len(q) + 1] = m /\ Append(q, n)[Len(q) + 1] = n
    BY <1>1
  <2>4. QED BY <2>2, <2>3
<1> HIDE DEF b, m
<1>6. CanInstIssue(n)
  BY <1>4, <1>5 DEF IssueFree, IssueToUnit
<1>7. ~InCommon(renameId[r])
  BY DEF IInv, WritebackBuffers, InCommon, ContainsExecSeqNum
<1>8. QED BY <1>6, <1>7 DEF CanInstIssue

(* An instruction in flight sees marks vanish, and no other one appear.    *)
LEMMA MarksVanish ==
  ASSUME Undisturbed, NothingInShadow, OrderHasRoom, [Next]_vars,
         NEW n \in Ids(execute.inFlight), NEW r \in Reg
  PROVE  renameId'[r] # 0 /\ renameId'[r] <= n => renameId'[r] = renameId[r]
<1>1. /\ IInv /\ PlacedOnce /\ NothingFails /\ TypeOK /\ Flight /\ n \in Nat
      /\ Chained \subseteq Decoded /\ ToIssue \subseteq Nat
      /\ mTo["ORDER"] # <<>> => Ids(mTo["ORDER"]) \subseteq Decoded
  BY UndisturbedStates, PathNamed, Named DEF IInv, Done
<1>2. ASSUME NEW k, Marks(k)
      PROVE  renameId'[r] = k \/ renameId'[r] = renameId[r]
  <2>1. PICK u : MarkupInstDests(k, u)
    BY <1>2 DEF Marks, Issues
  <2>2. QED BY <1>1, <2>1 DEF MarkupInstDests, TypeOK
<1>3. ASSUME NEW k, Marks(k) PROVE k \in Nat /\ n < k
  BY <1>1, <1>3 DEF Marks, Flight
<1>4. ASSUME NEW k \in Decoded, renameId' = ClearInstDests(k)
      PROVE  renameId'[r] \in {0, renameId[r]}
  <2>1. ~insts[k].fault
    BY <1>1 DEF NothingFails
  <2>2. QED BY <1>4, <2>1 DEF ClearInstDests
<1>5. ASSUME NEW k, Unmarks(k) PROVE renameId'[r] \in {0, renameId[r]}
  BY <1>1, <1>4, <1>5 DEF Unmarks
<1>6. ASSUME NEW k, Retires(k) PROVE renameId'[r] \in {0, renameId[r]}
  <2>1. Ids(mTo["ORDER"]) = {k}
    BY <1>6, IdsOfPacket DEF Retires
  <2>2. k \in Decoded
    BY <2>1, PathNamed, <1>1 DEF Done
  <2>3. renameId' = renameId \/ renameId' = ClearInstDests(k)
    BY <1>6 DEF Retires, Commits
  <2>4. QED BY <1>4, <2>2, <2>3
<1>7. QED BY <1>1, <1>2, <1>3, <1>5, <1>6, ScoreboardSteps

(* The operands that were ready stay so, and those of what is issued are.  *)
LEMMA SourcesKept ==
  ASSUME NoFaults, Undisturbed, NothingInShadow, OrderHasRoom, ConsumedLeft,
         SourcesReady, [Next]_vars
  PROVE  SourcesReady'
<1> SUFFICES ASSUME NEW n \in Ids(execute'.inFlight), insts'[n].op # "NoCost",
                    NEW r \in insts'[n].srcs, renameId'[r] # 0, renameId'[r] < n
             PROVE  InBase(renameId[r])'
  BY DEF SourcesReady
<1>1. /\ IInv /\ MarksAreWriters /\ NothingFails /\ TypeOK /\ "execute" \notin Faults
      /\ "BASE" \in Box
      /\ \A k \in Decoded : insts'[k].op = insts[k].op /\ insts'[k].srcs = insts[k].srcs
  BY UndisturbedStates, InstsKept, OperandsKept DEF IInv, NoFaults, Box
<1>2. PICK w : w = renameId'[r]
  OBVIOUS
<1>3. SUFFICES ContainsExecSeqNum(isb'["BASE"], w)
  BY <1>2 DEF InBase
<1>4. CASE n \in Ids(execute.inFlight)
  <2>1. n \in Decoded /\ n \in Nat /\ Num \subseteq Nat
    <3>1. n \in Num /\ Num \subseteq Nat \ {0} /\ n <= Len(insts) /\ Len(insts) \in Nat
      BY <1>1, <1>4, Named DEF IInv, Flight
    <3>2. QED BY <3>1 DEF Decoded
  <2>2. r \in insts[n].srcs /\ insts[n].op # "NoCost" /\ r \in Reg
    <3>1. insts[n] \in DynInst
      BY <1>1, <2>1, Named
    <3>2. QED BY <1>1, <2>1, <3>1 DEF DynInst
  <2>3. w = renameId[r]
    <3>1. renameId'[r] \in {0} \cup Num
      BY <2>2, NextIInv, <1>1 DEF IInv, TypeOK
    <3>2. renameId'[r] <= n
      BY <2>1, <3>1
    <3>3. QED BY <1>2, <1>4, <2>2, <3>2, MarksVanish
  <2>4. InBase(w) /\ w \in Marked
    BY <1>1, <1>2, <1>4, <2>2, <2>3 DEF SourcesReady, MarksAreWriters
  <2>5. InBase(w)'
    BY <2>4, BaseKept
  <2>6. QED BY <2>5 DEF InBase
<1>5. ASSUME ExecuteEvaluate, NEW u, Issues(n, u)
      PROVE  ContainsExecSeqNum(isb'["BASE"], w)
  <2>1. n \in Decoded /\ n \in Nat /\ n \in Num /\ insts[n] \in DynInst
    BY <1>1, <1>5, IssuesYoungest, Named
  <2>2. r \in insts[n].srcs /\ insts[n].op # "NoCost" /\ r \in Reg /\ ~insts[n].fault
    BY <1>1, <2>1 DEF DynInst, NothingFails
  <2>3. MarkupInstDests(n, u) /\ FillSequence(n) /\ phase = "execute"
    BY <1>5 DEF Issues
  <2>4. w = renameId[r]
    <3>1. renameId'[r] = n \/ renameId'[r] = renameId[r]
      BY <1>1, <2>2, <2>3 DEF MarkupInstDests, TypeOK
    <3>2. QED BY <1>2, <2>1, <3>1
  <2>5. InBase(w)
    BY <1>1, <1>2, <1>5, <2>2, <2>4, IssuedIsReady
  <2>6. isb'["BASE"] = isb["BASE"]
    BY <1>1, <2>1, <2>3, FillSequenceKeeps DEF IInv
  <2>7. QED BY <2>5, <2>6 DEF InBase
<1>6. QED BY <1>1, <1>4, <1>5, InFlightSteps

(* Nor does a displaced writer come back.                                  *)
LEMMA FirstWritersKept ==
  ASSUME NoFaults, Undisturbed, NothingInShadow, OrderHasRoom, FirstWriters,
         [Next]_vars
  PROVE  FirstWriters'
<1>1. /\ IInv /\ PlacedOnce /\ MarksCover /\ NothingFails /\ TypeOK /\ Flight
      /\ "execute" \notin Faults /\ Marked \subseteq Decoded
      /\ Decoded \subseteq Nat \ {0} /\ ToIssue \subseteq Decoded
      /\ \A k \in Decoded : insts'[k].dsts = insts[k].dsts
      /\ \A k \in Decoded : k \notin ToIssue => SameOperands(k)
  <2>1. IInv /\ Marked \subseteq Decoded /\ ToIssue \subseteq Decoded
    BY UndisturbedStates, PathNamed DEF Marked, Done
  <2>2. TypeOK /\ Flight /\ "execute" \notin Faults
    BY <2>1 DEF IInv, NoFaults
  <2>3. Decoded \subseteq Nat \ {0}
    BY <2>2, Named
  <2>4. QED BY <2>1, <2>2, <2>3, UndisturbedStates, InstsKept, OperandsKept
<1>2. \/ Marked' \subseteq Marked
      \/ \E k : k \in ToIssue /\ Marked' = Marked \cup {k}
  BY <1>1, ScoreboardSteps DEF Marks, Unmarks, Retires
<1> SUFFICES ASSUME NEW n \in Ids(execute'.inFlight), insts'[n].forward = 0,
                    NEW r \in insts'[n].dsts, NEW m \in Marked', r \in insts'[m].dsts
             PROVE  n <= m
  BY DEF FirstWriters
<1>3. CASE n \in Ids(execute.inFlight)
  <2>1. n \in Decoded /\ \A k \in ToIssue : n < k
    <3>1. n \in Num /\ Num \subseteq Nat \ {0} /\ n <= Len(insts) /\ Len(insts) \in Nat
      BY <1>1, <1>3, Named DEF IInv, Flight
    <3>2. n \in Decoded
      BY <3>1 DEF Decoded
    <3>3. QED BY <1>1, <1>3, <3>2 DEF Flight
  <2>2. n \notin ToIssue
    <3>1. n \in Nat
      BY <1>1, <2>1
    <3>2. ~(n < n)
      BY <3>1
    <3>3. QED BY <2>1, <3>2
  <2>3. insts[n].forward = 0 /\ r \in insts[n].dsts
    BY <1>1, <2>1, <2>2 DEF SameOperands
  <2>4. CASE m \in Marked
    BY <1>1, <1>3, <2>3, <2>4 DEF FirstWriters
  <2>5. CASE m \in ToIssue
    BY <1>1, <2>1, <2>5
  <2>6. QED BY <1>2, <2>4, <2>5
<1>4. ASSUME NEW u, Issues(n, u) PROVE n <= m
  <2>1. n \in Decoded /\ u \in {0} \cup Unit /\ MarkupInstDests(n, u) /\ ~insts[n].fault
    BY <1>1, <1>4, IssuesYoungest DEF Issues, NothingFails
  <2>2. \A x \in insts[n].dsts : renameId[x] = 0
    BY <1>1, <2>1, MarkupLooks
  <2>3. ASSUME m \in Marked PROVE FALSE
    <3>1. m \in Nat \ {0} /\ m <= renameId[r]
      BY <1>1, <2>3 DEF MarksCover
    <3>2. QED BY <1>1, <2>1, <2>2, <3>1
  <2>4. n \in ToIssue /\ m \in Marked' /\ Marked' \subseteq Marked \cup {n}
    <3>1. Chained' = Chained \cup {n} /\ mTo' = mTo
      BY <1>1, <1>4, IssueNames DEF Issues
    <3>2. QED BY <1>4, <3>1 DEF Issues, Marked
  <2>5. QED BY <1>1, <2>1, <2>3, <2>4
<1>5. QED BY <1>1, <1>3, <1>4, InFlightSteps
-----------------------------------------------------------------------------
(* The operand is the latest value.                                        *)

(* What makes a number that of the latest writer.                          *)
LEMMA LatestIs ==
  ASSUME NEW n \in Nat, NEW r, NEW w \in Nat,
         w # 0 => w \in 1 .. n - 1 /\ OnPath(w) /\ Writes(w, r),
         \A m \in 1 .. n - 1 : OnPath(m) /\ Writes(m, r) => m <= w
  PROVE  LatestWriter(n, r) = w
<1> DEFINE before == {m \in 1 .. n - 1 : OnPath(m) /\ Writes(m, r)}
           Last(x) == x \in before /\ \A k \in before : k <= x
<1>1. LatestWriter(n, r) = IF before = {} THEN 0 ELSE CHOOSE m \in before : \A k \in before : k <= m
  BY DEF LatestWriter
<1>2. CASE w = 0
  <2>1. before = {}
    <3>1. ASSUME NEW m \in before PROVE FALSE
      <4>1. m \in 1 .. n - 1 /\ m <= 0
        BY <1>2
      <4>2. QED BY <4>1
    <3>2. QED BY <3>1
  <2>2. QED BY <1>1, <1>2, <2>1
<1>3. CASE w # 0
  <2>1. w \in before /\ before \subseteq Nat /\ \A k \in before : k <= w
    BY <1>3
  <2> HIDE DEF before
  <2>2. \A x \in before : (\A k \in before : k <= x) => x = w
    BY <2>1
  <2>3. (CHOOSE m \in before : \A k \in before : k <= m) = w
    BY <2>1, <2>2
  <2>4. QED BY <1>1, <2>1, <2>3
<1>4. QED BY <1>2, <1>3

(* All that is older has been issued, and is of the program.               *)
LEMMA OlderOnes ==
  ASSUME Undisturbed, NothingInShadow, NEW n \in Ids(execute.inFlight),
         phase # "crashed"
  PROVE  /\ n \in Decoded /\ n \in Nat /\ n \in Chained
         /\ \A m \in 1 .. n - 1 : /\ m \in Decoded /\ OnPath(m)
                                  /\ m \in Marked \/ m \in Ids(retired)
<1>1. /\ IInv /\ Flight /\ HeldIsNamed /\ PathFollowed /\ FirstBranchesOpen /\ OpenersKnown
      /\ Decoded = 1 .. Len(insts) /\ Len(insts) \in Nat /\ Num \subseteq Nat \ {0}
      /\ n \in Num
  <2>1. IInv /\ HeldIsNamed /\ PathFollowed /\ FirstBranchesOpen /\ OpenersKnown
    BY UndisturbedStates
  <2>2. TypeOK /\ Flight
    BY <2>1 DEF IInv
  <2>3. QED BY <2>1, <2>2, Named DEF Decoded
<1>2. n \in Decoded /\ n \in Nat
  <2>1. n <= Len(insts) /\ n \in Nat /\ n # 0
    BY <1>1 DEF Flight
  <2>2. n \in 1 .. Len(insts)
    BY <1>1, <2>1
  <2>3. QED BY <1>1, <2>1, <2>2
<1>3. n \in Chained
  BY <1>1 DEF HeldIsNamed, ToBeMoved
<1>4. ASSUME NEW m \in 1 .. n - 1
      PROVE  /\ m \in Decoded /\ OnPath(m)
             /\ m \in Marked \/ m \in Ids(retired)
  <2>1. m \in Decoded /\ m \in Nat /\ m < n
    BY <1>1, <1>2
  <2>2. NotInShadow(m)
    BY <2>1 DEF NothingInShadow
  <2>3. insts[m].stream \in 1 .. execute.streamSeqNum
    BY <1>1, <2>1, PathNamed
  <2>4. OnPath(m)
    BY <1>1, <2>2, <2>3, StreamsOfTheProgram DEF OnPath
  <2>5. m \notin ToIssue
    <3>1. ASSUME m \in ToIssue PROVE n < m
      BY <1>1, <3>1 DEF Flight
    <3>2. QED BY <1>2, <2>1, <3>1
  <2>6. m \in Chained \cup Done
    BY <1>1, <2>1, <2>2, <2>5 DEF PathFollowed
  <2>7. QED BY <2>1, <2>4, <2>6 DEF Done, Marked
<1>5. QED BY <1>2, <1>3, <1>4

(* Wherever it is taken from.                                              *)
LEMMA OperandsOfTheLatest ==
  ASSUME Undisturbed, NothingInShadow, RegsAreLatest, SourcesReady, FirstWriters
  PROVE  ForwardsTheLatest
<1> SUFFICES ASSUME NEW n \in Decoded, Computes(n), insts[n].forward = 0,
                    NEW r \in insts[n].srcs, renameId[r] <= n
             PROVE  Operand(n, r) = LatestWriter(n, r)
  BY DEF ForwardsTheLatest
<1> DEFINE k == renameId[r]
<1>1. /\ IInv /\ TypeOK /\ PlacedOnce /\ MarksCover /\ MarksAreWriters
      /\ \A m \in Decoded : \A x : Writes(m, x) <=> x \in insts[m].dsts
  BY UndisturbedStates DEF IInv
<1>2. /\ n \in Ids(execute.inFlight) /\ phase = "push" /\ insts[n].op # "NoCost"
      /\ insts[n] \in DynInst
  <2>1. Pushing /\ n = Current
    BY DEF Computes, Ready
  <2>2. QED BY <1>1, <2>1, CurrentIn DEF Computes, Ready
<1>3. /\ n \in Nat /\ n \in Chained
      /\ \A m \in 1 .. n - 1 : /\ m \in Decoded /\ OnPath(m)
                               /\ m \in Marked \/ m \in Ids(retired)
  BY <1>2, OlderOnes
<1>4. /\ r \in Reg /\ k \in {0} \cup Num /\ Num \subseteq Nat /\ k \in Nat
      /\ regs[r] \in {0} \cup Num /\ regs[r] \in Nat
  <2>1. r \in Reg
    BY <1>2 DEF DynInst
  <2>2. k \in {0} \cup Num /\ regs[r] \in {0} \cup Num /\ Num \subseteq Nat
    BY <1>1, <2>1, Named DEF TypeOK
  <2>3. 0 \in Nat
    OBVIOUS
  <2> HIDE DEF k
  <2>4. QED BY <2>1, <2>2, <2>3
<1>5. ~InCommon(k)
  BY <1>1 DEF IInv, WritebackBuffers, InCommon, ContainsExecSeqNum
<1>6. Rname(n, r) = k
  BY DEF Rname
<1>7. ASSUME ~LookForForwards(n, r),
             \A m \in 1 .. n - 1 : m \in Marked => r \notin insts[m].dsts
      PROVE  Operand(n, r) = LatestWriter(n, r)
  <2> DEFINE w == regs[r]
  <2>1. Operand(n, r) = w
    BY <1>7 DEF Operand
  <2>2. ASSUME w # 0 PROVE w \in 1 .. n - 1 /\ OnPath(w) /\ Writes(w, r)
    <3>1. w \in Ids(retired) /\ r \in insts[w].dsts
      BY <1>4, <2>2 DEF RegsAreLatest
    <3>2. w \in Done /\ w \in Decoded /\ w < n
      BY <1>1, <1>3, <3>1, PathNamed DEF Done
    <3>3. w \in 1 .. n - 1
      BY <1>3, <1>4, <2>2, <3>2
    <3>4. QED BY <1>1, <1>3, <3>1, <3>2, <3>3
  <2>3. \A m \in 1 .. n - 1 : OnPath(m) /\ Writes(m, r) => m <= w
    BY <1>1, <1>3, <1>4, <1>7 DEF RegsAreLatest
  <2> HIDE DEF w
  <2>4. w \in Nat
    BY <1>4 DEF w
  <2>5. QED BY <1>3, <2>1, <2>2, <2>3, <2>4, LatestIs
<1>8. CASE k = 0
  <2>1. ~LookForForwards(n, r)
    BY <1>6, <1>8 DEF LookForForwards
  <2>2. ASSUME NEW m \in 1 .. n - 1, m \in Marked, r \in insts[m].dsts PROVE FALSE
    <3>1. m <= k
      BY <1>1, <2>2 DEF MarksCover
    <3>2. QED BY <1>3, <1>8, <3>1
  <2>3. QED BY <1>7, <2>1, <2>2
<1>9. CASE k = n /\ k # 0
  <2>1. ~InBase(n)
    BY <1>1, <1>2 DEF PlacedOnce, Past, InBase, Box
  <2>2. ~LookForForwards(n, r)
    BY <1>5, <1>6, <1>9, <2>1 DEF LookForForwards
  <2>3. r \in insts[n].dsts
    BY <1>1, <1>4, <1>9 DEF MarksAreWriters
  <2>4. ASSUME NEW m \in 1 .. n - 1, m \in Marked, r \in insts[m].dsts PROVE FALSE
    <3>1. n <= m
      BY <1>2, <2>3, <2>4 DEF FirstWriters
    <3>2. QED BY <1>3, <3>1
  <2>5. QED BY <1>7, <2>2, <2>4
<1>10. CASE k # 0 /\ k < n
  <2>1. InBase(k)
    BY <1>2, <1>10 DEF SourcesReady
  <2>2. k \in 1 .. n - 1 /\ k \in Marked /\ r \in insts[k].dsts
    BY <1>1, <1>3, <1>4, <1>10 DEF MarksAreWriters
  <2>3. OnPath(k) /\ Writes(k, r)
    BY <1>1, <1>3, <2>2
  <2>4. Operand(n, r) = k
    BY <1>6, <1>10, <2>1, <2>3 DEF Operand, LookForForwards, ForwardRegResult
  <2>5. ASSUME NEW m \in 1 .. n - 1, Writes(m, r) PROVE m <= k
    <3>1. m \in Decoded /\ r \in insts[m].dsts /\ (m \in Marked \/ m \in Ids(retired))
      BY <1>1, <1>3, <2>5
    <3>2. CASE m \in Marked
      BY <1>1, <3>1, <3>2 DEF MarksCover
    <3>3. CASE m \in Ids(retired)
      <4>1. m < k
        BY <1>1, <2>2, <3>3 DEF IInv, LeavesInOrder, Marked
      <4>2. QED BY <1>4, <4>1
    <3>4. QED BY <3>1, <3>2, <3>3
  <2> HIDE DEF k
  <2>6. QED BY <1>3, <1>4, <2>2, <2>3, <2>4, <2>5, LatestIs
<1>11. QED BY <1>3, <1>4, <1>8, <1>9, <1>10

(* Everything the operands depend on ...                                   *)
OperandsFound == RegsAreLatest /\ ConsumedLeft /\ SourcesReady /\ FirstWriters

(* ... is in its place when nothing has been issued, ...                   *)
LEMMA OperandsInitially ==
  ASSUME Init
  PROVE  OperandsFound
<1>1. /\ execute.inFlight = <<>> /\ retired = <<>> /\ \A r \in Reg : regs[r] = 0
      /\ eTo["BASE"] = <<>> /\ isb["BASE"] = EmptyIsb
  BY DEF Init, NoPackets, Box
<1>2. Ids(<<>>) = {}
  BY IdsOfPacket
<1>3. \A n : ~InBox("BASE", n)
  BY <1>1, <1>2 DEF InBox, ContainsExecSeqNum, EmptyIsb
<1>4. QED BY <1>1, <1>2, <1>3
          DEF OperandsFound, RegsAreLatest, ConsumedLeft, SourcesReady, FirstWriters

(* An instruction that depends on no older one but through its sources,    *)
(* and is overtaken by no younger writer of them, computes with the latest *)
(* values: from BASE if they are on their way, from the register file if   *)
(* not, and never the value before.  That is for programs whose free       *)
(* instructions write nothing, where nothing faults and no wrong path is   *)
(* taken, while ORDER has a place for what Execute issues.                 *)
THEOREM LatestIsForwarded ==
  ASSUME NoFaults, FreeInstsWriteNothing
  PROVE  Spec /\ []OrderHasRoom => [](NothingInShadow => ForwardsTheLatest)
<1> DEFINE Inv == Undisturbed /\ (NothingInShadow => OperandsFound)
<1>1. Init => Inv
  BY UndisturbedInitially, OperandsInitially
<1>2. Inv /\ OrderHasRoom /\ [Next]_vars => Inv'
  <2> SUFFICES ASSUME Inv, OrderHasRoom, [Next]_vars PROVE Inv'
    OBVIOUS
  <2>1. Undisturbed'
    BY UndisturbedKept
  <2>2. ASSUME NothingInShadow' PROVE OperandsFound'
    <3>1. IInv
      BY DEF Undisturbed, Covered, FoundInPlace, FollowsThePath
    <3>2. NothingInShadow /\ OperandsFound
      BY <2>2, <3>1, ShadowsRemain
    <3>3. QED BY <3>2, RegsKept, ConsumedLeftKept, SourcesKept, FirstWritersKept
              DEF OperandsFound
  <2>3. QED BY <2>1, <2>2
<1>3. Inv => (NothingInShadow => ForwardsTheLatest)
  BY OperandsOfTheLatest DEF OperandsFound
<1> HIDE DEF Inv
<1>4. QED BY <1>1, <1>2, <1>3, PTL DEF Spec
=============================================================================
