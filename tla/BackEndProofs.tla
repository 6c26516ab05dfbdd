--------------------------- MODULE BackEndProofs ---------------------------
(***************************************************************************)
(* What holds of the back end for every pool of units, every capacity and  *)
(* every program.                                                          *)
(***************************************************************************)
EXTENDS BackEndLemmas

-----------------------------------------------------------------------------
(* The inductive invariant.                                                *)

(* Execute reads dToE before Decode writes it again.                       *)
Arriving == IF phase \in {"writeback", "memory", "execute"} THEN dToE ELSE Bubble

ToIssue == Ids(executeIn.elem) \cup Ids(executeIn.queue) \cup Ids(Arriving)

(* What is reserved in Memory is what is in the latch.                     *)
MemoryBuffers ==
  /\ \A b \in Box \cup {"ORDER"} :
       /\ isb[b].reserved = Len(eTo[b]) /\ Tally(isb[b])
       /\ phase = "execute" => eTo[b] = <<>>
  /\ Len(eTo["ORDER"]) <= 1

(* Memory moves one instruction at a time, and Writeback takes it in the   *)
(* next cycle.                                                             *)
WritebackBuffers ==
  /\ \A b \in {"COMMON", "TRAP", "ORDER"} :
       wb[b] = [queue |-> <<>>, occupied |-> 0, index |-> 0,
                reserved |-> IF b = "ORDER" THEN 0 ELSE Len(mTo[b])]
  /\ \/ \A b \in {"COMMON", "TRAP", "ORDER"} : mTo[b] = <<>>
     \/ /\ phase # "memory"
        /\ \E n \in Num, to \in {"COMMON", "TRAP"} :
             mTo = [b \in {"COMMON", "TRAP", "ORDER"} |->
                      IF b \in {to, "ORDER"} THEN <<n>> ELSE <<>>]

(* What Execute has still to issue, in the order of decoding.              *)
Conveyor ==
  /\ ToIssue \subseteq 1 .. Len(insts)
  /\ Increasing(executeIn.queue)
  /\ \A x \in Ids(executeIn.queue), y \in Ids(Arriving) : x < y
  /\ executeIn.elem # Bubble => phase \in {"push", "crashed"}
                                  /\ executeIn.queue = <<>>
  /\ \A n \in ToIssue : /\ insts[n].fu = 0 /\ insts[n].opens = 0
                        /\ insts[n].req = "NotIssued"

(* inFlightInsts is kept in the order of issue.                            *)
Flight ==
  /\ Increasing(execute.inFlight)
  /\ \A n \in Ids(execute.inFlight) :
       /\ n <= Len(insts) /\ insts[n].opens = 0
       /\ ~IsFree(insts[n]) => insts[n].fu # 0
       /\ \A m \in ToIssue : n < m

(* What is in unit u was issued to it and is in flight, but for a front    *)
(* that has left and for faults; and if it moves it has nothing in flight  *)
(* to lose.                                                                *)
UnitKept(f, u) ==
  /\ Len(f.pipe) = FuncUnits[u].opLat + 1
  /\ \A i \in 1 .. Len(f.pipe) : f.pipe[i] # NoInst =>
       /\ f.pipe[i] <= Len(insts) /\ insts[f.pipe[i]].fu = u
       /\ \A m \in ToIssue : f.pipe[i] < m
       /\ \/ i = Len(f.pipe)
          \/ f.pipe[i] \in Ids(execute.inFlight)
          \/ insts[f.pipe[i]].fault
  /\ \A i, j \in 1 .. Len(f.pipe) :
       i < j /\ f.pipe[i] # NoInst /\ f.pipe[j] # NoInst => f.pipe[j] < f.pipe[i]
  /\ f.stalled => /\ UnitFront(f) # NoInst
                  /\ \/ UnitFront(f) \in Ids(execute.inFlight)
                     \/ insts[UnitFront(f)].fault
  /\ ~f.stalled /\ UnitFront(f) \in Ids(execute.inFlight)
       => IsFree(insts[UnitFront(f)])

UnitsKept == \A u \in Unit : UnitKept(units[u], u)

(* What is in flight is in its unit.                                       *)
FlightInUnits ==
  \A n \in Ids(execute.inFlight) :
    ~IsFree(insts[n]) => n \in Ids(units[insts[n].fu].pipe)

IssuedToCapable ==
  \A n \in Decoded :
    insts[n].fu # 0 /\ ~insts[n].fault =>
      insts[n].op # "NoCost" /\ Provides(insts[n].fu, insts[n].op)

MemOp == {"Load", "Store"}

(* Where a request is, by its state.                                       *)
RequestsTracked ==
  /\ \A n \in dcache.dtlb : n <= Len(insts) /\ insts[n].req = "InTranslation"
  /\ \A n \in dcache.cache : n <= Len(insts) /\ insts[n].req = "SentToCache"
  /\ dcache.owesRetry <=> dcache.retryRequest # 0
  /\ dcache.owesRetry => /\ dcache.retryRequest <= Len(insts)
                         /\ insts[dcache.retryRequest].req = "WaitingRetry"
  /\ \A n \in Decoded :
       /\ insts[n].req # "NotIssued" => insts[n].op \in MemOp
       /\ insts[n].req \in {"InTranslation", "WaitingRetry"} =>
            /\ n \in Ids(execute.inFlight) /\ ~insts[n].fault
            /\ units[insts[n].fu].stalled
            /\ UnitFront(units[insts[n].fu]) = n
       /\ insts[n].op \in MemOp /\ insts[n].fu # 0 /\ ~insts[n].fault
            => insts[n].req \in Sent \/ n \in Ids(execute.inFlight)

(* ORDER, from Execute's latch to what Writeback has retired.              *)
Chained == Waiting(isb["ORDER"]) \cup Ids(eTo["ORDER"])

OrderKept ==
  LET q == isb["ORDER"].queue
  IN  /\ OneAPacket(isb["ORDER"])
      /\ Ordered(isb["ORDER"])
      /\ \A i \in 1 .. Len(q) :
           /\ q[i][1] <= Len(insts)
           /\ \A n \in Ids(eTo["ORDER"]) \cup ToIssue : q[i][1] < n
      /\ \A n \in Ids(eTo["ORDER"]) :
           n <= Len(insts) /\ \A m \in ToIssue : n < m

LeavesInOrder ==
  /\ \A n \in Ids(mTo["ORDER"]) :
       n <= Len(insts) /\ \A m \in Chained \cup ToIssue : n < m
  /\ Increasing(retired)
  /\ \A n \in Ids(retired) :
       n <= Len(insts) /\ \A m \in Ids(mTo["ORDER"]) \cup Chained \cup ToIssue : n < m

(* Past Execute.                                                           *)
Past(n) ==
  \/ \E b \in Box : n \in Ids(eTo[b]) \/ ContainsExecSeqNum(isb[b], n)
  \/ n \in Ids(mTo["ORDER"])
  \/ n \in Ids(retired)

(* Only a faulting branch is in flight once it has been pushed.            *)
PastExecute ==
  \A n \in Num : Past(n) =>
    /\ n <= Len(insts)
    /\ \A m \in ToIssue : n < m
    /\ n \in Ids(execute.inFlight) => insts[n].fault

Opened == {n \in Decoded : insts[n].opens # 0}

StreamsCounted ==
  LET s == execute.streamSeqNum
  IN  /\ s = FirstStream + Cardinality(Opened)
      /\ supply <= s
      /\ \A w \in Ids(branch.in) \cup Ids(branch.out) : w <= s
      /\ \A n \in Decoded : insts[n].stream <= n /\ insts[n].stream <= s
      /\ \A m, n \in Chained : m < n => insts[m].stream <= insts[n].stream

IInv ==
  /\ TypeOK
  /\ MemoryBuffers
  /\ WritebackBuffers
  /\ Conveyor
  /\ Flight
  /\ UnitsKept
  /\ FlightInUnits
  /\ IssuedToCapable
  /\ RequestsTracked
  /\ OrderKept
  /\ LeavesInOrder
  /\ PastExecute
  /\ StreamsCounted
-----------------------------------------------------------------------------
(* Lemmas about the states of the invariant.                               *)

(* The pool.                                                               *)
LEMMA Pool ==
  /\ MaxInst \in Nat /\ OrderSize \in Nat /\ Len(FuncUnits) > 1
  /\ \A u \in Unit : /\ FuncUnits[u].opLat \in Nat \ {0} /\ FuncUnits[u].issueLat \in Nat
                     /\ u \in Nat /\ u # 0
<1> DEFINE R == [ops : SUBSET Op, opLat : Nat \ {0}, issueLat : Nat]
<1>1. /\ MaxInst \in Nat /\ OrderSize \in Nat /\ Len(FuncUnits) > 1
      /\ FuncUnits \in Seq(R)
  BY BackEndAssumption
<1>2. ASSUME NEW u \in Unit
      PROVE  /\ FuncUnits[u].opLat \in Nat \ {0} /\ FuncUnits[u].issueLat \in Nat
             /\ u \in Nat /\ u # 0
  <2>1. u \in 1 .. Len(FuncUnits) /\ Len(FuncUnits) \in Nat
    BY <1>1 DEF Unit
  <2>2. FuncUnits[u] \in R
    BY <1>1, <2>1, ElementOfSeq
  <2>3. QED BY <2>1, <2>2
<1>3. QED BY <1>1, <1>2

(* Where instructions are named they are decoded ones.                     *)
LEMMA Named ==
  ASSUME TypeOK
  PROVE  /\ MaxInst \in Nat /\ Num \subseteq Nat \ {0}
         /\ Len(insts) \in 0 .. MaxInst /\ Decoded \subseteq Num
         /\ \A n \in Decoded : insts[n] \in DynInst
         /\ Ids(execute.inFlight) \subseteq Num
         /\ execute.inFlight \in Seq(Num) /\ execute.inFlight \in Seq(Nat)
         /\ Len(execute.inFlight) \in Nat
         /\ retired \in Seq(Num) /\ retired \in Seq(Nat)
<1>1. MaxInst \in Nat
  BY Pool
<1>2. Num \subseteq Nat \ {0}
  BY <1>1 DEF Num
<1>3. Len(insts) \in 0 .. MaxInst /\ insts \in Seq(DynInst)
  <2>1. insts \in Seq(DynInst) /\ Len(insts) <= MaxInst
    BY DEF TypeOK
  <2>2. QED BY <1>1, <2>1
<1>4. Decoded \subseteq Num /\ \A n \in Decoded : insts[n] \in DynInst
  BY <1>1, <1>3 DEF Decoded, Num
<1>5. execute.inFlight \in Seq(Num) /\ retired \in Seq(Num)
  BY DEF TypeOK
<1>6. execute.inFlight \in Seq(Nat) /\ retired \in Seq(Nat) /\ Len(execute.inFlight) \in Nat
  BY <1>2, <1>5, SeqMonotonic, LenProperties
<1>7. Ids(execute.inFlight) \subseteq Num
  BY <1>5, IdsIn
<1>8. QED BY <1>1, <1>2, <1>3, <1>4, <1>5, <1>6, <1>7

(* What is not issued yet has been decoded.                                *)
LEMMA ToIssueNamed ==
  ASSUME TypeOK, Conveyor
  PROVE  ToIssue \subseteq Decoded
BY DEF Conveyor, Decoded

(* Nor does ORDER name anything else.                                      *)
LEMMA ChainedNamed ==
  ASSUME TypeOK, OrderKept
  PROVE  Chained \subseteq Decoded
<1>1. \A i \in 1 .. Len(isb["ORDER"].queue) : isb["ORDER"].queue[i][1] <= Len(insts)
  BY DEF OrderKept
<1>2. Waiting(isb["ORDER"]) \subseteq Decoded
  <2>1. isb["ORDER"] \in IsbOf(Num) /\ OneAPacket(isb["ORDER"])
    BY DEF TypeOK, OrderKept
  <2>2. \A n \in Waiting(isb["ORDER"]) : n <= Len(insts)
    BY <1>1, <2>1, WaitingOne
  <2>3. Waiting(isb["ORDER"]) \subseteq Num
    BY DEF Waiting
  <2>4. QED BY <2>2, <2>3, Named DEF Decoded, Num
<1>3. Ids(eTo["ORDER"]) \subseteq Decoded
  <2>1. eTo["ORDER"] \in Seq(Num)
    BY DEF TypeOK
  <2>2. QED BY <2>1, IdsIn, Named DEF OrderKept, Decoded, Num
<1>4. QED BY <1>2, <1>3 DEF Chained

(* What ORDER names is older than what has still to be issued.             *)
LEMMA ChainedOlder ==
  ASSUME TypeOK, OrderKept
  PROVE  \A n \in Chained, m \in ToIssue : n < m
<1>1. \A i \in 1 .. Len(isb["ORDER"].queue) : \A m \in ToIssue :
        isb["ORDER"].queue[i][1] < m
  BY DEF OrderKept
<1>2. \A n \in Waiting(isb["ORDER"]), m \in ToIssue : n < m
  <2>1. isb["ORDER"] \in IsbOf(Num) /\ OneAPacket(isb["ORDER"])
    BY DEF TypeOK, OrderKept
  <2>2. QED BY <1>1, <2>1, WaitingOne
<1>3. \A n \in Ids(eTo["ORDER"]), m \in ToIssue : n < m
  BY DEF OrderKept
<1>4. QED BY <1>2, <1>3 DEF Chained

(* The stages of a unit hold decoded instructions.                         *)
LEMMA UnitNamed ==
  ASSUME TypeOK, UnitsKept, NEW u \in Unit
  PROVE  /\ UnitKept(units[u], u) /\ units[u] \in UnitFields
         /\ Len(units[u].pipe) \in Nat /\ Len(units[u].pipe) > 1
         /\ \A i \in 1 .. Len(units[u].pipe) :
              units[u].pipe[i] # NoInst => units[u].pipe[i] \in Decoded
<1>1. units[u] \in UnitFields
  BY DEF TypeOK, UnitFields
<1>2. UnitKept(units[u], u)
  BY DEF UnitsKept
<1>3. Len(units[u].pipe) = FuncUnits[u].opLat + 1 /\ FuncUnits[u].opLat \in Nat \ {0}
  BY <1>2, Pool DEF UnitKept
<1>4. \A i \in 1 .. Len(units[u].pipe) :
        units[u].pipe[i] # NoInst => units[u].pipe[i] \in Decoded
  <2>1. \A i \in 1 .. Len(units[u].pipe) : units[u].pipe[i] \in {NoInst} \cup Num
    BY <1>1 DEF UnitFields
  <2>2. QED BY <1>2, <2>1, Named DEF UnitKept, Decoded, Num
<1>5. QED BY <1>1, <1>2, <1>3, <1>4

(* The back end starts in the invariant.                                   *)
LEMMA InitIInv == Init => IInv
<1> SUFFICES ASSUME Init PROVE IInv
  OBVIOUS
<1>0. MaxInst \in Nat
  BY Pool
<1>1. /\ FirstStream \in Stream /\ 0 \in {0} \cup Num
      /\ phase = "writeback" /\ insts = <<>> /\ Len(insts) = 0
      /\ Decoded = {}
  BY <1>0 DEF Init, Stream, FirstStream, Decoded
<1>2. \A u \in Unit :
        /\ units[u] = IdleUnit(FuncUnits[u].opLat) /\ units[u] \in UnitFields
        /\ Len(units[u].pipe) = FuncUnits[u].opLat + 1 /\ ~units[u].stalled
        /\ FuncUnits[u].opLat \in Nat \ {0}
        /\ \A i \in 1 .. Len(units[u].pipe) : units[u].pipe[i] = NoInst
  <2> SUFFICES ASSUME NEW u \in Unit
               PROVE  /\ units[u] = IdleUnit(FuncUnits[u].opLat)
                      /\ units[u] \in UnitFields
                      /\ Len(units[u].pipe) = FuncUnits[u].opLat + 1
                      /\ ~units[u].stalled /\ FuncUnits[u].opLat \in Nat \ {0}
                      /\ \A i \in 1 .. Len(units[u].pipe) : units[u].pipe[i] = NoInst
    OBVIOUS
  <2>1. FuncUnits[u].opLat \in Nat \ {0}
    BY Pool
  <2>2. units[u] = IdleUnit(FuncUnits[u].opLat)
    BY DEF Init, NewUnits
  <2> DEFINE L == FuncUnits[u].opLat + 1
             p == [i \in 1 .. L |-> NoInst]
  <2>3. p \in Seq({NoInst} \cup Num) /\ Len(p) = L /\ \A i \in 1 .. L : p[i] = NoInst
    BY <2>1
  <2>4. units[u] = [pipe |-> p, stalled |-> FALSE, wait |-> 0]
    BY <2>2 DEF IdleUnit
  <2> HIDE DEF p, L
  <2>5. units[u].pipe = p /\ ~units[u].stalled /\ units[u] \in UnitFields
    BY <2>3, <2>4 DEF UnitFields
  <2>6. QED BY <2>1, <2>2, <2>3, <2>5 DEF L
<1>3. units \in [Unit -> UnitFields]
  BY <1>2 DEF Init, NewUnits
<1>4. /\ executeIn.elem = Bubble /\ executeIn.queue = <<>> /\ execute.inFlight = <<>>
      /\ dToE = Bubble /\ Ids(<<>>) = {} /\ execute.streamSeqNum = FirstStream
  BY IdsOfPacket DEF Init, EmptyBuffer
<1>5. ToIssue = {}
  BY <1>1, <1>4 DEF ToIssue, Arriving, Bubble
<1>6. /\ \A b \in Box \cup {"ORDER"} : isb[b] = EmptyIsb /\ eTo[b] = <<>>
      /\ \A b \in {"COMMON", "TRAP", "ORDER"} : wb[b] = EmptyIsb /\ mTo[b] = <<>>
      /\ retired = <<>>
  BY DEF Init, NoPackets
<1>7. TypeOK
  <2>1. executeIn \in BufferOf(Num)
    <3>1. <<>> \in Seq(Num)
      OBVIOUS
    <3>2. Bubble \in Wire(Num)
      BY DEF Wire
    <3>3. QED BY <3>1, <3>2 DEF Init, EmptyBuffer, BufferOf
  <2>2. execute \in [streamSeqNum : Stream, draining : BOOLEAN,
                     blocked : SUBSET Box, inFlight : Seq(Num), at : Nat \ {0}]
    BY <1>1 DEF Init
  <2>3. renameId \in [Reg -> {0} \cup Num] /\ regs \in [Reg -> {0} \cup Num]
    BY DEF Init, NoWriter
  <2>4. /\ eTo \in [Box \cup {"ORDER"} -> Seq(Num)]
        /\ mTo \in [{"COMMON", "TRAP", "ORDER"} -> Seq(Num)]
    BY DEF Init, NoPackets
  <2>5. /\ isb \in [Box \cup {"ORDER"} -> IsbOf(Num)]
        /\ wb \in [{"COMMON", "TRAP", "ORDER"} -> IsbOf(Num)]
    BY EmptyKept DEF Init
  <2>6. dcache \in [dtlb : SUBSET Num, cache : SUBSET Num,
                    retryRequest : {0} \cup Num, owesRetry : BOOLEAN]
    BY DEF Init
  <2>7. insts \in Seq(DynInst) /\ Len(insts) <= MaxInst
    BY <1>0, <1>1
  <2>8. branch \in LatchOf(Stream) /\ dToE \in Wire(Num)
    BY DEF Init, EmptyLatch, LatchOf, Wire, Bubble
  <2>9. supply \in Stream /\ memStream \in Stream /\ retired \in Seq(Num)
    BY <1>1 DEF Init
  <2>10. QED BY <1>1, <1>3, <2>1, <2>2, <2>3, <2>4, <2>5, <2>6, <2>7, <2>8, <2>9
             DEF TypeOK, UnitFields
<1>8. MemoryBuffers
  <2>1. Len(<<>>) = 0 /\ EmptyIsb.reserved = 0
    BY DEF EmptyIsb
  <2>2. QED BY <1>6, <2>1, EmptyKept DEF MemoryBuffers
<1>9. WritebackBuffers
  <2>1. Len(<<>>) = 0 /\ \A b : (IF b = "ORDER" THEN 0 ELSE 0) = 0
    OBVIOUS
  <2>2. QED BY <1>6, <2>1 DEF WritebackBuffers, EmptyIsb
<1>10. Conveyor
  BY <1>1, <1>4, <1>5, EmptyIncreasing DEF Conveyor
<1>11. Flight
  BY <1>4, EmptyIncreasing DEF Flight
<1>12. UnitsKept
  <2> SUFFICES ASSUME NEW u \in Unit PROVE UnitKept(units[u], u)
    BY DEF UnitsKept
  <2>1. UnitFront(units[u]) = NoInst
    BY <1>2 DEF UnitFront
  <2>2. NoInst \notin Ids(execute.inFlight)
    BY <1>4
  <2>3. QED BY <1>2, <2>1, <2>2 DEF UnitKept
<1>13. FlightInUnits /\ IssuedToCapable
  BY <1>1, <1>4 DEF FlightInUnits, IssuedToCapable
<1>14. RequestsTracked
  BY <1>1 DEF Init, RequestsTracked
<1>15. OrderKept
  <2>1. EmptyIsb.queue = <<>> /\ Len(<<>>) = 0
    BY DEF EmptyIsb
  <2>2. QED BY <1>4, <1>6, <2>1, EmptyKept DEF OrderKept, Ordered
<1>16. LeavesInOrder
  BY <1>4, <1>6, EmptyIncreasing DEF LeavesInOrder
<1>17. \A n : ~Past(n)
  <2>1. \A n : ~ContainsExecSeqNum(EmptyIsb, n)
    BY DEF ContainsExecSeqNum, EmptyIsb
  <2>2. QED BY <1>4, <1>6, <2>1 DEF Past
<1>18. StreamsCounted
  <2>1. Opened = {} /\ Cardinality(Opened) = 0
    BY <1>1, FS_EmptySet DEF Opened
  <2>2. supply = FirstStream /\ branch.in = <<>> /\ branch.out = <<>>
    BY DEF Init, EmptyLatch, Bubble
  <2>3. Chained = {}
    <3>1. Waiting(EmptyIsb) = {}
      BY DEF Waiting, EmptyIsb
    <3>2. QED BY <1>4, <1>6, <3>1 DEF Chained
  <2>4. QED BY <1>1, <1>4, <2>1, <2>2, <2>3 DEF StreamsCounted, FirstStream
<1>19. QED BY <1>7, <1>8, <1>9, <1>10, <1>11, <1>12, <1>13, <1>14, <1>15, <1>16,
              <1>17, <1>18 DEF IInv, PastExecute
-----------------------------------------------------------------------------
(* Writeback.                                                              *)

(* One instruction that goes through a buffer in a cycle.                  *)
Passing(n) == [queue |-> <<<<n>>>>, reserved |-> 0, occupied |-> 1, index |-> 0]
Awaiting(r) == [queue |-> <<>>, reserved |-> r, occupied |-> 0, index |-> 0]

(* The packet Memory sends is pushed on its reservation, found at the front*)
(* of the buffer and taken off whole: COMMON and ORDER are as before.      *)
LEMMA PassesThrough ==
  ASSUME NEW n \in Num, MaxInst \in Nat
  PROVE  /\ PushPacket(Awaiting(1), <<n>>) = Passing(n)
         /\ PushUnreserved(Awaiting(0), <<n>>) = Passing(n)
         /\ FrontEntry(Passing(n)) = n /\ n # NoInst
         /\ ResetConsumed(ConsumeEntry(Passing(n))) = Awaiting(0)
<1>1. <<n>> # <<>> /\ Len(<<n>>) = 1 /\ Append(<<>>, <<n>>) = <<<<n>>>>
  OBVIOUS
<1>2. <<<<n>>>> # <<>> /\ Head(<<<<n>>>>) = <<n>> /\ Tail(<<<<n>>>>) = <<>>
  OBVIOUS
<1>3. PushPacket(Awaiting(1), <<n>>) = Passing(n)
  <2> DEFINE b == Awaiting(1)
  <2>1. PushPacket(b, <<n>>) =
          [b EXCEPT !.queue = Append(b.queue, <<n>>),
                    !.reserved = b.reserved - Len(<<n>>),
                    !.occupied = b.occupied + Len(<<n>>)]
    BY <1>1 DEF PushPacket
  <2>2. /\ Append(b.queue, <<n>>) = <<<<n>>>>
        /\ b.reserved - Len(<<n>>) = 0 /\ b.occupied + Len(<<n>>) = 1
    BY <1>1 DEF Awaiting
  <2>3. PushPacket(b, <<n>>) =
          [b EXCEPT !.queue = <<<<n>>>>, !.reserved = 0, !.occupied = 1]
    BY <2>1, <2>2
  <2>4. QED BY <2>3 DEF Awaiting, Passing
<1>4. PushUnreserved(Awaiting(0), <<n>>) = Passing(n)
  <2> DEFINE b == Awaiting(0)
  <2>1. PushUnreserved(b, <<n>>) =
          [b EXCEPT !.queue = Append(b.queue, <<n>>),
                    !.occupied = b.occupied + Len(<<n>>)]
    BY <1>1 DEF PushUnreserved
  <2>2. Append(b.queue, <<n>>) = <<<<n>>>> /\ b.occupied + Len(<<n>>) = 1
    BY <1>1 DEF Awaiting
  <2>3. PushUnreserved(b, <<n>>) = [b EXCEPT !.queue = <<<<n>>>>, !.occupied = 1]
    BY <2>1, <2>2
  <2>4. QED BY <2>3 DEF Awaiting, Passing
<1>5. FrontEntry(Passing(n)) = n /\ n # NoInst
  <2>1. Passing(n).queue = <<<<n>>>> /\ Passing(n).index = 0
    BY DEF Passing
  <2>2. <<n>>[0 + 1] = n /\ 0 < 1
    OBVIOUS
  <2>3. FrontEntry(Passing(n)) = n
    BY <1>1, <1>2, <2>1, <2>2 DEF FrontEntry
  <2>4. QED BY <2>3 DEF Num, NoInst
<1>6. ResetConsumed(ConsumeEntry(Passing(n))) = Awaiting(0)
  <2> DEFINE c == [queue |-> <<<<n>>>>, reserved |-> 0, occupied |-> 1, index |-> 1]
  <2>1. ConsumeEntry(Passing(n)) = c
    BY DEF ConsumeEntry, Passing
  <2>2. PopPacket(c) = [queue |-> <<>>, reserved |-> 0, occupied |-> 0, index |-> 1]
    <3>1. c.queue = <<<<n>>>> /\ c.occupied - Len(Head(c.queue)) = 0
      BY <1>1, <1>2
    <3>2. PopPacket(c) = [c EXCEPT !.queue = Tail(c.queue),
                                   !.occupied = c.occupied - Len(Head(c.queue))]
      BY <1>2, <3>1 DEF PopPacket
    <3>3. PopPacket(c) = [c EXCEPT !.queue = <<>>, !.occupied = 0]
      BY <1>2, <3>1, <3>2
    <3>4. QED BY <3>3
  <2>3. ResetConsumed(c) = [PopPacket(c) EXCEPT !.index = 0]
    BY <1>1, <1>2 DEF ResetConsumed
  <2>4. QED BY <2>1, <2>2, <2>3 DEF Awaiting
<1>7. QED BY <1>3, <1>4, <1>5, <1>6

(* A cycle without a packet leaves a buffer of Writeback as it was.        *)
LEMMA NothingPasses ==
  /\ \A r : PushPacket(Awaiting(r), <<>>) = Awaiting(r)
  /\ \A r : PushUnreserved(Awaiting(r), <<>>) = Awaiting(r)
  /\ \A r : FrontEntry(Awaiting(r)) = NoInst
  /\ \A r : ResetConsumed(Awaiting(r)) = Awaiting(r)
  /\ \A r \in Nat : Awaiting(r) \in IsbOf(Num)
<1>1. \A r \in Nat : Awaiting(r) \in IsbOf(Num)
  BY DEF Awaiting, IsbOf
<1>2. QED BY <1>1 DEF PushPacket, PushUnreserved, FrontEntry, ResetConsumed, Awaiting

(* What commits has come through COMMON, without a fault.                  *)
Commits(n) ==
  IF mTo["COMMON"] # <<>> /\ ~insts[n].fault
  THEN /\ regs' = [r \in Reg |-> IF Writes(n, r) THEN n ELSE regs[r]]
       /\ renameId' = ClearInstDests(n)
  ELSE UNCHANGED <<regs, renameId>>

(* A cycle of Writeback empties its latches and its buffers, and retires   *)
(* what they held.                                                         *)
LEMMA WritebackEffect ==
  ASSUME IInv, WritebackEvaluate
  PROVE  /\ wb' = [b \in {"COMMON", "TRAP", "ORDER"} |-> Awaiting(0)]
         /\ \/ /\ mTo["ORDER"] = <<>> /\ retired' = retired
               /\ UNCHANGED <<regs, renameId>>
            \/ \E n \in Num : /\ mTo["ORDER"] = <<n>> /\ retired' = Append(retired, n)
                             /\ Commits(n)
         /\ regs' \in [Reg -> {0} \cup Num] /\ renameId' \in [Reg -> {0} \cup Num]
<1> DEFINE B == {"COMMON", "TRAP", "ORDER"}
           in == [b \in DOMAIN wb |->
                    IF b = "ORDER" THEN PushUnreserved(wb[b], mTo[b])
                    ELSE PushPacket(wb[b], mTo[b])]
           num == FrontEntry(in["ORDER"])
           from == {b \in {"COMMON", "TRAP"} : FrontEntry(in[b]) = num}
<1>1. /\ MaxInst \in Nat /\ wb \in [B -> IsbOf(Num)] /\ DOMAIN wb = B
      /\ mTo \in [B -> Seq(Num)]
      /\ regs \in [Reg -> {0} \cup Num] /\ renameId \in [Reg -> {0} \cup Num]
  BY Pool DEF IInv, TypeOK
<1>2. \A b \in B : wb[b] = Awaiting(IF b = "ORDER" THEN 0 ELSE Len(mTo[b]))
  BY DEF IInv, WritebackBuffers, Awaiting
<1>3. /\ in = [b \in B |-> in[b]]
      /\ num = NoInst \/ from = {} => wb' = in /\ UNCHANGED <<renameId, regs, retired>>
      /\ ~(num = NoInst \/ from = {}) =>
           LET box == IF "COMMON" \in from THEN "COMMON" ELSE "TRAP"
           IN  /\ wb' = [b \in DOMAIN in |->
                           ResetConsumed(IF b \in {box, "ORDER"}
                                         THEN ConsumeEntry(in[b]) ELSE in[b])]
               /\ retired' = Append(retired, num)
               /\ IF box = "COMMON" /\ ~insts[num].fault
                  THEN /\ regs' = [r \in Reg |-> IF Writes(num, r) THEN num ELSE regs[r]]
                       /\ renameId' = ClearInstDests(num)
                  ELSE UNCHANGED <<regs, renameId>>
  BY <1>1 DEF WritebackEvaluate
<1>4. CASE \A b \in B : mTo[b] = <<>>
  <2>1. \A b \in B : wb[b] = Awaiting(0)
    <3>1. Len(<<>>) = 0
      OBVIOUS
    <3>2. QED BY <1>2, <1>4, <3>1
  <2>2. \A b \in B : in[b] = Awaiting(0)
    BY <1>1, <1>4, <2>1, NothingPasses
  <2>3. num = NoInst
    BY <2>2, NothingPasses
  <2>4. QED BY <1>1, <1>3, <1>4, <2>2, <2>3
<1>5. ASSUME NEW n \in Num, NEW to \in {"COMMON", "TRAP"},
             mTo = [b \in B |-> IF b \in {to, "ORDER"} THEN <<n>> ELSE <<>>]
      PROVE  /\ wb' = [b \in B |-> Awaiting(0)]
             /\ mTo["ORDER"] = <<n>> /\ retired' = Append(retired, n) /\ Commits(n)
             /\ regs' \in [Reg -> {0} \cup Num] /\ renameId' \in [Reg -> {0} \cup Num]
  <2>1. /\ Len(<<>>) = 0 /\ Len(<<n>>) = 1
        /\ mTo["ORDER"] = <<n>> /\ mTo[to] = <<n>>
        /\ \A b \in B \ {to, "ORDER"} : mTo[b] = <<>>
        /\ to \in B /\ to # "ORDER"
    BY <1>5
  <2>2. /\ wb["ORDER"] = Awaiting(0) /\ wb[to] = Awaiting(1)
        /\ \A b \in B \ {to, "ORDER"} : wb[b] = Awaiting(0)
    BY <1>2, <2>1
  <2>3. /\ in["ORDER"] = Passing(n) /\ in[to] = Passing(n)
        /\ \A b \in B \ {to, "ORDER"} : in[b] = Awaiting(0)
    BY <1>1, <2>1, <2>2, NothingPasses, PassesThrough
  <2>4. num = n /\ n # NoInst /\ from = {to}
    BY <1>1, <2>1, <2>3, NothingPasses, PassesThrough
  <2> DEFINE box == IF "COMMON" \in from THEN "COMMON" ELSE "TRAP"
  <2>5. box = to
    BY <2>4
  <2>6. /\ wb' = [b \in DOMAIN in |->
                    ResetConsumed(IF b \in {to, "ORDER"}
                                  THEN ConsumeEntry(in[b]) ELSE in[b])]
        /\ retired' = Append(retired, n)
        /\ IF to = "COMMON" /\ ~insts[n].fault
           THEN /\ regs' = [r \in Reg |-> IF Writes(n, r) THEN n ELSE regs[r]]
                /\ renameId' = ClearInstDests(n)
           ELSE UNCHANGED <<regs, renameId>>
    BY <1>3, <2>4, <2>5
  <2>7. wb' = [b \in B |-> Awaiting(0)]
    <3>1. \A b \in B : ResetConsumed(IF b \in {to, "ORDER"} THEN ConsumeEntry(in[b])
                                     ELSE in[b]) = Awaiting(0)
      BY <1>1, <2>3, NothingPasses, PassesThrough
    <3>2. DOMAIN in = B
      BY <1>1
    <3> HIDE DEF in
    <3>3. QED BY <2>6, <3>1, <3>2
  <2>8. /\ regs' \in [Reg -> {0} \cup Num] /\ renameId' \in [Reg -> {0} \cup Num]
    BY <1>1, <2>6 DEF ClearInstDests, ClearScoreBoard, NoWriter
  <2>9. Commits(n)
    <3>1. to = "COMMON" <=> mTo["COMMON"] # <<>>
      BY <2>1
    <3>2. QED BY <2>6, <3>1 DEF Commits
  <2>10. QED BY <2>1, <2>6, <2>7, <2>8, <2>9
<1>6. QED BY <1>4, <1>5 DEF IInv, WritebackBuffers

(* Writeback retires the next instruction of the order, or nothing.        *)
LEMMA WritebackKeeps ==
  ASSUME IInv, WritebackEvaluate
  PROVE  IInv'
<1> DEFINE B == {"COMMON", "TRAP", "ORDER"}
<1>1. /\ phase = "writeback" /\ phase' = "memory" /\ mTo' = NoPackets(B)
      /\ UNCHANGED <<insts, supply, branch, dToE, executeIn, execute, units, eTo,
                     isb, memStream, dcache>>
  BY DEF WritebackEvaluate
<1>2. /\ wb' = [b \in B |-> Awaiting(0)]
      /\ \/ mTo["ORDER"] = <<>> /\ retired' = retired
         \/ \E n \in Num : mTo["ORDER"] = <<n>> /\ retired' = Append(retired, n)
      /\ regs' \in [Reg -> {0} \cup Num] /\ renameId' \in [Reg -> {0} \cup Num]
  BY WritebackEffect
<1>3. /\ TypeOK /\ ToIssue' = ToIssue /\ Chained' = Chained
      /\ \A b \in B : mTo'[b] = <<>>
  BY <1>1 DEF IInv, ToIssue, Arriving, Chained, NoPackets
<1>4. /\ retired' \in Seq(Num)
      /\ Increasing(retired')
      /\ Ids(retired') = Ids(retired) \cup Ids(mTo["ORDER"])
  <2>1. retired \in Seq(Num) /\ retired \in Seq(Nat) /\ Num \subseteq Nat /\ Increasing(retired)
    BY <1>3, Named DEF IInv, LeavesInOrder
  <2>2. CASE mTo["ORDER"] = <<>> /\ retired' = retired
    BY <2>1, <2>2, IdsOfPacket
  <2>3. ASSUME NEW n \in Num, mTo["ORDER"] = <<n>>, retired' = Append(retired, n)
        PROVE  /\ retired' \in Seq(Num) /\ Increasing(retired')
               /\ Ids(retired') = Ids(retired) \cup Ids(mTo["ORDER"])
    <3>1. Ids(mTo["ORDER"]) = {n}
      BY <2>3, IdsOfPacket
    <3>2. \A m \in Ids(retired) : m < n
      BY <3>1 DEF IInv, LeavesInOrder
    <3>3. Increasing(retired')
      BY <2>1, <2>3, <3>2, AppendIncreasing
    <3>4. retired' \in Seq(Num) /\ Ids(retired') = Ids(retired) \cup {n}
      BY <2>1, <2>3, AppendIds
    <3>5. QED BY <3>1, <3>3, <3>4
  <2>4. QED BY <1>2, <2>2, <2>3
<1>5. TypeOK'
  <2>1. wb' \in [B -> IsbOf(Num)] /\ mTo' \in [B -> Seq(Num)]
    BY <1>1, <1>2, NothingPasses DEF NoPackets
  <2>2. QED BY <1>1, <1>2, <1>3, <1>4, <2>1 DEF TypeOK
<1>6. MemoryBuffers'
  BY <1>1 DEF IInv, MemoryBuffers
<1>7. WritebackBuffers'
  <2>1. Len(<<>>) = 0
    OBVIOUS
  <2>2. \A b \in B : wb'[b] = [queue |-> <<>>, occupied |-> 0, index |-> 0,
                              reserved |-> IF b = "ORDER" THEN 0 ELSE Len(mTo'[b])]
    BY <1>2, <1>3, <2>1 DEF Awaiting
  <2>3. QED BY <1>3, <2>2 DEF WritebackBuffers
<1>8. Conveyor' /\ Flight'
  BY <1>1, <1>3 DEF IInv, Conveyor, Flight, Arriving, IsFree
<1>9. UnitsKept'
  BY <1>1, <1>3 DEF IInv, UnitsKept, UnitKept, IsFree
<1>10. FlightInUnits' /\ IssuedToCapable' /\ RequestsTracked'
  BY <1>1 DEF IInv, FlightInUnits, IssuedToCapable, RequestsTracked, IsFree, Decoded,
              Provides
<1>11. OrderKept'
  BY <1>1, <1>3 DEF IInv, OrderKept
<1>12. LeavesInOrder'
  <2>1. Ids(mTo'["ORDER"]) = {}
    BY <1>3, IdsOfPacket
  <2>2. QED BY <1>1, <1>3, <1>4, <2>1 DEF IInv, LeavesInOrder
<1>13. PastExecute'
  <2>1. Ids(mTo'["ORDER"]) = {}
    BY <1>3, IdsOfPacket
  <2>2. \A n : Past(n)' => Past(n)
    BY <1>1, <1>4, <2>1 DEF Past
  <2>3. QED BY <1>1, <1>3, <2>2 DEF IInv, PastExecute
<1>14. StreamsCounted'
  BY <1>1, <1>3 DEF IInv, StreamsCounted, Opened, Decoded
<1>15. QED BY <1>5, <1>6, <1>7, <1>8, <1>9, <1>10, <1>11, <1>12, <1>13, <1>14 DEF IInv
-----------------------------------------------------------------------------
(* Memory.                                                                 *)

(* The buffers with what Execute has sent, without what is consumed.       *)
TakenIn == [b \in Box \cup {"ORDER"} |-> ResetConsumed(PushPacket(isb[b], eTo[b]))]

(* One entry of ORDER a cycle: its reader is always at the front entry.    *)
LEMMA MemoryTakesIn ==
  ASSUME IInv
  PROVE  /\ \A b \in Box \cup {"ORDER"} :
              /\ TakenIn[b] \in IsbOf(Num) /\ Tally(TakenIn[b])
              /\ TakenIn[b].reserved = 0
              /\ \A n : ContainsExecSeqNum(TakenIn[b], n)
                          => ContainsExecSeqNum(isb[b], n) \/ n \in Ids(eTo[b])
         /\ LET o == TakenIn["ORDER"]
            IN  /\ OneAPacket(o) /\ Ordered(o) /\ o.index = 0
                /\ Waiting(o) = Chained
                /\ \A i \in 1 .. Len(o.queue) : o.queue[i][1] \in Chained
<1>1. ASSUME NEW b \in Box \cup {"ORDER"}
      PROVE  /\ isb[b] \in IsbOf(Num) /\ Tally(isb[b])
             /\ eTo[b] \in Seq(Num) /\ isb[b].reserved = Len(eTo[b])
  BY DEF IInv, TypeOK, MemoryBuffers
<1>2. ASSUME NEW b \in Box \cup {"ORDER"}
      PROVE  /\ TakenIn[b] \in IsbOf(Num) /\ Tally(TakenIn[b])
             /\ TakenIn[b].reserved = 0
             /\ \A n : ContainsExecSeqNum(TakenIn[b], n)
                         => ContainsExecSeqNum(isb[b], n) \/ n \in Ids(eTo[b])
  <2> DEFINE c == PushPacket(isb[b], eTo[b])
  <2>1. /\ c \in IsbOf(Num) /\ Tally(c) /\ c.reserved = 0
        /\ \A n : ContainsExecSeqNum(c, n)
                    => ContainsExecSeqNum(isb[b], n) \/ n \in Ids(eTo[b])
    BY <1>1, PushPacketKeeps
  <2> HIDE DEF c
  <2>2. /\ ResetConsumed(c) \in IsbOf(Num) /\ Tally(ResetConsumed(c))
        /\ ResetConsumed(c).reserved = c.reserved /\ Fewer(ResetConsumed(c), c)
    BY <2>1, ResetConsumedKeeps
  <2>3. TakenIn[b] = ResetConsumed(c)
    BY DEF TakenIn, c
  <2>4. QED BY <2>1, <2>2, <2>3 DEF Fewer
<1>3. LET o == TakenIn["ORDER"]
      IN  OneAPacket(o) /\ Ordered(o) /\ o.index = 0 /\ Waiting(o) = Chained
  <2> DEFINE b == isb["ORDER"]
             p == eTo["ORDER"]
             c == PushPacket(b, p)
             o == ResetConsumed(c)
  <2>1. /\ b \in IsbOf(Num) /\ Tally(b) /\ p \in Seq(Num) /\ b.reserved = Len(p)
        /\ Len(p) <= 1 /\ OneAPacket(b) /\ Ordered(b)
        /\ \A i \in 1 .. Len(b.queue) : \A n \in Ids(p) : b.queue[i][1] < n
        /\ Chained = Waiting(b) \cup Ids(p)
        /\ TakenIn["ORDER"] = o
    BY <1>1 DEF IInv, MemoryBuffers, OrderKept, Chained, TakenIn
  <2> HIDE DEF b, p
  <2>2. /\ c \in IsbOf(Num) /\ Tally(c)
    BY <2>1, PushPacketKeeps
  <2>3. OneAPacket(c) /\ Waiting(c) = Waiting(b) \cup Ids(p) /\ Ordered(c)
    BY <2>1, PushOne
  <2> HIDE DEF c
  <2>4. OneAPacket(o) /\ o.index = 0 /\ Waiting(o) = Waiting(c) /\ Ordered(o)
    BY <2>2, <2>3, ResetOne
  <2> HIDE DEF o
  <2>5. QED BY <2>1, <2>3, <2>4
<1>4. LET o == TakenIn["ORDER"]
      IN  \A i \in 1 .. Len(o.queue) : o.queue[i][1] \in Chained
  <2> DEFINE o == TakenIn["ORDER"]
  <2>1. Waiting(o) = {o.queue[i][1] : i \in {k \in 1 .. Len(o.queue) : k = 1 => o.index = 0}}
    BY <1>2, <1>3, WaitingOne
  <2>2. QED BY <1>3, <2>1
<1>5. QED BY <1>2, <1>3, <1>4

(* Among the boxes that have it at their front, one is the first.          *)
LEMMA FirstBoxIn ==
  ASSUME NEW boxes \in SUBSET Box, boxes # {}
  PROVE  FirstBox(boxes) \in boxes
<1> DEFINE rank == <<"BASE", "TRAP", "MBOX", "FBOX", "MEMORY">>
           First(b) == \E i \in 1 .. 5 : b = rank[i] /\ \A j \in 1 .. i - 1 : rank[j] \notin boxes
<1>1. /\ rank[1] = "BASE" /\ rank[2] = "TRAP" /\ rank[3] = "MBOX" /\ rank[4] = "FBOX"
      /\ rank[5] = "MEMORY"
  OBVIOUS
<1> HIDE DEF rank
<1>2. \E b \in boxes : First(b)
  <2>1. CASE rank[1] \in boxes
    BY <2>1
  <2>2. CASE rank[2] \in boxes /\ rank[1] \notin boxes
    BY <2>2
  <2>3. CASE rank[3] \in boxes /\ rank[1] \notin boxes /\ rank[2] \notin boxes
    BY <2>3
  <2>4. CASE /\ rank[4] \in boxes /\ rank[1] \notin boxes /\ rank[2] \notin boxes
             /\ rank[3] \notin boxes
    BY <2>4
  <2>5. CASE /\ rank[5] \in boxes /\ rank[1] \notin boxes /\ rank[2] \notin boxes
             /\ rank[3] \notin boxes /\ rank[4] \notin boxes
    BY <2>5
  <2>6. QED BY <1>1, <2>1, <2>2, <2>3, <2>4, <2>5 DEF Box
<1>3. FirstBox(boxes) = CHOOSE b \in boxes : First(b)
  BY DEF FirstBox, rank
<1> HIDE DEF First
<1>4. QED BY <1>2, <1>3

(* What Memory does in a cycle: it leaves everything for the next one; or  *)
(* drops the instruction ORDER names, in ORDER and with the packets of its *)
(* holders; or moves it from the first of them to Writeback.               *)
Waits ==
  isb' = TakenIn /\ UNCHANGED <<renameId, memStream, mTo, wb>>

Drops(num) ==
  /\ Stale(num) /\ \E b \in Box : FrontEntry(TakenIn[b]) = num
  /\ LET holders == {b \in Box : FrontEntry(TakenIn[b]) = num}
     IN  DiscardStale(TakenIn, num, holders)

Moves(num, box, to) ==
  /\ ~Stale(num)
  /\ FrontEntry(TakenIn[box]) = num /\ to = Destination(box, num)
  /\ isb' = [b \in Box \cup {"ORDER"} |->
               IF b \in {box, "ORDER"} THEN ConsumeEntry(TakenIn[b]) ELSE TakenIn[b]]
  /\ PushOut(to, num)
  /\ wb' = [wb EXCEPT ![to] = ReserveEntry(@)]
  /\ memStream' = FollowBranch(box, num)
  /\ UNCHANGED renameId

(* Memory's evaluate() waits, drops the instruction ORDER names with the   *)
(* packets it is in, or moves it from one box to COMMON or TRAP.           *)
LEMMA MemoryCases ==
  ASSUME IInv, MemoryEvaluate
  PROVE  \/ Waits
         \/ \E num \in Num : /\ num = FrontEntry(TakenIn["ORDER"])
                             /\ Drops(num) \/ \E box \in Box, to \in {"COMMON", "TRAP"} :
                                                Moves(num, box, to)
<1> DEFINE num == FrontEntry(TakenIn["ORDER"])
           holders == {b \in Box : FrontEntry(TakenIn[b]) = num}
<1>1. DOMAIN isb = Box \cup {"ORDER"} /\ DOMAIN TakenIn = Box \cup {"ORDER"}
  BY DEF IInv, TypeOK, TakenIn
<1>2. TakenIn = [b \in DOMAIN isb |-> ResetConsumed(PushPacket(isb[b], eTo[b]))]
  BY <1>1 DEF TakenIn
<1>3. /\ num = NoInst \/ holders = {} => Waits
      /\ ~(num = NoInst \/ holders = {}) /\ Stale(num) => DiscardStale(TakenIn, num, holders)
      /\ ~(num = NoInst \/ holders = {}) /\ ~Stale(num)
           => Move(TakenIn, num, FirstBox(holders))
  <2> DEFINE in == [b \in DOMAIN isb |-> ResetConsumed(PushPacket(isb[b], eTo[b]))]
             n == FrontEntry(in["ORDER"])
             h == {b \in Box : FrontEntry(in[b]) = n}
  <2>1. IF n = NoInst \/ h = {}
        THEN /\ isb' = in
             /\ UNCHANGED <<renameId, memStream, mTo, wb>>
        ELSE IF Stale(n) THEN DiscardStale(in, n, h) ELSE Move(in, n, FirstBox(h))
    BY DEF MemoryEvaluate
  <2>2. in = TakenIn
    BY <1>2
  <2> HIDE DEF in
  <2>3. n = num /\ h = holders
    BY <2>2
  <2> HIDE DEF n, h
  <2>4. QED BY <2>1, <2>2, <2>3 DEF Waits
<1>4. num # NoInst => num \in Num
  <2>1. TakenIn["ORDER"] \in IsbOf(Num)
    BY MemoryTakesIn
  <2> HIDE DEF TakenIn
  <2>2. QED BY <2>1, FrontEntryIn
<1>5. ASSUME num # NoInst, holders # {}, ~Stale(num), ~Waits
      PROVE  \E box \in Box, to \in {"COMMON", "TRAP"} : Moves(num, box, to)
  <2> DEFINE box == FirstBox(holders)
             to == Destination(box, num)
  <2>1. box \in Box /\ FrontEntry(TakenIn[box]) = num
    BY <1>5, FirstBoxIn
  <2>2. Move(TakenIn, num, box)
    BY <1>3, <1>5
  <2>3. to \in {"COMMON", "TRAP", NoBox}
    BY DEF Destination
  <2> HIDE DEF box, to, num
  <2>4. to # NoBox
    BY <1>5, <2>2 DEF Move, Waits, to
  <2>5. Moves(num, box, to)
    BY <1>1, <1>5, <2>1, <2>2, <2>4 DEF Move, Moves, to
  <2>6. to \in {"COMMON", "TRAP"}
    BY <2>3, <2>4
  <2>7. QED BY <2>1, <2>5, <2>6
<1>6. ~(num = NoInst \/ holders = {}) /\ Stale(num) => Drops(num)
  <2>1. holders # {} => \E b \in Box : FrontEntry(TakenIn[b]) = num
    OBVIOUS
  <2>2. QED BY <1>3, <2>1 DEF Drops
<1>7. QED BY <1>3, <1>4, <1>5, <1>6

(* Whichever it does, buffers only lose entries, ORDER from its front, and *)
(* what moves precedes what ORDER keeps.                                   *)
LEMMA MemoryEffect ==
  ASSUME IInv, MemoryEvaluate
  PROVE  /\ isb' \in [Box \cup {"ORDER"} -> IsbOf(Num)]
         /\ \A b \in Box \cup {"ORDER"} :
              Tally(isb'[b]) /\ isb'[b].reserved = 0 /\ Fewer(isb'[b], TakenIn[b])
         /\ isb'["ORDER"].queue = TakenIn["ORDER"].queue
         /\ OneAPacket(isb'["ORDER"]) /\ Ordered(isb'["ORDER"])
         /\ Waiting(isb'["ORDER"]) \subseteq Chained
         /\ renameId' \in [Reg -> {0} \cup Num] /\ memStream' \in Stream
         /\ \/ UNCHANGED <<mTo, wb>>
            \/ \E n \in Num, to \in {"COMMON", "TRAP"}, box \in Box :
                 /\ PushOut(to, n) /\ wb' = [wb EXCEPT ![to] = ReserveEntry(@)]
                 /\ n \in Chained /\ \A m \in Waiting(isb'["ORDER"]) : n < m
                 /\ ContainsExecSeqNum(TakenIn[box], n)
<1> DEFINE BO == Box \cup {"ORDER"}
           o == TakenIn["ORDER"]
           num == FrontEntry(o)
<1>1. /\ \A b \in BO : /\ TakenIn[b] \in IsbOf(Num) /\ Tally(TakenIn[b])
                       /\ TakenIn[b].reserved = 0
      /\ OneAPacket(o) /\ Ordered(o) /\ o.index = 0 /\ Waiting(o) = Chained
  BY MemoryTakesIn
<1>2. /\ TypeOK /\ MaxInst \in Nat /\ DOMAIN TakenIn = BO
      /\ renameId \in [Reg -> {0} \cup Num] /\ memStream \in Stream
  BY Pool DEF IInv, TypeOK, TakenIn
<1>3. \A b, c : c = b => Fewer(c, b)
  BY DEF Fewer
<1>4. ASSUME num # NoInst, NEW k \in Nat
      PROVE  LET c == [o EXCEPT !.index = k]
             IN  /\ c \in IsbOf(Num) /\ Tally(c) /\ c.reserved = 0 /\ Fewer(c, o)
                 /\ c.queue = o.queue /\ OneAPacket(c) /\ Ordered(c)
                 /\ Waiting(c) \subseteq Chained /\ num \in Chained
                 /\ k > 0 => \A n \in Waiting(c) : num < n
  <2>1. /\ o \in IsbOf(Num) /\ Tally(o) /\ o.reserved = 0
        /\ OneAPacket(o) /\ Ordered(o) /\ o.index = 0 /\ Waiting(o) = Chained
    BY <1>1
  <2> HIDE DEF o
  <2> DEFINE c == [o EXCEPT !.index = k]
  <2>2. /\ c \in IsbOf(Num) /\ Tally(c) /\ Fewer(c, o)
        /\ c.reserved = o.reserved /\ c.queue = o.queue
    BY <2>1, IndexKeeps
  <2>3. /\ OneAPacket(c) /\ Ordered(c)
        /\ Waiting(c) \subseteq Waiting(o) /\ num \in Waiting(o)
        /\ k > 0 => \A n \in Waiting(c) : num < n
    BY <1>2, <1>4, <2>1, TakeOne
  <2>4. QED BY <2>1, <2>2, <2>3
<1> HIDE DEF o
<1>5. CASE Waits
  <2>1. isb' = TakenIn /\ UNCHANGED <<renameId, memStream, mTo, wb>>
    BY <1>5 DEF Waits
  <2>2. isb' \in [BO -> IsbOf(Num)] /\ isb'["ORDER"] = o
    BY <1>1, <2>1 DEF TakenIn, o
  <2> HIDE DEF BO
  <2>3. \A b \in BO : Fewer(isb'[b], TakenIn[b])
    BY <1>3, <2>1
  <2>4. \A b \in BO : Tally(isb'[b]) /\ isb'[b].reserved = 0
    BY <1>1, <2>1
  <2>5. QED BY <1>1, <1>2, <2>1, <2>2, <2>3, <2>4 DEF o, BO
<1>6. CASE num \in Num /\ Drops(num)
  <2> DEFINE holders == {b \in Box : FrontEntry(TakenIn[b]) = num}
             k == Cardinality(holders)
  <2>1. /\ isb' = [b \in BO |->
                     CASE b \in holders -> PopPacket(TakenIn[b])
                       [] b = "ORDER" -> [TakenIn[b] EXCEPT !.index = @ + k]
                       [] OTHER -> TakenIn[b]]
        /\ renameId' = ClearInstDests(num)
        /\ UNCHANGED <<memStream, mTo, wb>>
    BY <1>2, <1>6 DEF Drops, DiscardStale
  <2>2. k \in Nat
    <3>1. IsFiniteSet({"BASE"}) /\ IsFiniteSet({"TRAP"}) /\ IsFiniteSet({"MBOX"})
          /\ IsFiniteSet({"FBOX"}) /\ IsFiniteSet({"MEMORY"})
      BY FS_Singleton
    <3>2. Box = {"BASE"} \cup {"TRAP"} \cup {"MBOX"} \cup {"FBOX"} \cup {"MEMORY"}
      BY DEF Box
    <3>3. IsFiniteSet(Box)
      BY <3>1, <3>2, FS_Union
    <3>4. holders \in SUBSET Box
      OBVIOUS
    <3>5. QED BY <3>3, <3>4, FS_Subset, FS_CardinalityType
  <2> HIDE DEF k
  <2>3. "ORDER" \notin holders /\ "ORDER" \in BO /\ num # NoInst /\ 0 + k = k
    BY <1>6, <1>2, <2>2 DEF Box, Num, NoInst
  <2> DEFINE c == [o EXCEPT !.index = k]
  <2>4. isb'["ORDER"] = c
    <3>1. isb'["ORDER"] = [o EXCEPT !.index = @ + k]
      BY <2>1, <2>3 DEF o
    <3>2. [o EXCEPT !.index = @ + k] = [o EXCEPT !.index = 0 + k]
      BY <1>1
    <3>3. QED BY <2>2, <3>1, <3>2
  <2>5. /\ c \in IsbOf(Num) /\ Tally(c) /\ c.reserved = 0 /\ Fewer(c, o)
        /\ c.queue = o.queue /\ OneAPacket(c) /\ Ordered(c)
        /\ Waiting(c) \subseteq Chained
    BY <1>4, <2>2, <2>3
  <2> HIDE DEF c
  <2>6. ASSUME NEW b \in Box
        PROVE  /\ isb'[b] \in IsbOf(Num) /\ Tally(isb'[b]) /\ isb'[b].reserved = 0
               /\ Fewer(isb'[b], TakenIn[b])
    <3>1. b # "ORDER" /\ b \in BO
      BY DEF Box
    <3>2. isb'[b] = PopPacket(TakenIn[b]) \/ isb'[b] = TakenIn[b]
      BY <2>1, <3>1
    <3>3. /\ TakenIn[b] \in IsbOf(Num) /\ Tally(TakenIn[b]) /\ TakenIn[b].reserved = 0
      BY <1>1
    <3> HIDE DEF TakenIn
    <3>4. /\ PopPacket(TakenIn[b]) \in IsbOf(Num) /\ Tally(PopPacket(TakenIn[b]))
          /\ PopPacket(TakenIn[b]).reserved = 0 /\ Fewer(PopPacket(TakenIn[b]), TakenIn[b])
      BY <3>3, PopPacketKeeps
    <3>5. QED BY <1>3, <3>2, <3>3, <3>4
  <2>7. \A b \in BO : b \in Box \/ b = "ORDER"
    OBVIOUS
  <2>8. DOMAIN isb' = BO /\ isb' = [b \in BO |-> isb'[b]]
    BY <2>1
  <2>9. isb' \in [BO -> IsbOf(Num)]
    <3> HIDE DEF BO
    <3>1. \A b \in BO : isb'[b] \in IsbOf(Num)
      BY <2>4, <2>5, <2>6, <2>7
    <3>2. QED BY <2>8, <3>1
  <2>10. \A b \in BO : Tally(isb'[b]) /\ isb'[b].reserved = 0 /\ Fewer(isb'[b], TakenIn[b])
    BY <2>4, <2>5, <2>6, <2>7 DEF o
  <2>11. renameId' \in [Reg -> {0} \cup Num]
    BY <1>2, <2>1 DEF ClearInstDests, ClearScoreBoard, NoWriter
  <2>12. QED BY <1>2, <2>1, <2>4, <2>5, <2>9, <2>10, <2>11 DEF o
<1>7. ASSUME NEW box \in Box, NEW to \in {"COMMON", "TRAP"}, num \in Num,
             Moves(num, box, to)
      PROVE  /\ isb' \in [BO -> IsbOf(Num)]
             /\ \A b \in BO :
                  Tally(isb'[b]) /\ isb'[b].reserved = 0 /\ Fewer(isb'[b], TakenIn[b])
             /\ isb'["ORDER"].queue = o.queue
             /\ OneAPacket(isb'["ORDER"]) /\ Ordered(isb'["ORDER"])
             /\ Waiting(isb'["ORDER"]) \subseteq Chained
             /\ renameId' \in [Reg -> {0} \cup Num] /\ memStream' \in Stream
             /\ PushOut(to, num) /\ wb' = [wb EXCEPT ![to] = ReserveEntry(@)]
             /\ num \in Chained /\ \A m \in Waiting(isb'["ORDER"]) : num < m
             /\ ContainsExecSeqNum(TakenIn[box], num)
  <2>1. /\ isb' = [b \in BO |-> IF b \in {box, "ORDER"} THEN ConsumeEntry(TakenIn[b])
                                ELSE TakenIn[b]]
        /\ PushOut(to, num) /\ wb' = [wb EXCEPT ![to] = ReserveEntry(@)]
        /\ memStream' = FollowBranch(box, num) /\ UNCHANGED renameId
        /\ FrontEntry(TakenIn[box]) = num
    BY <1>7 DEF Moves
  <2>2. num # NoInst /\ "ORDER" \in BO
    BY <1>2, <1>7 DEF Num, NoInst
  <2> DEFINE c == [o EXCEPT !.index = 1]
  <2>3. isb'["ORDER"] = c
    <3>1. isb'["ORDER"] = [o EXCEPT !.index = @ + 1]
      BY <2>1, <2>2 DEF o, ConsumeEntry
    <3>2. [o EXCEPT !.index = @ + 1] = [o EXCEPT !.index = 0 + 1]
      BY <1>1
    <3>3. QED BY <3>1, <3>2
  <2>4. /\ c \in IsbOf(Num) /\ Tally(c) /\ c.reserved = 0 /\ Fewer(c, o)
        /\ c.queue = o.queue /\ OneAPacket(c) /\ Ordered(c)
        /\ Waiting(c) \subseteq Chained /\ num \in Chained
        /\ \A n \in Waiting(c) : num < n
    <3>1. 1 \in Nat /\ 1 > 0
      OBVIOUS
    <3>2. QED BY <1>4, <2>2, <3>1
  <2> HIDE DEF c
  <2>5. ASSUME NEW b \in Box
        PROVE  /\ isb'[b] \in IsbOf(Num) /\ Tally(isb'[b]) /\ isb'[b].reserved = 0
               /\ Fewer(isb'[b], TakenIn[b])
    <3>1. isb'[b] = ConsumeEntry(TakenIn[b]) \/ isb'[b] = TakenIn[b]
      BY <2>1
    <3>2. /\ TakenIn[b] \in IsbOf(Num) /\ Tally(TakenIn[b]) /\ TakenIn[b].reserved = 0
      BY <1>1
    <3> HIDE DEF TakenIn
    <3>3. TakenIn[b].index + 1 \in Nat
      BY <3>2, IsbFields
    <3> DEFINE d == [TakenIn[b] EXCEPT !.index = TakenIn[b].index + 1]
    <3>4. /\ d \in IsbOf(Num) /\ Tally(d) /\ d.reserved = 0 /\ Fewer(d, TakenIn[b])
      BY <3>2, <3>3, IndexKeeps
    <3>5. ConsumeEntry(TakenIn[b]) = d
      BY DEF ConsumeEntry
    <3>6. QED BY <1>3, <3>1, <3>2, <3>4, <3>5
  <2>6. \A b \in BO : b \in Box \/ b = "ORDER"
    OBVIOUS
  <2>7. isb' = [b \in BO |-> isb'[b]]
    BY <2>1
  <2>8. isb' \in [BO -> IsbOf(Num)]
    <3> HIDE DEF BO
    <3>1. \A b \in BO : isb'[b] \in IsbOf(Num)
      BY <2>3, <2>4, <2>5, <2>6
    <3>2. QED BY <2>7, <3>1
  <2>9. \A b \in BO : Tally(isb'[b]) /\ isb'[b].reserved = 0 /\ Fewer(isb'[b], TakenIn[b])
    BY <2>3, <2>4, <2>5, <2>6 DEF o
  <2>10. memStream' \in Stream
    <3>1. num \in Decoded
      <4>1. Chained \subseteq Decoded
        BY ChainedNamed DEF IInv
      <4>2. QED BY <2>4, <4>1
    <3>2. insts[num].stream \in Stream /\ insts[num].stream <= num
      BY <1>2, <3>1, Named DEF IInv, StreamsCounted, DynInst
    <3>3. insts[num].stream + 1 \in Stream
      BY <1>2, <1>7, <3>2 DEF Stream, FirstStream, Num
    <3>4. QED BY <1>2, <2>1, <3>3 DEF FollowBranch
  <2>11. ContainsExecSeqNum(TakenIn[box], num)
    <3>1. TakenIn[box] \in IsbOf(Num)
      BY <1>1
    <3>2. QED BY <2>1, <2>2, <3>1, FrontEntryIn
  <2>12. QED BY <1>2, <2>1, <2>3, <2>4, <2>8, <2>9, <2>10, <2>11
<1>8. QED BY <1>5, <1>6, <1>7, MemoryCases DEF o

(* A cycle of Memory keeps the invariant.                                  *)
LEMMA MemoryKeeps ==
  ASSUME IInv, MemoryEvaluate
  PROVE  IInv'
<1> DEFINE B == {"COMMON", "TRAP", "ORDER"}
           BO == Box \cup {"ORDER"}
<1>1. /\ phase = "memory" /\ phase' = "execute"
      /\ eTo' = NoPackets(BO)
      /\ UNCHANGED <<insts, supply, branch, dToE, executeIn, execute, units,
                     dcache, regs, retired>>
  BY DEF MemoryEvaluate
<1>2. /\ isb' \in [BO -> IsbOf(Num)]
      /\ \A b \in BO :
           Tally(isb'[b]) /\ isb'[b].reserved = 0 /\ Fewer(isb'[b], TakenIn[b])
      /\ isb'["ORDER"].queue = TakenIn["ORDER"].queue
      /\ OneAPacket(isb'["ORDER"]) /\ Ordered(isb'["ORDER"])
      /\ Waiting(isb'["ORDER"]) \subseteq Chained
      /\ renameId' \in [Reg -> {0} \cup Num] /\ memStream' \in Stream
      /\ \/ UNCHANGED <<mTo, wb>>
         \/ \E n \in Num, to \in {"COMMON", "TRAP"}, box \in Box :
              /\ PushOut(to, n) /\ wb' = [wb EXCEPT ![to] = ReserveEntry(@)]
              /\ n \in Chained /\ \A m \in Waiting(isb'["ORDER"]) : n < m
              /\ ContainsExecSeqNum(TakenIn[box], n)
  BY MemoryEffect
<1>3. /\ TypeOK /\ ToIssue' = ToIssue
      /\ \A b \in BO : eTo'[b] = <<>>
      /\ \A b \in BO : Ids(eTo'[b]) = {}
      /\ Len(<<>>) = 0
  BY <1>1, IdsOfPacket DEF IInv, ToIssue, Arriving, NoPackets
<1>4. Chained' = Waiting(isb'["ORDER"]) /\ Chained' \subseteq Chained
  BY <1>2, <1>3 DEF Chained
<1>5. /\ \A b \in B : mTo[b] = <<>> /\ wb[b] = Awaiting(0)
      /\ mTo \in [B -> Seq(Num)] /\ wb \in [B -> IsbOf(Num)]
  BY <1>1, <1>3 DEF IInv, WritebackBuffers, Awaiting, TypeOK
<1>6. \/ UNCHANGED <<mTo, wb>> /\ \A b \in B : mTo'[b] = <<>>
      \/ \E n \in Num, to \in {"COMMON", "TRAP"} :
           /\ mTo' = [b \in B |-> IF b \in {to, "ORDER"} THEN <<n>> ELSE <<>>]
           /\ wb' = [b \in B |-> Awaiting(IF b = to THEN 1 ELSE 0)]
           /\ n \in Chained /\ \A m \in Chained' : n < m
           /\ \E box \in Box : ContainsExecSeqNum(TakenIn[box], n)
  <2>1. CASE UNCHANGED <<mTo, wb>>
    BY <1>5, <2>1
  <2>2. ASSUME NEW n \in Num, NEW to \in {"COMMON", "TRAP"}, NEW box \in Box,
               PushOut(to, n), wb' = [wb EXCEPT ![to] = ReserveEntry(@)],
               n \in Chained, \A m \in Waiting(isb'["ORDER"]) : n < m,
               ContainsExecSeqNum(TakenIn[box], n)
        PROVE  /\ mTo' = [b \in B |-> IF b \in {to, "ORDER"} THEN <<n>> ELSE <<>>]
               /\ wb' = [b \in B |-> Awaiting(IF b = to THEN 1 ELSE 0)]
    <3>1. mTo' = [b \in B |-> IF b \in {to, "ORDER"} THEN <<n>> ELSE <<>>]
      BY <1>5, <2>2 DEF PushOut
    <3>2. ReserveEntry(Awaiting(0)) = Awaiting(1)
      BY DEF ReserveEntry, Awaiting
    <3>3. wb' = [b \in B |-> Awaiting(IF b = to THEN 1 ELSE 0)]
      BY <1>5, <2>2, <3>2
    <3>4. QED BY <3>1, <3>3
  <2>3. QED BY <1>2, <1>4, <2>1, <2>2
<1>7. TypeOK'
  <2>1. eTo' \in [BO -> Seq(Num)]
    BY <1>1 DEF NoPackets
  <2>2. mTo' \in [B -> Seq(Num)]
    <3>1. <<>> \in Seq(Num) /\ \A n \in Num : <<n>> \in Seq(Num)
      OBVIOUS
    <3>2. CASE UNCHANGED <<mTo, wb>>
      BY <1>5, <3>2
    <3>3. ASSUME NEW n \in Num, NEW to \in {"COMMON", "TRAP"},
                 mTo' = [b \in B |-> IF b \in {to, "ORDER"} THEN <<n>> ELSE <<>>]
          PROVE  mTo' \in [B -> Seq(Num)]
      <4>1. \A b \in B : (IF b \in {to, "ORDER"} THEN <<n>> ELSE <<>>) \in Seq(Num)
        BY <3>1
      <4> HIDE DEF B
      <4>2. QED BY <3>3, <4>1
    <3>4. QED BY <1>6, <3>2, <3>3
  <2>3. wb' \in [B -> IsbOf(Num)]
    BY <1>5, <1>6, NothingPasses
  <2>4. QED BY <1>1, <1>2, <1>3, <2>1, <2>2, <2>3 DEF TypeOK
<1>8. MemoryBuffers'
  BY <1>2, <1>3 DEF MemoryBuffers
<1>9. WritebackBuffers'
  <2>1. CASE UNCHANGED <<mTo, wb>> /\ \A b \in B : mTo'[b] = <<>>
    BY <1>5, <2>1, <1>3 DEF WritebackBuffers, Awaiting
  <2>2. ASSUME NEW n \in Num, NEW to \in {"COMMON", "TRAP"},
               mTo' = [b \in B |-> IF b \in {to, "ORDER"} THEN <<n>> ELSE <<>>],
               wb' = [b \in B |-> Awaiting(IF b = to THEN 1 ELSE 0)]
        PROVE  WritebackBuffers'
    <3>1. Len(<<n>>) = 1
      OBVIOUS
    <3>2. \A b \in B : wb'[b] = [queue |-> <<>>, occupied |-> 0, index |-> 0,
                              reserved |-> IF b = "ORDER" THEN 0 ELSE Len(mTo'[b])]
      <4>1. \A b \in B : (IF b = to THEN 1 ELSE 0) = (IF b = "ORDER" THEN 0 ELSE Len(mTo'[b]))
        BY <1>3, <2>2, <3>1
      <4>2. QED BY <2>2, <4>1 DEF Awaiting
    <3>3. QED BY <1>1, <2>2, <3>2 DEF WritebackBuffers
  <2>3. QED BY <1>6, <2>1, <2>2
<1>10. Conveyor' /\ Flight'
  BY <1>1, <1>3 DEF IInv, Conveyor, Flight, Arriving, IsFree
<1>11. UnitsKept'
  BY <1>1, <1>3 DEF IInv, UnitsKept, UnitKept, IsFree
<1>12. FlightInUnits' /\ IssuedToCapable' /\ RequestsTracked'
  BY <1>1 DEF IInv, FlightInUnits, IssuedToCapable, RequestsTracked, IsFree, Decoded,
              Provides
<1>13. Chained \subseteq Decoded /\ \A n \in Chained, m \in ToIssue : n < m
  BY ChainedNamed, ChainedOlder DEF IInv
<1>14. OrderKept'
  <2> DEFINE q == TakenIn["ORDER"].queue
  <2>0. isb'["ORDER"].queue = q /\ \A i \in 1 .. Len(q) : q[i][1] \in Chained
    BY <1>2, MemoryTakesIn
  <2> HIDE DEF q
  <2>1. \A i \in 1 .. Len(isb'["ORDER"].queue) : isb'["ORDER"].queue[i][1] \in Chained
    BY <2>0
  <2>2. Ids(eTo'["ORDER"]) = {} /\ insts' = insts /\ ToIssue' = ToIssue
    BY <1>1, <1>3
  <2>3. \A n \in Chained : n <= Len(insts) /\ \A m \in ToIssue : n < m
    BY <1>13 DEF Decoded
  <2>4. QED BY <1>2, <2>1, <2>2, <2>3 DEF OrderKept
<1>15. LeavesInOrder'
  <2>1. Increasing(retired') /\ retired' = retired
    BY <1>1 DEF IInv, LeavesInOrder
  <2>2. \A n \in Ids(retired) : n <= Len(insts) /\ \A m \in Chained \cup ToIssue : n < m
    BY DEF IInv, LeavesInOrder
  <2>3. \A n \in Ids(mTo'["ORDER"]) : n \in Chained /\ \A m \in Chained' : n < m
    <3>1. CASE mTo'["ORDER"] = <<>>
      BY <3>1, IdsOfPacket
    <3>2. ASSUME NEW n, mTo'["ORDER"] = <<n>>, n \in Chained, \A m \in Chained' : n < m
          PROVE  \A k \in Ids(mTo'["ORDER"]) : k \in Chained /\ \A m \in Chained' : k < m
      BY <3>2, IdsOfPacket
    <3>3. \/ mTo'["ORDER"] = <<>>
          \/ \E n \in Num : /\ mTo'["ORDER"] = <<n>>
                            /\ n \in Chained /\ \A m \in Chained' : n < m
      BY <1>6
    <3>4. QED BY <3>1, <3>2, <3>3
  <2>4. \A n \in Chained : n <= Len(insts) /\ \A m \in ToIssue : n < m
    BY <1>13 DEF Decoded
  <2>5. insts' = insts /\ ToIssue' = ToIssue /\ Chained' \subseteq Chained
    BY <1>1, <1>3, <1>4
  <2>6. QED BY <2>1, <2>2, <2>3, <2>4, <2>5 DEF LeavesInOrder
<1>16. PastExecute'
  <2>1. \A n : \A b \in Box : ContainsExecSeqNum(TakenIn[b], n) => Past(n)
    BY MemoryTakesIn DEF Past
  <2>2. \A n \in Ids(mTo'["ORDER"]) : \E box \in Box : ContainsExecSeqNum(TakenIn[box], n)
    <3>1. \/ mTo'["ORDER"] = <<>>
          \/ \E n \in Num : /\ mTo'["ORDER"] = <<n>>
                            /\ \E box \in Box : ContainsExecSeqNum(TakenIn[box], n)
      BY <1>6
    <3>2. QED BY <3>1, IdsOfPacket
  <2>3. \A n : Past(n)' => Past(n)
    BY <1>1, <1>2, <1>3, <2>1, <2>2 DEF Past, Fewer
  <2>4. QED BY <1>1, <1>3, <2>3 DEF IInv, PastExecute
<1>17. StreamsCounted'
  BY <1>1, <1>4 DEF IInv, StreamsCounted, Opened, Decoded
<1>18. QED BY <1>7, <1>8, <1>9, <1>10, <1>11, <1>12, <1>14, <1>15, <1>16, <1>17 DEF IInv
-----------------------------------------------------------------------------
(* The callbacks.                                                          *)

(* A write to the fields of one instruction leaves the others alone.       *)
LEMMA OneInstChanges ==
  ASSUME TypeOK, NEW n \in Decoded, NEW d \in DynInst, insts' = [insts EXCEPT ![n] = d]
  PROVE  /\ insts' \in Seq(DynInst) /\ Len(insts') = Len(insts) /\ Decoded' = Decoded
         /\ insts'[n] = d /\ \A m \in Decoded : m # n => insts'[m] = insts[m]
<1>1. insts \in Seq(DynInst) /\ n \in 1 .. Len(insts)
  BY DEF TypeOK, Decoded
<1> HIDE DEF DynInst
<1>2. /\ insts' \in Seq(DynInst) /\ Len(insts') = Len(insts)
      /\ \A m \in 1 .. Len(insts) : insts'[m] = IF m = n THEN d ELSE insts[m]
  BY <1>1, ExceptSeq
<1>3. QED BY <1>1, <1>2 DEF Decoded

(* The answer to a request changes its state, and what is owed for it.     *)
Answered(n, d) ==
  /\ n \in Decoded /\ d \in DynInst
  /\ insts[n].req \in {"InTranslation", "SentToCache", "WaitingRetry"}
  /\ insts' = [insts EXCEPT ![n] = d]
  /\ d = [insts[n] EXCEPT !.req = d.req]
  /\ d.req \in Sent \/ /\ insts[n].req = "InTranslation"
                       /\ d.req \in {"WaitingRetry", "Failed"}
  /\ d.req = "Error" => "response" \in Faults
  /\ dcache' \in [dtlb : SUBSET Num, cache : SUBSET Num,
                  retryRequest : {0} \cup Num, owesRetry : BOOLEAN]
  /\ dcache'.dtlb \subseteq dcache.dtlb \ {n}
  /\ dcache'.cache \subseteq dcache.cache \cup {n}
  /\ n \in dcache'.cache => d.req = "SentToCache"
  /\ dcache'.owesRetry <=> dcache'.retryRequest # 0
  /\ dcache'.owesRetry => \/ dcache'.retryRequest = n /\ d.req = "WaitingRetry"
                          \/ /\ dcache.owesRetry /\ dcache.retryRequest # n
                             /\ dcache'.retryRequest = dcache.retryRequest

(* What the DTLB, the cache and the retry hold stays a set of requests.    *)
LEMMA TrackIn ==
  ASSUME TypeOK, NEW n \in Num, NEW state
  PROVE  Track(n, state) \in [dtlb : SUBSET Num, cache : SUBSET Num,
                              retryRequest : {0} \cup Num, owesRetry : BOOLEAN]
BY DEF TypeOK, Track

(* The DTLB, the cache and the retry answer a request that is known.       *)
LEMMA CallbackCases ==
  ASSUME IInv, \/ \E n \in Num : FinishMemTranslation(n) \/ RecvTimingResp(n)
               \/ \E accept \in BOOLEAN : RecvReqRetry(accept)
  PROVE  /\ phase = "writeback" /\ phase' \in {"writeback", "crashed"}
         /\ UNCHANGED <<supply, branch, dToE, executeIn, execute, units, renameId,
                        eTo, isb, memStream, mTo, wb, regs, retired>>
         /\ \/ UNCHANGED <<insts, dcache>>
            \/ \E n : /\ UNCHANGED insts
                      /\ dcache' = [dcache EXCEPT !.cache = @ \ {n}]
            \/ \E n, d : Answered(n, d)
<1>1. /\ TypeOK /\ Decoded \subseteq Num /\ \A n \in Decoded : insts[n] \in DynInst
      /\ Len(insts) \in Nat /\ Num \subseteq Nat \ {0}
      /\ dcache \in [dtlb : SUBSET Num, cache : SUBSET Num,
                     retryRequest : {0} \cup Num, owesRetry : BOOLEAN]
  BY Named DEF IInv, TypeOK
<1>2. RequestsTracked
  BY DEF IInv
<1>3. ASSUME NEW n \in Decoded, NEW state \in RequestState,
             insts' = [insts EXCEPT ![n].req = state]
      PROVE  LET d == [insts[n] EXCEPT !.req = state]
             IN  /\ d \in DynInst /\ insts' = [insts EXCEPT ![n] = d]
                 /\ d.req = state /\ d = [insts[n] EXCEPT !.req = d.req]
  BY <1>1, <1>3 DEF DynInst
<1>4. ASSUME NEW n \in Num, FinishMemTranslation(n)
      PROVE  \E m, d : Answered(m, d)
  <2>1. PICK state \in Translated : /\ insts' = [insts EXCEPT ![n].req = state]
                                    /\ dcache' = Track(n, state)
    BY <1>4 DEF FinishMemTranslation, Callback
  <2>2. n \in Decoded /\ insts[n].req = "InTranslation"
    BY <1>1, <1>2, <1>4 DEF FinishMemTranslation, RequestsTracked, Decoded, Num
  <2>3. state \in {"SentToCache", "WaitingRetry", "Failed"} /\ state \in RequestState
    BY DEF Translated, SendTimingMemReq, RequestState
  <2> DEFINE d == [insts[n] EXCEPT !.req = state]
  <2>4. /\ d \in DynInst /\ insts' = [insts EXCEPT ![n] = d]
        /\ d.req = state /\ d = [insts[n] EXCEPT !.req = d.req]
    BY <1>3, <2>1, <2>2, <2>3
  <2> HIDE DEF d
  <2>5. dcache' \in [dtlb : SUBSET Num, cache : SUBSET Num,
                     retryRequest : {0} \cup Num, owesRetry : BOOLEAN]
    BY <1>1, <2>1, TrackIn
  <2>6. /\ dcache'.dtlb \subseteq dcache.dtlb \ {n}
        /\ dcache'.cache \subseteq dcache.cache \cup {n}
        /\ n \in dcache'.cache => d.req = "SentToCache"
        /\ dcache'.owesRetry <=> dcache'.retryRequest # 0
        /\ dcache'.owesRetry => \/ dcache'.retryRequest = n /\ d.req = "WaitingRetry"
                                \/ /\ dcache.owesRetry /\ dcache.retryRequest # n
                                   /\ dcache'.retryRequest = dcache.retryRequest
    BY <1>1, <1>2, <2>1, <2>2, <2>3, <2>4 DEF Track, RequestsTracked
  <2>7. QED BY <2>2, <2>3, <2>4, <2>5, <2>6 DEF Answered, Sent
<1>5. ASSUME NEW n \in Num, RecvTimingResp(n), ~Freed(n)
      PROVE  \E m, d : Answered(m, d)
  <2>1. PICK state \in {"Complete", "Error"} : /\ insts' = [insts EXCEPT ![n].req = state]
                                               /\ dcache' = Track(n, state)
                                               /\ state = "Error" => "response" \in Faults
    BY <1>5 DEF RecvTimingResp, Callback
  <2>2. n \in Decoded /\ insts[n].req = "SentToCache"
    BY <1>1, <1>2, <1>5 DEF RecvTimingResp, RequestsTracked, Decoded, Num
  <2>3. state \in RequestState
    BY DEF RequestState
  <2> DEFINE d == [insts[n] EXCEPT !.req = state]
  <2>4. /\ d \in DynInst /\ insts' = [insts EXCEPT ![n] = d]
        /\ d.req = state /\ d = [insts[n] EXCEPT !.req = d.req]
    BY <1>3, <2>1, <2>2, <2>3
  <2> HIDE DEF d
  <2>5. dcache' \in [dtlb : SUBSET Num, cache : SUBSET Num,
                     retryRequest : {0} \cup Num, owesRetry : BOOLEAN]
    BY <1>1, <2>1, TrackIn
  <2>6. /\ dcache'.dtlb \subseteq dcache.dtlb \ {n}
        /\ dcache'.cache \subseteq dcache.cache \cup {n}
        /\ n \in dcache'.cache => d.req = "SentToCache"
        /\ dcache'.owesRetry <=> dcache'.retryRequest # 0
        /\ dcache'.owesRetry => \/ dcache'.retryRequest = n /\ d.req = "WaitingRetry"
                                \/ /\ dcache.owesRetry /\ dcache.retryRequest # n
                                   /\ dcache'.retryRequest = dcache.retryRequest
    BY <1>1, <1>2, <2>1, <2>2, <2>4 DEF Track, RequestsTracked
  <2>7. QED BY <2>1, <2>2, <2>4, <2>5, <2>6 DEF Answered, Sent
<1>6. ASSUME NEW accept \in BOOLEAN, RecvReqRetry(accept)
      PROVE  UNCHANGED <<insts, dcache>> \/ \E m, d : Answered(m, d)
  <2> DEFINE n == dcache.retryRequest
  <2> SUFFICES ASSUME accept PROVE \E m, d : Answered(m, d)
    BY <1>6 DEF RecvReqRetry
  <2>1. /\ insts' = [insts EXCEPT ![n].req = "SentToCache"]
        /\ dcache' = [Track(n, "SentToCache") EXCEPT !.retryRequest = 0, !.owesRetry = FALSE]
        /\ dcache.owesRetry
    BY <1>6 DEF RecvReqRetry
  <2>2. n \in Decoded /\ insts[n].req = "WaitingRetry"
    BY <1>1, <1>2, <2>1 DEF RequestsTracked, Decoded, Num
  <2>3. "SentToCache" \in RequestState
    BY DEF RequestState
  <2> DEFINE d == [insts[n] EXCEPT !.req = "SentToCache"]
  <2>4. /\ d \in DynInst /\ insts' = [insts EXCEPT ![n] = d]
        /\ d.req = "SentToCache" /\ d = [insts[n] EXCEPT !.req = d.req]
    BY <1>3, <2>1, <2>2, <2>3
  <2> HIDE DEF d
  <2>5. n \in Num /\ n \notin dcache.dtlb
    BY <1>1, <1>2, <2>2 DEF RequestsTracked
  <2>6. dcache' = [dtlb |-> dcache.dtlb \ {n}, cache |-> dcache.cache \cup {n},
                   retryRequest |-> 0, owesRetry |-> FALSE]
    BY <2>1 DEF Track
  <2> HIDE DEF n
  <2>7. /\ dcache' \in [dtlb : SUBSET Num, cache : SUBSET Num,
                        retryRequest : {0} \cup Num, owesRetry : BOOLEAN]
        /\ dcache'.dtlb \subseteq dcache.dtlb \ {n}
        /\ dcache'.cache \subseteq dcache.cache \cup {n}
        /\ ~dcache'.owesRetry /\ dcache'.retryRequest = 0
    BY <1>1, <2>5, <2>6
  <2>8. Answered(n, d)
    BY <2>2, <2>4, <2>7 DEF Answered, Sent
  <2>9. QED BY <2>8
<1>7. ASSUME NEW n \in Num, RecvTimingResp(n), Freed(n)
      PROVE  UNCHANGED insts /\ dcache' = [dcache EXCEPT !.cache = @ \ {n}]
  BY <1>7 DEF RecvTimingResp
<1>8. /\ phase = "writeback" /\ phase' \in {"writeback", "crashed"}
      /\ UNCHANGED <<supply, branch, dToE, executeIn, execute, units, renameId,
                     eTo, isb, memStream, mTo, wb, regs, retired>>
  BY DEF FinishMemTranslation, RecvTimingResp, RecvReqRetry, Callback
<1>9. QED BY <1>4, <1>5, <1>6, <1>7, <1>8

(* An answer, whichever it is, keeps the invariant.                        *)
LEMMA CallbackKeeps ==
  ASSUME IInv, \/ \E n \in Num : FinishMemTranslation(n) \/ RecvTimingResp(n)
               \/ \E accept \in BOOLEAN : RecvReqRetry(accept)
  PROVE  IInv'
<1>1. /\ phase = "writeback" /\ phase' \in {"writeback", "crashed"}
      /\ UNCHANGED <<supply, branch, dToE, executeIn, execute, units, renameId,
                     eTo, isb, memStream, mTo, wb, regs, retired>>
      /\ \/ UNCHANGED <<insts, dcache>>
         \/ \E n : /\ UNCHANGED insts
                   /\ dcache' = [dcache EXCEPT !.cache = @ \ {n}]
         \/ \E n, d : Answered(n, d)
  BY CallbackCases
<1>2. /\ TypeOK /\ Conveyor /\ RequestsTracked /\ ToIssue \subseteq Decoded
      /\ dcache \in [dtlb : SUBSET Num, cache : SUBSET Num,
                     retryRequest : {0} \cup Num, owesRetry : BOOLEAN]
  BY ToIssueNamed DEF IInv, TypeOK
<1> DEFINE Same ==
             /\ insts' \in Seq(DynInst) /\ Len(insts') = Len(insts) /\ Decoded' = Decoded
             /\ \A m \in Decoded :
                  /\ insts'[m].op = insts[m].op /\ insts'[m].stream = insts[m].stream
                  /\ insts'[m].fault = insts[m].fault /\ insts'[m].fu = insts[m].fu
                  /\ insts'[m].opens = insts[m].opens
                  /\ m \in ToIssue => insts'[m].req = "NotIssued"
             /\ dcache' \in [dtlb : SUBSET Num, cache : SUBSET Num,
                             retryRequest : {0} \cup Num, owesRetry : BOOLEAN]
<1>3. Same /\ RequestsTracked'
  <2>1. CASE UNCHANGED insts /\ dcache' \in [dtlb : SUBSET Num, cache : SUBSET Num,
                                 retryRequest : {0} \cup Num, owesRetry : BOOLEAN]
               /\ dcache'.cache \subseteq dcache.cache /\ dcache'.dtlb = dcache.dtlb
               /\ dcache'.retryRequest = dcache.retryRequest
               /\ dcache'.owesRetry = dcache.owesRetry
    <3>1. RequestsTracked'
      BY <1>1, <1>2, <2>1 DEF RequestsTracked, Decoded
    <3>2. \A m \in ToIssue : insts[m].req = "NotIssued"
      BY <1>2 DEF Conveyor
    <3>3. insts \in Seq(DynInst)
      BY <1>2 DEF TypeOK
    <3>4. QED BY <2>1, <3>1, <3>2, <3>3 DEF Decoded
  <2>2. ASSUME NEW n, NEW d, Answered(n, d)
        PROVE  Same /\ RequestsTracked'
    <3>1. /\ n \in Decoded /\ d \in DynInst
          /\ insts' = [insts EXCEPT ![n] = d] /\ insts[n] \in DynInst
      BY <1>2, <2>2, Named DEF Answered
    <3>2. /\ insts' \in Seq(DynInst) /\ Len(insts') = Len(insts) /\ Decoded' = Decoded
          /\ insts'[n] = d /\ \A m \in Decoded : m # n => insts'[m] = insts[m]
      BY <1>2, <3>1, OneInstChanges
    <3>3. /\ d.op = insts[n].op /\ d.stream = insts[n].stream
          /\ d.fault = insts[n].fault /\ d.fu = insts[n].fu
          /\ d.opens = insts[n].opens
      BY <2>2, <3>1 DEF Answered, DynInst
    <3>4. n \notin ToIssue /\ \A m \in ToIssue : insts[m].req = "NotIssued"
      BY <1>2, <2>2 DEF Conveyor, Answered
    <3>5. RequestsTracked'
      BY <1>1, <1>2, <2>2, <3>1, <3>2, <3>3 DEF RequestsTracked, Answered, Decoded, Sent
    <3>6. QED BY <2>2, <3>2, <3>3, <3>4, <3>5 DEF Answered
  <2>3. QED BY <1>1, <1>2, <2>1, <2>2
<1>4. TypeOK'
  <2>1. /\ phase' \in {"writeback", "memory", "execute", "push", "decode", "crashed"}
        /\ Len(insts) <= MaxInst
    BY <1>1, <1>2 DEF TypeOK
  <2>2. QED BY <1>1, <1>2, <1>3, <2>1 DEF TypeOK
<1>5. ToIssue' \subseteq ToIssue /\ executeIn.elem = Bubble
  BY <1>1, <1>2 DEF ToIssue, Arriving, Conveyor, Bubble, Ids
<1> DEFINE Free == \A m \in Decoded : IsFree(insts'[m]) <=> IsFree(insts[m])
<1>6. Free
  BY <1>3 DEF IsFree
<1>7. MemoryBuffers' /\ WritebackBuffers'
  BY <1>1 DEF IInv, MemoryBuffers, WritebackBuffers
<1>8. Conveyor'
  <2>1. Ids(Arriving') \subseteq Ids(Arriving)
    BY <1>1 DEF Arriving, Bubble, Ids
  <2>2. QED BY <1>1, <1>2, <1>3, <1>5, <2>1 DEF Conveyor, Decoded
<1>9. Ids(execute.inFlight) \subseteq Decoded
  BY <1>2, Named DEF IInv, Flight, Decoded, Num
<1>10. Flight'
  BY <1>1, <1>3, <1>5, <1>6, <1>9 DEF IInv, Flight
<1>11. UnitsKept'
  <2> SUFFICES ASSUME NEW u \in Unit PROVE UnitKept(units[u], u)'
    BY <1>1 DEF UnitsKept
  <2>1. /\ UnitKept(units[u], u) /\ Len(units[u].pipe) \in Nat /\ Len(units[u].pipe) > 1
        /\ \A i \in 1 .. Len(units[u].pipe) :
             units[u].pipe[i] # NoInst => units[u].pipe[i] \in Decoded
    BY <1>2, UnitNamed DEF IInv
  <2> DEFINE f == units[u]
             p == f.pipe
  <2>2. \A i \in 1 .. Len(p) : p[i] # NoInst =>
          /\ p[i] <= Len(insts) /\ insts[p[i]].fu = u
          /\ \A m \in ToIssue : p[i] < m
          /\ \/ i = Len(p) \/ p[i] \in Ids(execute.inFlight) \/ insts[p[i]].fault
    BY <2>1 DEF UnitKept
  <2>3. /\ Len(p) = FuncUnits[u].opLat + 1
        /\ \A i, j \in 1 .. Len(p) :
             i < j /\ p[i] # NoInst /\ p[j] # NoInst => p[j] < p[i]
    BY <2>1 DEF UnitKept
  <2>4. /\ f.stalled => /\ UnitFront(f) # NoInst
                        /\ \/ UnitFront(f) \in Ids(execute.inFlight)
                           \/ insts[UnitFront(f)].fault
        /\ ~f.stalled /\ UnitFront(f) \in Ids(execute.inFlight)
             => IsFree(insts[UnitFront(f)])
    BY <2>1 DEF UnitKept
  <2>5. UnitFront(f) = p[Len(p)] /\ Len(p) \in 1 .. Len(p)
    BY <2>1 DEF UnitFront
  <2>6. units'[u] = f /\ execute' = execute /\ UnitFront(f)' = UnitFront(f)
    BY <1>1 DEF UnitFront
  <2> HIDE DEF f, p
  <2>7. \A i \in 1 .. Len(p) : p[i] # NoInst => p[i] \in Decoded
    BY <2>1 DEF f, p
  <2>8. \A i \in 1 .. Len(p) : p[i] # NoInst =>
          /\ p[i] <= Len(insts') /\ insts'[p[i]].fu = u
          /\ \A m \in ToIssue' : p[i] < m
          /\ \/ i = Len(p) \/ p[i] \in Ids(execute.inFlight) \/ insts'[p[i]].fault
    BY <1>3, <1>5, <2>2, <2>7
  <2>9. /\ f.stalled => /\ UnitFront(f) # NoInst
                        /\ \/ UnitFront(f) \in Ids(execute.inFlight)
                           \/ insts'[UnitFront(f)].fault
        /\ ~f.stalled /\ UnitFront(f) \in Ids(execute.inFlight)
             => IsFree(insts'[UnitFront(f)])
    BY <1>3, <1>6, <1>9, <2>4, <2>5, <2>7
  <2>10. QED BY <2>3, <2>6, <2>8, <2>9 DEF UnitKept, f, p
<1>12. FlightInUnits' /\ IssuedToCapable'
  BY <1>1, <1>3, <1>6, <1>9 DEF IInv, FlightInUnits, IssuedToCapable, Provides
<1>13. Chained' = Chained /\ Chained \subseteq Decoded
  BY <1>1, ChainedNamed DEF IInv, Chained
<1>14. OrderKept'
  BY <1>1, <1>3, <1>5 DEF IInv, OrderKept
<1>15. LeavesInOrder'
  BY <1>1, <1>3, <1>5, <1>13 DEF IInv, LeavesInOrder
<1>16. PastExecute'
  <2>1. \A n : Past(n)' => Past(n)
    BY <1>1 DEF Past
  <2>2. QED BY <1>1, <1>3, <1>5, <1>9, <2>1 DEF IInv, PastExecute
<1>17. StreamsCounted'
  <2>1. Opened' = Opened
    BY <1>3 DEF Opened
  <2>2. QED BY <1>1, <1>3, <1>13, <2>1 DEF IInv, StreamsCounted
<1>18. QED BY <1>3, <1>4, <1>7, <1>8, <1>10, <1>11, <1>12, <1>14, <1>15, <1>16, <1>17 DEF IInv
-----------------------------------------------------------------------------
(* The end of Execute's cycle, and Decode.                                 *)

(* pushTail() keeps what there is to issue, SetStalls() only what it reads *)
(* of Memory's buffers.                                                    *)
LEMMA SetStallsKeeps ==
  ASSUME IInv, SetStalls
  PROVE  IInv'
<1> DEFINE blocked == {b \in Box : ~CanReserveEntry(isb[b], MemoryBufferSize)}
<1>1. /\ phase = "push" /\ phase' = "decode"
      /\ execute' = [execute EXCEPT !.at = 1, !.blocked = blocked]
      /\ executeIn' = PushTail(executeIn)
      /\ UNCHANGED <<insts, supply, branch, dToE, units, renameId, eTo, isb,
                     memStream, mTo, wb, dcache, regs, retired>>
  BY DEF SetStalls
<1>2. /\ TypeOK /\ Conveyor /\ MaxInst \in Nat
      /\ execute \in [streamSeqNum : Stream, draining : BOOLEAN,
                      blocked : SUBSET Box, inFlight : Seq(Num), at : Nat \ {0}]
      /\ executeIn \in BufferOf(Num)
  BY Pool DEF IInv, TypeOK
<1>3. /\ execute' \in [streamSeqNum : Stream, draining : BOOLEAN,
                       blocked : SUBSET Box, inFlight : Seq(Num), at : Nat \ {0}]
      /\ execute'.inFlight = execute.inFlight
      /\ execute'.streamSeqNum = execute.streamSeqNum
  <2>1. blocked \in SUBSET Box /\ 1 \in Nat \ {0}
    OBVIOUS
  <2> HIDE DEF blocked
  <2>2. QED BY <1>1, <1>2, <2>1
<1>4. /\ executeIn' \in BufferOf(Num) /\ Increasing(executeIn'.queue)
      /\ executeIn'.elem = Bubble
      /\ Ids(executeIn'.queue) = Ids(executeIn.elem) \cup Ids(executeIn.queue)
  <2>1. Pointed(executeIn)
    BY <1>2 DEF Pointed, Conveyor
  <2>2. QED BY <1>1, <2>1, PushTailKeeps DEF Pointed
<1>5. Arriving = Bubble /\ Arriving' = Bubble /\ Ids(Bubble) = {}
  BY <1>1, IdsOfPacket DEF Arriving, Bubble
<1>6. ToIssue' = ToIssue
  BY <1>4, <1>5 DEF ToIssue
<1>7. TypeOK'
  BY <1>1, <1>2, <1>3, <1>4 DEF TypeOK
<1>8. Chained' = Chained
  BY <1>1 DEF Chained
<1>9. MemoryBuffers' /\ WritebackBuffers'
  BY <1>1 DEF IInv, MemoryBuffers, WritebackBuffers
<1>10. Conveyor'
  BY <1>1, <1>2, <1>4, <1>5, <1>6 DEF Conveyor
<1>11. Flight'
  BY <1>1, <1>3, <1>6 DEF IInv, Flight, IsFree
<1>12. UnitsKept'
  <2>1. \A u \in Unit : UnitKept(units[u], u)
    BY DEF IInv, UnitsKept
  <2>2. /\ UNCHANGED <<units, insts>> /\ ToIssue' = ToIssue
        /\ execute'.inFlight = execute.inFlight
    BY <1>1, <1>3, <1>6
  <2>3. ASSUME NEW u \in Unit PROVE UnitKept(units[u], u)'
    <3>1. UnitKept(units[u], u)
      BY <2>1
    <3>2. UnitKept(units[u], u)' <=> UnitKept(units[u], u)
      BY <2>2 DEF UnitKept, UnitFront, IsFree
    <3>3. QED BY <3>1, <3>2
  <2>4. QED BY <2>3 DEF UnitsKept
<1>13. FlightInUnits' /\ IssuedToCapable' /\ RequestsTracked'
  <2>1. Decoded' = Decoded
    BY <1>1 DEF Decoded
  <2>2. FlightInUnits'
    BY <1>1, <1>3 DEF IInv, FlightInUnits, IsFree
  <2>3. IssuedToCapable'
    BY <1>1, <2>1 DEF IInv, IssuedToCapable, Provides
  <2>4. RequestsTracked'
    BY <1>1, <2>1 DEF IInv, RequestsTracked
  <2>5. QED BY <2>2, <2>3, <2>4
<1>14. OrderKept' /\ LeavesInOrder'
  BY <1>1, <1>6, <1>8 DEF IInv, OrderKept, LeavesInOrder
<1>15. PastExecute'
  <2>1. \A n : Past(n)' => Past(n)
    BY <1>1 DEF Past
  <2>2. QED BY <1>1, <1>3, <1>6, <2>1 DEF IInv, PastExecute
<1>16. StreamsCounted'
  BY <1>1, <1>3, <1>8 DEF IInv, StreamsCounted, Opened, Decoded
<1>17. QED BY <1>7, <1>9, <1>10, <1>11, <1>12, <1>13, <1>14, <1>15, <1>16 DEF IInv

(* Decode delivers nothing, or the next instruction of its stream, which   *)
(* is younger than all others.                                             *)
LEMMA DecodeCases ==
  ASSUME IInv, DecodeEvaluate
  PROVE  /\ phase = "decode" /\ phase' = "writeback" /\ branch' = Clock(branch)
         /\ UNCHANGED <<execute, units, renameId, eTo, isb, memStream, mTo, wb,
                        dcache, regs, retired>>
         /\ \/ /\ UNCHANGED <<insts, executeIn>> /\ dToE' = Bubble
               /\ \/ supply' = supply
                  \/ branch.out # Bubble /\ supply' = branch.out[1]
            \/ \E d \in DynInst :
                 /\ Len(insts) < MaxInst
                 /\ d.stream = supply /\ d.fu = 0 /\ d.opens = 0
                 /\ d.req = "NotIssued" /\ d.forward = 0
                 /\ insts' = Append(insts, d)
                 /\ dToE' = <<Len(insts) + 1>>
                 /\ executeIn' = Reserve(executeIn)
                 /\ supply' = supply
<1>1. /\ phase = "decode" /\ phase' = "writeback" /\ branch' = Clock(branch)
      /\ UNCHANGED <<execute, units, renameId, eTo, isb, memStream, mTo, wb,
                     dcache, regs, retired>>
  BY DEF DecodeEvaluate
<1>2. supply \in Stream
  BY DEF IInv, TypeOK
<1>3. ASSUME NEW s \in StaticInsts
      PROVE  LET d == [op |-> s.op, dsts |-> s.dsts, srcs |-> s.srcs,
                       stream |-> supply, fault |-> s.op = "FetchFault",
                       fu |-> 0, forward |-> 0, req |-> "NotIssued", opens |-> 0]
             IN  /\ d \in DynInst
                 /\ d.stream = supply /\ d.fu = 0 /\ d.opens = 0
                 /\ d.req = "NotIssued" /\ d.forward = 0
  BY <1>2, BackEndAssumption DEF DynInst, RequestState
<1>4. CASE branch.out # Bubble
  BY <1>1, <1>4 DEF DecodeEvaluate
<1>5. CASE branch.out = Bubble /\ UNCHANGED <<insts, executeIn, supply>> /\ dToE' = Bubble
  BY <1>1, <1>5
<1>6. ASSUME NEW s \in StaticInsts, branch.out = Bubble, supply' = supply,
             Len(insts) < MaxInst,
             insts' = Append(insts,
                        [op |-> s.op, dsts |-> s.dsts, srcs |-> s.srcs,
                         stream |-> supply, fault |-> s.op = "FetchFault",
                         fu |-> 0, forward |-> 0, req |-> "NotIssued", opens |-> 0]),
             dToE' = <<Len(insts) + 1>>, executeIn' = Reserve(executeIn)
      PROVE  \E d \in DynInst :
               /\ Len(insts) < MaxInst
               /\ d.stream = supply /\ d.fu = 0 /\ d.opens = 0
               /\ d.req = "NotIssued" /\ d.forward = 0
               /\ insts' = Append(insts, d)
               /\ dToE' = <<Len(insts) + 1>>
               /\ executeIn' = Reserve(executeIn)
               /\ supply' = supply
  BY <1>3, <1>6
<1>7. QED BY <1>1, <1>4, <1>5, <1>6 DEF DecodeEvaluate

(* A stream is opened by one branch, and there are no more branches than   *)
(* instructions.                                                           *)
LEMMA OpenedCounted ==
  ASSUME TypeOK
  PROVE  /\ IsFiniteSet(Opened) /\ Cardinality(Opened) \in Nat
         /\ Cardinality(Opened) <= Len(insts)
         /\ IsFiniteSet(Decoded) /\ Cardinality(Decoded) = Len(insts)
<1>1. Len(insts) \in Nat
  BY Named
<1>2. IsFiniteSet(Decoded) /\ Cardinality(Decoded) = Len(insts)
  <2>1. 1 \in Int /\ Len(insts) \in Int /\ ~(1 > Len(insts)) => Len(insts) - 1 + 1 = Len(insts)
    BY <1>1
  <2>2. Cardinality(1 .. Len(insts)) = IF 1 > Len(insts) THEN 0 ELSE Len(insts) - 1 + 1
    BY <1>1, FS_Interval
  <2>3. IsFiniteSet(1 .. Len(insts))
    BY <1>1, FS_Interval
  <2>4. QED BY <1>1, <2>1, <2>2, <2>3 DEF Decoded
<1>3. Opened \in SUBSET Decoded
  BY DEF Opened
<1>4. QED BY <1>2, <1>3, FS_Subset, FS_CardinalityType

(* Decoding keeps the invariant: what is new comes last.                   *)
LEMMA DecodeKeeps ==
  ASSUME IInv, DecodeEvaluate
  PROVE  IInv'
<1> DEFINE N == Len(insts) + 1
<1>1. /\ phase = "decode" /\ phase' = "writeback" /\ branch' = Clock(branch)
      /\ UNCHANGED <<execute, units, renameId, eTo, isb, memStream, mTo, wb,
                     dcache, regs, retired>>
  BY DecodeCases
<1>2. /\ TypeOK /\ Conveyor /\ Len(insts) \in Nat /\ Len(insts) <= MaxInst
      /\ MaxInst \in Nat /\ Decoded = 1 .. Len(insts) /\ Num \subseteq Nat \ {0}
      /\ executeIn \in BufferOf(Num) /\ branch \in LatchOf(Stream) /\ supply \in Stream
      /\ insts \in Seq(DynInst) /\ executeIn.elem = Bubble
      /\ Ids(executeIn.queue) \subseteq Decoded
  <2>1. /\ TypeOK /\ Conveyor
    BY DEF IInv
  <2>2. /\ executeIn \in BufferOf(Num) /\ branch \in LatchOf(Stream)
        /\ supply \in Stream /\ insts \in Seq(DynInst) /\ Len(insts) <= MaxInst
    BY <2>1 DEF TypeOK
  <2>3. /\ Len(insts) \in Nat /\ MaxInst \in Nat /\ Decoded = 1 .. Len(insts)
        /\ Num \subseteq Nat \ {0}
    BY <2>1, <2>2, Named DEF Decoded
  <2>4. executeIn.elem = Bubble
    BY <1>1, <2>1 DEF Conveyor
  <2>5. Ids(executeIn.queue) \subseteq Decoded
    BY <2>1 DEF Conveyor, ToIssue, Decoded
  <2>6. QED BY <2>1, <2>2, <2>3, <2>4, <2>5
<1>3. /\ branch' \in LatchOf(Stream)
      /\ Ids(branch'.in) \cup Ids(branch'.out) \subseteq Ids(branch.in) \cup Ids(branch.out)
      /\ branch.out # Bubble => branch.out[1] \in Stream /\ branch.out[1] \in Ids(branch.out)
  <2>1. branch.in \in Wire(Stream) /\ branch.out \in Wire(Stream)
    BY <1>2 DEF LatchOf
  <2>2. Bubble \in Wire(Stream) /\ Ids(Bubble) = {}
    BY IdsOfPacket DEF Wire, Bubble
  <2>3. branch'.in = Bubble /\ branch'.out = branch.in /\ branch' \in LatchOf(Stream)
    BY <1>1, <2>1, <2>2 DEF Clock, LatchOf
  <2>4. branch.out # Bubble => branch.out[1] \in Stream /\ branch.out[1] \in Ids(branch.out)
    BY <2>1, WireIds
  <2>5. QED BY <2>2, <2>3, <2>4
<1> DEFINE Grows ==
             /\ insts' \in Seq(DynInst) /\ Len(insts') \in Nat
             /\ Len(insts) <= Len(insts') /\ Len(insts') <= MaxInst
             /\ \A m \in Decoded : insts'[m] = insts[m]
             /\ \A m \in Decoded' : m \notin Decoded =>
                  /\ m = N /\ insts'[m].stream = supply /\ insts'[m].fu = 0
                  /\ insts'[m].opens = 0 /\ insts'[m].req = "NotIssued"
             /\ executeIn' \in BufferOf(Num) /\ executeIn'.queue = executeIn.queue
             /\ executeIn'.elem = Bubble
             /\ dToE' \in Wire(Num)
             /\ Ids(dToE') \subseteq {N} /\ Ids(dToE') \subseteq Decoded' \ Decoded
             /\ supply' \in Stream
             /\ supply' = supply \/ supply' \in Ids(branch.out)
<1>4. Grows
  <2>1. CASE /\ UNCHANGED <<insts, executeIn>> /\ dToE' = Bubble
             /\ \/ supply' = supply
                \/ branch.out # Bubble /\ supply' = branch.out[1]
    <3>1. Ids(dToE') = {} /\ dToE' \in Wire(Num)
      BY <2>1, IdsOfPacket DEF Bubble, Wire
    <3>2. Decoded' = Decoded
      BY <2>1 DEF Decoded
    <3>3. QED BY <1>2, <1>3, <2>1, <3>1, <3>2
  <2>2. ASSUME NEW d \in DynInst, Len(insts) < MaxInst,
               d.stream = supply, d.fu = 0, d.opens = 0,
               d.req = "NotIssued", d.forward = 0,
               insts' = Append(insts, d), dToE' = <<Len(insts) + 1>>,
               executeIn' = Reserve(executeIn), supply' = supply
        PROVE  Grows
    <3>1. /\ insts' \in Seq(DynInst) /\ Len(insts') = N
          /\ \A m \in 1 .. Len(insts) : insts'[m] = insts[m]
          /\ insts'[N] = d
      <4> HIDE DEF DynInst
      <4>1. QED BY <1>2, <2>2, AppendProperties
    <3>2. N \in Num /\ N <= MaxInst
      BY <1>2, <2>2 DEF Num
    <3>3. Decoded' = 1 .. N
      BY <3>1 DEF Decoded
    <3>4. dToE' \in Wire(Num) /\ Ids(dToE') = {N}
      BY <2>2, <3>2, IdsOfPacket DEF Wire
    <3>5. executeIn' \in BufferOf(Num) /\ executeIn'.queue = executeIn.queue
          /\ executeIn'.elem = Bubble
      <4>1. executeIn \in [queue : Seq(Num), elem : Wire(Num), reserved : Nat]
        BY <1>2 DEF BufferOf
      <4>2. executeIn' = [executeIn EXCEPT !.reserved = executeIn.reserved + 1]
        BY <2>2 DEF Reserve
      <4>3. executeIn.reserved + 1 \in Nat
        BY <4>1
      <4>4. QED BY <1>2, <4>1, <4>2, <4>3 DEF BufferOf
    <3>6. /\ Len(insts') \in Nat /\ Len(insts) <= Len(insts') /\ Len(insts') <= MaxInst
          /\ \A m \in Decoded : insts'[m] = insts[m]
          /\ \A m \in Decoded' : m \notin Decoded => m = N
          /\ N \in Decoded' \ Decoded
      BY <1>2, <3>1, <3>2, <3>3
    <3> HIDE DEF N
    <3>7. QED BY <1>2, <2>2, <3>1, <3>4, <3>5, <3>6
  <2>3. CASE \E d \in DynInst :
               /\ Len(insts) < MaxInst
               /\ d.stream = supply /\ d.fu = 0 /\ d.opens = 0
               /\ d.req = "NotIssued" /\ d.forward = 0
               /\ insts' = Append(insts, d)
               /\ dToE' = <<Len(insts) + 1>>
               /\ executeIn' = Reserve(executeIn)
               /\ supply' = supply
    <3> HIDE DEF Grows, DynInst
    <3>1. PICK d \in DynInst :
               /\ Len(insts) < MaxInst
               /\ d.stream = supply /\ d.fu = 0 /\ d.opens = 0
               /\ d.req = "NotIssued" /\ d.forward = 0
               /\ insts' = Append(insts, d)
               /\ dToE' = <<Len(insts) + 1>>
               /\ executeIn' = Reserve(executeIn)
               /\ supply' = supply
      BY <2>3
    <3>2. QED BY <2>2, <3>1
  <2> HIDE DEF Grows
  <2>4. QED BY DecodeCases, <2>1, <2>3
<1>5. /\ ToIssue = Ids(executeIn.queue) /\ Arriving' = dToE'
      /\ ToIssue' \subseteq ToIssue \cup {N} /\ ToIssue' \subseteq Decoded'
  <2>1. Ids(Bubble) = {} /\ Arriving = Bubble
    BY <1>1, IdsOfPacket DEF Arriving, Bubble
  <2>2. Arriving' = dToE'
    BY <1>1 DEF Arriving
  <2>3. Decoded \subseteq Decoded'
    BY <1>2, <1>4 DEF Decoded
  <2>4. QED BY <1>2, <1>4, <2>1, <2>2, <2>3 DEF ToIssue
<1>6. TypeOK'
  BY <1>1, <1>2, <1>3, <1>4 DEF TypeOK
<1> HIDE DEF Grows
<1>7. /\ Len(insts') \in Nat /\ Len(insts) <= Len(insts') /\ Decoded \subseteq Decoded'
      /\ \A m \in Decoded : insts'[m] = insts[m]
      /\ \A m \in Decoded' : m \notin Decoded =>
           /\ m = N /\ insts'[m].stream = supply /\ insts'[m].fu = 0
           /\ insts'[m].opens = 0 /\ insts'[m].req = "NotIssued"
      /\ \A m \in Nat : m <= Len(insts) => m <= Len(insts')
      /\ \A n \in Decoded : n < N
  <2>1. Grows
    BY <1>4
  <2>2. Decoded \subseteq Decoded' /\ \A n \in Decoded : n < N
    BY <1>2, <2>1 DEF Grows, Decoded
  <2>3. QED BY <1>2, <2>1, <2>2 DEF Grows
<1> DEFINE Older(n, S) == \A m \in S : n < m
<1>0. \A n \in Nat : n <= Len(insts) /\ Older(n, ToIssue) =>
        n <= Len(insts') /\ Older(n, ToIssue')
  BY <1>2, <1>5, <1>7
<1>8. MemoryBuffers' /\ WritebackBuffers'
  BY <1>1 DEF IInv, MemoryBuffers, WritebackBuffers
<1>9. Conveyor'
  <2>1. ToIssue' \subseteq 1 .. Len(insts')
    BY <1>5 DEF Decoded
  <2>2. Increasing(executeIn'.queue)
    BY <1>2, <1>4 DEF Conveyor, Grows
  <2>3. \A x \in Ids(executeIn'.queue), y \in Ids(Arriving') : x < y
    BY <1>2, <1>4, <1>5, <1>7 DEF Grows
  <2>4. \A n \in ToIssue' : /\ insts'[n].fu = 0 /\ insts'[n].opens = 0
                            /\ insts'[n].req = "NotIssued"
    <3>1. \A n \in ToIssue : n \in Decoded /\ /\ insts[n].fu = 0 /\ insts[n].opens = 0
                            /\ insts[n].req = "NotIssued"
      BY <1>2, <1>5 DEF Conveyor
    <3>2. \A n \in Ids(dToE') : n \in Decoded' /\ n \notin Decoded
      BY <1>4 DEF Grows
    <3>3. ToIssue' = Ids(executeIn.queue) \cup Ids(dToE')
      <4>1. Ids(Bubble) = {}
        BY IdsOfPacket DEF Bubble
      <4>2. QED BY <1>4, <1>5, <4>1 DEF ToIssue, Grows
    <3>4. QED BY <1>5, <1>7, <3>1, <3>2, <3>3
  <2>5. executeIn'.elem = Bubble
    BY <1>4 DEF Grows
  <2>6. QED BY <2>1, <2>2, <2>3, <2>4, <2>5 DEF Conveyor
<1>10. Ids(execute.inFlight) \subseteq Decoded
  BY <1>2, Named DEF IInv, Flight, Decoded, Num
<1>11. Flight'
  BY <1>0, <1>1, <1>2, <1>7, <1>10 DEF IInv, Flight, IsFree
<1>12. UnitsKept'
  <2> SUFFICES ASSUME NEW u \in Unit PROVE UnitKept(units[u], u)'
    BY <1>1 DEF UnitsKept
  <2>1. /\ UnitKept(units[u], u) /\ Len(units[u].pipe) \in Nat /\ Len(units[u].pipe) > 1
        /\ \A i \in 1 .. Len(units[u].pipe) :
             units[u].pipe[i] # NoInst => units[u].pipe[i] \in Decoded
    BY <1>2, UnitNamed DEF IInv
  <2>2. \A i \in 1 .. Len(units[u].pipe) : units[u].pipe[i] # NoInst =>
          /\ units[u].pipe[i] <= Len(insts') /\ insts'[units[u].pipe[i]].fu = u
          /\ \A m \in ToIssue' : units[u].pipe[i] < m
          /\ insts'[units[u].pipe[i]] = insts[units[u].pipe[i]]
    <3> SUFFICES ASSUME NEW n \in Decoded, n <= Len(insts), insts[n].fu = u,
                        \A m \in ToIssue : n < m
                 PROVE  /\ n <= Len(insts') /\ insts'[n].fu = u
                        /\ \A m \in ToIssue' : n < m
                        /\ insts'[n] = insts[n]
      BY <2>1 DEF UnitKept
    <3>1. n \in Nat /\ n < N
      BY <1>2, <1>7
    <3>2. insts'[n] = insts[n]
      BY <1>7
    <3>3. n <= Len(insts')
      BY <1>7, <3>1
    <3> HIDE DEF N
    <3>4. \A m \in ToIssue' : n < m
      BY <1>5, <3>1
    <3>5. QED BY <3>2, <3>3, <3>4
  <2> DEFINE f == units[u]
             p == f.pipe
  <2> HIDE DEF N
  <2>3. \A i \in 1 .. Len(p) : p[i] # NoInst =>
          \/ i = Len(p) \/ p[i] \in Ids(execute.inFlight) \/ insts'[p[i]].fault
    BY <2>1, <2>2 DEF UnitKept
  <2>4. UnitFront(f) = p[Len(p)] /\ Len(p) \in 1 .. Len(p)
    BY <2>1 DEF UnitFront
  <2>5. /\ f.stalled => /\ UnitFront(f) # NoInst
                        /\ \/ UnitFront(f) \in Ids(execute.inFlight)
                           \/ insts'[UnitFront(f)].fault
        /\ ~f.stalled /\ UnitFront(f) \in Ids(execute.inFlight)
             => IsFree(insts'[UnitFront(f)])
    BY <1>7, <1>10, <2>1, <2>2, <2>4 DEF UnitKept
  <2>6. /\ Len(p) = FuncUnits[u].opLat + 1
        /\ \A i, j \in 1 .. Len(p) :
             i < j /\ p[i] # NoInst /\ p[j] # NoInst => p[j] < p[i]
    BY <2>1 DEF UnitKept
  <2>7. /\ units'[u] = f /\ execute' = execute
        /\ UnitFront(f)' = UnitFront(f)
    BY <1>1 DEF UnitFront
  <2> HIDE DEF f, p
  <2>8. QED BY <2>2, <2>3, <2>5, <2>6, <2>7 DEF UnitKept, IsFree, f, p, UnitFront
<1>13. FlightInUnits' /\ IssuedToCapable'
  BY <1>1, <1>7, <1>10 DEF IInv, FlightInUnits, IssuedToCapable, Provides, IsFree
<1>14. RequestsTracked'
  <2>1. /\ dcache.dtlb \subseteq Decoded /\ dcache.cache \subseteq Decoded
        /\ dcache.owesRetry => dcache.retryRequest \in Decoded
    BY <1>2 DEF IInv, TypeOK, RequestsTracked, Decoded, Num
  <2>2. Decoded' = 1 .. Len(insts')
    BY DEF Decoded
  <2> HIDE DEF N
  <2>3. RequestsTracked
    BY DEF IInv
  <2>4. /\ \A n \in dcache.dtlb : n <= Len(insts') /\ insts'[n].req = "InTranslation"
        /\ \A n \in dcache.cache : n <= Len(insts') /\ insts'[n].req = "SentToCache"
        /\ dcache.owesRetry <=> dcache.retryRequest # 0
        /\ dcache.owesRetry => /\ dcache.retryRequest <= Len(insts')
                               /\ insts'[dcache.retryRequest].req = "WaitingRetry"
    <3>1. \A n \in Decoded : n <= Len(insts')
      BY <1>7, <2>2
    <3>2. QED BY <1>7, <2>1, <2>3, <3>1 DEF RequestsTracked
  <2>5. \A n \in Decoded' :
          /\ insts'[n].req # "NotIssued" => insts'[n].op \in MemOp
          /\ insts'[n].req \in {"InTranslation", "WaitingRetry"} =>
               /\ n \in Ids(execute.inFlight) /\ ~insts'[n].fault
               /\ units[insts'[n].fu].stalled
               /\ UnitFront(units[insts'[n].fu]) = n
          /\ insts'[n].op \in MemOp /\ insts'[n].fu # 0 /\ ~insts'[n].fault
               => insts'[n].req \in Sent \/ n \in Ids(execute.inFlight)
    BY <1>7, <2>3 DEF RequestsTracked
  <2>6. QED BY <1>1, <2>4, <2>5 DEF RequestsTracked
<1>15. Chained' = Chained /\ Chained \subseteq Decoded
  BY <1>1, ChainedNamed DEF IInv, Chained
<1>16. OrderKept'
  <2> DEFINE q == isb["ORDER"].queue
  <2>1. /\ OneAPacket(isb["ORDER"]) /\ Ordered(isb["ORDER"])
        /\ \A i \in 1 .. Len(q) :
             /\ q[i][1] <= Len(insts)
             /\ \A n \in Ids(eTo["ORDER"]) \cup ToIssue : q[i][1] < n
        /\ \A n \in Ids(eTo["ORDER"]) :
             n <= Len(insts) /\ \A m \in ToIssue : n < m
    BY DEF IInv, OrderKept
  <2>2. \A i \in 1 .. Len(q) : q[i][1] \in Nat
    <3>1. isb["ORDER"] \in IsbOf(Num)
      BY <1>2 DEF TypeOK
    <3>2. \A i \in 1 .. Len(q) : Len(q[i]) = 1 /\ \A j \in 1 .. Len(q[i]) : q[i][j] \in Num
      BY <2>1, <3>1, IsbFields DEF OneAPacket
    <3> HIDE DEF q
    <3>3. \A i \in 1 .. Len(q) : 1 \in 1 .. Len(q[i])
      BY <3>2
    <3>4. \A i \in 1 .. Len(q) : q[i][1] \in Num
      BY <3>2, <3>3
    <3>5. QED BY <1>2, <3>4
  <2>3. Ids(eTo["ORDER"]) \subseteq Nat
    <3>1. eTo["ORDER"] \in Seq(Num)
      BY <1>2 DEF TypeOK
    <3>2. QED BY <1>2, <3>1, IdsIn
  <2>4. \A n \in Nat : n <= Len(insts) => n < N
    BY <1>2
  <2> HIDE DEF q, N
  <2>5. isb' = isb /\ eTo' = eTo
    BY <1>1
  <2>6. QED BY <1>5, <1>7, <2>1, <2>2, <2>3, <2>4, <2>5 DEF OrderKept, q
<1>17. Ids(mTo["ORDER"]) \cup Ids(retired) \subseteq Nat
  BY <1>2, IdsIn, Named DEF TypeOK
<1>18. LeavesInOrder'
  <2>1. \A n \in Ids(mTo["ORDER"]) :
          n <= Len(insts') /\ \A m \in Chained \cup ToIssue' : n < m
    BY <1>0, <1>17 DEF IInv, LeavesInOrder
  <2>2. /\ Increasing(retired)
        /\ \A n \in Ids(retired) :
             n <= Len(insts') /\ \A m \in Ids(mTo["ORDER"]) \cup Chained \cup ToIssue' : n < m
    BY <1>0, <1>17 DEF IInv, LeavesInOrder
  <2>3. QED BY <1>1, <1>15, <2>1, <2>2 DEF LeavesInOrder
<1>19. PastExecute'
  <2>1. \A n : Past(n)' => Past(n)
    BY <1>1 DEF Past
  <2>2. \A n \in Num : Past(n) => n \in Decoded
    BY <1>2 DEF IInv, PastExecute, Num
  <2>3. QED BY <1>0, <1>1, <1>2, <1>7, <2>1, <2>2 DEF IInv, PastExecute
<1>20. StreamsCounted'
  <2>1. Opened' = Opened
    BY <1>7 DEF Opened
  <2>2. execute.streamSeqNum <= N /\ execute.streamSeqNum = FirstStream + Cardinality(Opened)
    BY <1>2, OpenedCounted DEF IInv, StreamsCounted, FirstStream
  <2>3. \A w \in Ids(branch.in) \cup Ids(branch.out) : w <= execute.streamSeqNum
    BY DEF IInv, StreamsCounted
  <2>4. supply \in Nat /\ execute.streamSeqNum \in Nat /\ supply <= execute.streamSeqNum
    BY <1>2 DEF IInv, StreamsCounted, TypeOK, Stream, FirstStream
  <2>5. supply' <= execute.streamSeqNum
    BY <1>4, <2>3, <2>4 DEF Grows
  <2>6. \A n \in Decoded' : insts'[n].stream <= n /\ insts'[n].stream <= execute.streamSeqNum
    <3>1. \A n \in Decoded : insts[n].stream <= n /\ insts[n].stream <= execute.streamSeqNum
      BY DEF IInv, StreamsCounted
    <3>2. QED BY <1>2, <1>7, <2>2, <2>4, <3>1
  <2>7. \A m, n \in Chained' : m < n => insts'[m].stream <= insts'[n].stream
    BY <1>7, <1>15 DEF IInv, StreamsCounted
  <2>8. QED BY <1>1, <1>3, <2>1, <2>2, <2>3, <2>5, <2>6, <2>7 DEF StreamsCounted
<1>21. QED BY <1>6, <1>8, <1>9, <1>11, <1>12, <1>13, <1>14, <1>16, <1>18, <1>19, <1>20
           DEF IInv
-----------------------------------------------------------------------------
(* trytoPush().                                                            *)

(* Another branch opens another stream.                                    *)
LEMMA OneMoreOpened ==
  ASSUME IInv, NEW n \in Decoded, n \notin Opened
  PROVE  /\ Cardinality(Opened \cup {n}) = Cardinality(Opened) + 1
         /\ execute.streamSeqNum \in Nat /\ execute.streamSeqNum + 1 \in Stream
<1>1. /\ TypeOK /\ MaxInst \in Nat /\ Len(insts) \in Nat /\ Len(insts) <= MaxInst
      /\ execute.streamSeqNum = FirstStream + Cardinality(Opened)
  BY Named DEF IInv, TypeOK, StreamsCounted
<1>2. IsFiniteSet(Opened) /\ Cardinality(Opened) \in Nat
  BY <1>1, OpenedCounted
<1>3. Cardinality(Opened \cup {n}) = Cardinality(Opened) + 1
  BY <1>2, FS_AddElement
<1>4. Cardinality(Opened \cup {n}) <= Len(insts)
  <2>1. Opened \cup {n} \in SUBSET Decoded
    BY DEF Opened
  <2>2. QED BY <1>1, <2>1, FS_Subset, OpenedCounted
<1>5. QED BY <1>1, <1>2, <1>3, <1>4 DEF Stream, FirstStream

ExecuteFields ==
  [streamSeqNum : Stream, draining : BOOLEAN, blocked : SUBSET Box,
   inFlight : Seq(Num), at : Nat \ {0}]

(* The instruction stays in flight; a faulting branch has been put into    *)
(* BASE all the same.                                                      *)
Stays(d) ==
  /\ execute'.inFlight = execute.inFlight /\ units' = units
  /\ UNCHANGED <<eTo, isb>> \/ (d.fault /\ Put("BASE"))

(* It leaves for a buffer of Memory; its unit goes on, or held nothing for *)
(* it.                                                                     *)
Leaves(d) ==
  /\ execute'.inFlight = Seqs!RemoveAt(execute.inFlight, execute.at)
  /\ \E box \in Box : Put(box)
  /\ \/ units' = Released /\ AtHead(Current) /\ ~IsFree(insts[Current])
     \/ units' = units /\ IsFree(insts[Current])
  /\ d.op \in MemOp /\ ~d.fault => d.req \in Sent

(* What trytoPush() makes of the instruction it is at, d.                  *)
Becomes(d) ==
  /\ d \in DynInst /\ insts' = [insts EXCEPT ![Current] = d]
  /\ d.op = insts[Current].op /\ d.stream = insts[Current].stream
  /\ d.fu = insts[Current].fu /\ d.dsts = insts[Current].dsts
  /\ insts[Current].fault => d.fault

SameStream(d) ==
  /\ execute'.streamSeqNum = execute.streamSeqNum
  /\ d.opens = insts[Current].opens /\ branch' = branch

OpensStream(d) ==
  /\ execute'.streamSeqNum = execute.streamSeqNum + 1
  /\ d.opens = execute.streamSeqNum + 1
  /\ branch' = Drive(branch, execute.streamSeqNum + 1)
  /\ Leaves(d)

TracksRequest(d) ==
  /\ \/ UNCHANGED dcache /\ d.req = insts[Current].req
     \/ /\ insts[Current].op \in MemOp /\ ~IsFree(insts[Current]) /\ AtHead(Current)
        /\ dcache' = Track(Current, d.req)
        /\ insts[Current].req \in {"NotIssued", "Error"} \/ d.req = insts[Current].req
        /\ d.req = "Error" => insts[Current].req = "Error"
  /\ d.req \in {"InTranslation", "WaitingRetry"} =>
       ~d.fault /\ AtHead(Current) /\ Stays(d) /\ ~IsFree(insts[Current])

PushStep(d) ==
  /\ phase = "push" /\ phase' \in {"push", "crashed"}
  /\ execute.at \in 1 .. Len(execute.inFlight)
  /\ execute' \in ExecuteFields
  /\ Becomes(d)
  /\ Stays(d) \/ Leaves(d)
  /\ SameStream(d) \/ OpensStream(d)
  /\ TracksRequest(d)
  /\ UNCHANGED Elsewhere

(* The instruction trytoPush() is at.                                      *)
LEMMA CurrentIn ==
  ASSUME IInv, Pushing
  PROVE  /\ phase = "push" /\ execute.at \in 1 .. Len(execute.inFlight)
         /\ execute \in ExecuteFields
         /\ Current \in Ids(execute.inFlight) /\ Current \in Decoded /\ Current \in Num
         /\ insts[Current] \in DynInst /\ insts[Current].opens = 0
         /\ ~IsFree(insts[Current]) => insts[Current].fu \in Unit
         /\ insts[Current].req \in {"InTranslation", "WaitingRetry"} =>
              AtHead(Current) /\ ~IsFree(insts[Current])
         /\ insts[Current].req # "NotIssued" => insts[Current].op \in MemOp
<1>1. /\ TypeOK /\ execute \in ExecuteFields /\ phase = "push"
      /\ execute.at \in 1 .. Len(execute.inFlight)
  <2>1. TypeOK
    BY DEF IInv
  <2>2. execute \in ExecuteFields
    BY <2>1 DEF TypeOK, ExecuteFields
  <2>3. phase = "push" /\ execute.at <= Len(execute.inFlight)
    BY DEF Pushing
  <2>4. /\ execute.at \in Nat /\ execute.at # 0
        /\ Len(execute.inFlight) \in Nat
    BY <2>2 DEF ExecuteFields
  <2>5. execute.at \in 1 .. Len(execute.inFlight)
    BY <2>3, <2>4
  <2>6. QED BY <2>1, <2>2, <2>3, <2>5
<1>2. Current \in Ids(execute.inFlight)
  BY <1>1, IdsDef DEF Current
<1>3. /\ Current \in Num /\ Current \in Decoded /\ insts[Current] \in DynInst
      /\ insts[Current].opens = 0
      /\ ~IsFree(insts[Current]) => insts[Current].fu # 0
  BY <1>1, <1>2, Named DEF IInv, Flight, Decoded, Num
<1>4. ~IsFree(insts[Current]) => insts[Current].fu \in Unit
  BY <1>3 DEF DynInst
<1>5. /\ insts[Current].req \in {"InTranslation", "WaitingRetry"} =>
           AtHead(Current) /\ ~IsFree(insts[Current])
      /\ insts[Current].req # "NotIssued" => insts[Current].op \in MemOp
  <2>1. RequestsTracked
    BY DEF IInv
  <2>2. QED BY <1>3, <2>1 DEF RequestsTracked, AtHead, IsFree, MemOp
<1>6. QED BY <1>1, <1>2, <1>3, <1>4, <1>5

(* pushInstToLatch() chooses one of the buffers of Memory.                 *)
LEMMA TargetIn ==
  ASSUME NEW d, HasSlot(TargetBox(d))
  PROVE  TargetBox(d) \in Box
BY DEF TargetBox, HasSlot, Box, NoBox

(* The record a push action writes.                                        *)
LEMMA BecomesFaulty ==
  ASSUME IInv, Pushing, ~IsFree(insts[Current]), NEW f \in BOOLEAN, NEW r \in RequestState,
         insts' = [insts EXCEPT ![Current].fault = f, ![Current].req = r]
  PROVE  LET d == [insts[Current] EXCEPT !.fault = f, !.req = r]
         IN  Becomes(d) /\ d.fault = f /\ d.req = r /\ d.opens = insts[Current].opens
<1> DEFINE c == Current
           d == [insts[c] EXCEPT !.fault = f, !.req = r]
<1>1. insts[c] \in DynInst /\ c \in Decoded /\ ~insts[c].fault /\ insts \in Seq(DynInst)
  BY CurrentIn DEF IInv, TypeOK, IsFree
<1> HIDE DEF c
<1>2. /\ d \in DynInst /\ d.op = insts[c].op /\ d.stream = insts[c].stream
      /\ d.fu = insts[c].fu /\ d.dsts = insts[c].dsts
      /\ d.fault = f /\ d.req = r /\ d.opens = insts[c].opens
  BY <1>1 DEF DynInst
<1>3. insts' = [insts EXCEPT ![c] = d]
  BY <1>1 DEF c, Decoded
<1>4. QED BY <1>1, <1>2, <1>3 DEF Becomes, c

(* trytoPush() goes on to the next instruction, ...                        *)
LEMMA KeepsInFlight ==
  ASSUME IInv, Pushing, KeepInFlight, NEW d
  PROVE  /\ execute' \in ExecuteFields /\ Stays(d)
         /\ execute'.streamSeqNum = execute.streamSeqNum
<1>1. execute \in ExecuteFields
  BY CurrentIn
<1>2. execute' = [execute EXCEPT !.at = @ + 1] /\ UNCHANGED <<units, eTo, isb>>
  BY DEF KeepInFlight
<1>3. QED BY <1>1, <1>2 DEF ExecuteFields, Stays

(* ... or has taken one out of inFlightInsts.                              *)
LEMMA ErasedFields ==
  ASSUME IInv, Pushing
  PROVE  /\ Erased(execute) \in ExecuteFields
         /\ Erased(execute).inFlight = Seqs!RemoveAt(execute.inFlight, execute.at)
         /\ Erased(execute).streamSeqNum = execute.streamSeqNum
<1> DEFINE q == Seqs!RemoveAt(execute.inFlight, execute.at)
<1>1. execute \in ExecuteFields /\ execute.at \in 1 .. Len(execute.inFlight)
  BY CurrentIn
<1>2. q \in Seq(Num)
  <2>1. Num \in SUBSET Nat
    BY Named DEF IInv
  <2>2. Increasing(execute.inFlight)
    BY DEF IInv, Flight
  <2>3. execute.inFlight \in Seq(Num)
    BY <1>1 DEF ExecuteFields
  <2>4. QED BY <1>1, <2>1, <2>2, <2>3, RemoveAtIds
<1> HIDE DEF q
<1>3. Erased(execute) = [execute EXCEPT !.inFlight = q]
  BY DEF Erased, q
<1>4. QED BY <1>1, <1>2, <1>3 DEF ExecuteFields, q

(* An instruction that is left as it is.                                   *)
LEMMA BecomesItself ==
  ASSUME IInv, Pushing, UNCHANGED <<insts, branch, dcache>>,
         execute'.streamSeqNum = execute.streamSeqNum,
         IsFree(insts[Current]) \/ Stays(insts[Current])
  PROVE  /\ Becomes(insts[Current]) /\ SameStream(insts[Current])
         /\ TracksRequest(insts[Current])
<1> DEFINE c == Current
<1>1. insts[c] \in DynInst /\ c \in Decoded /\ insts \in Seq(DynInst)
  BY CurrentIn DEF IInv, TypeOK
<1>2. TracksRequest(insts[c])
  BY CurrentIn DEF TracksRequest, IsFree
<1>3. Becomes(insts[c])
  <2> HIDE DEF c
  <2>1. insts = [insts EXCEPT ![c] = insts[c]]
    BY <1>1 DEF Decoded
  <2>2. QED BY <1>1, <2>1 DEF Becomes, c
<1>4. QED BY <1>2, <1>3 DEF SameStream

(* Faults and free instructions leave without their unit.                  *)
LEMMA PushFreeStep ==
  ASSUME IInv, PushFree
  PROVE  PushStep(insts[Current])
<1> DEFINE d == insts[Current]
           box == TargetBox(d)
<1>1. /\ Pushing /\ IsFree(d) /\ phase' \in {"push", "crashed"}
      /\ UNCHANGED <<insts, branch, dcache, Elsewhere>>
  BY DEF PushFree, Pushing
<1>2. \/ KeepInFlight
      \/ /\ HasSlot(box) /\ Put(box) /\ execute' = Erased(execute) /\ UNCHANGED units
  BY DEF PushFree
<1>3. phase = "push" /\ execute.at \in 1 .. Len(execute.inFlight)
  BY <1>1, CurrentIn
<1>4. /\ execute' \in ExecuteFields /\ (Stays(d) \/ Leaves(d))
      /\ execute'.streamSeqNum = execute.streamSeqNum
  <2>1. CASE KeepInFlight
    BY <1>1, <2>1, KeepsInFlight
  <2>2. CASE /\ HasSlot(box) /\ Put(box) /\ execute' = Erased(execute) /\ UNCHANGED units
    <3>1. box \in Box
      BY <2>2, TargetIn
    <3>2. /\ execute' \in ExecuteFields /\ execute'.streamSeqNum = execute.streamSeqNum
          /\ execute'.inFlight = Seqs!RemoveAt(execute.inFlight, execute.at)
      BY <1>1, <2>2, ErasedFields
    <3>3. d.op \in MemOp => d.fault
      BY <1>1 DEF IsFree, MemOp
    <3>4. Leaves(d)
      BY <1>1, <2>2, <3>1, <3>2, <3>3 DEF Leaves
    <3>5. QED BY <3>2, <3>4
  <2>3. QED BY <1>2, <2>1, <2>2
<1>5. Becomes(d) /\ SameStream(d) /\ TracksRequest(d)
  <2>1. UNCHANGED <<insts, branch, dcache>> /\ execute'.streamSeqNum = execute.streamSeqNum
    BY <1>1, <1>4
  <2>2. Pushing /\ IsFree(insts[Current])
    BY <1>1
  <2>3. IsFree(insts[Current]) \/ Stays(insts[Current])
    BY <2>2
  <2> HIDE DEF d
  <2>4. /\ Becomes(insts[Current]) /\ SameStream(insts[Current])
        /\ TracksRequest(insts[Current])
    BY <2>1, <2>2, <2>3, BecomesItself
  <2>5. QED BY <2>4 DEF d
<1>6. QED BY <1>1, <1>3, <1>4, <1>5 DEF PushStep

(* What has not reached the head of its unit stays.                        *)
LEMMA NotReadyStep ==
  ASSUME IInv, NotReady
  PROVE  PushStep(insts[Current])
<1>1. /\ Pushing /\ KeepInFlight /\ UNCHANGED <<phase, insts, branch, dcache, Elsewhere>>
  BY DEF NotReady
<1>2. phase = "push" /\ execute.at \in 1 .. Len(execute.inFlight)
  BY <1>1, CurrentIn
<1>3. /\ execute' \in ExecuteFields /\ Stays(insts[Current])
      /\ execute'.streamSeqNum = execute.streamSeqNum
  BY <1>1, KeepsInFlight
<1>4. Becomes(insts[Current]) /\ SameStream(insts[Current]) /\ TracksRequest(insts[Current])
  BY <1>1, <1>3, BecomesItself
<1>5. QED BY <1>1, <1>2, <1>3, <1>4 DEF PushStep

(* A result leaves as it is, or as a fault.                                *)
LEMMA PushResultStep ==
  ASSUME IInv, PushResult
  PROVE  \E d : PushStep(d)
<1> DEFINE e == insts[Current]
<1>1. /\ Pushing /\ e.op \in {"Alu", "Mul", "Div", "Float"} /\ ~IsFree(e) /\ AtHead(Current)
      /\ UNCHANGED <<phase, branch, dcache, Elsewhere>>
  BY DEF PushResult, Ready
<1>2. /\ phase = "push" /\ execute.at \in 1 .. Len(execute.inFlight)
      /\ e \in DynInst /\ Current \in Decoded /\ e.req = "NotIssued" /\ e.op \notin MemOp
      /\ insts \in Seq(DynInst)
  BY <1>1, CurrentIn DEF MemOp, IInv, TypeOK
<1>3. CASE KeepInFlight /\ UNCHANGED insts
  <2>1. /\ execute' \in ExecuteFields /\ Stays(e)
        /\ execute'.streamSeqNum = execute.streamSeqNum
    BY <1>1, <1>3, KeepsInFlight
  <2>2. Becomes(e) /\ SameStream(e) /\ TracksRequest(e)
    BY <1>1, <1>3, <2>1, BecomesItself
  <2>3. QED BY <1>1, <1>2, <2>1, <2>2 DEF PushStep
<1>4. ASSUME NEW fault \in BOOLEAN, insts' = [insts EXCEPT ![Current].fault = fault],
             \/ KeepInFlight
             \/ \E x : HasSlot(TargetBox(x)) /\ Leave(TargetBox(x))
      PROVE  \E d : PushStep(d)
  <2> DEFINE d == [e EXCEPT !.fault = fault, !.req = "NotIssued"]
  <2>1. insts' = [insts EXCEPT ![Current].fault = fault, ![Current].req = "NotIssued"]
    <3> DEFINE c == Current
    <3>1. insts[c] \in DynInst /\ insts[c].req = "NotIssued" /\ c \in DOMAIN insts
          /\ insts' = [insts EXCEPT ![c].fault = fault]
      BY <1>2, <1>4 DEF Decoded
    <3> HIDE DEF c
    <3>2. [insts[c] EXCEPT !.fault = fault]
            = [insts[c] EXCEPT !.fault = fault, !.req = "NotIssued"]
      BY <3>1 DEF DynInst
    <3>3. insts' = [insts EXCEPT ![c].fault = fault, ![c].req = "NotIssued"]
      BY <3>1, <3>2
    <3>4. QED BY <3>3 DEF c
  <2>2. "NotIssued" \in RequestState
    BY DEF RequestState
  <2>3. Becomes(d) /\ d.req = "NotIssued" /\ d.opens = e.opens
    BY <1>1, <2>1, <2>2, BecomesFaulty
  <2> HIDE DEF d
  <2>4. /\ execute' \in ExecuteFields /\ (Stays(d) \/ Leaves(d))
        /\ execute'.streamSeqNum = execute.streamSeqNum
    <3>1. CASE KeepInFlight
      BY <1>1, <3>1, KeepsInFlight
    <3>2. ASSUME NEW x, HasSlot(TargetBox(x)), Leave(TargetBox(x))
          PROVE  /\ execute' \in ExecuteFields /\ Leaves(d)
                 /\ execute'.streamSeqNum = execute.streamSeqNum
      <4>1. TargetBox(x) \in Box
        BY <3>2, TargetIn
      <4>2. Put(TargetBox(x)) /\ execute' = Erased(execute) /\ units' = Released
        BY <3>2 DEF Leave
      <4>3. /\ execute' \in ExecuteFields /\ execute'.streamSeqNum = execute.streamSeqNum
            /\ execute'.inFlight = Seqs!RemoveAt(execute.inFlight, execute.at)
        BY <1>1, <4>2, ErasedFields
      <4>4. d.op \notin MemOp
        BY <1>2, <2>3 DEF Becomes
      <4>5. QED BY <1>1, <4>1, <4>2, <4>3, <4>4 DEF Leaves
    <3>3. QED BY <1>4, <3>1, <3>2
  <2>5. SameStream(d) /\ TracksRequest(d)
    BY <1>1, <1>2, <2>3, <2>4 DEF SameStream, TracksRequest
  <2>6. phase' \in {"push", "crashed"} /\ UNCHANGED Elsewhere
    BY <1>1, <1>2
  <2>7. PushStep(d)
    BY <1>2, <2>3, <2>4, <2>5, <2>6 DEF PushStep
  <2>8. QED BY <2>7
<1>5. CASE ~(KeepInFlight /\ UNCHANGED insts)
  <2>1. PICK fault \in MayFault("execute") :
          LET box == TargetBox([insts[Current] EXCEPT !.fault = fault])
          IN  /\ insts' = [insts EXCEPT ![Current].fault = fault]
              /\ IF HasSlot(box) THEN Leave(box) ELSE KeepInFlight
    BY <1>5 DEF PushResult
  <2>2. fault \in BOOLEAN
    BY DEF MayFault
  <2> DEFINE x == [insts[Current] EXCEPT !.fault = fault]
  <2>3. \/ KeepInFlight
        \/ HasSlot(TargetBox(x)) /\ Leave(TargetBox(x))
    BY <2>1
  <2>4. insts' = [insts EXCEPT ![Current].fault = fault]
    BY <2>1
  <2> HIDE DEF x
  <2>5. QED BY <1>4, <2>2, <2>3, <2>4
<1>6. QED BY <1>3, <1>5

(* A branch opens the next stream, or stays behind as a fault.             *)
LEMMA PushBranchStep ==
  ASSUME IInv, PushBranch
  PROVE  \E d : PushStep(d)
<1> DEFINE e == insts[Current]
           new == execute.streamSeqNum + 1
<1>1. /\ Pushing /\ e.op = "Branch" /\ ~IsFree(e) /\ AtHead(Current)
      /\ UNCHANGED <<phase, dcache, Elsewhere>>
  BY DEF PushBranch, Ready
<1>2. /\ phase = "push" /\ execute.at \in 1 .. Len(execute.inFlight)
      /\ e \in DynInst /\ Current \in Decoded /\ e.req = "NotIssued" /\ e.op \notin MemOp
      /\ insts \in Seq(DynInst) /\ e.opens = 0 /\ execute \in ExecuteFields
      /\ ~e.fault
  BY <1>1, CurrentIn DEF MemOp, IInv, TypeOK, IsFree
<1>3. phase' \in {"push", "crashed"} /\ UNCHANGED Elsewhere /\ UNCHANGED dcache
  BY <1>1, <1>2
<1>4. CASE KeepInFlight /\ UNCHANGED <<insts, branch>>
  <2>1. /\ execute' \in ExecuteFields /\ Stays(e)
        /\ execute'.streamSeqNum = execute.streamSeqNum
    BY <1>1, <1>4, KeepsInFlight
  <2>2. Becomes(e) /\ SameStream(e) /\ TracksRequest(e)
    BY <1>1, <1>3, <1>4, <2>1, BecomesItself
  <2>3. QED BY <1>2, <1>3, <2>1, <2>2 DEF PushStep
<1>5. CASE /\ insts' = [insts EXCEPT ![Current].fault = TRUE]
           /\ Put("BASE") /\ execute' = [execute EXCEPT !.at = @ + 1]
           /\ UNCHANGED <<units, branch>>
  <2> DEFINE c == Current
             d == [e EXCEPT !.fault = TRUE]
  <2>1. /\ d \in DynInst /\ d.op = e.op /\ d.stream = e.stream /\ d.fu = e.fu
        /\ d.fault /\ d.opens = e.opens /\ d.req = "NotIssued" /\ d.dsts = e.dsts
        /\ insts' = [insts EXCEPT ![c] = d]
    BY <1>2, <1>5 DEF DynInst, Decoded
  <2> HIDE DEF d
  <2>2. Becomes(d)
    BY <2>1 DEF Becomes
  <2>3. /\ execute' \in ExecuteFields /\ execute'.streamSeqNum = execute.streamSeqNum
        /\ execute'.inFlight = execute.inFlight
    BY <1>2, <1>5 DEF ExecuteFields
  <2>4. Stays(d)
    BY <1>5, <2>1, <2>3 DEF Stays
  <2>5. SameStream(d) /\ TracksRequest(d)
    BY <1>2, <1>3, <1>5, <2>1, <2>3 DEF SameStream, TracksRequest
  <2>6. PushStep(d)
    BY <1>2, <1>3, <2>2, <2>3, <2>4, <2>5 DEF PushStep
  <2>7. QED BY <2>6
<1>6. CASE /\ insts' = [insts EXCEPT ![Current].opens = new]
           /\ branch' = Drive(branch, new)
           /\ Put("BASE") /\ units' = Released
           /\ execute' = [Erased(execute) EXCEPT !.streamSeqNum = new, !.draining = TRUE]
  <2> DEFINE c == Current
             d == [e EXCEPT !.opens = new]
  <2>1. new \in Stream
    <3>1. Current \notin Opened
      BY <1>2 DEF Opened
    <3>2. QED BY <1>2, <3>1, OneMoreOpened
  <2>2. /\ d \in DynInst /\ d.op = e.op /\ d.stream = e.stream /\ d.fu = e.fu
        /\ ~d.fault /\ d.opens = new /\ d.req = "NotIssued" /\ d.dsts = e.dsts
        /\ insts' = [insts EXCEPT ![c] = d]
    <3> HIDE DEF new
    <3>1. QED BY <1>2, <1>6, <2>1 DEF DynInst, Decoded
  <2> HIDE DEF d
  <2>3. Becomes(d)
    BY <1>2, <2>2 DEF Becomes
  <2>4. /\ execute' \in ExecuteFields /\ execute'.streamSeqNum = new
        /\ execute'.inFlight = Seqs!RemoveAt(execute.inFlight, execute.at)
    <3> DEFINE x == Erased(execute)
    <3>1. x \in ExecuteFields /\ x.inFlight = Seqs!RemoveAt(execute.inFlight, execute.at)
      BY <1>1, ErasedFields
    <3>2. execute' = [x EXCEPT !.streamSeqNum = new, !.draining = TRUE]
      BY <1>6
    <3> HIDE DEF x, new
    <3>3. QED BY <2>1, <3>1, <3>2 DEF ExecuteFields
  <2>5. Leaves(d)
    <3>1. "BASE" \in Box /\ d.op \notin MemOp
      BY <1>2, <2>2 DEF Box
    <3>2. QED BY <1>1, <1>6, <2>4, <3>1 DEF Leaves
  <2>6. OpensStream(d) /\ TracksRequest(d)
    BY <1>2, <1>3, <1>6, <2>2, <2>4, <2>5 DEF OpensStream, TracksRequest
  <2>7. PushStep(d)
    BY <1>2, <1>3, <2>3, <2>4, <2>5, <2>6 DEF PushStep
  <2>8. QED BY <2>7
<1>7. \/ KeepInFlight /\ UNCHANGED <<insts, branch>>
      \/ /\ insts' = [insts EXCEPT ![Current].fault = TRUE]
         /\ Put("BASE") /\ execute' = [execute EXCEPT !.at = @ + 1]
         /\ UNCHANGED <<units, branch>>
      \/ /\ insts' = [insts EXCEPT ![Current].opens = new]
         /\ branch' = Drive(branch, new)
         /\ Put("BASE") /\ units' = Released
         /\ execute' = [Erased(execute) EXCEPT !.streamSeqNum = new, !.draining = TRUE]
  BY DEF PushBranch
<1>8. QED BY <1>4, <1>5, <1>6, <1>7

(* A memory access leaves once the cache has it, as a fault, or with an    *)
(* error; until then its unit stands still for it.                         *)
LEMMA PushMemRefStep ==
  ASSUME IInv, PushMemRef
  PROVE  \E d : PushStep(d)
<1> DEFINE e == insts[Current]
<1>1. /\ Pushing /\ e.op \in MemOp /\ ~IsFree(e) /\ AtHead(Current)
      /\ UNCHANGED <<phase, branch, Elsewhere>>
  BY DEF PushMemRef, Ready, MemOp
<1>2. /\ phase = "push" /\ execute.at \in 1 .. Len(execute.inFlight)
      /\ e \in DynInst /\ Current \in Decoded /\ Current \in Num
      /\ insts \in Seq(DynInst)
  BY <1>1, CurrentIn DEF IInv, TypeOK
<1>3. phase' \in {"push", "crashed"} /\ UNCHANGED Elsewhere /\ UNCHANGED branch
  BY <1>1, <1>2
<1> DEFINE Chosen(state) ==
      LET fault == state = "Failed"
          sent == state \in {"SentToCache", "Complete"}
          box == CASE sent /\ MayPushMemReq -> "MEMORY"
                   [] state \in {"Failed", "Error"} ->
                        TargetBox([e EXCEPT !.fault = fault])
                   [] OTHER -> NoBox
          dropped == state = "Error" /\ ~HasSlot(box)
      IN  /\ insts' = [insts EXCEPT
                         ![Current].fault = fault,
                         ![Current].req = IF dropped THEN "NotIssued" ELSE state]
          /\ dcache' = Track(Current, state)
          /\ IF HasSlot(box) THEN Leave(box) ELSE KeepInFlight
<1>4. PICK state \in IF Initiates(e) THEN InitiateMemAccess ELSE {e.req} : Chosen(state)
  BY DEF PushMemRef
<1>5. state \in RequestState /\ (e.req = "NotIssued" \/ e.req = state)
  <2>1. e.req \in RequestState
    BY <1>2 DEF DynInst
  <2>2. QED BY <2>1 DEF Initiates, InitiateMemAccess, Translated, SendTimingMemReq,
                        RequestState
<1> DEFINE f == state = "Failed"
           box == CASE state \in {"SentToCache", "Complete"} /\ MayPushMemReq -> "MEMORY"
                    [] state \in {"Failed", "Error"} -> TargetBox([e EXCEPT !.fault = f])
                    [] OTHER -> NoBox
           r == IF state = "Error" /\ ~HasSlot(box) THEN "NotIssued" ELSE state
           d == [e EXCEPT !.fault = f, !.req = r]
<1>6. /\ insts' = [insts EXCEPT ![Current].fault = f, ![Current].req = r]
      /\ dcache' = Track(Current, state)
      /\ HasSlot(box) => Leave(box)
      /\ ~HasSlot(box) => KeepInFlight
  BY <1>4
<1>7. /\ HasSlot(box) => /\ box \in Box
                         /\ state \in {"SentToCache", "Complete", "Failed", "Error"}
  <2>1. ~HasSlot(NoBox)
    BY DEF HasSlot
  <2>2. HasSlot(TargetBox([e EXCEPT !.fault = f])) => TargetBox([e EXCEPT !.fault = f]) \in Box
    BY TargetIn
  <2>3. "MEMORY" \in Box
    BY DEF Box
  <2>4. CASE state \in {"SentToCache", "Complete"}
    BY <2>1, <2>3, <2>4
  <2>5. CASE state \in {"Failed", "Error"}
    BY <2>2, <2>5
  <2>6. CASE state \notin {"SentToCache", "Complete", "Failed", "Error"}
    BY <2>1, <2>6
  <2>7. QED BY <2>4, <2>5, <2>6
<1> HIDE DEF box, Chosen
<1>8. /\ r \in RequestState /\ r \in {"NotIssued", state} /\ f \in BOOLEAN
      /\ HasSlot(box) => r = state
      /\ dcache' = Track(Current, r)
  <2>1. Track(Current, "Error") = Track(Current, "NotIssued")
    BY DEF Track
  <2>2. r = state \/ (state = "Error" /\ r = "NotIssued" /\ ~HasSlot(box))
    OBVIOUS
  <2>3. "NotIssued" \in RequestState
    BY DEF RequestState
  <2> HIDE DEF r
  <2>4. QED BY <1>5, <1>6, <2>1, <2>2, <2>3
<1>9. Becomes(d) /\ d.fault = f /\ d.req = r /\ d.opens = e.opens
  <2>1. insts' = [insts EXCEPT ![Current].fault = f, ![Current].req = r]
    BY <1>6
  <2> HIDE DEF f, r
  <2>2. QED BY <1>1, <1>8, <2>1, BecomesFaulty
<1> HIDE DEF d, r
<1>10. /\ execute' \in ExecuteFields /\ execute'.streamSeqNum = execute.streamSeqNum
       /\ ~HasSlot(box) => Stays(d)
       /\ HasSlot(box) => Leaves(d)
  <2>1. CASE ~HasSlot(box)
    BY <1>1, <1>6, <2>1, KeepsInFlight
  <2>2. CASE HasSlot(box)
    <3>1. Put(box) /\ execute' = Erased(execute) /\ units' = Released /\ box \in Box
      BY <1>6, <1>7, <2>2 DEF Leave
    <3>2. /\ execute' \in ExecuteFields /\ execute'.streamSeqNum = execute.streamSeqNum
          /\ execute'.inFlight = Seqs!RemoveAt(execute.inFlight, execute.at)
      BY <1>1, <3>1, ErasedFields
    <3>3. ~d.fault => d.req \in Sent
      BY <1>7, <1>8, <1>9, <2>2 DEF Sent
    <3>4. QED BY <1>1, <2>2, <3>1, <3>2, <3>3 DEF Leaves
  <2>3. QED BY <2>1, <2>2
<1>11. TracksRequest(d)
  <2>1. r \in {"InTranslation", "WaitingRetry"} => ~HasSlot(box) /\ ~f
    BY <1>7, <1>8
  <2>2. /\ e.req \in {"NotIssued", "Error"} \/ r = e.req
        /\ r = "Error" => e.req = "Error"
    <3>1. state \in InitiateMemAccess => state # "Error"
      BY DEF InitiateMemAccess, Translated, SendTimingMemReq
    <3>2. e.req = state \/ (e.req = "NotIssued" /\ state \in InitiateMemAccess)
      BY DEF Initiates
    <3>3. QED BY <3>1, <3>2 DEF r
  <2>3. QED BY <1>1, <1>8, <1>9, <1>10, <2>1, <2>2 DEF TracksRequest
<1>12. SameStream(d)
  BY <1>3, <1>9, <1>10 DEF SameStream
<1>13. PushStep(d)
  BY <1>2, <1>3, <1>9, <1>10, <1>11, <1>12 DEF PushStep
<1>14. QED BY <1>13

(* A result in BASE, TRAP, MBOX, FBOX or MEMORY takes the slot reserved    *)
(* for it, one more in its latch.                                          *)
LEMMA PutKeeps ==
  ASSUME IInv, NEW c \in Num, NEW box \in Box,
         eTo' = [eTo EXCEPT ![box] = Append(@, c)],
         isb' = [isb EXCEPT ![box] = ReserveEntry(@)],
         phase' # "execute"
  PROVE  /\ eTo' \in [Box \cup {"ORDER"} -> Seq(Num)]
         /\ isb' \in [Box \cup {"ORDER"} -> IsbOf(Num)]
         /\ MemoryBuffers'
         /\ eTo'["ORDER"] = eTo["ORDER"] /\ isb'["ORDER"] = isb["ORDER"]
         /\ \A b \in Box : /\ Ids(eTo'[b]) \subseteq Ids(eTo[b]) \cup {c}
                           /\ Fewer(isb'[b], isb[b])
<1> DEFINE BO == Box \cup {"ORDER"}
           q == Append(eTo[box], c)
           i == ReserveEntry(isb[box])
<1>1. /\ eTo \in [BO -> Seq(Num)] /\ isb \in [BO -> IsbOf(Num)] /\ box \in BO
      /\ box # "ORDER"
      /\ \A b \in BO : isb[b].reserved = Len(eTo[b]) /\ Tally(isb[b])
      /\ Len(eTo["ORDER"]) <= 1
  BY DEF IInv, TypeOK, MemoryBuffers, Box
<1>2. /\ q \in Seq(Num) /\ Len(q) = Len(eTo[box]) + 1 /\ Ids(q) = Ids(eTo[box]) \cup {c}
  BY <1>1, AppendIds
<1>3. /\ i \in IsbOf(Num) /\ Tally(i) /\ Fewer(i, isb[box])
      /\ i.reserved = isb[box].reserved + 1
  BY <1>1, ReserveEntryKeeps
<1>4. /\ eTo' = [eTo EXCEPT ![box] = q] /\ isb' = [isb EXCEPT ![box] = i]
  OBVIOUS
<1> HIDE DEF q, i
<1>5. /\ eTo' \in [BO -> Seq(Num)] /\ isb' \in [BO -> IsbOf(Num)]
  BY <1>1, <1>2, <1>3, <1>4
<1>6. /\ eTo'[box] = q /\ isb'[box] = i
      /\ \A b \in BO : b # box => eTo'[b] = eTo[b] /\ isb'[b] = isb[b]
  BY <1>1, <1>4
<1>7. \A b \in BO : isb'[b].reserved = Len(eTo'[b]) /\ Tally(isb'[b])
  BY <1>1, <1>2, <1>3, <1>6
<1>8. eTo'["ORDER"] = eTo["ORDER"] /\ isb'["ORDER"] = isb["ORDER"]
  BY <1>1, <1>6
<1>9. MemoryBuffers'
  BY <1>1, <1>7, <1>8 DEF MemoryBuffers
<1>10. \A b \in Box : /\ Ids(eTo'[b]) \subseteq Ids(eTo[b]) \cup {c}
                      /\ Fewer(isb'[b], isb[b])
  BY <1>2, <1>3, <1>6 DEF Fewer
<1>11. QED BY <1>5, <1>8, <1>9, <1>10

(* A step of trytoPush() keeps what is said of the buffers, ...            *)
LEMMA PushKeepsBuffers ==
  ASSUME IInv, NEW d, PushStep(d)
  PROVE  /\ eTo' \in [Box \cup {"ORDER"} -> Seq(Num)]
         /\ isb' \in [Box \cup {"ORDER"} -> IsbOf(Num)]
         /\ MemoryBuffers'
         /\ eTo'["ORDER"] = eTo["ORDER"] /\ isb'["ORDER"] = isb["ORDER"]
         /\ \A n : Past(n)' =>
              Past(n) \/ (n = Current /\ (Leaves(d) \/ d.fault))
<1>1. /\ phase' # "execute" /\ phase # "execute" /\ Pushing
      /\ Stays(d) \/ Leaves(d)
      /\ UNCHANGED <<mTo, retired>>
  BY Named DEF PushStep, Elsewhere, Pushing, IInv
<1>2. Current \in Num
  BY <1>1, CurrentIn
<1>3. CASE UNCHANGED <<eTo, isb>>
  <2>1. MemoryBuffers'
    BY <1>1, <1>3 DEF IInv, MemoryBuffers
  <2>2. \A n : Past(n)' => Past(n)
    BY <1>1, <1>3 DEF Past
  <2>3. QED BY <1>3, <2>1, <2>2 DEF IInv, TypeOK
<1>4. ASSUME NEW box \in Box, Put(box), Leaves(d) \/ d.fault
      PROVE  /\ eTo' \in [Box \cup {"ORDER"} -> Seq(Num)]
             /\ isb' \in [Box \cup {"ORDER"} -> IsbOf(Num)]
             /\ MemoryBuffers'
             /\ eTo'["ORDER"] = eTo["ORDER"] /\ isb'["ORDER"] = isb["ORDER"]
             /\ \A n : Past(n)' =>
                  Past(n) \/ (n = Current /\ (Leaves(d) \/ d.fault))
  <2>1. /\ eTo' = [eTo EXCEPT ![box] = Append(@, Current)]
        /\ isb' = [isb EXCEPT ![box] = ReserveEntry(@)]
    BY <1>4 DEF Put
  <2>2. /\ eTo' \in [Box \cup {"ORDER"} -> Seq(Num)]
        /\ isb' \in [Box \cup {"ORDER"} -> IsbOf(Num)]
        /\ MemoryBuffers'
        /\ eTo'["ORDER"] = eTo["ORDER"] /\ isb'["ORDER"] = isb["ORDER"]
        /\ \A b \in Box : /\ Ids(eTo'[b]) \subseteq Ids(eTo[b]) \cup {Current}
                          /\ Fewer(isb'[b], isb[b])
    BY <1>1, <1>2, <2>1, PutKeeps
  <2>3. \A n : Past(n)' => Past(n) \/ n = Current
    BY <1>1, <2>2 DEF Past, Fewer
  <2>4. QED BY <1>4, <2>2, <2>3
<1>5. \/ UNCHANGED <<eTo, isb>>
      \/ \E box \in Box : Put(box) /\ (Leaves(d) \/ d.fault)
  BY <1>1 DEF Stays, Leaves, Box
<1>6. QED BY <1>3, <1>4, <1>5

(* ... changes one instruction, which only ever becomes a fault, and takes *)
(* at most this one out of flight, ...                                     *)
LEMMA PushKeepsInsts ==
  ASSUME IInv, NEW d, PushStep(d)
  PROVE  /\ insts' \in Seq(DynInst) /\ Len(insts') = Len(insts) /\ Decoded' = Decoded
         /\ insts'[Current] = d
         /\ \A m \in Decoded : m # Current => insts'[m] = insts[m]
         /\ \A m \in Decoded :
              /\ insts'[m].op = insts[m].op /\ insts'[m].stream = insts[m].stream
              /\ insts'[m].fu = insts[m].fu /\ insts'[m].dsts = insts[m].dsts
              /\ insts[m].fault => insts'[m].fault
              /\ IsFree(insts[m]) => IsFree(insts'[m])
         /\ ToIssue' = ToIssue /\ Arriving' = Arriving
         /\ Increasing(execute'.inFlight)
         /\ Ids(execute'.inFlight) \subseteq Ids(execute.inFlight)
         /\ Stays(d) => Ids(execute'.inFlight) = Ids(execute.inFlight)
         /\ Leaves(d) => Ids(execute'.inFlight) = Ids(execute.inFlight) \ {Current}
         /\ Stays(d) \/ Leaves(d)
         /\ Current \in Ids(execute.inFlight) /\ Current \in Decoded
         /\ insts[Current] \in DynInst /\ insts[Current].opens = 0
<1>1. Pushing /\ Becomes(d) /\ (Stays(d) \/ Leaves(d))
  BY Named DEF PushStep, Pushing, IInv
<1>2. /\ Current \in Decoded /\ d \in DynInst /\ insts' = [insts EXCEPT ![Current] = d]
      /\ d.op = insts[Current].op /\ d.stream = insts[Current].stream
      /\ d.fu = insts[Current].fu /\ d.dsts = insts[Current].dsts
      /\ insts[Current].fault => d.fault
      /\ Current \in Ids(execute.inFlight) /\ insts[Current].opens = 0
      /\ insts[Current] \in DynInst
  BY <1>1, CurrentIn DEF Becomes
<1> DEFINE c == Current
<1> HIDE DEF c
<1>3. /\ insts' \in Seq(DynInst) /\ Len(insts') = Len(insts) /\ Decoded' = Decoded
      /\ insts'[c] = d /\ \A m \in Decoded : m # c => insts'[m] = insts[m]
  <2>1. c \in Decoded /\ d \in DynInst /\ insts' = [insts EXCEPT ![c] = d]
    BY <1>2 DEF c
  <2> HIDE DEF DynInst
  <2>2. QED BY <2>1, OneInstChanges DEF IInv
<1>4. \A m \in Decoded :
        /\ insts'[m].op = insts[m].op /\ insts'[m].stream = insts[m].stream
        /\ insts'[m].fu = insts[m].fu /\ insts'[m].dsts = insts[m].dsts
        /\ insts[m].fault => insts'[m].fault
        /\ IsFree(insts[m]) => IsFree(insts'[m])
  BY <1>2, <1>3 DEF IsFree, c
<1>5. ToIssue' = ToIssue /\ Arriving' = Arriving
  BY DEF PushStep, Elsewhere, ToIssue, Arriving
<1>6. /\ Increasing(execute'.inFlight)
      /\ Stays(d) => Ids(execute'.inFlight) = Ids(execute.inFlight)
      /\ Leaves(d) => Ids(execute'.inFlight) = Ids(execute.inFlight) \ {c}
  <2>1. /\ Increasing(execute.inFlight) /\ execute.inFlight \in Seq(Num)
        /\ Num \in SUBSET Nat /\ execute.at \in 1 .. Len(execute.inFlight)
    BY <1>1, Named, CurrentIn DEF IInv, Flight
  <2>2. LET r == Seqs!RemoveAt(execute.inFlight, execute.at)
        IN  Increasing(r) /\ Ids(r) = Ids(execute.inFlight) \ {execute.inFlight[execute.at]}
    BY <2>1, RemoveAtIds
  <2>3. CASE Stays(d) /\ ~Leaves(d)
    BY <2>1, <2>3 DEF Stays
  <2>4. CASE Leaves(d)
    <3>1. /\ Increasing(execute'.inFlight)
          /\ Ids(execute'.inFlight) = Ids(execute.inFlight) \ {c}
      BY <2>2, <2>4 DEF Leaves, Current, c
    <3>2. CASE Stays(d)
      <4>1. execute'.inFlight = execute.inFlight
        BY <3>2 DEF Stays
      <4>2. QED BY <3>1, <4>1
    <3>3. QED BY <2>4, <3>1, <3>2
  <2>5. QED BY <1>1, <2>3, <2>4
<1>7. QED BY <1>1, <1>2, <1>3, <1>4, <1>5, <1>6 DEF c

(* ... leaves every unit with what is in it, ...                           *)
LEMMA PushKeepsUnits ==
  ASSUME IInv, NEW d, PushStep(d)
  PROVE  /\ units' \in [Unit -> UnitFields] /\ UnitsKept' /\ FlightInUnits'
         /\ \A u \in Unit :
              /\ units'[u].pipe = units[u].pipe
              /\ units[u].stalled /\ UnitFront(units[u]) # Current => units'[u].stalled
              /\ Stays(d) => units'[u] = units[u]
<1> DEFINE c == Current
           v == insts[c].fu
<1>1. /\ TypeOK /\ UnitsKept /\ units \in [Unit -> UnitFields]
      /\ Pushing /\ c \in Decoded /\ c \in Ids(execute.inFlight)
      /\ Decoded' = Decoded /\ Len(insts') = Len(insts)
      /\ Decoded \subseteq Num /\ Num \subseteq Nat \ {0}
      /\ Ids(execute.inFlight) \subseteq Decoded
      /\ Ids(execute'.inFlight) \subseteq Ids(execute.inFlight)
      /\ Stays(d) => Ids(execute'.inFlight) = Ids(execute.inFlight)
      /\ Leaves(d) => Ids(execute'.inFlight) = Ids(execute.inFlight) \ {c}
      /\ ToIssue' = ToIssue
      /\ \A m \in Decoded :
           /\ insts'[m].fu = insts[m].fu /\ insts'[m].op = insts[m].op
           /\ insts[m].fault => insts'[m].fault
           /\ IsFree(insts[m]) => IsFree(insts'[m])
  <2>1. TypeOK /\ UnitsKept /\ units \in [Unit -> UnitFields] /\ Flight
    BY DEF IInv, TypeOK, UnitFields
  <2>2. /\ Decoded \subseteq Num /\ Num \subseteq Nat \ {0}
        /\ Ids(execute.inFlight) \subseteq Decoded /\ Len(execute.inFlight) \in Nat
    BY <2>1, Named DEF Flight, Decoded, Num
  <2>3. Pushing
    BY <2>2 DEF PushStep, Pushing
  <2>4. QED BY <2>1, <2>2, <2>3, PushKeepsInsts
<1>2. \/ Stays(d) /\ units' = units
      \/ /\ Leaves(d) /\ AtHead(c) /\ ~IsFree(insts[c])
         /\ units' = [units EXCEPT ![v].stalled = FALSE] /\ v \in Unit
      \/ Leaves(d) /\ IsFree(insts[c]) /\ units' = units
  BY <1>1, CurrentIn DEF PushStep, Stays, Leaves, Released
<1> HIDE DEF c
<1>3. /\ units' \in [Unit -> UnitFields]
      /\ \A u \in Unit : /\ units'[u].pipe = units[u].pipe
                         /\ u # v => units'[u] = units[u]
                         /\ units'[u] = units[u] \/ ~units'[u].stalled
  <2>1. CASE units' = units
    BY <1>1, <2>1
  <2>2. CASE units' = [units EXCEPT ![v].stalled = FALSE] /\ v \in Unit
    <3> DEFINE g == [units[v] EXCEPT !.stalled = FALSE]
    <3> HIDE DEF v
    <3>1. g \in UnitFields /\ g.pipe = units[v].pipe /\ ~g.stalled
      BY <1>1, <2>2 DEF UnitFields
    <3>2. units' = [units EXCEPT ![v] = g]
      BY <2>2
    <3> HIDE DEF g
    <3>3. QED BY <1>1, <2>2, <3>1, <3>2
  <2>3. QED BY <1>2, <2>1, <2>2
<1>4. ASSUME NEW u \in Unit
      PROVE  /\ UnitKept(units[u], u)'
             /\ units[u].stalled /\ UnitFront(units[u]) # c => units'[u].stalled
  <2> DEFINE f == units[u]
             p == f.pipe
             L == Len(p)
             g == units'[u]
  <2>1. /\ UnitKept(f, u) /\ L \in Nat /\ L > 1 /\ g.pipe = p
        /\ \A i \in 1 .. L : p[i] # NoInst => p[i] \in Decoded
    BY <1>1, <1>3, UnitNamed
  <2>2. UnitFront(f) = p[L] /\ UnitFront(g) = p[L] /\ L \in 1 .. L
    BY <2>1 DEF UnitFront
  <2>3. /\ L = FuncUnits[u].opLat + 1
        /\ \A i \in 1 .. L : p[i] # NoInst =>
             /\ p[i] <= Len(insts) /\ insts[p[i]].fu = u
             /\ \A m \in ToIssue : p[i] < m
             /\ \/ i = L
                \/ p[i] \in Ids(execute.inFlight)
                \/ insts[p[i]].fault
        /\ \A i, j \in 1 .. L : i < j /\ p[i] # NoInst /\ p[j] # NoInst => p[j] < p[i]
        /\ f.stalled => /\ p[L] # NoInst
                        /\ p[L] \in Ids(execute.inFlight) \/ insts[p[L]].fault
        /\ ~f.stalled /\ p[L] \in Ids(execute.inFlight) => IsFree(insts[p[L]])
    BY <2>1, <2>2 DEF UnitKept
  <2> HIDE DEF f, p, L, g
  (* If c was taken out of flight, it was at the head or is a fault.       *)
  <2>4. ASSUME NEW i \in 1 .. L, p[i] = c, c \notin Ids(execute'.inFlight), p[i] # NoInst
        PROVE  /\ i = L \/ insts'[c].fault
               /\ insts'[c].fault \/ ~g.stalled
    <3>1. Leaves(d) /\ u = v /\ insts[c].fu = u
      BY <1>1, <1>2, <2>3, <2>4 DEF v
    <3>2. CASE IsFree(insts[c])
      <4>1. u # 0 /\ IssuedToCapable
        BY Pool DEF IInv
      <4>2. insts[c].fault
        BY <1>1, <3>1, <3>2, <4>1 DEF IssuedToCapable, IsFree
      <4>3. QED BY <1>1, <4>2
    <3>3. CASE ~IsFree(insts[c])
      <4>1. AtHead(c) /\ ~g.stalled
        <5>1. units' = [units EXCEPT ![v].stalled = FALSE] /\ AtHead(c)
          <6>1. CASE Stays(d)
            BY <1>1, <2>4, <6>1
          <6>2. CASE ~Stays(d)
            BY <1>2, <3>3, <6>2
          <6>3. QED BY <6>1, <6>2
        <5>2. QED BY <1>1, <3>1, <5>1 DEF UnitFields, g
      <4>2. p[L] = c
        BY <2>2, <3>1, <4>1 DEF AtHead, f
      <4>3. i = L
        <5>1. CASE i < L
          <6>1. p[L] < p[i]
            BY <2>2, <2>3, <2>4, <4>2, <5>1
          <6>2. c \in Nat
            BY <1>1
          <6>3. QED BY <2>4, <4>2, <6>1, <6>2
        <5>2. i \in Nat /\ i <= L /\ L \in Nat
          BY <2>1
        <5>3. QED BY <5>1, <5>2
      <4>4. QED BY <4>1, <4>3
    <3>4. QED BY <3>2, <3>3
  <2>5. \A n \in Ids(execute.inFlight) : n \in Ids(execute'.inFlight) \/ n = c
    BY <1>1, <1>2
  <2>6. \A i \in 1 .. L : p[i] # NoInst =>
          /\ p[i] <= Len(insts') /\ insts'[p[i]].fu = u
          /\ \A m \in ToIssue' : p[i] < m
          /\ \/ i = L
             \/ p[i] \in Ids(execute'.inFlight)
             \/ insts'[p[i]].fault
    BY <1>1, <2>1, <2>3, <2>4, <2>5 DEF p, L, f
  <2>7. g.stalled => /\ p[L] # NoInst
                     /\ p[L] \in Ids(execute'.inFlight) \/ insts'[p[L]].fault
    <3>1. g.stalled => f.stalled
      BY <1>3 DEF f, g
    <3>2. p[L] # NoInst => p[L] \in Decoded
      BY <2>1, <2>2 DEF p, L, f
    <3>3. QED BY <1>1, <2>2, <2>3, <2>4, <2>5, <3>1, <3>2
  <2>8. ~g.stalled /\ p[L] \in Ids(execute'.inFlight) => IsFree(insts'[p[L]])
    <3>1. CASE g = f
      BY <1>1, <2>3, <3>1
    <3>2. CASE g # f
      <4>1. u = v /\ Leaves(d) /\ AtHead(c)
        BY <1>2, <1>3, <3>2 DEF f, g
      <4>2. p[L] = c /\ c \notin Ids(execute'.inFlight)
        BY <1>1, <2>2, <4>1 DEF AtHead, f, v
      <4>3. QED BY <4>2
    <3>3. QED BY <3>1, <3>2
  <2>9. UnitKept(units[u], u)'
    <3>1. UnitKept(units[u], u)' <=>
            /\ Len(g.pipe) = FuncUnits[u].opLat + 1
            /\ \A i \in 1 .. Len(g.pipe) : g.pipe[i] # NoInst =>
                 /\ g.pipe[i] <= Len(insts') /\ insts'[g.pipe[i]].fu = u
                 /\ \A m \in ToIssue' : g.pipe[i] < m
                 /\ \/ i = Len(g.pipe)
                    \/ g.pipe[i] \in Ids(execute'.inFlight)
                    \/ insts'[g.pipe[i]].fault
            /\ \A i, j \in 1 .. Len(g.pipe) :
                 i < j /\ g.pipe[i] # NoInst /\ g.pipe[j] # NoInst => g.pipe[j] < g.pipe[i]
            /\ g.stalled => /\ UnitFront(g) # NoInst
                            /\ \/ UnitFront(g) \in Ids(execute'.inFlight)
                               \/ insts'[UnitFront(g)].fault
            /\ ~g.stalled /\ UnitFront(g) \in Ids(execute'.inFlight)
                 => IsFree(insts'[UnitFront(g)])
      BY DEF UnitKept, g, UnitFront, IsFree
    <3>2. g.pipe = p /\ Len(p) = L
      BY <2>1 DEF L, p, f, g
    <3>3. QED BY <2>2, <2>3, <2>6, <2>7, <2>8, <3>1, <3>2
  <2>10. f.stalled /\ UnitFront(f) # c => g.stalled
    <3>1. CASE g = f
      BY <3>1
    <3>2. CASE g # f
      <4>1. u = v /\ AtHead(c)
        BY <1>2, <1>3, <3>2 DEF f, g
      <4>2. QED BY <2>2, <4>1 DEF AtHead, f, v
    <3>3. QED BY <3>1, <3>2
  <2>11. QED BY <2>9, <2>10 DEF f, g
<1>5. FlightInUnits'
  <2>1. ASSUME NEW n \in Ids(execute'.inFlight), ~IsFree(insts'[n])
        PROVE  n \in Ids(units'[insts'[n].fu].pipe)
    <3>1. n \in Ids(execute.inFlight) /\ n \in Decoded /\ ~IsFree(insts[n])
      BY <1>1, <2>1
    <3>2. n \in Ids(units[insts[n].fu].pipe) /\ insts[n].fu # 0
      BY <3>1 DEF IInv, FlightInUnits, Flight
    <3>3. insts[n].fu \in Unit
      BY <1>1, <3>1, <3>2, Named DEF DynInst
    <3>4. insts'[n].fu = insts[n].fu /\ units'[insts[n].fu].pipe = units[insts[n].fu].pipe
      BY <1>1, <1>3, <3>1, <3>3
    <3>5. QED BY <3>2, <3>4
  <2>2. QED BY <2>1 DEF FlightInUnits, IsFree
<1>6. UnitsKept'
  BY <1>4 DEF UnitsKept
<1>7. \A u \in Unit : Stays(d) => units'[u] = units[u]
  BY DEF Stays
<1>8. QED BY <1>3, <1>4, <1>5, <1>6, <1>7 DEF c

(* ... and knows of every request where it is.                             *)
LEMMA PushKeepsRequests ==
  ASSUME IInv, NEW d, PushStep(d)
  PROVE  /\ RequestsTracked'
         /\ dcache' \in [dtlb : SUBSET Num, cache : SUBSET Num,
                         retryRequest : {0} \cup Num, owesRetry : BOOLEAN]
<1> DEFINE c == Current
           F == Ids(execute.inFlight)
           G == Ids(execute'.inFlight)
<1>1. /\ TypeOK /\ RequestsTracked /\ Decoded \subseteq Num /\ Num \subseteq Nat \ {0}
      /\ dcache \in [dtlb : SUBSET Num, cache : SUBSET Num,
                     retryRequest : {0} \cup Num, owesRetry : BOOLEAN]
      /\ Decoded = 1 .. Len(insts) /\ Len(insts) \in Nat
  BY Named DEF IInv, TypeOK, Decoded
<1>2. /\ c \in Decoded /\ c \in F /\ d.op = insts[c].op /\ d.fu = insts[c].fu
      /\ insts[c].fault => d.fault
      /\ Decoded' = Decoded /\ Len(insts') = Len(insts) /\ insts'[c] = d
      /\ \A m \in Decoded : m # c => insts'[m] = insts[m]
      /\ Stays(d) => G = F
      /\ Leaves(d) => G = F \ {c}
      /\ Stays(d) \/ Leaves(d)
      /\ Leaves(d) /\ d.op \in MemOp /\ ~d.fault => d.req \in Sent
      /\ TracksRequest(d)
  BY PushKeepsInsts DEF PushStep, Becomes, Leaves
<1>3. /\ ~IsFree(insts[c]) => insts[c].fu \in Unit
      /\ insts[c].req # "NotIssued" => insts[c].op \in MemOp
  <2>1. Len(execute.inFlight) \in Nat
    BY <1>1, Named
  <2>2. Pushing
    BY <2>1 DEF PushStep, Pushing
  <2>3. QED BY <2>2, CurrentIn
<1>4. \/ UNCHANGED dcache /\ d.req = insts[c].req
      \/ /\ insts[c].op \in MemOp /\ dcache' = Track(c, d.req)
         /\ insts[c].req = "WaitingRetry" => d.req = "WaitingRetry"
  BY <1>2 DEF TracksRequest
<1>5. d.req \in {"InTranslation", "WaitingRetry"} =>
        /\ ~d.fault /\ c \in G
        /\ units'[d.fu].stalled /\ UnitFront(units'[d.fu]) = c
  <2> SUFFICES ASSUME d.req \in {"InTranslation", "WaitingRetry"}
               PROVE  /\ ~d.fault /\ c \in G
                      /\ units'[d.fu].stalled /\ UnitFront(units'[d.fu]) = c
    OBVIOUS
  <2>1. ~d.fault /\ AtHead(c) /\ Stays(d) /\ ~IsFree(insts[c])
    BY <1>2 DEF TracksRequest
  <2>2. c \in G /\ units' = units
    BY <1>2, <2>1 DEF Stays
  <2>3. insts[c].fu \in Unit /\ UnitFront(units[insts[c].fu]) = c
    BY <1>3, <2>1 DEF AtHead
  <2>4. units[insts[c].fu].stalled
    BY <1>2, <2>1, <2>3 DEF IInv, UnitsKept, UnitKept
  <2>5. QED BY <1>2, <2>1, <2>2, <2>3, <2>4
<1>6. \A n \in Decoded : n # c /\ insts[n].req \in {"InTranslation", "WaitingRetry"} =>
        /\ n \in G /\ ~insts[n].fault
        /\ units'[insts[n].fu].stalled /\ UnitFront(units'[insts[n].fu]) = n
  <2> SUFFICES ASSUME NEW n \in Decoded, n # c,
                      insts[n].req \in {"InTranslation", "WaitingRetry"}
               PROVE  /\ n \in G /\ ~insts[n].fault
                      /\ units'[insts[n].fu].stalled
                      /\ UnitFront(units'[insts[n].fu]) = n
    OBVIOUS
  <2>1. /\ n \in F /\ ~insts[n].fault /\ units[insts[n].fu].stalled
        /\ UnitFront(units[insts[n].fu]) = n /\ insts[n].op \in MemOp
    BY <1>1 DEF RequestsTracked
  <2>2. insts[n].fu \in Unit
    <3>1. ~IsFree(insts[n])
      BY <2>1 DEF IsFree, MemOp
    <3>2. insts[n].fu # 0 /\ insts[n] \in DynInst
      BY <1>1, <2>1, <3>1, Named DEF IInv, Flight
    <3>3. QED BY <3>2 DEF DynInst
  <2>3. /\ units'[insts[n].fu].pipe = units[insts[n].fu].pipe
        /\ units'[insts[n].fu].stalled
    BY <2>1, <2>2, PushKeepsUnits
  <2>4. n \in G
    BY <1>2, <2>1
  <2>5. QED BY <2>1, <2>3, <2>4 DEF UnitFront
<1>7. dcache' \in [dtlb : SUBSET Num, cache : SUBSET Num,
                   retryRequest : {0} \cup Num, owesRetry : BOOLEAN]
  BY <1>1, <1>2, <1>4, TrackIn
<1> HIDE DEF c, F, G
<1>8. /\ \A n \in dcache'.dtlb : n <= Len(insts') /\ insts'[n].req = "InTranslation"
      /\ \A n \in dcache'.cache : n <= Len(insts') /\ insts'[n].req = "SentToCache"
      /\ dcache'.owesRetry <=> dcache'.retryRequest # 0
      /\ dcache'.owesRetry => /\ dcache'.retryRequest <= Len(insts')
                              /\ insts'[dcache'.retryRequest].req = "WaitingRetry"
  <2>1. /\ dcache.dtlb \subseteq Decoded /\ dcache.cache \subseteq Decoded
        /\ dcache.owesRetry => dcache.retryRequest \in Decoded
        /\ \A n \in dcache.dtlb : insts[n].req = "InTranslation"
        /\ \A n \in dcache.cache : insts[n].req = "SentToCache"
        /\ dcache.owesRetry <=> dcache.retryRequest # 0
        /\ dcache.owesRetry => insts[dcache.retryRequest].req = "WaitingRetry"
    <3>1. \A n \in Num : n <= Len(insts) => n \in Decoded
      BY <1>1
    <3> HIDE DEF Num
    <3>2. QED BY <1>1, <3>1 DEF RequestsTracked
  <2>2. \A n \in Decoded : n <= Len(insts')
    BY <1>1, <1>2
  <2>3. c # 0
    BY <1>1, <1>2
  <2>4. CASE UNCHANGED dcache /\ d.req = insts[c].req
    BY <1>2, <2>1, <2>2, <2>4
  <2>5. CASE /\ dcache' = Track(c, d.req)
             /\ insts[c].req = "WaitingRetry" => d.req = "WaitingRetry"
    <3>1. /\ dcache'.dtlb = IF d.req = "InTranslation" THEN dcache.dtlb \cup {c}
                            ELSE dcache.dtlb \ {c}
          /\ dcache'.cache = IF d.req = "SentToCache" THEN dcache.cache \cup {c}
                             ELSE dcache.cache \ {c}
          /\ dcache'.retryRequest = IF d.req = "WaitingRetry" THEN c ELSE dcache.retryRequest
          /\ dcache'.owesRetry <=> d.req = "WaitingRetry" \/ dcache.owesRetry
      BY <2>5 DEF Track
    <3>2. QED BY <1>2, <2>1, <2>2, <2>3, <2>5, <3>1
  <2>6. QED BY <1>4, <2>4, <2>5
<1>9. \A n \in Decoded' :
        /\ insts'[n].req # "NotIssued" => insts'[n].op \in MemOp
        /\ insts'[n].req \in {"InTranslation", "WaitingRetry"} =>
             /\ n \in G /\ ~insts'[n].fault
             /\ units'[insts'[n].fu].stalled
             /\ UnitFront(units'[insts'[n].fu]) = n
        /\ insts'[n].op \in MemOp /\ insts'[n].fu # 0 /\ ~insts'[n].fault
             => insts'[n].req \in Sent \/ n \in G
  <2>1. ASSUME NEW n \in Decoded, n # c
        PROVE  /\ insts[n].req # "NotIssued" => insts[n].op \in MemOp
               /\ insts[n].op \in MemOp /\ insts[n].fu # 0 /\ ~insts[n].fault
                    => insts[n].req \in Sent \/ n \in G
    BY <1>1, <1>2, <2>1 DEF RequestsTracked, F
  <2>2. /\ d.req # "NotIssued" => d.op \in MemOp
        /\ d.op \in MemOp /\ ~d.fault => d.req \in Sent \/ c \in G
    BY <1>2, <1>3, <1>4
  <2>3. QED BY <1>2, <1>5, <1>6, <2>1, <2>2
<1>10. QED BY <1>7, <1>8, <1>9 DEF RequestsTracked, G, UnitFront

(* A step of trytoPush() keeps the invariant.                              *)
LEMMA PushStepKeeps ==
  ASSUME IInv, NEW d, PushStep(d)
  PROVE  IInv'
<1> DEFINE c == Current
<1>1. /\ phase = "push" /\ phase' \in {"push", "crashed"}
      /\ execute' \in ExecuteFields /\ execute \in ExecuteFields
      /\ supply' = supply /\ dToE' = dToE /\ executeIn' = executeIn
      /\ renameId' = renameId /\ memStream' = memStream /\ mTo' = mTo
      /\ wb' = wb /\ regs' = regs /\ retired' = retired
      /\ SameStream(d) \/ OpensStream(d)
      /\ TypeOK
  BY DEF PushStep, Elsewhere, IInv, TypeOK, ExecuteFields
<1>2. /\ insts' \in Seq(DynInst) /\ Len(insts') = Len(insts) /\ Decoded' = Decoded
      /\ insts'[c] = d /\ \A m \in Decoded : m # c => insts'[m] = insts[m]
      /\ \A m \in Decoded :
           /\ insts'[m].op = insts[m].op /\ insts'[m].stream = insts[m].stream
           /\ insts'[m].fu = insts[m].fu
           /\ insts[m].fault => insts'[m].fault
           /\ IsFree(insts[m]) => IsFree(insts'[m])
      /\ ToIssue' = ToIssue /\ Arriving' = Arriving
      /\ Increasing(execute'.inFlight)
      /\ Ids(execute'.inFlight) \subseteq Ids(execute.inFlight)
      /\ Leaves(d) => Ids(execute'.inFlight) = Ids(execute.inFlight) \ {c}
      /\ Stays(d) \/ Leaves(d)
      /\ c \in Ids(execute.inFlight) /\ c \in Decoded /\ insts[c].opens = 0
      /\ insts[c].fault => d.fault
  BY PushKeepsInsts DEF PushStep, Becomes
<1>3. /\ eTo' \in [Box \cup {"ORDER"} -> Seq(Num)]
      /\ isb' \in [Box \cup {"ORDER"} -> IsbOf(Num)]
      /\ MemoryBuffers'
      /\ eTo'["ORDER"] = eTo["ORDER"] /\ isb'["ORDER"] = isb["ORDER"]
      /\ \A n : Past(n)' => Past(n) \/ (n = c /\ (Leaves(d) \/ d.fault))
  BY PushKeepsBuffers
<1>4. units' \in [Unit -> UnitFields] /\ UnitsKept' /\ FlightInUnits'
  BY PushKeepsUnits
<1>5. /\ RequestsTracked'
      /\ dcache' \in [dtlb : SUBSET Num, cache : SUBSET Num,
                      retryRequest : {0} \cup Num, owesRetry : BOOLEAN]
  BY PushKeepsRequests
<1> HIDE DEF c
<1>6. Chained' = Chained /\ Chained \subseteq Decoded
  BY <1>3, ChainedNamed DEF IInv, Chained
<1>7. /\ c \notin ToIssue /\ \A m \in ToIssue : c < m
      /\ c \in Nat /\ ToIssue \subseteq Decoded
      /\ Ids(execute.inFlight) \subseteq Decoded
  BY <1>2, <1>1, Named, ToIssueNamed DEF IInv, Flight, Decoded, Num
<1>8. /\ c \notin Opened
      /\ SameStream(d) => Opened' = Opened
      /\ OpensStream(d) => /\ Opened' = Opened \cup {c}
                           /\ execute'.streamSeqNum = execute.streamSeqNum + 1
                           /\ execute.streamSeqNum \in Nat
                           /\ execute.streamSeqNum + 1 \in Stream
                           /\ Cardinality(Opened \cup {c}) = Cardinality(Opened) + 1
  <2>1. c \notin Opened
    BY <1>2 DEF Opened
  <2>2. SameStream(d) => d.opens = 0
    BY <1>2 DEF SameStream, c
  <2>3. SameStream(d) => Opened' = Opened
    BY <1>2, <2>2 DEF Opened
  <2>4. /\ execute.streamSeqNum \in Nat
        /\ execute.streamSeqNum + 1 \in Stream
        /\ Cardinality(Opened \cup {c}) = Cardinality(Opened) + 1
    BY <1>2, <2>1, OneMoreOpened
  <2>5. OpensStream(d) => d.opens # 0 /\ execute'.streamSeqNum = execute.streamSeqNum + 1
    BY <2>4 DEF OpensStream
  <2>6. OpensStream(d) => Opened' = Opened \cup {c}
    BY <1>2, <2>5 DEF Opened
  <2>7. QED BY <2>1, <2>3, <2>4, <2>5, <2>6
<1>9. /\ branch' \in LatchOf(Stream)
      /\ Ids(branch'.in) \cup Ids(branch'.out)
           \subseteq Ids(branch.in) \cup Ids(branch.out) \cup {execute'.streamSeqNum}
  <2>1. branch \in LatchOf(Stream)
    BY <1>1 DEF TypeOK
  <2>2. CASE SameStream(d)
    BY <2>1, <2>2 DEF SameStream
  <2>3. CASE OpensStream(d)
    <3> DEFINE s == execute.streamSeqNum + 1
    <3>1. s \in Stream /\ execute'.streamSeqNum = s
      BY <1>8, <2>3
    <3>2. branch' = [branch EXCEPT !.in = <<s>>]
      BY <2>3 DEF OpensStream, Drive
    <3> HIDE DEF s
    <3>3. <<s>> \in Wire(Stream) /\ Ids(<<s>>) = {s}
      BY <3>1, IdsOfPacket DEF Wire
    <3>4. QED BY <2>1, <3>1, <3>2, <3>3 DEF LatchOf
  <2>4. QED BY <1>1, <2>2, <2>3
<1>10. TypeOK'
  BY <1>1, <1>2, <1>3, <1>4, <1>5, <1>9 DEF TypeOK, ExecuteFields, UnitFields
<1>11. WritebackBuffers'
  BY <1>1 DEF IInv, WritebackBuffers
<1>12. Conveyor'
  <2>1. \A n \in ToIssue : insts'[n] = insts[n]
    BY <1>2, <1>7
  <2>2. QED BY <1>1, <1>2, <2>1 DEF IInv, Conveyor
<1>13. Flight'
  <2>1. \A n \in Ids(execute'.inFlight) :
          /\ n <= Len(insts') /\ insts'[n].opens = 0
          /\ ~IsFree(insts'[n]) => insts'[n].fu # 0
          /\ \A m \in ToIssue : n < m
    <3>1. ASSUME NEW n \in Ids(execute'.inFlight)
          PROVE  /\ n \in Ids(execute.inFlight) /\ n \in Decoded
                 /\ insts'[n].opens = 0
      <4>1. n \in Ids(execute.inFlight) /\ n \in Decoded
        BY <1>2, <1>7
      <4>2. CASE n # c
        BY <1>2, <4>1, <4>2 DEF IInv, Flight
      <4>3. CASE n = c
        <5>1. ~OpensStream(d)
          BY <1>2, <3>1, <4>3 DEF OpensStream
        <5>2. SameStream(d)
          BY <1>1, <5>1
        <5>3. QED BY <1>2, <4>1, <4>3, <5>2 DEF SameStream, c
      <4>4. QED BY <4>1, <4>2, <4>3
    <3>2. QED BY <1>2, <3>1 DEF IInv, Flight
  <2>2. QED BY <1>2, <2>1 DEF Flight, IsFree
<1>14. IssuedToCapable'
  BY <1>2 DEF IInv, IssuedToCapable, Provides
<1>15. OrderKept'
  BY <1>2, <1>3 DEF IInv, OrderKept
<1>16. LeavesInOrder'
  BY <1>1, <1>2, <1>6 DEF IInv, LeavesInOrder
<1>17. PastExecute'
  <2>1. ASSUME NEW n \in Num, Past(n)'
        PROVE  /\ n <= Len(insts') /\ \A m \in ToIssue : n < m
               /\ n \in Ids(execute'.inFlight) => insts'[n].fault
    <3>1. CASE Past(n)
      <4>1. /\ n <= Len(insts) /\ \A m \in ToIssue : n < m
            /\ n \in Ids(execute.inFlight) => insts[n].fault
        BY <3>1 DEF IInv, PastExecute
      <4>2. QED BY <1>2, <1>7, <4>1
    <3>2. CASE n = c /\ (Leaves(d) \/ d.fault)
      <4>1. n <= Len(insts) /\ \A m \in ToIssue : n < m
        BY <1>2, <1>7, <3>2 DEF Decoded
      <4>2. QED BY <1>2, <3>2, <4>1
    <3>3. QED BY <1>3, <2>1, <3>1, <3>2
  <2>2. QED BY <1>2, <2>1 DEF PastExecute
<1>18. StreamsCounted'
  <2> DEFINE s == execute.streamSeqNum
             t == execute'.streamSeqNum
  <2>1. /\ s = FirstStream + Cardinality(Opened) /\ supply <= s
        /\ \A w \in Ids(branch.in) \cup Ids(branch.out) : w <= s
        /\ \A n \in Decoded : insts[n].stream <= n /\ insts[n].stream <= s
        /\ \A m, n \in Chained : m < n => insts[m].stream <= insts[n].stream
    BY DEF IInv, StreamsCounted
  <2>2. /\ supply \in Nat /\ s \in Nat /\ t \in Nat
        /\ Cardinality(Opened) \in Nat
        /\ \A n \in Decoded : insts[n].stream \in Nat
        /\ Ids(branch.in) \cup Ids(branch.out) \subseteq Nat
    <3>1. Stream \subseteq Nat
      BY Pool DEF Stream, FirstStream
    <3>2. branch.in \in Wire(Stream) /\ branch.out \in Wire(Stream) /\ supply \in Stream
      BY <1>1 DEF TypeOK, LatchOf
    <3>3. Ids(branch.in) \subseteq Stream /\ Ids(branch.out) \subseteq Stream
      BY <3>2, WireIds
    <3>4. \A n \in Decoded : insts[n].stream \in Stream
      BY <1>1, Named DEF DynInst
    <3>5. s \in Stream /\ t \in Stream
      BY <1>1 DEF ExecuteFields
    <3>6. QED BY <1>1, <3>1, <3>2, <3>3, <3>4, <3>5, OpenedCounted
  <2>3. t = FirstStream + Cardinality(Opened') /\ s <= t
    <3>1. CASE SameStream(d)
      BY <1>8, <2>1, <2>2, <3>1 DEF SameStream
    <3>2. CASE OpensStream(d)
      <4>1. t = s + 1 /\ Cardinality(Opened') = Cardinality(Opened) + 1
        BY <1>8, <3>2
      <4> HIDE DEF s, t
      <4>2. QED BY <2>1, <2>2, <4>1 DEF FirstStream
    <3>3. QED BY <1>1, <3>1, <3>2
  <2> HIDE DEF s, t
  <2>4. supply <= t /\ \A n \in Decoded : insts[n].stream <= t
    BY <2>1, <2>2, <2>3
  <2>5. \A w \in Ids(branch'.in) \cup Ids(branch'.out) : w <= t
    BY <1>9, <2>1, <2>2, <2>3 DEF t
  <2>6. \A n \in Decoded' : insts'[n].stream <= n /\ insts'[n].stream <= t
    BY <1>2, <2>1, <2>4
  <2>7. \A m, n \in Chained' : m < n => insts'[m].stream <= insts'[n].stream
    BY <1>2, <1>6, <2>1
  <2>8. QED BY <1>1, <2>3, <2>4, <2>5, <2>6, <2>7 DEF StreamsCounted, t
<1>19. QED BY <1>3, <1>4, <1>5, <1>10, <1>11, <1>12, <1>13, <1>14, <1>15, <1>16, <1>17,
              <1>18 DEF IInv

(* trytoPush() keeps the invariant.                                        *)
LEMMA PushKeeps ==
  ASSUME IInv, PushFree \/ NotReady \/ PushBranch \/ PushResult \/ PushMemRef
  PROVE  IInv'
<1>1. \E d : PushStep(d)
  BY PushFreeStep, NotReadyStep, PushBranchStep, PushResultStep, PushMemRefStep
<1>2. QED BY <1>1, PushStepKeeps
-----------------------------------------------------------------------------
(* The units and issue().                                                  *)

(* After the units have moved, what is in flight is still in its unit, and *)
(* what has come to the end of one is waited for.                          *)
LEMMA UnitsAdvance ==
  ASSUME IInv
  PROVE  /\ AdvancedUnits \in [Unit -> UnitFields]
         /\ \A u \in Unit :
              /\ UnitKept(AdvancedUnits[u], u)
              /\ units[u].stalled => /\ AdvancedUnits[u].stalled
                                     /\ UnitFront(AdvancedUnits[u]) = UnitFront(units[u])
         /\ \A n \in Ids(execute.inFlight) :
              ~IsFree(insts[n]) => n \in Ids(AdvancedUnits[insts[n].fu].pipe)
<1> DEFINE F == Ids(execute.inFlight)
<1>1. /\ TypeOK /\ UnitsKept /\ Flight /\ FlightInUnits
      /\ F \subseteq Num /\ Num \subseteq Nat \ {0}
  BY Named DEF IInv
<1> HIDE DEF F
<1>2. ASSUME NEW u \in Unit
      PROVE  /\ AdvancedUnits[u] \in UnitFields
             /\ UnitKept(AdvancedUnits[u], u)
             /\ units[u].stalled => /\ AdvancedUnits[u].stalled
                                    /\ UnitFront(AdvancedUnits[u]) = UnitFront(units[u])
             /\ \A n \in F : n \in Ids(units[u].pipe) /\ ~IsFree(insts[n])
                               => n \in Ids(AdvancedUnits[u].pipe)
  <2> DEFINE f == units[u]
             L == Len(f.pipe)
             g == AdvancedUnits[u]
  <2>1. /\ f \in UnitFields /\ UnitKept(f, u) /\ L \in Nat /\ L > 1
        /\ \A i \in 1 .. L : f.pipe[i] # NoInst => f.pipe[i] \in Decoded
    BY <1>1, UnitNamed
  <2>2. g = SkipCycle(f) \/ g = Advance(f, FuncUnits[u].issueLat)
    BY DEF AdvancedUnits
  <2>3. FuncUnits[u].issueLat \in Nat
    BY Pool
  <2>4. /\ g \in UnitFields /\ Len(g.pipe) = L
        /\ \/ g.pipe = f.pipe /\ g.stalled = f.stalled
           \/ /\ ~f.stalled /\ g.pipe[1] = NoInst
              /\ \A i \in 2 .. L : g.pipe[i] = f.pipe[i - 1]
              /\ g.stalled <=> g.pipe[L] # NoInst
    <3> HIDE DEF f, g
    <3>1. CASE g = SkipCycle(f)
      BY <2>1, <3>1, SkipCycleKeeps DEF L
    <3>2. CASE g = Advance(f, FuncUnits[u].issueLat)
      <4>1. f.stalled \in BOOLEAN /\ L = Len(f.pipe)
        BY <2>1 DEF UnitFields, L
      <4>2. /\ g \in UnitFields /\ Len(g.pipe) = Len(f.pipe)
            /\ f.stalled => g.pipe = f.pipe /\ g.stalled
            /\ ~f.stalled =>
                 /\ g.pipe[1] = NoInst
                 /\ \A i \in 2 .. Len(f.pipe) : g.pipe[i] = f.pipe[i - 1]
                 /\ g.stalled <=> g.pipe[Len(f.pipe)] # NoInst
        BY <2>1, <2>3, <3>2, AdvanceKeeps DEF L
      <4>3. g.stalled \in BOOLEAN
        BY <4>2 DEF UnitFields
      <4>4. CASE f.stalled
        <5>1. g.stalled = f.stalled
          BY <4>1, <4>2, <4>3, <4>4
        <5>2. QED BY <4>1, <4>2, <4>4, <5>1
      <4>5. CASE ~f.stalled
        BY <4>1, <4>2, <4>5
      <4>6. QED BY <4>4, <4>5
    <3>3. QED BY <2>2, <3>1, <3>2
  <2>5. UnitFront(f) = f.pipe[L] /\ UnitFront(g) = g.pipe[L] /\ L \in 1 .. L
    BY <2>1, <2>4 DEF UnitFront
  <2>6. /\ L = FuncUnits[u].opLat + 1
        /\ \A i \in 1 .. L : f.pipe[i] # NoInst =>
             /\ f.pipe[i] <= Len(insts) /\ insts[f.pipe[i]].fu = u
             /\ \A m \in ToIssue : f.pipe[i] < m
             /\ i = L \/ f.pipe[i] \in F \/ insts[f.pipe[i]].fault
        /\ \A i, j \in 1 .. L :
             i < j /\ f.pipe[i] # NoInst /\ f.pipe[j] # NoInst => f.pipe[j] < f.pipe[i]
        /\ f.stalled => /\ f.pipe[L] # NoInst
                        /\ f.pipe[L] \in F \/ insts[f.pipe[L]].fault
        /\ ~f.stalled /\ f.pipe[L] \in F => IsFree(insts[f.pipe[L]])
    BY <2>1, <2>5 DEF UnitKept, F
  <2> HIDE DEF f, g, L
  <2>7. CASE g.pipe = f.pipe /\ g.stalled = f.stalled
    <3>1. UnitKept(g, u)
      BY <2>1, <2>4, <2>5, <2>7 DEF UnitKept
    <3>2. QED BY <2>4, <2>5, <2>7, <3>1 DEF f, g
  <2>8. CASE /\ ~f.stalled /\ g.pipe[1] = NoInst
             /\ \A i \in 2 .. L : g.pipe[i] = f.pipe[i - 1]
             /\ g.stalled <=> g.pipe[L] # NoInst
    <3>1. \A i \in 1 .. L : g.pipe[i] # NoInst =>
            i - 1 \in 1 .. L /\ i - 1 < L /\ g.pipe[i] = f.pipe[i - 1]
      <4>1. \A i \in 1 .. L : i = 1 \/ i \in 2 .. L
        BY <2>1
      <4>2. QED BY <2>1, <2>8, <4>1
    <3>2. \A i \in 1 .. L : g.pipe[i] # NoInst =>
            /\ g.pipe[i] <= Len(insts) /\ insts[g.pipe[i]].fu = u
            /\ \A m \in ToIssue : g.pipe[i] < m
            /\ g.pipe[i] \in F \/ insts[g.pipe[i]].fault
      BY <2>6, <3>1
    <3>3. \A i, j \in 1 .. L :
            i < j /\ g.pipe[i] # NoInst /\ g.pipe[j] # NoInst => g.pipe[j] < g.pipe[i]
      <4> SUFFICES ASSUME NEW i \in 1 .. L, NEW j \in 1 .. L, i < j,
                          g.pipe[i] # NoInst, g.pipe[j] # NoInst
                   PROVE  g.pipe[j] < g.pipe[i]
        OBVIOUS
      <4>1. /\ i - 1 \in 1 .. L /\ j - 1 \in 1 .. L /\ i - 1 < j - 1
            /\ g.pipe[i] = f.pipe[i - 1] /\ g.pipe[j] = f.pipe[j - 1]
        BY <3>1
      <4>2. QED BY <2>6, <4>1
    <3>4. /\ g.stalled => g.pipe[L] # NoInst /\ (g.pipe[L] \in F \/ insts[g.pipe[L]].fault)
          /\ ~g.stalled /\ g.pipe[L] \in F => IsFree(insts[g.pipe[L]])
      <4>1. NoInst \notin F
        BY <1>1 DEF NoInst
      <4>2. QED BY <2>5, <2>8, <3>2, <4>1
    <3>5. UnitKept(g, u)
      BY <2>4, <2>5, <2>6, <3>2, <3>3, <3>4 DEF UnitKept, F
    <3>6. ASSUME NEW n \in F, n \in Ids(f.pipe), ~IsFree(insts[n])
          PROVE  n \in Ids(g.pipe)
      <4>1. PICK i \in 1 .. L : f.pipe[i] = n
        BY <3>6, IdsDef DEF L
      <4>2. i # L
        BY <2>6, <2>8, <3>6, <4>1
      <4>3. i + 1 \in 2 .. L /\ i + 1 - 1 = i
        BY <2>1, <4>2
      <4>4. g.pipe[i + 1] = n
        BY <2>8, <4>1, <4>3
      <4>5. i + 1 \in 1 .. Len(g.pipe)
        BY <2>1, <2>4, <4>3
      <4>6. QED BY <4>4, <4>5, IdsDef
    <3>7. QED BY <2>4, <2>8, <3>5, <3>6 DEF f, g
  <2>9. QED BY <2>4, <2>7, <2>8
<1>3. AdvancedUnits \in [Unit -> UnitFields]
  <2>1. AdvancedUnits = [u \in Unit |-> AdvancedUnits[u]]
    BY DEF AdvancedUnits
  <2>2. QED BY <1>2, <2>1
<1>4. \A n \in F : ~IsFree(insts[n]) => n \in Ids(AdvancedUnits[insts[n].fu].pipe)
  <2> SUFFICES ASSUME NEW n \in F, ~IsFree(insts[n])
               PROVE  n \in Ids(AdvancedUnits[insts[n].fu].pipe)
    OBVIOUS
  <2>1. insts[n].fu # 0 /\ n \in Ids(units[insts[n].fu].pipe) /\ n \in Decoded
    BY <1>1, Named DEF Flight, FlightInUnits, F, Decoded, Num
  <2>2. insts[n].fu \in Unit
    BY <1>1, <2>1, Named DEF DynInst
  <2>3. QED BY <1>2, <2>1, <2>2
<1>5. QED BY <1>2, <1>3, <1>4 DEF F

(* The front of the input buffer is the oldest of what is to be issued.    *)
LEMMA InputTaken ==
  ASSUME IInv, phase = "execute"
  PROVE  LET b == ExecuteInput
             c == PopInput(b)
         IN  /\ Pointed(b) /\ Ids(b.elem) \cup Ids(b.queue) \subseteq ToIssue
             /\ Pointed(c) /\ c.elem = Bubble /\ Ids(c.queue) \subseteq ToIssue
             /\ ~IsEmpty(b) => /\ Front(b) \in ToIssue
                               /\ \A m \in Ids(c.queue) : Front(b) < m
<1> DEFINE b == ExecuteInput
           c == PopInput(b)
<1>1. /\ executeIn \in BufferOf(Num) /\ dToE \in Wire(Num) /\ MaxInst \in Nat
      /\ Conveyor /\ Arriving = dToE
  BY Pool DEF IInv, TypeOK, Arriving
<1>2. executeIn.elem = Bubble /\ Increasing(executeIn.queue)
      /\ \A x \in Ids(executeIn.queue), y \in Ids(dToE) : x < y
  BY <1>1 DEF Conveyor
<1>3. ToIssue = Ids(executeIn.queue) \cup Ids(dToE)
  BY <1>1, <1>2, IdsOfPacket DEF ToIssue, Bubble
<1>4. Pointed(b) /\ Ids(b.elem) \cup Ids(b.queue) \subseteq ToIssue
  BY <1>1, <1>2, <1>3, ExecuteInputKeeps
<1> HIDE DEF b
<1>5. /\ Pointed(c) /\ c.elem = Bubble
      /\ Ids(c.queue) \subseteq Ids(b.elem) \cup Ids(b.queue)
      /\ ~IsEmpty(b) => /\ Front(b) \in Ids(b.elem) \cup Ids(b.queue)
                        /\ \A m \in Ids(c.queue) : Front(b) < m
  BY <1>1, <1>4, PopInputKeeps
<1>6. QED BY <1>4, <1>5 DEF b

(* A cycle in which nothing is issued ...                                  *)
NothingIssued ==
  /\ phase = "execute" /\ phase' = "push"
  /\ Pointed(executeIn')
  /\ Ids(executeIn'.elem) \cup Ids(executeIn'.queue) \subseteq ToIssue
  /\ units' = AdvancedUnits
  /\ execute' = [execute EXCEPT !.draining = FALSE]
  /\ UNCHANGED <<insts, renameId, eTo, isb, supply, branch, dToE, memStream,
                 mTo, wb, dcache, regs, retired>>

(* ... keeps the invariant: the units move.                                *)
LEMMA NotIssuedKeeps ==
  ASSUME IInv, NothingIssued
  PROVE  IInv'
<1>0. /\ phase = "execute" /\ phase' = "push"
      /\ Pointed(executeIn')
      /\ Ids(executeIn'.elem) \cup Ids(executeIn'.queue) \subseteq ToIssue
      /\ units' = AdvancedUnits
      /\ execute' = [execute EXCEPT !.draining = FALSE]
      /\ UNCHANGED <<insts, renameId, eTo, isb, supply, branch, dToE, memStream,
                     mTo, wb, dcache, regs, retired>>
  BY DEF NothingIssued
<1>1. /\ TypeOK /\ MaxInst \in Nat /\ execute \in ExecuteFields
      /\ Num \subseteq Nat \ {0} /\ Decoded' = Decoded /\ Opened' = Opened
      /\ Chained' = Chained
  BY <1>0, Named DEF IInv, TypeOK, ExecuteFields, Decoded, Opened, Chained
<1>2. /\ execute' \in ExecuteFields /\ execute'.inFlight = execute.inFlight
      /\ execute'.streamSeqNum = execute.streamSeqNum
  BY <1>0, <1>1 DEF ExecuteFields
<1>3. Arriving' = Bubble /\ Ids(Arriving') = {} /\ ToIssue' \subseteq ToIssue
  BY <1>0, IdsOfPacket DEF Arriving, Bubble, ToIssue
<1>4. TypeOK'
  <2>1. executeIn' \in BufferOf(Num)
    BY <1>0 DEF Pointed
  <2>2. units' \in [Unit -> UnitFields]
    BY <1>0, UnitsAdvance
  <2>3. QED BY <1>0, <1>1, <1>2, <2>1, <2>2 DEF TypeOK, ExecuteFields, UnitFields
<1>5. MemoryBuffers' /\ WritebackBuffers'
  BY <1>0 DEF IInv, MemoryBuffers, WritebackBuffers
<1>6. Conveyor'
  BY <1>0, <1>3 DEF IInv, Conveyor, Pointed
<1>7. Flight'
  BY <1>0, <1>2, <1>3 DEF IInv, Flight, IsFree
<1>8. UnitsKept'
  <2> SUFFICES ASSUME NEW u \in Unit PROVE UnitKept(units[u], u)'
    BY <1>0 DEF UnitsKept
  <2>1. UnitKept(AdvancedUnits[u], u) /\ units'[u] = AdvancedUnits[u]
    BY <1>0, UnitsAdvance
  <2> DEFINE g == AdvancedUnits[u]
  <2> HIDE DEF g
  <2>2. /\ Len(g.pipe) = FuncUnits[u].opLat + 1
        /\ \A i \in 1 .. Len(g.pipe) : g.pipe[i] # NoInst =>
             /\ g.pipe[i] <= Len(insts) /\ insts[g.pipe[i]].fu = u
             /\ \A m \in ToIssue' : g.pipe[i] < m
             /\ \/ i = Len(g.pipe)
                \/ g.pipe[i] \in Ids(execute.inFlight)
                \/ insts[g.pipe[i]].fault
        /\ \A i, j \in 1 .. Len(g.pipe) :
             i < j /\ g.pipe[i] # NoInst /\ g.pipe[j] # NoInst => g.pipe[j] < g.pipe[i]
        /\ g.stalled => /\ UnitFront(g) # NoInst
                        /\ \/ UnitFront(g) \in Ids(execute.inFlight)
                           \/ insts[UnitFront(g)].fault
        /\ ~g.stalled /\ UnitFront(g) \in Ids(execute.inFlight)
             => IsFree(insts[UnitFront(g)])
    BY <1>0, <1>3, <2>1 DEF UnitKept, g
  <2>3. units'[u] = g /\ insts' = insts
    BY <1>0, <2>1 DEF g
  <2>4. QED BY <1>0, <1>2, <2>2, <2>3 DEF UnitKept, UnitFront, IsFree
<1>9. FlightInUnits' /\ IssuedToCapable'
  <2>1. \A n \in Ids(execute.inFlight) :
          ~IsFree(insts[n]) => n \in Ids(AdvancedUnits[insts[n].fu].pipe)
    BY <1>0, UnitsAdvance
  <2>2. QED BY <1>0, <1>1, <1>2, <2>1 DEF IInv, FlightInUnits, IssuedToCapable, IsFree, Provides
<1>10. RequestsTracked'
  <2>1. ASSUME NEW n \in Decoded, insts[n].req \in {"InTranslation", "WaitingRetry"}
        PROVE  /\ n \in Ids(execute.inFlight) /\ ~insts[n].fault
               /\ units'[insts[n].fu].stalled
               /\ UnitFront(units'[insts[n].fu]) = n
    <3>1. /\ n \in Ids(execute.inFlight) /\ ~insts[n].fault
          /\ units[insts[n].fu].stalled /\ UnitFront(units[insts[n].fu]) = n
          /\ insts[n].op \in MemOp
      BY <1>0, <2>1 DEF IInv, RequestsTracked
    <3>2. ~IsFree(insts[n]) /\ insts[n].fu \in {0} \cup Unit
      BY <1>0, <1>1, <3>1, Named DEF IsFree, MemOp, DynInst
    <3>3. insts[n].fu \in Unit
      BY <1>0, <3>1, <3>2 DEF IInv, Flight
    <3>4. QED BY <1>0, <3>1, <3>3, UnitsAdvance
  <2>2. QED BY <1>0, <1>1, <1>2, <2>1 DEF IInv, RequestsTracked, UnitFront
<1>11. OrderKept'
  BY <1>0, <1>3 DEF IInv, OrderKept
<1>12. LeavesInOrder'
  BY <1>0, <1>1, <1>3 DEF IInv, LeavesInOrder
<1>13. PastExecute'
  <2>1. \A n : Past(n)' => Past(n)
    BY <1>0 DEF Past
  <2>2. QED BY <1>0, <1>2, <1>3, <2>1 DEF IInv, PastExecute
<1>14. StreamsCounted'
  BY <1>0, <1>1, <1>2 DEF IInv, StreamsCounted
<1>15. QED BY <1>0, <1>4, <1>5, <1>6, <1>7, <1>8, <1>9, <1>10, <1>11, <1>12, <1>13, <1>14 DEF IInv

(* The first unit that takes an instruction is one of those that do.       *)
LEMMA FirstTaker ==
  ASSUME NEW T \in SUBSET Unit, T # {}
  PROVE  (CHOOSE v \in T : \A w \in T : v <= w) \in T
<1>1. T \in SUBSET Nat
  BY DEF Unit
<1>2. \E v \in T : \A w \in T : v <= w
  BY <1>1, NatMin
<1>3. QED BY <1>2

(* markupInstDests() changes no more of the instructions than the unit and *)
(* the writer the one it issues waits for.                                 *)
LEMMA MarkupKeeps ==
  ASSUME TypeOK, NEW n \in Decoded, NEW u \in {0} \cup Unit, MarkupInstDests(n, u)
  PROVE  /\ insts' \in Seq(DynInst) /\ Len(insts') = Len(insts)
         /\ renameId' \in [Reg -> {0} \cup Num]
         /\ \A m \in Decoded : m # n => insts'[m] = insts[m]
         /\ insts'[n].fu = u /\ insts'[n].op = insts[n].op
         /\ insts'[n].stream = insts[n].stream /\ insts'[n].fault = insts[n].fault
         /\ insts'[n].req = insts[n].req /\ insts'[n].opens = insts[n].opens
         /\ insts'[n].dsts = insts[n].dsts
<1> DEFINE d == insts[n]
           F == {0} \cup Num
           older == {renameId[r] : r \in d.dsts} \ {0}
           k == IF d.fault \/ older = {} THEN d.forward ELSE CHOOSE m \in older : TRUE
           e == [d EXCEPT !.fu = u, !.forward = k]
<1>1. /\ insts \in Seq(DynInst) /\ Decoded = 1 .. Len(insts) /\ n \in 1 .. Len(insts)
      /\ renameId \in [Reg -> F] /\ n \in Num /\ d \in DynInst
  BY Named DEF TypeOK, Decoded
<1>2. /\ d \in [op : Op, dsts : SUBSET Reg, srcs : SUBSET Reg, stream : Stream,
                fault : BOOLEAN, fu : {0} \cup Unit, forward : F,
                req : RequestState, opens : {0} \cup Stream]
      /\ d.dsts \subseteq Reg /\ d.forward \in F
  BY <1>1 DEF DynInst
<1> HIDE DEF d
<1>3. k \in F
  <2>1. older \subseteq F
    BY <1>1, <1>2
  <2>2. older # {} => (CHOOSE m \in older : TRUE) \in older
    OBVIOUS
  <2> HIDE DEF older, F
  <2>3. QED BY <1>2, <2>1, <2>2
<1> HIDE DEF k, older
<1>4. /\ e \in DynInst /\ e.fu = u /\ e.op = d.op /\ e.stream = d.stream
      /\ e.fault = d.fault /\ e.req = d.req /\ e.opens = d.opens /\ e.dsts = d.dsts
  <2>1. e \in DynInst
    BY <1>2, <1>3 DEF DynInst
  <2>2. QED BY <1>2, <2>1
<1>5. insts' = [insts EXCEPT ![n] = e]
  <2>1. CASE d.fault
    <3>1. insts' = [insts EXCEPT ![n].fu = u] /\ k = d.forward
      BY <2>1 DEF MarkupInstDests, d, k
    <3>2. e = [d EXCEPT !.fu = u]
      BY <1>2, <3>1
    <3>3. QED BY <1>1, <3>1, <3>2 DEF d
  <2>2. CASE ~d.fault
    <3>1. insts' = [insts EXCEPT ![n].fu = u,
                      ![n].forward = IF older = {} THEN @ ELSE CHOOSE m \in older : TRUE]
      BY <2>2 DEF MarkupInstDests, d, older
    <3>2. k = IF older = {} THEN d.forward ELSE CHOOSE m \in older : TRUE
      BY <2>2 DEF k
    <3>3. QED BY <1>1, <3>1, <3>2 DEF d
  <2>3. QED BY <2>1, <2>2
<1> HIDE DEF e
<1>6. renameId' \in [Reg -> F]
  <2>1. CASE d.fault
    BY <1>1, <2>1 DEF MarkupInstDests, d
  <2>2. CASE ~d.fault
    <3>1. renameId' = [r \in Reg |-> IF r \in d.dsts THEN n ELSE renameId[r]]
      BY <2>2 DEF MarkupInstDests, d
    <3>2. QED BY <1>1, <3>1
  <2>3. QED BY <2>1, <2>2
<1>7. /\ insts' \in Seq(DynInst) /\ Len(insts') = Len(insts)
      /\ insts'[n] = e /\ \A m \in Decoded : m # n => insts'[m] = insts[m]
  <2> HIDE DEF DynInst
  <2>1. QED BY <1>1, <1>4, <1>5, ExceptSeq
<1>8. QED BY <1>4, <1>6, <1>7 DEF d

(* FillSequence() names the instruction in the latch to ORDER, or does     *)
(* nothing.                                                                *)
LEMMA FillSequenceKeeps ==
  ASSUME TypeOK, MemoryBuffers, phase = "execute", NEW n \in Num, FillSequence(n)
  PROVE  /\ eTo' \in [Box \cup {"ORDER"} -> Seq(Num)]
         /\ isb' \in [Box \cup {"ORDER"} -> IsbOf(Num)]
         /\ \A b \in Box \cup {"ORDER"} :
              isb'[b].reserved = Len(eTo'[b]) /\ Tally(isb'[b])
         /\ Len(eTo'["ORDER"]) <= 1 /\ Ids(eTo'["ORDER"]) \subseteq {n}
         /\ isb'["ORDER"].queue = isb["ORDER"].queue
         /\ isb'["ORDER"].index = isb["ORDER"].index
         /\ \A b \in Box : eTo'[b] = eTo[b] /\ isb'[b] = isb[b]
<1>1. /\ eTo \in [Box \cup {"ORDER"} -> Seq(Num)]
      /\ isb \in [Box \cup {"ORDER"} -> IsbOf(Num)]
      /\ "ORDER" \notin Box
      /\ \A b \in Box \cup {"ORDER"} :
           isb[b].reserved = Len(eTo[b]) /\ Tally(isb[b]) /\ eTo[b] = <<>>
  BY DEF TypeOK, MemoryBuffers, Box
<1>2. isb["ORDER"] \in IsbOf(Num) /\ isb["ORDER"].reserved = 0 /\ eTo["ORDER"] = <<>>
      /\ Tally(isb["ORDER"])
  BY <1>1
<1>3. Ids(<<>>) = {} /\ Ids(<<n>>) = {n} /\ <<n>> \in Seq(Num)
  BY IdsOfPacket
<1>4. CASE UNCHANGED <<eTo, isb>>
  BY <1>1, <1>2, <1>3, <1>4
<1>5. CASE /\ eTo' = [eTo EXCEPT !["ORDER"] = <<n>>]
           /\ isb' = [isb EXCEPT !["ORDER"] = ReserveEntry(@)]
  <2> DEFINE c == ReserveEntry(isb["ORDER"])
  <2>1. /\ c \in IsbOf(Num) /\ Tally(c) /\ c.reserved = 1
        /\ c.queue = isb["ORDER"].queue /\ c.index = isb["ORDER"].index
    BY <1>2, ReserveEntryKeeps
  <2>2. isb' = [isb EXCEPT !["ORDER"] = c]
    BY <1>5
  <2> HIDE DEF c
  <2>3. /\ eTo'["ORDER"] = <<n>> /\ isb'["ORDER"] = c
        /\ \A b \in Box : eTo'[b] = eTo[b] /\ isb'[b] = isb[b]
    BY <1>1, <1>5, <2>2
  <2>4. /\ eTo' \in [Box \cup {"ORDER"} -> Seq(Num)]
        /\ isb' \in [Box \cup {"ORDER"} -> IsbOf(Num)]
    BY <1>1, <1>3, <1>5, <2>1, <2>2
  <2>5. Len(<<n>>) = 1
    OBVIOUS
  <2>6. \A b \in Box : isb'[b].reserved = Len(eTo'[b]) /\ Tally(isb'[b])
    BY <1>1, <2>3
  <2>7. isb'["ORDER"].reserved = Len(eTo'["ORDER"]) /\ Tally(isb'["ORDER"])
    BY <2>1, <2>3, <2>5
  <2>8. \A b \in Box \cup {"ORDER"} :
          isb'[b].reserved = Len(eTo'[b]) /\ Tally(isb'[b])
    <3> HIDE DEF Tally, Box
    <3>1. QED BY <2>6, <2>7
  <2>9. Len(eTo'["ORDER"]) <= 1 /\ Ids(eTo'["ORDER"]) \subseteq {n}
    BY <1>3, <2>3, <2>5
  <2>10. QED BY <2>1, <2>3, <2>4, <2>8, <2>9
<1>6. QED BY <1>4, <1>5 DEF FillSequence

(* Instruction n leaves the front of the input for unit u, or, if it needs *)
(* no unit, for none.                                                      *)
Issues(n, u) ==
  /\ n \in ToIssue /\ u \in {0} \cup Unit
  /\ insts[n].stream = execute.streamSeqNum
  /\ Pointed(executeIn') /\ executeIn'.elem = Bubble
  /\ \A m \in Ids(executeIn'.queue) : m \in ToIssue /\ n < m
  /\ execute' = [execute EXCEPT !.draining = FALSE, !.inFlight = Append(@, n)]
  /\ FillSequence(n)
  /\ MarkupInstDests(n, u)
  /\ u = 0 => units' = AdvancedUnits /\ IsFree(insts[n])
  /\ u # 0 => /\ units' = [AdvancedUnits EXCEPT ![u] = PushUnit(@, n)]
              /\ Capable(u, n) /\ ~AlreadyPushed(AdvancedUnits[u])
              /\ insts[n].op # "NoCost" \/ insts[n].fault
  /\ phase = "execute" /\ phase' = "push"
  /\ UNCHANGED <<supply, branch, dToE, memStream, mTo, wb, dcache, regs, retired>>

(* The instruction is younger than everything else that is named.          *)
LEMMA IssuesYoungest ==
  ASSUME IInv, NEW n, NEW u, Issues(n, u)
  PROVE  /\ n \in Decoded /\ n \in Num /\ n \in Nat
         /\ insts[n].fu = 0 /\ insts[n].opens = 0 /\ insts[n].req = "NotIssued"
         /\ \A m \in Ids(execute.inFlight) : m < n
         /\ execute' \in ExecuteFields
         /\ execute'.streamSeqNum = execute.streamSeqNum
         /\ Ids(execute'.inFlight) = Ids(execute.inFlight) \cup {n}
         /\ Increasing(execute'.inFlight)
         /\ Ids(Arriving') = {} /\ ToIssue' = Ids(executeIn'.queue)
         /\ ToIssue' \subseteq ToIssue /\ \A m \in ToIssue' : n < m
<1>1. /\ n \in ToIssue /\ phase' = "push" /\ executeIn'.elem = Bubble
      /\ \A m \in Ids(executeIn'.queue) : m \in ToIssue /\ n < m
      /\ execute' = [execute EXCEPT !.draining = FALSE, !.inFlight = Append(@, n)]
  BY DEF Issues
<1>2. n \in Decoded /\ n \in Num /\ n \in Nat
  BY <1>1, ToIssueNamed, Named DEF IInv
<1>3. insts[n].fu = 0 /\ insts[n].opens = 0 /\ insts[n].req = "NotIssued"
  BY <1>1 DEF IInv, Conveyor
<1>4. \A m \in Ids(execute.inFlight) : m < n
  BY <1>1 DEF IInv, Flight
<1> DEFINE q == Append(execute.inFlight, n)
<1>5. /\ q \in Seq(Num) /\ Ids(q) = Ids(execute.inFlight) \cup {n}
      /\ Increasing(q)
  <2>1. execute.inFlight \in Seq(Num) /\ execute.inFlight \in Seq(Nat)
    BY Named DEF IInv
  <2>2. Increasing(execute.inFlight)
    BY DEF IInv, Flight
  <2>3. q \in Seq(Num) /\ Ids(q) = Ids(execute.inFlight) \cup {n}
    BY <1>2, <2>1, AppendIds
  <2>4. QED BY <1>2, <1>4, <2>1, <2>2, <2>3, AppendIncreasing
<1>6. execute \in [streamSeqNum : Stream, draining : BOOLEAN, blocked : SUBSET Box,
                   inFlight : Seq(Num), at : Nat \ {0}]
  BY DEF IInv, TypeOK
<1>7. execute' = [execute EXCEPT !.draining = FALSE, !.inFlight = q]
  BY <1>1
<1> HIDE DEF q
<1>8. /\ execute' \in ExecuteFields /\ execute'.inFlight = q
      /\ execute'.streamSeqNum = execute.streamSeqNum
  BY <1>5, <1>6, <1>7 DEF ExecuteFields
<1>9. Ids(Arriving') = {} /\ Ids(Bubble) = {}
  BY <1>1, IdsOfPacket DEF Arriving, Bubble
<1>10. ToIssue' = Ids(executeIn'.queue)
  BY <1>1, <1>9 DEF ToIssue
<1>11. QED BY <1>1, <1>2, <1>3, <1>4, <1>5, <1>8, <1>9, <1>10

(* The instruction enters its unit; the other units have moved.            *)
LEMMA IssuesKeepsUnits ==
  ASSUME IInv, NEW n, NEW u, Issues(n, u)
  PROVE  /\ units' \in [Unit -> UnitFields]
         /\ UnitsKept' /\ FlightInUnits'
         /\ \A v \in Unit : units[v].stalled =>
              units'[v].stalled /\ UnitFront(units'[v]) = UnitFront(units[v])
<1> DEFINE A == AdvancedUnits
           F == Ids(execute.inFlight)
<1>1. /\ n \in Decoded /\ n \in Num /\ n \in Nat /\ NoInst \notin Num
      /\ n \in ToIssue /\ u \in {0} \cup Unit
      /\ Ids(execute'.inFlight) = F \cup {n}
      /\ ToIssue' \subseteq ToIssue /\ \A m \in ToIssue' : n < m
      /\ \A m \in F : m < n
      /\ F \subseteq Decoded
  <2>1. F \subseteq Decoded
    BY Named DEF IInv, Flight, Decoded, Num
  <2>2. QED BY <2>1, IssuesYoungest, Named DEF Issues, IInv, NoInst
<1>2. /\ insts' \in Seq(DynInst) /\ Len(insts') = Len(insts)
      /\ \A m \in Decoded : m # n => insts'[m] = insts[m]
      /\ insts'[n].fu = u /\ insts'[n].op = insts[n].op
      /\ insts'[n].fault = insts[n].fault
  BY <1>1, MarkupKeeps DEF IInv, Issues
<1>3. /\ A \in [Unit -> UnitFields]
      /\ \A v \in Unit :
           /\ UnitKept(A[v], v)
           /\ units[v].stalled => /\ A[v].stalled
                                  /\ UnitFront(A[v]) = UnitFront(units[v])
      /\ \A m \in F : ~IsFree(insts[m]) => m \in Ids(A[insts[m].fu].pipe)
  BY UnitsAdvance
<1> HIDE DEF A, F
<1>4. \A v \in Unit : Len(A[v].pipe) = FuncUnits[v].opLat + 1 /\ Len(A[v].pipe) > 1
                      /\ Len(A[v].pipe) \in Nat
  BY <1>3, Pool DEF UnitKept
<1>5. \A v \in Unit :
        /\ units'[v] \in UnitFields /\ units'[v].stalled = A[v].stalled
        /\ Len(units'[v].pipe) = Len(A[v].pipe)
        /\ \A i \in 2 .. Len(A[v].pipe) : units'[v].pipe[i] = A[v].pipe[i]
        /\ \/ v # u /\ units'[v].pipe[1] = A[v].pipe[1]
           \/ v = u /\ units'[v].pipe[1] = n /\ A[v].pipe[1] = NoInst
  <2> SUFFICES ASSUME NEW v \in Unit
               PROVE  /\ units'[v] \in UnitFields /\ units'[v].stalled = A[v].stalled
                      /\ Len(units'[v].pipe) = Len(A[v].pipe)
                      /\ \A i \in 2 .. Len(A[v].pipe) : units'[v].pipe[i] = A[v].pipe[i]
                      /\ \/ v # u /\ units'[v].pipe[1] = A[v].pipe[1]
                         \/ v = u /\ units'[v].pipe[1] = n /\ A[v].pipe[1] = NoInst
    OBVIOUS
  <2>1. CASE v # u
    <3>1. units'[v] = A[v]
      BY <1>1, <1>3, <2>1 DEF Issues, A
    <3>2. QED BY <1>3, <2>1, <3>1
  <2>2. CASE v = u
    <3>1. u # 0
      BY <2>2, Pool
    <3>2. units' = [A EXCEPT ![u] = PushUnit(A[u], n)] /\ A[u].pipe[1] = NoInst
      BY <3>1 DEF Issues, A, AlreadyPushed
    <3>3. units'[v] = PushUnit(A[v], n)
      BY <1>3, <2>2, <3>2
    <3>4. A[v] \in UnitFields /\ Len(A[v].pipe) > 1
      BY <1>3, <1>4
    <3>5. QED BY <1>1, <2>2, <3>2, <3>3, <3>4, PushUnitKeeps
  <2>3. QED BY <2>1, <2>2
<1>6. units' \in [Unit -> UnitFields]
  <2>1. units' = [v \in Unit |-> units'[v]]
    BY <1>3 DEF Issues, A
  <2>2. QED BY <1>5, <2>1
<1>7. ASSUME NEW v \in Unit
      PROVE  /\ UnitKept(units[v], v)'
             /\ UnitFront(units'[v]) = UnitFront(A[v])
  <2> DEFINE g == A[v]
             h == units'[v]
             L == Len(g.pipe)
  <2>1. /\ L = FuncUnits[v].opLat + 1 /\ L > 1 /\ L \in Nat
        /\ Len(h.pipe) = L /\ h.stalled = g.stalled
        /\ \A i \in 2 .. L : h.pipe[i] = g.pipe[i]
        /\ \/ v # u /\ h.pipe[1] = g.pipe[1]
           \/ v = u /\ h.pipe[1] = n /\ g.pipe[1] = NoInst
    BY <1>4, <1>5
  <2>2. /\ \A i \in 1 .. L : g.pipe[i] # NoInst =>
             /\ g.pipe[i] <= Len(insts) /\ insts[g.pipe[i]].fu = v
             /\ \A m \in ToIssue : g.pipe[i] < m
             /\ i = L \/ g.pipe[i] \in F \/ insts[g.pipe[i]].fault
        /\ \A i, j \in 1 .. L :
             i < j /\ g.pipe[i] # NoInst /\ g.pipe[j] # NoInst => g.pipe[j] < g.pipe[i]
        /\ g.stalled => /\ UnitFront(g) # NoInst
                        /\ UnitFront(g) \in F \/ insts[UnitFront(g)].fault
        /\ ~g.stalled /\ UnitFront(g) \in F => IsFree(insts[UnitFront(g)])
    BY <1>3 DEF UnitKept, F
  <2>3. \A i \in 1 .. L : g.pipe[i] \in {NoInst} \cup Num
    BY <1>3, <2>1 DEF UnitFields
  <2>4. UnitFront(g) = g.pipe[L] /\ UnitFront(h) = g.pipe[L] /\ L \in 2 .. L /\ 1 \in 1 .. L
        /\ L \in 1 .. L
    BY <2>1 DEF UnitFront
  <2> HIDE DEF g, h, L
  <2>5. \A i \in 1 .. L : g.pipe[i] # NoInst =>
          /\ g.pipe[i] \in Decoded /\ g.pipe[i] < n /\ g.pipe[i] # n
          /\ insts'[g.pipe[i]] = insts[g.pipe[i]]
    <3>1. \A i \in 1 .. L : g.pipe[i] # NoInst => g.pipe[i] < n /\ g.pipe[i] \in Num
      BY <1>1, <2>2, <2>3
    <3>2. \A i \in 1 .. L : g.pipe[i] # NoInst => g.pipe[i] \in Decoded
      BY <2>2, <3>1, Named DEF IInv, Num, Decoded
    <3>3. \A x \in Num : x < n => x # n
      BY <1>1, Named DEF IInv
    <3>4. QED BY <1>2, <3>1, <3>2, <3>3
  <2>6. \A i \in 1 .. L : \/ h.pipe[i] = g.pipe[i]
                          \/ i = 1 /\ v = u /\ h.pipe[i] = n
    <3>1. \A i \in 1 .. L : i = 1 \/ i \in 2 .. L
      BY <2>1
    <3>2. QED BY <2>1, <3>1
  <2>7. \A i \in 1 .. L : h.pipe[i] # NoInst =>
          /\ h.pipe[i] <= Len(insts') /\ insts'[h.pipe[i]].fu = v
          /\ \A m \in ToIssue' : h.pipe[i] < m
          /\ \/ i = L \/ h.pipe[i] \in Ids(execute'.inFlight) \/ insts'[h.pipe[i]].fault
    <3>1. n <= Len(insts)
      BY <1>1 DEF Decoded
    <3>2. QED BY <1>1, <1>2, <2>2, <2>5, <2>6, <3>1
  <2>8. \A i, j \in 1 .. L :
          i < j /\ h.pipe[i] # NoInst /\ h.pipe[j] # NoInst => h.pipe[j] < h.pipe[i]
    <3> SUFFICES ASSUME NEW i \in 1 .. L, NEW j \in 1 .. L, i < j,
                        h.pipe[i] # NoInst, h.pipe[j] # NoInst
                 PROVE  h.pipe[j] < h.pipe[i]
      OBVIOUS
    <3>1. j # 1 /\ h.pipe[j] = g.pipe[j]
      BY <2>1, <2>6
    <3>2. QED BY <2>2, <2>5, <2>6, <3>1
  <2>9. /\ h.stalled => /\ g.pipe[L] # NoInst
                        /\ \/ g.pipe[L] \in Ids(execute'.inFlight)
                           \/ insts'[g.pipe[L]].fault
        /\ ~h.stalled /\ g.pipe[L] \in Ids(execute'.inFlight)
             => IsFree(insts'[g.pipe[L]])
    <3>1. NoInst \notin F /\ NoInst # n
      BY <1>1, Named DEF F, IInv
    <3>2. QED BY <1>1, <2>1, <2>2, <2>4, <2>5, <3>1
  <2>10. UnitKept(units[v], v)'
    BY <2>1, <2>4, <2>7, <2>8, <2>9 DEF UnitKept, UnitFront, IsFree, h
  <2>11. QED BY <2>4, <2>10 DEF g, h
<1>8. UnitsKept'
  BY <1>7 DEF UnitsKept
<1>9. \A v \in Unit : units[v].stalled =>
        units'[v].stalled /\ UnitFront(units'[v]) = UnitFront(units[v])
  BY <1>3, <1>5, <1>7
<1>10. FlightInUnits'
  <2> SUFFICES ASSUME NEW m \in F \cup {n}, ~IsFree(insts'[m])
               PROVE  m \in Ids(units'[insts'[m].fu].pipe)
    BY <1>1 DEF FlightInUnits, IsFree
  <2>1. CASE m \in F
    <3>1. m # n /\ m \in Decoded /\ insts'[m] = insts[m] /\ m \in Num
      BY <1>1, <1>2, <2>1, Named DEF IInv
    <3> DEFINE v == insts[m].fu
               L == Len(A[v].pipe)
    <3>2. v \in Unit /\ m \in Ids(A[v].pipe)
      <4>1. v # 0 /\ insts[m] \in DynInst
        BY <2>1, <3>1, Named DEF IInv, Flight, F
      <4>2. QED BY <1>3, <2>1, <3>1, <4>1 DEF DynInst
    <3>3. PICK i \in 1 .. L : A[v].pipe[i] = m
      BY <3>2, IdsDef
    <3>4. units'[v].pipe[i] = m /\ Len(units'[v].pipe) = L
      <4>1. i = 1 \/ i \in 2 .. L
        BY <1>4, <3>2
      <4>2. m # NoInst
        BY <1>1, <3>1
      <4>3. QED BY <1>5, <3>2, <3>3, <4>1, <4>2
    <3>5. QED BY <3>1, <3>4, IdsDef
  <2>2. CASE m = n
    <3>1. ~IsFree(insts[n])
      BY <1>2, <2>2 DEF IsFree
    <3>2. u \in Unit
      BY <1>1, <3>1 DEF Issues
    <3>3. units'[u].pipe[1] = n /\ 1 \in 1 .. Len(units'[u].pipe)
      BY <1>4, <1>5, <3>2
    <3>4. QED BY <1>2, <2>2, <3>3, IdsDef
  <2>3. QED BY <2>1, <2>2
<1>11. QED BY <1>6, <1>8, <1>9, <1>10

(* A cycle that issues an instruction.                                     *)
LEMMA IssuesKeeps ==
  ASSUME IInv, NEW n, NEW u, Issues(n, u)
  PROVE  IInv'
<1>1. /\ TypeOK /\ n \in ToIssue /\ u \in {0} \cup Unit
      /\ insts[n].stream = execute.streamSeqNum
      /\ phase = "execute" /\ phase' = "push" /\ Pointed(executeIn')
      /\ executeIn'.elem = Bubble
      /\ supply' = supply /\ branch' = branch /\ dToE' = dToE /\ memStream' = memStream
      /\ mTo' = mTo /\ wb' = wb /\ dcache' = dcache /\ regs' = regs /\ retired' = retired
      /\ Num \subseteq Nat \ {0}
  BY Named DEF Issues, IInv
<1>2. /\ n \in Decoded /\ n \in Num /\ n \in Nat
      /\ insts[n].fu = 0 /\ insts[n].opens = 0 /\ insts[n].req = "NotIssued"
      /\ \A m \in Ids(execute.inFlight) : m < n
      /\ execute' \in ExecuteFields
      /\ execute'.streamSeqNum = execute.streamSeqNum
      /\ Ids(execute'.inFlight) = Ids(execute.inFlight) \cup {n}
      /\ Increasing(execute'.inFlight)
      /\ Ids(Arriving') = {} /\ ToIssue' = Ids(executeIn'.queue)
      /\ ToIssue' \subseteq ToIssue /\ \A m \in ToIssue' : n < m
  BY IssuesYoungest
<1>3. /\ insts' \in Seq(DynInst) /\ Len(insts') = Len(insts)
      /\ renameId' \in [Reg -> {0} \cup Num]
      /\ \A m \in Decoded : m # n => insts'[m] = insts[m]
      /\ insts'[n].fu = u /\ insts'[n].op = insts[n].op
      /\ insts'[n].stream = insts[n].stream /\ insts'[n].fault = insts[n].fault
      /\ insts'[n].req = insts[n].req /\ insts'[n].opens = insts[n].opens
  BY <1>1, <1>2, MarkupKeeps DEF Issues
<1>4. /\ eTo' \in [Box \cup {"ORDER"} -> Seq(Num)]
      /\ isb' \in [Box \cup {"ORDER"} -> IsbOf(Num)]
      /\ \A b \in Box \cup {"ORDER"} :
           isb'[b].reserved = Len(eTo'[b]) /\ Tally(isb'[b])
      /\ Len(eTo'["ORDER"]) <= 1 /\ Ids(eTo'["ORDER"]) \subseteq {n}
      /\ isb'["ORDER"].queue = isb["ORDER"].queue
      /\ isb'["ORDER"].index = isb["ORDER"].index
      /\ \A b \in Box : eTo'[b] = eTo[b] /\ isb'[b] = isb[b]
  BY <1>1, <1>2, FillSequenceKeeps DEF Issues, IInv
<1>5. /\ units' \in [Unit -> UnitFields]
      /\ UnitsKept' /\ FlightInUnits'
      /\ \A v \in Unit : units[v].stalled =>
           units'[v].stalled /\ UnitFront(units'[v]) = UnitFront(units[v])
  BY IssuesKeepsUnits
<1>6. /\ Decoded' = Decoded
      /\ \A m \in Decoded :
           /\ insts'[m].op = insts[m].op /\ insts'[m].stream = insts[m].stream
           /\ insts'[m].fault = insts[m].fault /\ insts'[m].req = insts[m].req
           /\ insts'[m].opens = insts[m].opens
      /\ Decoded \subseteq Num /\ ToIssue \subseteq Decoded
  BY <1>1, <1>3, Named, ToIssueNamed DEF IInv, Decoded
<1>7. TypeOK'
  <2>1. Len(insts') <= MaxInst /\ executeIn' \in BufferOf(Num)
    BY <1>1, <1>3 DEF TypeOK, Pointed
  <2>2. QED BY <1>1, <1>2, <1>3, <1>4, <1>5, <2>1 DEF TypeOK, ExecuteFields, UnitFields
<1>8. MemoryBuffers' /\ WritebackBuffers'
  BY <1>1, <1>4 DEF IInv, MemoryBuffers, WritebackBuffers
<1>9. Conveyor'
  <2>1. ToIssue' \subseteq 1 .. Len(insts')
    BY <1>1, <1>2, <1>3 DEF IInv, Conveyor
  <2>2. n \notin ToIssue'
    BY <1>2
  <2>3. \A m \in ToIssue' : /\ insts'[m].fu = 0 /\ insts'[m].opens = 0
                            /\ insts'[m].req = "NotIssued"
    BY <1>2, <1>3, <1>6, <2>2 DEF IInv, Conveyor
  <2>4. QED BY <1>1, <1>2, <2>1, <2>3 DEF Conveyor, Pointed
<1>10. Flight'
  <2>1. ASSUME NEW m \in Ids(execute.inFlight) \cup {n}
        PROVE  /\ m <= Len(insts') /\ insts'[m].opens = 0
               /\ ~IsFree(insts'[m]) => insts'[m].fu # 0
               /\ \A k \in ToIssue' : m < k
    <3>1. CASE m = n
      <4>1. ~IsFree(insts'[n]) => u # 0
        BY <1>3 DEF Issues, IsFree
      <4>2. QED BY <1>2, <1>3, <3>1, <4>1 DEF Decoded
    <3>2. CASE m \in Ids(execute.inFlight) /\ m # n
      <4>1. m \in Decoded /\ insts'[m] = insts[m]
        BY <1>3, <3>2, Named DEF IInv, Flight, Decoded, Num
      <4>2. QED BY <1>2, <1>3, <3>2, <4>1 DEF IInv, Flight
    <3>3. QED BY <2>1, <3>1, <3>2
  <2>2. QED BY <1>2, <2>1 DEF Flight, IsFree
<1>11. IssuedToCapable'
  <2>1. u # 0 /\ ~insts[n].fault => insts[n].op # "NoCost" /\ Provides(u, insts[n].op)
    BY DEF Issues, Capable
  <2>2. QED BY <1>3, <1>6, <2>1 DEF IInv, IssuedToCapable, Provides
<1>12. RequestsTracked'
  <2>1. RequestsTracked
    BY DEF IInv
  <2>2. ASSUME NEW m \in Decoded, insts[m].req \in {"InTranslation", "WaitingRetry"}
        PROVE  /\ m \in Ids(execute'.inFlight) /\ ~insts'[m].fault
               /\ units'[insts'[m].fu].stalled
               /\ UnitFront(units'[insts'[m].fu]) = m
    <3>1. /\ m \in Ids(execute.inFlight) /\ ~insts[m].fault
          /\ units[insts[m].fu].stalled /\ UnitFront(units[insts[m].fu]) = m
          /\ insts[m].op \in MemOp
      BY <2>1, <2>2 DEF RequestsTracked
    <3>2. ~IsFree(insts[m]) /\ insts[m].fu \in {0} \cup Unit
      BY <1>1, <3>1, Named DEF IsFree, MemOp, DynInst
    <3>3. insts[m].fu \in Unit
      BY <3>1, <3>2 DEF IInv, Flight
    <3>4. insts'[m] = insts[m]
      BY <1>2, <1>3, <2>2
    <3>5. QED BY <1>2, <1>5, <3>1, <3>3, <3>4
  <2>3. ASSUME NEW m \in Decoded, insts'[m].op \in MemOp, insts'[m].fu # 0,
               ~insts'[m].fault
        PROVE  insts'[m].req \in Sent \/ m \in Ids(execute'.inFlight)
    <3>1. CASE m = n
      BY <1>2, <3>1
    <3>2. CASE m # n
      BY <1>2, <1>3, <2>1, <2>3, <3>2 DEF RequestsTracked
    <3>3. QED BY <3>1, <3>2
  <2>4. /\ \A m \in dcache.dtlb : m <= Len(insts') /\ insts'[m].req = "InTranslation"
        /\ \A m \in dcache.cache : m <= Len(insts') /\ insts'[m].req = "SentToCache"
        /\ dcache.owesRetry <=> dcache.retryRequest # 0
        /\ dcache.owesRetry => /\ dcache.retryRequest <= Len(insts')
                               /\ insts'[dcache.retryRequest].req = "WaitingRetry"
    <3>1. /\ dcache.dtlb \subseteq Decoded /\ dcache.cache \subseteq Decoded
          /\ dcache.owesRetry => dcache.retryRequest \in Decoded
      BY <1>1, <2>1, Named DEF TypeOK, RequestsTracked, Decoded, Num
    <3>2. QED BY <1>3, <1>6, <2>1, <3>1 DEF RequestsTracked
  <2>5. \A m \in Decoded : insts'[m].req # "NotIssued" => insts'[m].op \in MemOp
    BY <1>6, <2>1 DEF RequestsTracked
  <2>6. \A m \in Decoded : insts'[m].req \in {"InTranslation", "WaitingRetry"} =>
          /\ m \in Ids(execute'.inFlight) /\ ~insts'[m].fault
          /\ units'[insts'[m].fu].stalled
          /\ UnitFront(units'[insts'[m].fu]) = m
    BY <1>6, <2>2
  <2>7. QED BY <1>1, <1>6, <2>3, <2>4, <2>5, <2>6 DEF RequestsTracked, UnitFront
<1>13. /\ Chained' \subseteq Chained \cup {n} /\ Chained \subseteq Decoded
       /\ \A m \in Chained : m < n
  <2>1. Waiting(isb["ORDER"])' = Waiting(isb["ORDER"])
    BY <1>4 DEF Waiting
  <2>2. QED BY <1>1, <1>4, <2>1, ChainedNamed, ChainedOlder DEF IInv, Chained
<1>14. OrderKept'
  <2> DEFINE q == isb["ORDER"].queue
  <2>1. /\ OneAPacket(isb["ORDER"]) /\ Ordered(isb["ORDER"])
        /\ \A i \in 1 .. Len(q) :
             /\ q[i][1] <= Len(insts)
             /\ \A m \in Ids(eTo["ORDER"]) \cup ToIssue : q[i][1] < m
    BY DEF IInv, OrderKept
  <2>2. OneAPacket(isb'["ORDER"]) /\ Ordered(isb'["ORDER"])
    BY <1>4, <2>1 DEF OneAPacket, Ordered
  <2>3. n <= Len(insts')
    BY <1>2, <1>3 DEF Decoded
  <2> HIDE DEF q
  <2>4. isb'["ORDER"].queue = q
    BY <1>4 DEF q
  <2>5. \A i \in 1 .. Len(q) :
          /\ q[i][1] <= Len(insts')
          /\ \A m \in Ids(eTo'["ORDER"]) \cup ToIssue' : q[i][1] < m
    BY <1>1, <1>2, <1>3, <1>4, <2>1
  <2>6. \A k \in Ids(eTo'["ORDER"]) : k <= Len(insts') /\ \A m \in ToIssue' : k < m
    BY <1>2, <1>4, <2>3
  <2>7. QED BY <2>2, <2>4, <2>5, <2>6 DEF OrderKept
<1>15. LeavesInOrder'
  <2>1. \A m \in Ids(mTo["ORDER"]) :
          m <= Len(insts') /\ \A k \in Chained' \cup ToIssue' : m < k
    BY <1>1, <1>2, <1>3, <1>13 DEF IInv, LeavesInOrder
  <2>2. /\ Increasing(retired)
        /\ \A m \in Ids(retired) :
             m <= Len(insts') /\ \A k \in Ids(mTo["ORDER"]) \cup Chained' \cup ToIssue' : m < k
    BY <1>1, <1>2, <1>3, <1>13 DEF IInv, LeavesInOrder
  <2>3. QED BY <1>1, <2>1, <2>2 DEF LeavesInOrder
<1>16. PastExecute'
  <2>1. \A m : Past(m)' => Past(m)
    BY <1>1, <1>4 DEF Past
  <2>2. ASSUME NEW m \in Num, Past(m)'
        PROVE  /\ m <= Len(insts') /\ \A k \in ToIssue' : m < k
               /\ m \in Ids(execute'.inFlight) => insts'[m].fault
    <3>1. /\ m <= Len(insts) /\ \A k \in ToIssue : m < k
          /\ m \in Ids(execute.inFlight) => insts[m].fault
      BY <2>1, <2>2 DEF IInv, PastExecute
    <3>2. m # n /\ m \in Decoded
      BY <1>1, <1>2, <3>1 DEF Decoded, Num
    <3>3. QED BY <1>2, <1>3, <3>1, <3>2
  <2>3. QED BY <2>2 DEF PastExecute
<1>17. StreamsCounted'
  <2>1. Opened' = Opened
    BY <1>6 DEF Opened
  <2>2. \A m, k \in Chained' : m < k => insts'[m].stream <= insts'[k].stream
    <3> SUFFICES ASSUME NEW m \in Chained', NEW k \in Chained', m < k
                 PROVE  insts'[m].stream <= insts'[k].stream
      OBVIOUS
    <3>1. m \in Chained \cup {n} /\ k \in Chained \cup {n} /\ m \in Nat /\ k \in Nat
          /\ m \in Decoded /\ k \in Decoded
      BY <1>1, <1>2, <1>6, <1>13
    <3>2. CASE k = n
      <4>1. insts[m].stream <= execute.streamSeqNum
        BY <3>1 DEF IInv, StreamsCounted
      <4>2. QED BY <1>1, <1>6, <3>1, <3>2, <4>1
    <3>3. CASE k # n
      <4>1. k \in Chained /\ k < n /\ m # n /\ m \in Chained
        BY <1>2, <1>13, <3>1, <3>3
      <4>2. insts[m].stream <= insts[k].stream
        BY <4>1 DEF IInv, StreamsCounted
      <4>3. QED BY <1>6, <3>1, <4>2
    <3>4. QED BY <3>2, <3>3
  <2>3. \A m \in Decoded : insts'[m].stream <= m /\ insts'[m].stream <= execute'.streamSeqNum
    BY <1>2, <1>6 DEF IInv, StreamsCounted
  <2>4. QED BY <1>1, <1>2, <1>6, <2>1, <2>2, <2>3 DEF IInv, StreamsCounted
<1>18. QED BY <1>5, <1>7, <1>8, <1>9, <1>10, <1>11, <1>12, <1>14, <1>15, <1>16, <1>17 DEF IInv

(* The units move, and the oldest instruction that waits is issued or not. *)
LEMMA ExecuteCases ==
  ASSUME IInv, ExecuteEvaluate
  PROVE  NothingIssued \/ \E n, u : Issues(n, u)
<1> DEFINE b == ExecuteInput
           c == PopInput(b)
           n == Front(b)
<1>1. /\ phase = "execute" /\ phase' = "push"
      /\ UNCHANGED <<supply, branch, dToE, memStream, mTo, wb, dcache, regs, retired>>
  BY DEF ExecuteEvaluate
<1>2. /\ Pointed(b) /\ Ids(b.elem) \cup Ids(b.queue) \subseteq ToIssue
      /\ Pointed(c) /\ c.elem = Bubble /\ Ids(c.queue) \subseteq ToIssue
      /\ ~IsEmpty(b) => n \in ToIssue /\ \A m \in Ids(c.queue) : n < m
  BY <1>1, InputTaken
<1>3. Ids(c.elem) \cup Ids(c.queue) \subseteq ToIssue
  BY <1>2, IdsOfPacket DEF Bubble
<1>4. \/ /\ executeIn' \in {b, c} /\ units' = AdvancedUnits
         /\ execute' = [execute EXCEPT !.draining = FALSE]
         /\ UNCHANGED <<insts, renameId, eTo, isb>>
      \/ /\ ~IsEmpty(b) /\ insts[n].stream = execute.streamSeqNum
         /\ EndOfLine(b, n)
         /\ IssueFree(AdvancedUnits, n) \/ IssueToUnit(AdvancedUnits, n)
  BY DEF ExecuteEvaluate, IssueInst, DidntIssue
<1>5. CASE /\ executeIn' \in {b, c} /\ units' = AdvancedUnits
           /\ execute' = [execute EXCEPT !.draining = FALSE]
           /\ UNCHANGED <<insts, renameId, eTo, isb>>
  <2> HIDE DEF b, c
  <2>1. QED BY <1>1, <1>2, <1>3, <1>5 DEF NothingIssued
<1>6. CASE /\ ~IsEmpty(b) /\ insts[n].stream = execute.streamSeqNum
           /\ EndOfLine(b, n)
           /\ IssueFree(AdvancedUnits, n) \/ IssueToUnit(AdvancedUnits, n)
  <2>1. /\ executeIn' = c /\ FillSequence(n)
        /\ execute' = [execute EXCEPT !.draining = FALSE, !.inFlight = Append(@, n)]
    BY <1>6 DEF EndOfLine
  <2>2. CASE IssueFree(AdvancedUnits, n)
    <3>1. units' = AdvancedUnits /\ IsFree(insts[n]) /\ MarkupInstDests(n, 0)
      BY <2>2 DEF IssueFree, IsFree
    <3> HIDE DEF b, c, n
    <3>2. Issues(n, 0)
      BY <1>1, <1>2, <1>6, <2>1, <3>1 DEF Issues
    <3>3. QED BY <3>2
  <2>3. CASE IssueToUnit(AdvancedUnits, n)
    <3> DEFINE T == FreeUnits(AdvancedUnits, n)
               u == CHOOSE v \in T : \A w \in T : v <= w
    <3>1. /\ insts[n].op # "NoCost" \/ insts[n].fault
          /\ T # {} /\ units' = [AdvancedUnits EXCEPT ![u] = PushUnit(@, n)]
          /\ MarkupInstDests(n, u)
      BY <2>3 DEF IssueToUnit
    <3>2. u \in T
      <4>1. T \in SUBSET Unit
        BY DEF FreeUnits
      <4> HIDE DEF T
      <4>2. QED BY <3>1, <4>1, FirstTaker
    <3>3. u \in Unit /\ Capable(u, n) /\ ~AlreadyPushed(AdvancedUnits[u])
      <4> HIDE DEF u
      <4>1. QED BY <3>2 DEF FreeUnits
    <3>4. u # 0
      BY <3>3, Pool
    <3> HIDE DEF b, c, n, u, T
    <3>5. Issues(n, u)
      BY <1>1, <1>2, <1>6, <2>1, <3>1, <3>3, <3>4 DEF Issues
    <3>6. QED BY <3>5
  <2>4. QED BY <1>6, <2>2, <2>3
<1>7. QED BY <1>4, <1>5, <1>6

(* The units and issue() keep the invariant.                               *)
LEMMA ExecuteKeeps ==
  ASSUME IInv, ExecuteEvaluate
  PROVE  IInv'
<1>1. CASE NothingIssued
  BY <1>1, NotIssuedKeeps
<1>2. CASE \E n, u : Issues(n, u)
  BY <1>2, IssuesKeeps
<1>3. QED BY <1>1, <1>2, ExecuteCases
-----------------------------------------------------------------------------
(* What a step does to what has been decoded.                              *)

(* Nothing that is decided outside issue().                                *)
SameBut(n) ==
  /\ insts'[n].op = insts[n].op /\ insts'[n].stream = insts[n].stream
  /\ insts'[n].fault = insts[n].fault /\ insts'[n].req = insts[n].req
  /\ insts'[n].opens = insts[n].opens /\ insts'[n].dsts = insts[n].dsts

(* Only trytoPush() and the callbacks change an instruction otherwise; and *)
(* one that is new has asked for nothing.                                  *)
LEMMA InstructionSteps ==
  ASSUME IInv, [Next]_vars
  PROVE  /\ Decoded \subseteq Decoded'
         /\ \A n \in Decoded' : n \notin Decoded =>
              insts'[n].req = "NotIssued" /\ insts'[n].opens = 0
         /\ \/ \A n \in Decoded : SameBut(n)
            \/ \E d : PushStep(d)
            \/ \E n, d : Answered(n, d)
<1>1. /\ TypeOK /\ insts \in Seq(DynInst) /\ Len(insts) \in Nat
      /\ Decoded = 1 .. Len(insts)
  BY Named DEF IInv, TypeOK, Decoded
<1>2. CASE insts' = insts
  BY <1>2 DEF SameBut, Decoded
<1>3. CASE \E n, u : Issues(n, u)
  <2>1. PICK n, u : Issues(n, u)
    BY <1>3
  <2>2. n \in Decoded /\ u \in {0} \cup Unit /\ MarkupInstDests(n, u)
    BY <2>1, IssuesYoungest DEF Issues
  <2>3. /\ Len(insts') = Len(insts)
        /\ \A m \in Decoded : m # n => insts'[m] = insts[m]
        /\ insts'[n].op = insts[n].op
        /\ insts'[n].stream = insts[n].stream /\ insts'[n].fault = insts[n].fault
        /\ insts'[n].req = insts[n].req /\ insts'[n].opens = insts[n].opens
        /\ insts'[n].dsts = insts[n].dsts
    BY <1>1, <2>2, MarkupKeeps
  <2>4. QED BY <2>3 DEF SameBut, Decoded
<1>4. CASE DecodeEvaluate
  <2>1. CASE insts' = insts
    BY <1>2, <2>1
  <2>2. ASSUME NEW d \in DynInst, d.opens = 0, d.req = "NotIssued",
               insts' = Append(insts, d)
        PROVE  /\ Decoded \subseteq Decoded'
               /\ \A n \in Decoded' : n \notin Decoded =>
                    insts'[n].req = "NotIssued" /\ insts'[n].opens = 0
               /\ \A n \in Decoded : SameBut(n)
    <3>1. /\ Len(insts') = Len(insts) + 1
          /\ \A m \in 1 .. Len(insts) : insts'[m] = insts[m]
          /\ insts'[Len(insts) + 1] = d
      <4> HIDE DEF DynInst
      <4>1. QED BY <1>1, <2>2, AppendProperties
    <3>2. Decoded' = 1 .. Len(insts) + 1
      BY <3>1 DEF Decoded
    <3>3. \A n \in Decoded' : n \in Decoded \/ n = Len(insts) + 1
      BY <1>1, <3>2
    <3>4. QED BY <1>1, <2>2, <3>1, <3>2, <3>3 DEF SameBut
  <2>3. insts' = insts \/ \E d \in DynInst : /\ d.opens = 0 /\ d.req = "NotIssued"
                                              /\ insts' = Append(insts, d)
    BY <1>4, DecodeCases
  <2>4. QED BY <2>1, <2>2, <2>3
<1>5. ASSUME NEW d, PushStep(d)
      PROVE  Decoded' = Decoded
  <2>1. d \in DynInst /\ insts' = [insts EXCEPT ![Current] = d]
    BY <1>5 DEF PushStep, Becomes
  <2>2. Len([insts EXCEPT ![Current] = d]) = Len(insts)
    BY <1>1
  <2>3. QED BY <2>1, <2>2 DEF Decoded
<1>6. ASSUME NEW n, NEW d, Answered(n, d)
      PROVE  Decoded' = Decoded
  <2>1. insts' = [insts EXCEPT ![n] = d]
    BY <1>6 DEF Answered
  <2>2. Len([insts EXCEPT ![n] = d]) = Len(insts)
    BY <1>1
  <2>3. QED BY <2>1, <2>2 DEF Decoded
<1>7. CASE PushFree \/ NotReady \/ PushBranch \/ PushResult \/ PushMemRef
  <2>1. \E d : PushStep(d)
    BY <1>7, PushFreeStep, NotReadyStep, PushBranchStep, PushResultStep, PushMemRefStep
  <2>2. QED BY <1>5, <2>1
<1>8. CASE \/ \E n \in Num : FinishMemTranslation(n) \/ RecvTimingResp(n)
           \/ \E accept \in BOOLEAN : RecvReqRetry(accept)
  <2>1. insts' = insts \/ \E n, d : Answered(n, d)
    BY <1>8, CallbackCases
  <2>2. QED BY <1>2, <1>6, <2>1
<1>9. CASE ExecuteEvaluate
  <2>1. insts' = insts \/ \E n, u : Issues(n, u)
    BY <1>9, ExecuteCases DEF NothingIssued
  <2>2. QED BY <1>2, <1>3, <2>1
<1>10. CASE WritebackEvaluate \/ MemoryEvaluate \/ SetStalls \/ UNCHANGED vars
  <2>1. insts' = insts
    BY <1>10 DEF WritebackEvaluate, MemoryEvaluate, SetStalls, vars
  <2>2. QED BY <1>2, <2>1
<1>11. QED BY <1>4, <1>7, <1>8, <1>9, <1>10 DEF Next, Cycle
-----------------------------------------------------------------------------
(* The theorems.                                                           *)

(* The invariant is about the state alone.                                 *)
LEMMA StutterKeeps ==
  ASSUME IInv, UNCHANGED vars
  PROVE  IInv'
<1>1. /\ phase' = phase /\ insts' = insts /\ supply' = supply /\ branch' = branch
      /\ dToE' = dToE /\ executeIn' = executeIn /\ execute' = execute
      /\ units' = units /\ renameId' = renameId /\ eTo' = eTo /\ isb' = isb
      /\ memStream' = memStream /\ mTo' = mTo /\ wb' = wb /\ dcache' = dcache
      /\ regs' = regs /\ retired' = retired
  BY DEF vars
<1>2. /\ Decoded' = Decoded /\ ToIssue' = ToIssue /\ Arriving' = Arriving
      /\ Chained' = Chained /\ Opened' = Opened
      /\ \A n : Past(n)' <=> Past(n)
  BY <1>1 DEF Decoded, ToIssue, Arriving, Chained, Opened, Past
<1>3. TypeOK'
  BY <1>1 DEF IInv, TypeOK
<1>4. MemoryBuffers' /\ WritebackBuffers' /\ Conveyor' /\ Flight'
  BY <1>1, <1>2 DEF IInv, MemoryBuffers, WritebackBuffers, Conveyor, Flight, IsFree
<1>5. UnitsKept' /\ FlightInUnits' /\ IssuedToCapable'
  BY <1>1, <1>2 DEF IInv, UnitsKept, UnitKept, FlightInUnits, IssuedToCapable, IsFree,
                    Provides
<1>6. RequestsTracked' /\ OrderKept' /\ LeavesInOrder' /\ PastExecute' /\ StreamsCounted'
  BY <1>1, <1>2 DEF IInv, RequestsTracked, OrderKept, LeavesInOrder, PastExecute,
                    StreamsCounted
<1>7. QED BY <1>3, <1>4, <1>5, <1>6 DEF IInv

(* Every step of the back end keeps the invariant.                         *)
LEMMA NextIInv == IInv /\ [Next]_vars => IInv'
<1> SUFFICES ASSUME IInv, [Next]_vars PROVE IInv'
  OBVIOUS
<1>1. CASE WritebackEvaluate
  BY <1>1, WritebackKeeps
<1>2. CASE MemoryEvaluate
  BY <1>2, MemoryKeeps
<1>3. CASE ExecuteEvaluate
  BY <1>3, ExecuteKeeps
<1>4. CASE PushFree \/ NotReady \/ PushBranch \/ PushResult \/ PushMemRef
  BY <1>4, PushKeeps
<1>5. CASE SetStalls
  BY <1>5, SetStallsKeeps
<1>6. CASE DecodeEvaluate
  BY <1>6, DecodeKeeps
<1>7. CASE \/ \E n \in Num : FinishMemTranslation(n) \/ RecvTimingResp(n)
           \/ \E accept \in BOOLEAN : RecvReqRetry(accept)
  BY <1>7, CallbackKeeps
<1>8. CASE UNCHANGED vars
  BY <1>8, StutterKeeps
<1>9. QED BY <1>1, <1>2, <1>3, <1>4, <1>5, <1>6, <1>7, <1>8 DEF Next, Cycle

(* The inductive invariant holds in every state.                           *)
THEOREM Invariance == Spec => []IInv
<1>1. QED BY InitIInv, NextIInv, PTL DEF Spec

(* The state of the back end keeps its types: reservations are never       *)
(* returned that were not made (execSeqNums, streams and unsigned counts   *)
(* stay in their ranges).                                                  *)
THEOREM TypeCorrectness == Spec => []TypeOK
<1>1. IInv => TypeOK
  BY DEF IInv
<1>2. QED BY <1>1, Invariance, PTL

(* Writeback's COMMON and TRAP never fill, although Memory does not ask    *)
(* before it reserves: it moves at most one instruction in a cycle, and    *)
(* Writeback takes it in the next.                                         *)
THEOREM WritebackTakesWhatMemoryMoves == Spec => []WritebackKeepsUp
<1>1. IInv => WritebackKeepsUp
  <2> SUFFICES ASSUME IInv, NEW b \in {"COMMON", "TRAP"}
               PROVE  wb[b].reserved + wb[b].occupied <= WritebackBufferSize
    BY DEF WritebackKeepsUp
  <2>1. wb[b].occupied = 0 /\ wb[b].reserved = Len(mTo[b])
    BY DEF IInv, WritebackBuffers
  <2>2. Len(mTo[b]) \in {0, 1}
    <3>1. CASE \A x \in {"COMMON", "TRAP", "ORDER"} : mTo[x] = <<>>
      BY <3>1
    <3>2. CASE \E n \in Num, to \in {"COMMON", "TRAP"} :
                 mTo = [x \in {"COMMON", "TRAP", "ORDER"} |->
                          IF x \in {to, "ORDER"} THEN <<n>> ELSE <<>>]
      BY <3>2
    <3>3. QED BY <3>1, <3>2 DEF IInv, WritebackBuffers
  <2>3. WritebackBufferSize \in Nat \ {0}
    BY BackEndAssumption
  <2> DEFINE k == Len(mTo[b])
  <2>4. k <= WritebackBufferSize /\ k + 0 = k
    <3> HIDE DEF k
    <3>1. k \in {0, 1}
      BY <2>2 DEF k
    <3>2. QED BY <2>3, <3>1
  <2>5. QED BY <2>1, <2>4
<1>2. QED BY <1>1, Invariance, PTL

(* A unit only stands still for an instruction that will start it again,   *)
(* or for a fault; and what is in flight and waits for its unit is in it:  *)
(* no unit loses an instruction, however its neighbours stall.             *)
THEOREM NoUnitLosesAnInstruction == Spec => []UnitsHoldWhatIsInFlight
<1>1. IInv => UnitsHoldWhatIsInFlight
  <2> SUFFICES ASSUME IInv PROVE UnitsHoldWhatIsInFlight
    OBVIOUS
  <2>1. \A u \in Unit : units[u].stalled =>
          UnitFront(units[u]) \in Ids(execute.inFlight) \/ insts[UnitFront(units[u])].fault
    BY DEF IInv, UnitsKept, UnitKept
  <2>2. \A n \in Ids(execute.inFlight) :
          ~IsFree(insts[n]) => n \in Ids(units[insts[n].fu].pipe)
    BY DEF IInv, FlightInUnits
  <2>3. QED BY <2>1, <2>2 DEF UnitsHoldWhatIsInFlight
<1>2. QED BY <1>1, Invariance, PTL

(* Instructions are retired in the order of decoding, whatever order the   *)
(* units finish them in and however many of them the boxes hold.           *)
THEOREM Retirement == Spec => []RetiresInOrder
<1>1. IInv => RetiresInOrder
  <2> SUFFICES ASSUME IInv, NEW i \in 1 .. Len(retired) - 1
               PROVE  retired[i] < retired[i + 1]
    BY DEF RetiresInOrder
  <2>1. Increasing(retired) /\ Len(retired) \in Nat
    BY Named DEF IInv, LeavesInOrder
  <2>2. i \in 1 .. Len(retired) /\ i + 1 \in 1 .. Len(retired) /\ i < i + 1
    BY <2>1
  <2>3. QED BY <2>1, <2>2 DEF Increasing
<1>2. QED BY <1>1, Invariance, PTL
=============================================================================
