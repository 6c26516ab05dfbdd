--------------------------- MODULE BackEndRequests ---------------------------
(***************************************************************************)
(* The accesses to memory, for every pool with one unit that makes them:   *)
(* "opClasses Mem" is in one unit of BaseCClassCPU.py's pool.              *)
(***************************************************************************)
EXTENDS BackEndProofs

OneMemoryUnit ==
  \A u, v \in Unit :
    (\E op \in MemOp : Provides(u, op)) /\ (\E op \in MemOp : Provides(v, op))
      => u = v

(* Without error responses none is waiting to be put into a latch.         *)
NoError == \A n \in Decoded : insts[n].req # "Error"

-----------------------------------------------------------------------------
(* An access that is at the head of its unit is the oldest in it; the      *)
(* older ones have been sent.                                              *)
LEMMA OlderAreSent ==
  ASSUME IInv, OneMemoryUnit,
         NEW n \in Decoded, insts[n].op \in MemOp, insts[n].fu \in Unit,
         ~insts[n].fault, UnitFront(units[insts[n].fu]) = n,
         NEW m \in 1 .. n - 1, insts[m].op \in MemOp, insts[m].fu # 0
  PROVE  insts[m].req \in Sent \/ insts[m].fault
<1> SUFFICES ASSUME ~insts[m].fault, insts[m].req \notin Sent
             PROVE  FALSE
  OBVIOUS
<1> DEFINE u == insts[n].fu
           f == units[u]
           L == Len(f.pipe)
<1>1. /\ m \in Decoded /\ insts[m] \in DynInst /\ TypeOK /\ m < n
      /\ m \in Nat /\ n \in Nat /\ m # NoInst /\ n # NoInst
  <2>1. Len(insts) \in Nat /\ n \in 1 .. Len(insts)
    BY Named DEF IInv, Decoded
  <2>2. m \in 1 .. Len(insts) /\ m < n /\ m \in Nat /\ n \in Nat /\ m # 0 /\ n # 0
    BY <2>1
  <2>3. QED BY <2>2, Named DEF IInv, Decoded, NoInst
<1>2. insts[m].fu = u
  <2>1. Provides(insts[m].fu, insts[m].op) /\ Provides(u, insts[n].op)
    BY <1>1, Pool DEF IInv, IssuedToCapable
  <2>2. insts[m].fu \in Unit
    BY <1>1 DEF DynInst
  <2>3. QED BY <2>1, <2>2 DEF OneMemoryUnit
<1>3. m \in Ids(execute.inFlight)
  BY <1>1 DEF IInv, RequestsTracked
<1>4. m \in Ids(f.pipe)
  <2>1. ~IsFree(insts[m])
    BY DEF IsFree, MemOp
  <2>2. QED BY <1>2, <1>3, <2>1 DEF IInv, FlightInUnits
<1>5. UnitKept(f, u) /\ L \in Nat /\ L > 1 /\ UnitFront(f) = f.pipe[L] /\ UnitFront(f) = n
  BY <1>1, UnitNamed DEF IInv, UnitFront
<1> HIDE DEF f, L, u
<1>6. PICK i \in 1 .. L : f.pipe[i] = m
  BY <1>4, IdsDef DEF L
<1>7. f.pipe[L] = n /\ L \in 1 .. L
  BY <1>5
<1>8. i < L
  BY <1>1, <1>5, <1>6, <1>7
<1>9. n < m
  BY <1>1, <1>5, <1>6, <1>7, <1>8 DEF UnitKept, L
<1>10. QED BY <1>1, <1>9

(* No request becomes an error where the memory system reports none.       *)
LEMMA NoErrorKept ==
  ASSUME IInv, NoError, "response" \notin Faults, [Next]_vars
  PROVE  NoError'
<1>1. CASE \A n \in Decoded : SameBut(n)
  BY <1>1, InstructionSteps DEF NoError, SameBut
<1>2. ASSUME NEW d, PushStep(d)
      PROVE  NoError'
  <2>1. /\ TypeOK /\ Current \in Decoded /\ d \in DynInst
        /\ insts' = [insts EXCEPT ![Current] = d]
        /\ d.req = insts[Current].req \/ d.req # "Error" \/ insts[Current].req = "Error"
    BY <1>2, PushKeepsInsts DEF IInv, PushStep, Becomes, TracksRequest
  <2>2. /\ Decoded' = Decoded /\ insts'[Current] = d
        /\ \A m \in Decoded : m # Current => insts'[m] = insts[m]
    BY <2>1, OneInstChanges
  <2>3. QED BY <2>1, <2>2 DEF NoError
<1>3. ASSUME NEW n, NEW d, Answered(n, d)
      PROVE  NoError'
  <2>1. /\ TypeOK /\ n \in Decoded /\ d \in DynInst
        /\ insts' = [insts EXCEPT ![n] = d] /\ d.req # "Error"
    BY <1>3 DEF IInv, Answered
  <2>2. /\ Decoded' = Decoded /\ insts'[n] = d
        /\ \A m \in Decoded : m # n => insts'[m] = insts[m]
    BY <2>1, OneInstChanges
  <2>3. QED BY <2>1, <2>2 DEF NoError
<1>4. QED BY <1>1, <1>2, <1>3, InstructionSteps

(* A step sends at most one request, after those of all older accesses.    *)
LEMMA SendsOldestFirst ==
  ASSUME IInv, NoError, OneMemoryUnit, [Next]_vars
  PROVE  SendsInOrder
<1> DEFINE OlderSent(n) ==
             \A m \in 1 .. n - 1 : insts[m].op \in MemOp /\ insts[m].fu # 0
                                     => insts[m].req \in Sent \/ insts[m].fault
<1>1. SUFFICES ASSUME NEW n \in Decoded
               PROVE  /\ insts[n].req \in Sent => insts'[n].req \in Sent
                      /\ insts[n].req \notin Sent /\ insts'[n].req \in Sent => OlderSent(n)
  BY DEF SendsInOrder, MemOp
<1>2. ASSUME insts[n].op \in MemOp, ~insts[n].fault, insts[n].fu \in Unit,
             UnitFront(units[insts[n].fu]) = n
      PROVE  OlderSent(n)
  BY <1>2, OlderAreSent
<1>3. CASE SameBut(n)
  BY <1>3 DEF SameBut
<1>4. ASSUME NEW d, PushStep(d)
      PROVE  /\ insts[n].req \in Sent => insts'[n].req \in Sent
             /\ insts[n].req \notin Sent /\ insts'[n].req \in Sent => OlderSent(n)
  <2>1. /\ TypeOK /\ Current \in Decoded /\ d \in DynInst
        /\ insts' = [insts EXCEPT ![Current] = d] /\ TracksRequest(d)
        /\ insts[Current] \in DynInst
    BY <1>4, PushKeepsInsts, Named DEF IInv, PushStep, Becomes
  <2>2. /\ insts'[Current] = d
        /\ \A m \in Decoded : m # Current => insts'[m] = insts[m]
    BY <2>1, OneInstChanges
  <2>3. CASE n # Current \/ d.req = insts[Current].req
    BY <2>2, <2>3
  <2>4. CASE n = Current /\ d.req # insts[Current].req
    <3>1. /\ insts[n].op \in MemOp /\ ~IsFree(insts[n]) /\ AtHead(n)
          /\ insts[n].req \in {"NotIssued", "Error"}
      BY <2>1, <2>4 DEF TracksRequest
    <3>2. insts[n].req \notin Sent
      BY <3>1 DEF NoError, Sent
    <3>3. insts[n].fu \in Unit
      <4>1. n \in Ids(execute.inFlight)
        BY <1>4, <2>4, PushKeepsInsts
      <4>2. QED BY <2>1, <2>4, <3>1, <4>1 DEF IInv, Flight, DynInst
    <3>4. QED BY <1>2, <3>1, <3>2, <3>3 DEF AtHead, IsFree
  <2>5. QED BY <2>3, <2>4
<1>5. ASSUME NEW k, NEW d, Answered(k, d)
      PROVE  /\ insts[n].req \in Sent => insts'[n].req \in Sent
             /\ insts[n].req \notin Sent /\ insts'[n].req \in Sent => OlderSent(n)
  <2>1. /\ TypeOK /\ k \in Decoded /\ d \in DynInst
        /\ insts' = [insts EXCEPT ![k] = d]
        /\ insts[k].req \in {"InTranslation", "SentToCache", "WaitingRetry"}
        /\ d.req \in Sent \/ insts[k].req = "InTranslation"
    BY <1>5 DEF IInv, Answered
  <2>2. /\ insts'[k] = d /\ \A m \in Decoded : m # k => insts'[m] = insts[m]
    BY <2>1, OneInstChanges
  <2>3. CASE n # k
    BY <2>2, <2>3
  <2>4. CASE n = k /\ insts[n].req = "SentToCache"
    BY <2>1, <2>2, <2>4 DEF Sent
  <2>5. CASE n = k /\ insts[n].req \in {"InTranslation", "WaitingRetry"}
    <3>1. /\ insts[n].op \in MemOp /\ ~insts[n].fault
          /\ UnitFront(units[insts[n].fu]) = n /\ n \in Ids(execute.inFlight)
      BY <2>5 DEF IInv, RequestsTracked
    <3>2. insts[n].fu \in Unit
      BY <2>1, <3>1, Named DEF IInv, Flight, DynInst, IsFree, MemOp
    <3>3. OlderSent(n)
      BY <1>2, <3>1, <3>2
    <3>4. insts[n].req \notin Sent
      BY <2>5 DEF Sent
    <3>5. QED BY <3>3, <3>4
  <2>6. QED BY <2>1, <2>3, <2>4, <2>5
<1>6. QED BY <1>3, <1>4, <1>5, InstructionSteps

(* A request goes to the data cache once, and after those of all older     *)
(* accesses, however often trytoPush() comes to it, the DTLB answers late  *)
(* or the cache refuses it: with one memory unit, where the memory system  *)
(* reports no errors.                                                      *)
THEOREM RequestsGoOutInOrder ==
  ASSUME OneMemoryUnit, "response" \notin Faults
  PROVE  Spec => MemRequestsInOrder
<1>1. Init => IInv /\ NoError
  <2> SUFFICES ASSUME Init PROVE IInv /\ NoError
    OBVIOUS
  <2>1. Decoded = {}
    BY DEF Init, Decoded
  <2>2. QED BY <2>1, InitIInv DEF NoError
<1>2. IInv /\ NoError /\ [Next]_vars => IInv' /\ NoError'
  BY NextIInv, NoErrorKept
<1>3. IInv /\ NoError /\ [Next]_vars => [SendsInOrder]_vars
  BY SendsOldestFirst
<1>4. QED BY <1>1, <1>2, <1>3, PTL DEF Spec, MemRequestsInOrder
-----------------------------------------------------------------------------
(* The answers of the data cache.                                          *)

(* An access that is a fault has its fault from the translation.           *)
FaultsFailed ==
  \A n \in Decoded : insts[n].op \in MemOp /\ insts[n].fault => insts[n].req = "Failed"

(* One access goes to Memory in a cycle: its unit moves on, and no other   *)
(* is at the head of it before the next.                                   *)
OneAccessACycle ==
  /\ OneAPacket(isb["MEMORY"])
  /\ Len(eTo["MEMORY"]) <= 1
  /\ phase = "push" /\ eTo["MEMORY"] # <<>> =>
       \A u \in Unit : (\E op \in MemOp : Provides(u, op)) => ~units[u].stalled

(* Neither n nor any instruction of its stream will be asked for by ORDER  *)
(* while Memory is in that stream: the stream is over, or Memory has not   *)
(* been told of it and ORDER is past the branch that opened it.            *)
Lost(n) ==
  \/ insts[n].stream < memStream
  \/ /\ memStream < insts[n].stream
     /\ \A m \in Chained : insts[n].stream <= insts[m].stream

(* Memory drops the access the cache has still to answer only with its     *)
(* stream.                                                                 *)
OnlyTheLostAreFreed == \A n \in dcache.cache : Freed(n) => Lost(n)

AnswersKept == FaultsFailed /\ OneAccessACycle /\ OnlyTheLostAreFreed

(* What trytoPush() does for an access that is put into the latch to       *)
(* MEMORY, and for everything else.                                        *)
IntoMemory ==
  /\ eTo' = [eTo EXCEPT !["MEMORY"] = Append(@, Current)]
  /\ isb' = [isb EXCEPT !["MEMORY"] = ReserveEntry(@)]
  /\ units' = Released
  /\ AtHead(Current) /\ ~IsFree(insts[Current]) /\ insts[Current].op \in MemOp

PastMemory ==
  /\ eTo'["MEMORY"] = eTo["MEMORY"] /\ isb'["MEMORY"] = isb["MEMORY"]
  /\ \/ execute'.inFlight = execute.inFlight
     \/ insts'[Current].req # "SentToCache"

(* Only accesses the cache has accepted go to MEMORY, and they go nowhere  *)
(* else; an access becomes a fault with its request.                       *)
LEMMA AccessesGoToMemory ==
  ASSUME IInv, FaultsFailed,
         PushFree \/ NotReady \/ PushBranch \/ PushResult \/ PushMemRef
  PROVE  /\ IntoMemory \/ PastMemory
         /\ insts'[Current].op \in MemOp /\ insts'[Current].fault
              => insts'[Current].req = "Failed"
<1> DEFINE e == insts[Current]
<1>1. /\ Pushing /\ e \in DynInst /\ Current \in Decoded /\ insts \in Seq(DynInst)
      /\ e.req # "NotIssued" => e.op \in MemOp
      /\ e.op \in MemOp /\ e.fault => e.req = "Failed"
      /\ Current \in DOMAIN insts
  <2>1. Pushing
    BY DEF PushFree, NotReady, PushBranch, PushResult, PushMemRef, Ready
  <2>2. /\ e \in DynInst /\ Current \in Decoded /\ insts \in Seq(DynInst)
        /\ e.req # "NotIssued" => e.op \in MemOp
    BY <2>1, CurrentIn DEF IInv, TypeOK
  <2>3. QED BY <2>1, <2>2 DEF FaultsFailed, Decoded
<1>2. \A d : TargetBox(d) # "MEMORY"
  BY DEF TargetBox, NoBox
<1>3. ASSUME NEW box, box # "MEMORY", Put(box)
      PROVE  eTo'["MEMORY"] = eTo["MEMORY"] /\ isb'["MEMORY"] = isb["MEMORY"]
  BY <1>3 DEF Put, IInv, TypeOK, Box
<1>4. ASSUME KeepInFlight
      PROVE  PastMemory
  BY <1>4 DEF KeepInFlight, PastMemory
<1>5. CASE PushFree
  <2>1. /\ IsFree(e) /\ UNCHANGED insts
        /\ KeepInFlight \/ Put(TargetBox(e))
    BY <1>5 DEF PushFree
  <2>2. e.req # "SentToCache"
    BY <1>1, <2>1 DEF IsFree, MemOp
  <2>3. PastMemory
    BY <1>2, <1>3, <1>4, <2>1, <2>2 DEF PastMemory
  <2>4. QED BY <1>1, <2>1, <2>3
<1>6. CASE NotReady
  BY <1>1, <1>4, <1>6 DEF NotReady
<1>7. CASE PushBranch
  <2>1. e.op = "Branch" /\ (KeepInFlight \/ Put("BASE"))
    BY <1>7 DEF PushBranch, Ready
  <2>2. e.req = "NotIssued"
    BY <1>1, <2>1 DEF MemOp
  <2>3. insts'[Current].op = e.op /\ insts'[Current].req = e.req
    <3>1. \/ UNCHANGED insts \/ insts' = [insts EXCEPT ![Current].fault = TRUE]
          \/ insts' = [insts EXCEPT ![Current].opens = execute.streamSeqNum + 1]
      BY <1>7 DEF PushBranch
    <3> HIDE DEF Current
    <3>2. QED BY <1>1, <3>1 DEF DynInst
  <2>4. PastMemory
    BY <1>3, <1>4, <2>1, <2>2, <2>3 DEF PastMemory
  <2>5. QED BY <2>1, <2>3, <2>4 DEF MemOp
<1>8. CASE PushResult
  <2>1. e.op \in {"Alu", "Mul", "Div", "Float"}
    BY <1>8 DEF PushResult, Ready
  <2>2. e.req = "NotIssued"
    BY <1>1, <2>1 DEF MemOp
  <2>3. insts'[Current].op = e.op /\ insts'[Current].req = e.req
    <3>1. UNCHANGED insts \/ \E f : insts' = [insts EXCEPT ![Current].fault = f]
      BY <1>8 DEF PushResult
    <3>2. QED BY <1>1, <3>1 DEF DynInst
  <2>4. KeepInFlight \/ \E d : Put(TargetBox(d))
    BY <1>8 DEF PushResult, Leave
  <2>5. PastMemory
    BY <1>2, <1>3, <1>4, <2>2, <2>3, <2>4 DEF PastMemory
  <2>6. QED BY <2>1, <2>3, <2>5 DEF MemOp
<1>9. CASE PushMemRef
  <2>1. e.op \in MemOp /\ ~IsFree(e) /\ AtHead(Current)
    BY <1>9 DEF PushMemRef, Ready, MemOp
  <2> DEFINE Target(state) ==
        CASE state \in {"SentToCache", "Complete"} /\ MayPushMemReq -> "MEMORY"
          [] state \in {"Failed", "Error"} ->
               TargetBox([e EXCEPT !.fault = state = "Failed"])
          [] OTHER -> NoBox
  <2>2. PICK state :
          /\ insts' = [insts EXCEPT
                         ![Current].fault = state = "Failed",
                         ![Current].req = IF state = "Error" /\ ~HasSlot(Target(state))
                                          THEN "NotIssued" ELSE state]
          /\ IF HasSlot(Target(state)) THEN Leave(Target(state)) ELSE KeepInFlight
    BY <1>9 DEF PushMemRef
  <2> DEFINE box == Target(state)
  <2>3. /\ insts'[Current].fault = (state = "Failed")
        /\ insts'[Current].req \in {state, "NotIssued"}
        /\ state = "Failed" => insts'[Current].req = "Failed"
    <3> DEFINE r == IF state = "Error" /\ ~HasSlot(box) THEN "NotIssued" ELSE state
               f == state = "Failed"
    <3>1. insts' = [insts EXCEPT ![Current].fault = f, ![Current].req = r]
      BY <2>2
    <3>2. r \in {state, "NotIssued"} /\ (f => r = "Failed")
      OBVIOUS
    <3> HIDE DEF r, Target
    <3>3. insts'[Current].fault = f /\ insts'[Current].req = r
      BY <1>1, <3>1 DEF DynInst
    <3>4. QED BY <3>2, <3>3
  <2>4. /\ box = "MEMORY" \/ box # "MEMORY"
        /\ box # "MEMORY" /\ HasSlot(box) => state \in {"Failed", "Error"}
    BY DEF HasSlot
  <2>5. HasSlot(box) => Leave(box)
    BY <2>2
  <2>6. ~HasSlot(box) => KeepInFlight
    BY <2>2
  <2> HIDE DEF Target
  <2>7. CASE HasSlot(box) /\ box = "MEMORY"
    <3>1. IntoMemory
      BY <2>1, <2>5, <2>7 DEF Leave, Put, IntoMemory
    <3>2. QED BY <2>3, <3>1
  <2>8. CASE HasSlot(box) /\ box # "MEMORY"
    <3>1. insts'[Current].req # "SentToCache"
      BY <2>3, <2>4, <2>8
    <3>2. PastMemory
      BY <1>3, <2>5, <2>8, <3>1 DEF Leave, PastMemory
    <3>3. QED BY <2>3, <3>2
  <2>9. CASE ~HasSlot(box)
    BY <1>4, <2>3, <2>6, <2>9
  <2>10. QED BY <2>7, <2>8, <2>9
<1>10. QED BY <1>5, <1>6, <1>7, <1>8, <1>9

(* The fault of an access stays that of its translation.                   *)
LEMMA FaultsFailedKept ==
  ASSUME IInv, FaultsFailed, [Next]_vars
  PROVE  FaultsFailed'
<1>1. CASE PushFree \/ NotReady \/ PushBranch \/ PushResult \/ PushMemRef
  <2>1. PICK d : PushStep(d)
    BY <1>1, PushFreeStep, NotReadyStep, PushBranchStep, PushResultStep, PushMemRefStep
  <2>2. /\ Decoded' = Decoded
        /\ \A m \in Decoded : m # Current => insts'[m] = insts[m]
    BY <2>1, PushKeepsInsts
  <2>3. /\ insts'[Current].op \in MemOp /\ insts'[Current].fault
             => insts'[Current].req = "Failed"
    BY <1>1, AccessesGoToMemory
  <2>4. QED BY <2>2, <2>3 DEF FaultsFailed
<1>2. ASSUME NEW n, NEW d, Answered(n, d)
      PROVE  FaultsFailed'
  <2>1. /\ TypeOK /\ n \in Decoded /\ d \in DynInst /\ insts[n] \in DynInst
        /\ insts' = [insts EXCEPT ![n] = d] /\ d = [insts[n] EXCEPT !.req = d.req]
        /\ insts[n].req # "Failed" /\ insts[n].req # "NotIssued"
    BY <1>2, Named DEF IInv, Answered
  <2>2. /\ Decoded' = Decoded /\ insts'[n] = d
        /\ \A m \in Decoded : m # n => insts'[m] = insts[m]
    BY <2>1, OneInstChanges
  <2>3. d.fault = insts[n].fault /\ ~insts[n].fault
    <3>1. insts[n].op \in MemOp
      BY <2>1 DEF IInv, RequestsTracked
    <3>2. ~insts[n].fault
      BY <2>1, <3>1 DEF FaultsFailed
    <3>3. [insts[n] EXCEPT !.req = d.req].fault = insts[n].fault
      BY <2>1 DEF DynInst
    <3>4. QED BY <2>1, <3>2, <3>3
  <2>4. QED BY <2>2, <2>3 DEF FaultsFailed
<1>3. CASE \E n \in Num : FinishMemTranslation(n) \/ RecvTimingResp(n)
  <2>1. UNCHANGED insts \/ \E n, d : Answered(n, d)
    BY <1>3, CallbackCases
  <2>2. QED BY <1>2, <2>1 DEF FaultsFailed, Decoded
<1>4. CASE \E accept \in BOOLEAN : RecvReqRetry(accept)
  <2>1. UNCHANGED insts \/ \E n, d : Answered(n, d)
    BY <1>4, CallbackCases
  <2>2. QED BY <1>2, <2>1 DEF FaultsFailed, Decoded
<1>5. CASE ExecuteEvaluate
  <2>1. CASE insts' = insts
    BY <2>1 DEF FaultsFailed, Decoded
  <2>2. ASSUME NEW n, NEW u, Issues(n, u)
        PROVE  FaultsFailed'
    <3>1. n \in Decoded /\ u \in {0} \cup Unit /\ MarkupInstDests(n, u) /\ TypeOK
      BY <2>2, IssuesYoungest DEF Issues, IInv
    <3>2. /\ Len(insts') = Len(insts)
          /\ \A m \in Decoded : m # n => insts'[m] = insts[m]
          /\ insts'[n].op = insts[n].op
          /\ insts'[n].fault = insts[n].fault /\ insts'[n].req = insts[n].req
      BY <3>1, MarkupKeeps
    <3>3. QED BY <3>2 DEF FaultsFailed, Decoded
  <2>3. insts' = insts \/ \E n, u : Issues(n, u)
    BY <1>5, ExecuteCases DEF NothingIssued
  <2>4. QED BY <2>1, <2>2, <2>3
<1>6. CASE DecodeEvaluate
  <2>1. CASE insts' = insts
    BY <2>1 DEF FaultsFailed, Decoded
  <2>2. ASSUME NEW s \in StaticInsts,
               insts' = Append(insts,
                 [op |-> s.op, dsts |-> s.dsts, srcs |-> s.srcs,
                  stream |-> supply, fault |-> s.op = "FetchFault",
                  fu |-> 0, forward |-> 0, req |-> "NotIssued", opens |-> 0])
        PROVE  FaultsFailed'
    <3> DEFINE d == [op |-> s.op, dsts |-> s.dsts, srcs |-> s.srcs,
                     stream |-> supply, fault |-> s.op = "FetchFault",
                     fu |-> 0, forward |-> 0, req |-> "NotIssued", opens |-> 0]
    <3>1. /\ insts \in Seq(DynInst) /\ Len(insts) \in Nat
      BY Named DEF IInv, TypeOK
    <3>2. d.op \in MemOp => ~d.fault
      BY DEF MemOp
    <3> HIDE DEF d
    <3>3. /\ Len(insts') = Len(insts) + 1
          /\ \A m \in 1 .. Len(insts) : insts'[m] = insts[m]
          /\ insts'[Len(insts) + 1] = d
      <4>1. insts' = Append(insts, d)
        BY <2>2 DEF d
      <4>2. QED BY <3>1, <4>1
    <3>4. \A m \in 1 .. Len(insts') : m \in 1 .. Len(insts) \/ m = Len(insts) + 1
      BY <3>1, <3>3
    <3>5. QED BY <3>2, <3>3, <3>4 DEF FaultsFailed, Decoded
  <2>3. \/ insts' = insts
        \/ \E s \in StaticInsts :
             insts' = Append(insts,
                 [op |-> s.op, dsts |-> s.dsts, srcs |-> s.srcs,
                  stream |-> supply, fault |-> s.op = "FetchFault",
                  fu |-> 0, forward |-> 0, req |-> "NotIssued", opens |-> 0])
    BY <1>6 DEF DecodeEvaluate
  <2>4. QED BY <2>1, <2>2, <2>3
<1>7. CASE WritebackEvaluate \/ MemoryEvaluate \/ SetStalls \/ UNCHANGED vars
  <2>1. insts' = insts
    BY <1>7 DEF WritebackEvaluate, MemoryEvaluate, SetStalls, vars
  <2>2. QED BY <2>1 DEF FaultsFailed, Decoded
<1>8. QED BY <1>1, <1>3, <1>4, <1>5, <1>6, <1>7 DEF Next, Cycle

(* What the reader of MEMORY takes in, as long as accesses come one at a   *)
(* time.                                                                   *)
LEMMA TakesInOneAccess ==
  ASSUME IInv, OneAccessACycle
  PROVE  LET c == TakenIn["MEMORY"]
         IN  /\ c \in IsbOf(Num) /\ Tally(c) /\ OneAPacket(c) /\ c.index = 0
             /\ Waiting(c) = Waiting(isb["MEMORY"]) \cup Ids(eTo["MEMORY"])
<1> DEFINE b == isb["MEMORY"]
           p == eTo["MEMORY"]
           c == PushPacket(b, p)
<1>1. /\ b \in IsbOf(Num) /\ Tally(b) /\ p \in Seq(Num) /\ b.reserved = Len(p)
      /\ Len(p) <= 1 /\ OneAPacket(b)
  <2>1. "MEMORY" \in Box \cup {"ORDER"}
    BY DEF Box
  <2>2. QED BY <2>1 DEF IInv, TypeOK, MemoryBuffers, OneAccessACycle
<1>2. TakenIn["MEMORY"] = ResetConsumed(c)
  BY DEF TakenIn, Box
<1> HIDE DEF b, p
<1>3. c \in IsbOf(Num) /\ Tally(c)
  BY <1>1, PushPacketKeeps
<1>4. OneAPacket(c) /\ Waiting(c) = Waiting(b) \cup Ids(p)
  BY <1>1, PushOne
<1> HIDE DEF c
<1>5. ResetConsumed(c) \in IsbOf(Num) /\ Tally(ResetConsumed(c))
  BY <1>3, ResetConsumedKeeps
<1>6. /\ OneAPacket(ResetConsumed(c)) /\ ResetConsumed(c).index = 0
      /\ Waiting(ResetConsumed(c)) = Waiting(c)
  BY <1>3, <1>4, ResetOne
<1>7. QED BY <1>2, <1>4, <1>5, <1>6 DEF b, p

(* With the front entry nothing else leaves a buffer, neither when its     *)
(* packet is dropped nor when it is consumed.                              *)
LEMMA OnlyTheFrontLeaves ==
  ASSUME NEW b \in IsbOf(Num), Tally(b), OneAPacket(b), b.index = 0,
         FrontEntry(b) # NoInst
  PROVE  /\ OneAPacket(PopPacket(b)) /\ OneAPacket(ConsumeEntry(b))
         /\ Waiting(b) \subseteq Waiting(PopPacket(b)) \cup {FrontEntry(b)}
         /\ Waiting(b) \subseteq Waiting(ConsumeEntry(b)) \cup {FrontEntry(b)}
<1> DEFINE q == b.queue
           L == Len(q)
           n == FrontEntry(b)
<1>1. /\ q \in Seq(Seq(Num)) /\ L \in Nat /\ q # <<>> /\ L >= 1
      /\ \A i \in 1 .. L : Len(q[i]) = 1
      /\ n = q[1][1]
  BY IsbFields, FrontEntryIn DEF OneAPacket
<1>2. Waiting(b) = {q[i][1] : i \in {k \in 1 .. L : k = 1 => b.index = 0}}
  BY WaitingOne
<1>3. ASSUME NEW c \in IsbOf(Num), OneAPacket(c),
             \A i \in 2 .. L : \E k \in 1 .. Len(c.queue) :
                (k = 1 => c.index = 0) /\ c.queue[k] = q[i]
      PROVE  Waiting(b) \subseteq Waiting(c) \cup {n}
  <2> SUFFICES ASSUME NEW m \in Waiting(b), m # n
               PROVE  m \in Waiting(c)
    OBVIOUS
  <2>1. Waiting(c) = {c.queue[k][1] : k \in {k \in 1 .. Len(c.queue) : k = 1 => c.index = 0}}
    BY <1>3, WaitingOne
  <2> HIDE DEF q, L, n
  <2>2. PICK i \in 1 .. L : m = q[i][1]
    BY <1>2
  <2>3. i \in 2 .. L
    BY <1>1, <2>2
  <2>4. QED BY <1>3, <2>1, <2>2, <2>3
<1>4. OneAPacket(PopPacket(b)) /\ Waiting(b) \subseteq Waiting(PopPacket(b)) \cup {n}
  <2> DEFINE c == PopPacket(b)
  <2>1. c \in IsbOf(Num) /\ c.index = 0 /\ c.queue = Tail(q)
    BY <1>1, PopPacketKeeps
  <2> HIDE DEF c
  <2>2. /\ Len(Tail(q)) = L - 1 /\ \A i \in 1 .. L - 1 : Tail(q)[i] = q[i + 1]
    <3> HIDE DEF q
    <3>1. QED BY <1>1, TailIds DEF L
  <2> HIDE DEF q, L
  <2>3. \A i \in 1 .. Len(c.queue) : c.queue[i] = q[i + 1] /\ i + 1 \in 1 .. L
    BY <1>1, <2>1, <2>2
  <2>4. OneAPacket(c)
    BY <1>1, <2>1, <2>3 DEF OneAPacket
  <2>5. ASSUME NEW i \in 2 .. L
        PROVE  \E k \in 1 .. Len(c.queue) : (k = 1 => c.index = 0) /\ c.queue[k] = q[i]
    <3>1. i - 1 \in 1 .. Len(c.queue) /\ c.queue[i - 1] = q[i]
      BY <1>1, <2>1, <2>2
    <3>2. QED BY <2>1, <3>1
  <2>6. QED BY <1>3, <2>1, <2>4, <2>5 DEF c, q, L
<1>5. OneAPacket(ConsumeEntry(b)) /\ Waiting(b) \subseteq Waiting(ConsumeEntry(b)) \cup {n}
  <2> DEFINE c == [b EXCEPT !.index = 1]
  <2>1. c \in IsbOf(Num) /\ c.queue = q
    BY IndexKeeps
  <2>2. ConsumeEntry(b) = c
    BY DEF ConsumeEntry
  <2> HIDE DEF c
  <2>3. OneAPacket(c)
    BY <1>1, <2>1 DEF OneAPacket
  <2>4. \A i \in 2 .. L : i \in 1 .. Len(c.queue) /\ (i = 1 => c.index = 0) /\ c.queue[i] = q[i]
    BY <1>1, <2>1
  <2>5. QED BY <1>3, <2>1, <2>2, <2>3, <2>4
<1>6. QED BY <1>4, <1>5

(* Memory makes room in MEMORY only for the instruction ORDER names: it    *)
(* has its answer, or its stream is not Memory's.                          *)
LEMMA LeavesMemory ==
  ASSUME IInv, AnswersKept, MemoryEvaluate
  PROVE  /\ OneAPacket(isb'["MEMORY"])
         /\ \A n \in dcache.cache :
              n \in Waiting(isb["MEMORY"]) \cup Ids(eTo["MEMORY"])
                => \/ n \in Waiting(isb'["MEMORY"])
                   \/ /\ Stale(n) /\ memStream' = memStream
                      /\ n \in Chained /\ \A m \in Chained : n <= m
<1> DEFINE c == TakenIn["MEMORY"]
           o == TakenIn["ORDER"]
           num == FrontEntry(o)
<1>1. /\ c \in IsbOf(Num) /\ Tally(c) /\ OneAPacket(c) /\ c.index = 0
      /\ Waiting(c) = Waiting(isb["MEMORY"]) \cup Ids(eTo["MEMORY"])
      /\ TypeOK
  BY TakesInOneAccess DEF AnswersKept, IInv
<1>2. \A b : (b = "MEMORY" => b \in Box /\ b # "ORDER")
  BY DEF Box
<1>3. ASSUME num \in Num
      PROVE  num # NoInst /\ num \in Chained /\ \A m \in Chained : num <= m
  <2>1. /\ o \in IsbOf(Num) /\ Tally(o) /\ OneAPacket(o) /\ Ordered(o) /\ o.index = 0
        /\ Waiting(o) = Chained /\ num # NoInst /\ MaxInst \in Nat /\ Num \subseteq Nat
    BY <1>3, MemoryTakesIn, Pool DEF Num, NoInst
  <2> HIDE DEF o
  <2>2. /\ num = o.queue[1][1] /\ num \in Waiting(o)
    <3>1. 0 \in Nat
      OBVIOUS
    <3>2. QED BY <2>1, <3>1, TakeOne
  <2>3. Waiting(o) = {o.queue[i][1] : i \in {k \in 1 .. Len(o.queue) : k = 1 => o.index = 0}}
    BY <2>1, WaitingOne
  <2>4. ASSUME NEW m \in Waiting(o) PROVE num <= m
    <3>1. PICK i \in 1 .. Len(o.queue) : m = o.queue[i][1]
      BY <2>3
    <3>2. m \in Num /\ m \in Nat /\ num \in Nat
      BY <1>3, <2>1 DEF Waiting
    <3>3. Len(o.queue) \in Nat
      BY <2>1, IsbFields
    <3>4. CASE i = 1
      BY <2>2, <3>1, <3>2, <3>4
    <3>5. CASE i # 1
      <4>1. 1 \in 1 .. Len(o.queue) /\ 1 < i
        BY <3>1, <3>3, <3>5
      <4>2. num < m
        BY <2>1, <2>2, <3>1, <4>1 DEF Ordered
      <4>3. QED BY <3>2, <4>2
    <3>6. QED BY <3>4, <3>5
  <2>5. QED BY <2>1, <2>2, <2>4
<1>4. CASE Waits
  <2>1. isb'["MEMORY"] = c
    BY <1>4 DEF Waits
  <2>2. QED BY <1>1, <2>1
<1>5. CASE num \in Num /\ Drops(num)
  <2> DEFINE holders == {b \in Box : FrontEntry(TakenIn[b]) = num}
  <2>1. /\ isb' = [b \in DOMAIN TakenIn |->
                     CASE b \in holders -> PopPacket(TakenIn[b])
                       [] b = "ORDER" ->
                            [TakenIn[b] EXCEPT !.index = @ + Cardinality(holders)]
                       [] OTHER -> TakenIn[b]]
        /\ memStream' = memStream /\ Stale(num)
    BY <1>5 DEF Drops, DiscardStale
  <2>2. "MEMORY" \in DOMAIN TakenIn /\ "MEMORY" # "ORDER"
    BY DEF TakenIn, Box
  <2> DEFINE k == Cardinality(holders)
  <2>3. isb'["MEMORY"] = IF "MEMORY" \in holders THEN PopPacket(c) ELSE c
    <3>1. isb' = [b \in DOMAIN TakenIn |->
                     CASE b \in holders -> PopPacket(TakenIn[b])
                       [] b = "ORDER" -> [TakenIn[b] EXCEPT !.index = @ + k]
                       [] OTHER -> TakenIn[b]]
      BY <2>1
    <3> HIDE DEF holders, k
    <3>2. QED BY <2>2, <3>1
  <2>4. CASE "MEMORY" \notin holders
    BY <1>1, <2>3, <2>4
  <2>5. CASE "MEMORY" \in holders
    <3>1. FrontEntry(c) = num /\ isb'["MEMORY"] = PopPacket(c)
      BY <2>3, <2>5
    <3> HIDE DEF c, num
    <3>2. /\ OneAPacket(PopPacket(c))
          /\ Waiting(c) \subseteq Waiting(PopPacket(c)) \cup {num}
      BY <1>1, <1>3, <1>5, <3>1, OnlyTheFrontLeaves
    <3>3. QED BY <1>1, <1>3, <1>5, <2>1, <3>1, <3>2
  <2>6. QED BY <2>4, <2>5
<1>6. ASSUME NEW box \in Box, NEW to \in {"COMMON", "TRAP"}, num \in Num,
             Moves(num, box, to)
      PROVE  /\ OneAPacket(isb'["MEMORY"])
             /\ \A n \in dcache.cache : n \in Waiting(c) => n \in Waiting(isb'["MEMORY"])
  <2>1. /\ isb' = [b \in Box \cup {"ORDER"} |->
                     IF b \in {box, "ORDER"} THEN ConsumeEntry(TakenIn[b]) ELSE TakenIn[b]]
        /\ to = Destination(box, num) /\ FrontEntry(TakenIn[box]) = num
    BY <1>6 DEF Moves
  <2>2. isb'["MEMORY"] = IF box = "MEMORY" THEN ConsumeEntry(c) ELSE c
    BY <1>2, <2>1
  <2>3. CASE box # "MEMORY"
    BY <1>1, <2>2, <2>3
  <2>4. CASE box = "MEMORY"
    <3>1. FrontEntry(c) = num /\ isb'["MEMORY"] = ConsumeEntry(c)
      BY <2>1, <2>2, <2>4
    <3>2. num \notin dcache.cache
      <4>1. insts[num].fault \/ insts[num].req = "Error" \/ insts[num].req = "Complete"
        BY <2>1, <2>4 DEF Destination, NoBox
      <4>2. ASSUME num \in dcache.cache
            PROVE  ~insts[num].fault /\ insts[num].req = "SentToCache"
        <5>1. num \in Decoded /\ insts[num].req = "SentToCache"
          BY <1>6, <4>2, Named DEF IInv, RequestsTracked, Decoded, Num
        <5>2. insts[num].op \in MemOp
          BY <5>1 DEF IInv, RequestsTracked
        <5>3. QED BY <5>1, <5>2 DEF AnswersKept, FaultsFailed
      <4>3. QED BY <4>1, <4>2
    <3> HIDE DEF c, num
    <3>3. /\ OneAPacket(ConsumeEntry(c))
          /\ Waiting(c) \subseteq Waiting(ConsumeEntry(c)) \cup {num}
      BY <1>1, <1>3, <1>6, <3>1, OnlyTheFrontLeaves
    <3>4. QED BY <3>1, <3>2, <3>3
  <2>5. QED BY <2>3, <2>4
<1>7. \/ Waits \/ (num \in Num /\ Drops(num))
      \/ \E box \in Box, to \in {"COMMON", "TRAP"} : num \in Num /\ Moves(num, box, to)
  BY MemoryCases
<1> HIDE DEF c, num
<1>8. QED BY <1>1, <1>4, <1>5, <1>6, <1>7

(* An access is put into the latch to MEMORY only while its unit stands    *)
(* still, which the one before it in the cycle would have started again.   *)
LEMMA OneAccessKept ==
  ASSUME IInv, OneMemoryUnit, AnswersKept, [Next]_vars
  PROVE  OneAccessACycle'
<1>0. OneAccessACycle /\ TypeOK /\ "MEMORY" \in Box \cup {"ORDER"} /\ "MEMORY" # "ORDER"
  BY DEF AnswersKept, IInv, Box
<1>1. ASSUME eTo'["MEMORY"] = eTo["MEMORY"], isb'["MEMORY"] = isb["MEMORY"],
             phase' # "push" \/ eTo["MEMORY"] = <<>>
      PROVE  OneAccessACycle'
  BY <1>0, <1>1 DEF OneAccessACycle, OneAPacket
<1>2. CASE PushFree \/ NotReady \/ PushBranch \/ PushResult \/ PushMemRef
  <2>1. PICK d : PushStep(d)
    BY <1>2, PushFreeStep, NotReadyStep, PushBranchStep, PushResultStep, PushMemRefStep
  <2>2. /\ phase = "push" /\ Current \in Ids(execute.inFlight)
        /\ Current \in Decoded /\ insts[Current] \in DynInst
        /\ units' = units \/ units' = Released
    BY <2>1, PushKeepsInsts DEF PushStep, Stays, Leaves
  <2>3. units \in [Unit -> UnitFields]
    BY <1>0 DEF TypeOK, UnitFields
  <2>4. ASSUME NEW v \in Unit, units'[v].stalled
        PROVE  units[v].stalled
    BY <2>2, <2>3, <2>4 DEF Released, UnitFields
  <2>5. CASE PastMemory
    <3>1. eTo'["MEMORY"] = eTo["MEMORY"] /\ isb'["MEMORY"] = isb["MEMORY"]
      BY <2>5 DEF PastMemory
    <3>2. eTo'["MEMORY"] # <<>> =>
            \A u \in Unit : (\E op \in MemOp : Provides(u, op)) => ~units'[u].stalled
      BY <1>0, <2>2, <2>4, <3>1 DEF OneAccessACycle
    <3>3. QED BY <1>0, <3>1, <3>2 DEF OneAccessACycle, OneAPacket, Provides
  <2>6. CASE IntoMemory
    <3> DEFINE u == insts[Current].fu
    <3>1. /\ UnitFront(units[u]) = Current /\ ~insts[Current].fault
          /\ insts[Current].op \in MemOp /\ ~IsFree(insts[Current])
          /\ units' = Released /\ eTo' = [eTo EXCEPT !["MEMORY"] = Append(@, Current)]
          /\ isb' = [isb EXCEPT !["MEMORY"] = ReserveEntry(@)]
      BY <2>6 DEF IntoMemory, AtHead, IsFree
    <3>2. u \in Unit /\ Provides(u, insts[Current].op)
      <4>1. u # 0
        BY <2>2, <3>1 DEF IInv, Flight
      <4>2. QED BY <2>2, <3>1, <4>1 DEF IInv, IssuedToCapable, DynInst
    <3>3. units[u].stalled
      <4>1. UnitKept(units[u], u)
        BY <3>2, UnitNamed DEF IInv
      <4>2. QED BY <2>2, <3>1, <4>1 DEF UnitKept
    <3>4. eTo["MEMORY"] = <<>>
      BY <1>0, <2>2, <3>1, <3>2, <3>3 DEF OneAccessACycle
    <3>5. eTo'["MEMORY"] = <<Current>> /\ Len(eTo'["MEMORY"]) <= 1
      <4>1. eTo'["MEMORY"] = Append(eTo["MEMORY"], Current)
        BY <1>0, <3>1 DEF TypeOK
      <4>2. QED BY <3>4, <4>1
    <3>6. OneAPacket(isb'["MEMORY"])
      <4>1. isb'["MEMORY"] = ReserveEntry(isb["MEMORY"]) /\ isb["MEMORY"] \in IsbOf(Num)
        BY <1>0, <3>1 DEF TypeOK
      <4>2. /\ isb'["MEMORY"].queue = isb["MEMORY"].queue
            /\ isb'["MEMORY"].index = isb["MEMORY"].index
        BY <4>1 DEF ReserveEntry, IsbOf
      <4>3. QED BY <1>0, <4>2 DEF OneAPacket, OneAccessACycle
    <3>7. ASSUME NEW v \in Unit, \E op \in MemOp : Provides(v, op)
          PROVE  ~units'[v].stalled
      <4>1. v = u
        BY <3>1, <3>2, <3>7 DEF OneMemoryUnit
      <4>2. units[u] \in UnitFields
        BY <2>3, <3>2
      <4>3. units'[u] = [units[u] EXCEPT !.stalled = FALSE]
        BY <2>3, <3>1, <3>2 DEF Released
      <4> HIDE DEF u
      <4>4. QED BY <4>1, <4>2, <4>3 DEF UnitFields
    <3>8. QED BY <3>5, <3>6, <3>7 DEF OneAccessACycle, Provides
  <2>7. IntoMemory \/ PastMemory
    BY <1>2, AccessesGoToMemory DEF AnswersKept
  <2>8. QED BY <2>5, <2>6, <2>7
<1>3. CASE \E n \in Num : FinishMemTranslation(n) \/ RecvTimingResp(n)
  <2>1. eTo' = eTo /\ isb' = isb /\ phase' # "push"
    BY <1>3, CallbackCases
  <2>2. QED BY <1>1, <2>1
<1>4. CASE \E accept \in BOOLEAN : RecvReqRetry(accept)
  <2>1. eTo' = eTo /\ isb' = isb /\ phase' # "push"
    BY <1>4, CallbackCases
  <2>2. QED BY <1>1, <2>1
<1>5. CASE ExecuteEvaluate
  <2>1. phase = "execute" /\ eTo["MEMORY"] = <<>>
    BY <1>0, <1>5 DEF ExecuteEvaluate, IInv, MemoryBuffers
  <2>2. eTo'["MEMORY"] = eTo["MEMORY"] /\ isb'["MEMORY"] = isb["MEMORY"]
    <3>1. CASE NothingIssued
      BY <3>1 DEF NothingIssued
    <3>2. ASSUME NEW n, NEW u, Issues(n, u)
          PROVE  eTo'["MEMORY"] = eTo["MEMORY"] /\ isb'["MEMORY"] = isb["MEMORY"]
      BY <1>0, <3>2 DEF Issues, FillSequence, TypeOK
    <3>3. QED BY <1>5, <3>1, <3>2, ExecuteCases
  <2>3. QED BY <1>1, <2>1, <2>2
<1>6. CASE MemoryEvaluate
  <2>1. eTo'["MEMORY"] = <<>> /\ OneAPacket(isb'["MEMORY"])
    BY <1>0, <1>6, LeavesMemory DEF MemoryEvaluate, NoPackets
  <2>2. Len(<<>>) <= 1
    OBVIOUS
  <2>3. QED BY <2>1, <2>2 DEF OneAccessACycle
<1>7. CASE WritebackEvaluate \/ DecodeEvaluate \/ SetStalls
  <2>1. eTo' = eTo /\ isb' = isb /\ phase' # "push"
    BY <1>7 DEF WritebackEvaluate, DecodeEvaluate, SetStalls
  <2>2. QED BY <1>1, <2>1
<1>8. CASE UNCHANGED vars
  <2>1. eTo' = eTo /\ isb' = isb /\ phase' = phase /\ units' = units
    BY <1>8 DEF vars
  <2>2. QED BY <1>0, <2>1 DEF OneAccessACycle, OneAPacket, Provides
<1>9. QED BY <1>2, <1>3, <1>4, <1>5, <1>6, <1>7, <1>8 DEF Next, Cycle

(* What is lost stays lost while Memory stays in its stream and ORDER only *)
(* loses entries, or takes one of the newest stream.                       *)
LEMMA LostStays ==
  ASSUME IInv, NEW n \in Decoded, Lost(n), memStream' = memStream,
         \A m \in Decoded : insts'[m].stream = insts[m].stream,
         \A m \in Chained' :
           m \in Chained \/ (m \in Decoded /\ insts[m].stream = execute.streamSeqNum)
  PROVE  Lost(n)'
<1>1. insts[n].stream <= execute.streamSeqNum
  BY DEF IInv, StreamsCounted
<1>2. Chained \subseteq Decoded
  BY ChainedNamed DEF IInv
<1>3. insts'[n].stream = insts[n].stream
  OBVIOUS
<1>4. ASSUME \A m \in Chained : insts[n].stream <= insts[m].stream
      PROVE  \A m \in Chained' : insts'[n].stream <= insts'[m].stream
  <2>1. SUFFICES ASSUME NEW m \in Chained'
                 PROVE  m \in Decoded /\ insts[n].stream <= insts[m].stream
    BY <1>3
  <2>2. CASE m \in Chained
    BY <1>2, <1>4, <2>2
  <2>3. CASE m \in Decoded /\ insts[m].stream = execute.streamSeqNum
    BY <1>1, <2>3
  <2>4. QED BY <2>2, <2>3
<1>5. QED BY <1>3, <1>4 DEF Lost

(* The callbacks give the cache what is still in flight.                   *)
LEMMA CacheTakesWhatIsInFlight ==
  ASSUME IInv, \/ \E n \in Num : FinishMemTranslation(n) \/ RecvTimingResp(n)
               \/ \E accept \in BOOLEAN : RecvReqRetry(accept)
  PROVE  dcache'.cache \subseteq dcache.cache \cup Ids(execute.inFlight)
<1>1. /\ RequestsTracked /\ TypeOK /\ Decoded \subseteq Num /\ Num \subseteq Nat \ {0}
      /\ Len(insts) \in Nat
  BY Named DEF IInv
<1>2. \A n \in Num : n <= Len(insts) => n \in Decoded
  BY <1>1 DEF Decoded, Num
<1>3. dcache.dtlb \subseteq Num /\ dcache.retryRequest \in {0} \cup Num
  BY <1>1 DEF TypeOK
<1>4. \A n \in dcache.dtlb : n \in Ids(execute.inFlight)
  BY <1>1, <1>2, <1>3 DEF RequestsTracked
<1>5. dcache.owesRetry => dcache.retryRequest \in Ids(execute.inFlight)
  BY <1>1, <1>2, <1>3 DEF RequestsTracked
<1>6. \A n, state : Track(n, state).cache \subseteq dcache.cache \cup {n}
  BY DEF Track
<1>7. ASSUME NEW n \in Num, FinishMemTranslation(n)
      PROVE  dcache'.cache \subseteq dcache.cache \cup Ids(execute.inFlight)
  <2>1. n \in dcache.dtlb /\ \E state : dcache' = Track(n, state)
    BY <1>7 DEF FinishMemTranslation, Callback
  <2>2. QED BY <1>4, <1>6, <2>1
<1>8. ASSUME NEW n \in Num, RecvTimingResp(n)
      PROVE  dcache'.cache \subseteq dcache.cache \cup Ids(execute.inFlight)
  <2>1. n \in dcache.cache
    BY <1>8 DEF RecvTimingResp
  <2>2. CASE ~Freed(n)
    <3>1. \E state : dcache' = Track(n, state)
      BY <1>8, <2>2 DEF RecvTimingResp, Callback
    <3>2. QED BY <1>6, <2>1, <3>1
  <2>3. CASE Freed(n)
    <3>1. dcache' = [dcache EXCEPT !.cache = @ \ {n}]
      BY <1>8, <2>3 DEF RecvTimingResp
    <3>2. dcache'.cache \subseteq dcache.cache
      BY <1>1, <3>1 DEF TypeOK
    <3>3. QED BY <3>2
  <2>4. QED BY <2>2, <2>3
<1>9. ASSUME NEW accept \in BOOLEAN, RecvReqRetry(accept)
      PROVE  dcache'.cache \subseteq dcache.cache \cup Ids(execute.inFlight)
  <2> DEFINE n == dcache.retryRequest
             t == Track(n, "SentToCache")
  <2>1. /\ n \in Ids(execute.inFlight)
        /\ \/ dcache' = dcache
           \/ dcache' = [t EXCEPT !.retryRequest = 0, !.owesRetry = FALSE]
    BY <1>5, <1>9 DEF RecvReqRetry
  <2>2. dcache'.cache \subseteq dcache.cache \cup {n}
    <3>1. CASE dcache' = dcache
      BY <3>1
    <3>2. CASE dcache' = [t EXCEPT !.retryRequest = 0, !.owesRetry = FALSE]
      <4>1. t.cache \subseteq dcache.cache \cup {n}
        BY <1>6
      <4>2. dcache'.cache = t.cache
        BY <3>2 DEF Track
      <4>3. QED BY <4>1, <4>2
    <3>3. QED BY <2>1, <3>1, <3>2
  <2>3. QED BY <2>1, <2>2
<1>10. QED BY <1>7, <1>8, <1>9

(* No step frees the request of an access that is not lost.                *)
LEMMA OnlyTheLostKept ==
  ASSUME IInv, AnswersKept, [Next]_vars
  PROVE  OnlyTheLostAreFreed'
<1>0. /\ TypeOK /\ OnlyTheLostAreFreed /\ IInv'
      /\ dcache.cache \subseteq Decoded
  <2>1. \A n \in dcache.cache : n \in Num /\ n <= Len(insts)
    BY DEF IInv, RequestsTracked, TypeOK
  <2>2. QED BY <2>1, NextIInv, Named DEF AnswersKept, IInv, Decoded, Num
<1>1. /\ eTo["MEMORY"] \in Seq(Num) /\ "MEMORY" \in Box \cup {"ORDER"}
      /\ isb["MEMORY"] \in IsbOf(Num)
  BY <1>0 DEF TypeOK, Box
<1>2. ASSUME memStream' = memStream,
             \A m \in Decoded : insts'[m].stream = insts[m].stream,
             \A m \in Chained' :
               m \in Chained \/ (m \in Decoded /\ insts[m].stream = execute.streamSeqNum),
             \A n \in dcache'.cache : Freed(n)' => n \in dcache.cache /\ Freed(n)
      PROVE  OnlyTheLostAreFreed'
  <2>1. ASSUME NEW n \in dcache'.cache, Freed(n)'
        PROVE  Lost(n)'
    <3>1. n \in Decoded /\ Lost(n)
      BY <1>0, <1>2, <2>1 DEF OnlyTheLostAreFreed
    <3>2. QED BY <1>2, <3>1, LostStays
  <2>2. QED BY <2>1 DEF OnlyTheLostAreFreed
<1>3. CASE PushFree \/ NotReady \/ PushBranch \/ PushResult \/ PushMemRef
  <2>1. PICK d : PushStep(d)
    BY <1>3, PushFreeStep, NotReadyStep, PushBranchStep, PushResultStep, PushMemRefStep
  <2>2. /\ \A m \in Decoded : insts'[m].stream = insts[m].stream
        /\ Ids(execute.inFlight) \subseteq Ids(execute'.inFlight) \cup {Current}
        /\ Current \in Ids(execute.inFlight) /\ Current \in Num
        /\ insts'[Current] = d
    BY <1>0, <2>1, PushKeepsInsts, Named DEF PushStep, Stays, Leaves
  <2>3. memStream' = memStream /\ Chained' = Chained
    BY <2>1, PushKeepsBuffers DEF PushStep, Elsewhere, Chained
  <2>4. \A n \in dcache'.cache : n \in dcache.cache \/ n = Current
    BY <2>1 DEF PushStep, TracksRequest, Track
  <2>5. \A n \in dcache'.cache : insts'[n].req = "SentToCache"
    BY <1>0 DEF IInv, RequestsTracked
  <2>6. CASE IntoMemory
    <3>1. /\ eTo'["MEMORY"] = Append(eTo["MEMORY"], Current)
          /\ isb'["MEMORY"] = ReserveEntry(isb["MEMORY"])
      BY <1>0, <1>1, <2>6 DEF IntoMemory, TypeOK
    <3>2. Ids(eTo'["MEMORY"]) = Ids(eTo["MEMORY"]) \cup {Current}
      BY <1>1, <2>2, <3>1, AppendIds
    <3>3. Waiting(isb'["MEMORY"]) = Waiting(isb["MEMORY"])
      BY <1>1, <3>1 DEF Waiting, ReserveEntry, IsbOf
    <3>4. \A n : Freed(n)' => Freed(n) /\ n # Current
      BY <2>2, <3>2, <3>3 DEF Freed
    <3>5. QED BY <1>2, <2>2, <2>3, <2>4, <3>4
  <2>7. CASE PastMemory
    <3>1. /\ eTo'["MEMORY"] = eTo["MEMORY"] /\ isb'["MEMORY"] = isb["MEMORY"]
          /\ execute'.inFlight = execute.inFlight \/ insts'[Current].req # "SentToCache"
      BY <2>7 DEF PastMemory
    <3>2. Waiting(isb'["MEMORY"]) = Waiting(isb["MEMORY"])
      BY <3>1 DEF Waiting
    <3>3. ASSUME NEW n \in dcache'.cache, Freed(n)'
          PROVE  n \in dcache.cache /\ Freed(n)
      <4>1. n # Current
        BY <2>2, <2>5, <3>1, <3>3 DEF Freed
      <4>2. QED BY <2>2, <2>4, <3>1, <3>2, <3>3, <4>1 DEF Freed
    <3>4. QED BY <1>2, <2>2, <2>3, <3>3
  <2>8. QED BY <1>3, <2>6, <2>7, AccessesGoToMemory DEF AnswersKept
<1>4. CASE \/ \E n \in Num : FinishMemTranslation(n) \/ RecvTimingResp(n)
           \/ \E accept \in BOOLEAN : RecvReqRetry(accept)
  <2>1. /\ execute' = execute /\ eTo' = eTo /\ isb' = isb /\ memStream' = memStream
        /\ insts' = insts \/ \E n, d : Answered(n, d)
    BY <1>4, CallbackCases
  <2>2. \A m \in Decoded : insts'[m].stream = insts[m].stream
    <3>1. ASSUME NEW n, NEW d, Answered(n, d)
          PROVE  \A m \in Decoded : insts'[m].stream = insts[m].stream
      <4>1. /\ n \in Decoded /\ d \in DynInst /\ insts[n] \in DynInst
            /\ insts' = [insts EXCEPT ![n] = d] /\ d = [insts[n] EXCEPT !.req = d.req]
        BY <1>0, <3>1, Named DEF Answered
      <4>2. insts'[n] = d /\ \A m \in Decoded : m # n => insts'[m] = insts[m]
        BY <1>0, <4>1, OneInstChanges
      <4>3. [insts[n] EXCEPT !.req = d.req].stream = insts[n].stream
        BY <4>1 DEF DynInst
      <4>4. QED BY <4>1, <4>2, <4>3
    <3>2. QED BY <2>1, <3>1
  <2>3. Chained' = Chained /\ \A n : Freed(n)' <=> Freed(n)
    BY <2>1 DEF Chained, Freed
  <2>4. dcache'.cache \subseteq dcache.cache \cup Ids(execute.inFlight)
    BY <1>4, CacheTakesWhatIsInFlight
  <2>5. \A n \in dcache'.cache : Freed(n) => n \in dcache.cache
    BY <2>4 DEF Freed
  <2>6. QED BY <1>2, <2>1, <2>2, <2>3, <2>5
<1>5. CASE NothingIssued
  <2>1. /\ memStream' = memStream /\ insts' = insts /\ eTo' = eTo /\ isb' = isb
        /\ dcache' = dcache /\ execute'.inFlight = execute.inFlight
    BY <1>0, <1>5 DEF NothingIssued, TypeOK
  <2>2. Chained' = Chained /\ \A n : Freed(n)' <=> Freed(n)
    BY <2>1 DEF Chained, Freed
  <2>3. QED BY <1>2, <2>1, <2>2
<1>6. ASSUME NEW k, NEW u, Issues(k, u)
      PROVE  OnlyTheLostAreFreed'
  <2>1. /\ k \in Decoded /\ k \in Num /\ u \in {0} \cup Unit /\ MarkupInstDests(k, u)
        /\ Ids(execute'.inFlight) = Ids(execute.inFlight) \cup {k}
        /\ memStream' = memStream /\ dcache' = dcache /\ FillSequence(k)
        /\ insts[k].stream = execute.streamSeqNum /\ phase = "execute"
    BY <1>6, IssuesYoungest DEF Issues
  <2>2. \A m \in Decoded : insts'[m].stream = insts[m].stream
    BY <1>0, <2>1, MarkupKeeps
  <2>3. /\ eTo'["MEMORY"] = eTo["MEMORY"] /\ isb'["MEMORY"] = isb["MEMORY"]
        /\ isb'["ORDER"].queue = isb["ORDER"].queue
        /\ isb'["ORDER"].index = isb["ORDER"].index
        /\ Ids(eTo'["ORDER"]) \subseteq {k}
    <3>1. MemoryBuffers /\ "MEMORY" \in Box
      BY DEF IInv, Box
    <3>2. QED BY <1>0, <2>1, <3>1, FillSequenceKeeps
  <2>4. \A m \in Chained' : m \in Chained \/ m = k
    BY <2>3 DEF Chained, Waiting
  <2>5. \A n : Freed(n)' => Freed(n)
    BY <2>1, <2>3 DEF Freed
  <2>6. QED BY <1>2, <2>1, <2>2, <2>4, <2>5
<1>7. CASE MemoryEvaluate
  <2>1. /\ insts' = insts /\ dcache' = dcache /\ execute' = execute
        /\ eTo' = NoPackets(Box \cup {"ORDER"})
    BY <1>7 DEF MemoryEvaluate
  <2>2. /\ Chained' \subseteq Chained
        /\ Ids(eTo'["MEMORY"]) = {} /\ Chained \subseteq Decoded
    <3>1. Ids(eTo'["MEMORY"]) = {} /\ Ids(eTo'["ORDER"]) = {}
      BY <1>1, <2>1, IdsOfPacket DEF NoPackets
    <3>2. QED BY <1>7, <3>1, MemoryEffect, ChainedNamed DEF Chained, IInv
  <2>3. \/ memStream' = memStream
        \/ /\ memStream' = memStream + 1
           /\ \E m \in Chained : insts[m].stream = memStream
    <3>1. ASSUME NEW num \in Num, NEW box, NEW to, Moves(num, box, to),
                 num = FrontEntry(TakenIn["ORDER"])
          PROVE  \/ memStream' = memStream
                 \/ /\ memStream' = memStream + 1
                    /\ \E m \in Chained : insts[m].stream = memStream
      <4>1. insts[num].stream = memStream
        BY <3>1 DEF Moves, Stale
      <4>2. memStream' = memStream \/ memStream' = insts[num].stream + 1
        BY <3>1 DEF Moves, FollowBranch
      <4>3. num \in Chained
        <5> DEFINE o == TakenIn["ORDER"]
        <5>1. /\ o \in IsbOf(Num) /\ Tally(o) /\ OneAPacket(o) /\ Ordered(o)
              /\ o.index = 0 /\ Waiting(o) = Chained
              /\ MaxInst \in Nat /\ FrontEntry(o) # NoInst /\ 0 \in Nat
          BY <3>1, MemoryTakesIn, Pool DEF Num, NoInst
        <5> HIDE DEF o
        <5>2. FrontEntry(o) \in Waiting(o)
          BY <5>1, TakeOne
        <5>3. QED BY <3>1, <5>1, <5>2 DEF o
      <4>4. QED BY <4>1, <4>2, <4>3
    <3>2. QED BY <1>7, <3>1, MemoryCases DEF Waits, Drops, DiscardStale
  <2>4. ASSUME NEW n \in Decoded, Lost(n)
        PROVE  Lost(n)'
    <3>1. insts[n].stream \in Nat /\ memStream \in Nat
      <4>1. Stream \subseteq Nat
        BY Pool DEF Stream, FirstStream
      <4>2. QED BY <1>0, <4>1, Named DEF TypeOK, DynInst
    <3>2. CASE memStream' = memStream
      BY <2>1, <2>2, <2>4, <3>2 DEF Lost
    <3>3. CASE /\ memStream' = memStream + 1
               /\ \E m \in Chained : insts[m].stream = memStream
      <4>1. insts[n].stream < memStream
        BY <2>4, <3>1, <3>3 DEF Lost
      <4>2. QED BY <2>1, <3>1, <3>3, <4>1 DEF Lost
    <3>4. QED BY <2>3, <3>2, <3>3
  <2>5. ASSUME NEW n \in dcache.cache, Freed(n)'
        PROVE  Lost(n)'
    <3>1. n \notin Ids(execute.inFlight) /\ n \notin Waiting(isb'["MEMORY"])
      BY <2>1, <2>5 DEF Freed
    <3>2. CASE Freed(n)
      BY <1>0, <2>4, <3>2 DEF OnlyTheLostAreFreed
    <3>3. CASE ~Freed(n)
      <4>1. n \in Waiting(isb["MEMORY"]) \cup Ids(eTo["MEMORY"])
        BY <3>1, <3>3 DEF Freed
      <4>2. /\ Stale(n) /\ memStream' = memStream
            /\ n \in Chained /\ \A m \in Chained : n <= m
        BY <1>7, <3>1, <4>1, LeavesMemory
      <4>3. insts[n].stream \in Nat /\ memStream \in Nat
        <5>1. Stream \subseteq Nat
          BY Pool DEF Stream, FirstStream
        <5>2. QED BY <1>0, <5>1, Named DEF TypeOK, DynInst
      <4>4. \A m \in Chained : insts[n].stream <= insts[m].stream
        <5>1. SUFFICES ASSUME NEW m \in Chained, m # n
                       PROVE  insts[n].stream <= insts[m].stream
          BY <4>3
        <5>2. n < m
          BY <1>0, <2>2, <4>2, <5>1, Named
        <5>3. QED BY <4>2, <5>2 DEF IInv, StreamsCounted
      <4>5. insts[n].stream < memStream \/ memStream < insts[n].stream
        BY <4>2, <4>3 DEF Stale
      <4>6. Lost(n)
        BY <4>4, <4>5 DEF Lost
      <4>7. QED BY <1>0, <2>4, <4>6
    <3>4. QED BY <3>2, <3>3
  <2>6. QED BY <2>1, <2>5 DEF OnlyTheLostAreFreed
<1>8. CASE WritebackEvaluate \/ DecodeEvaluate \/ SetStalls \/ UNCHANGED vars
  <2>1. /\ eTo' = eTo /\ isb' = isb /\ memStream' = memStream /\ dcache' = dcache
    BY <1>8 DEF WritebackEvaluate, DecodeEvaluate, SetStalls, vars
  <2>2. execute'.inFlight = execute.inFlight
    BY <1>0, <1>8 DEF WritebackEvaluate, DecodeEvaluate, SetStalls, vars, TypeOK
  <2>3. \A m \in Decoded : insts'[m].stream = insts[m].stream
    <3>1. CASE insts' = insts
      BY <3>1
    <3>2. ASSUME NEW d \in DynInst, insts' = Append(insts, d)
          PROVE  \A m \in Decoded : insts'[m] = insts[m]
      BY <1>0, <3>2 DEF TypeOK, Decoded
    <3>3. CASE DecodeEvaluate
      BY <3>1, <3>2, <3>3, DecodeCases
    <3>4. CASE WritebackEvaluate \/ SetStalls \/ UNCHANGED vars
      BY <3>1, <3>4 DEF WritebackEvaluate, SetStalls, vars
    <3>5. QED BY <1>8, <3>3, <3>4
  <2>4. Chained' = Chained /\ \A n : Freed(n)' <=> Freed(n)
    BY <2>1, <2>2 DEF Chained, Freed
  <2>5. QED BY <1>2, <2>1, <2>3, <2>4
<1>9. CASE ExecuteEvaluate
  BY <1>5, <1>6, <1>9, ExecuteCases
<1>10. QED BY <1>3, <1>4, <1>7, <1>8, <1>9 DEF Next, Cycle

(* The cache owes no answer initially ...                                  *)
LEMMA AnswersInitially ==
  ASSUME Init
  PROVE  AnswersKept
<1>1. Decoded = {} /\ dcache.cache = {}
  BY DEF Init, Decoded
<1>2. isb["MEMORY"] = EmptyIsb /\ eTo["MEMORY"] = <<>>
  BY DEF Init, NoPackets, Box
<1>3. OneAPacket(isb["MEMORY"]) /\ Len(eTo["MEMORY"]) <= 1
  BY <1>2, EmptyKept
<1>4. QED BY <1>1, <1>2, <1>3
          DEF AnswersKept, FaultsFailed, OneAccessACycle, OnlyTheLostAreFreed

(* ... and keeps its requests in every step.                               *)
LEMMA AnswersKeptOn ==
  ASSUME IInv, AnswersKept, OneMemoryUnit, [Next]_vars
  PROVE  AnswersKept'
<1>1. FaultsFailed' /\ OneAccessACycle' /\ OnlyTheLostAreFreed'
  BY FaultsFailedKept, OneAccessKept, OnlyTheLostKept DEF AnswersKept
<1>2. QED BY <1>1 DEF AnswersKept

(* Memory drops the requests of accesses that will never be moved, however *)
(* many branches are executed in the shadow of each other, and no others:  *)
(* every answer finds its request, or comes for an access of a stream that *)
(* is not Memory's.                                                        *)
THEOREM AnswersAreForRequests ==
  ASSUME OneMemoryUnit
  PROVE  Spec => []AnswersFindTheirRequest
<1>1. Init => IInv /\ AnswersKept
  BY InitIInv, AnswersInitially
<1>2. IInv /\ AnswersKept /\ [Next]_vars => IInv' /\ AnswersKept'
  BY NextIInv, AnswersKeptOn
<1>3. IInv /\ AnswersKept => AnswersFindTheirRequest
  <2> SUFFICES ASSUME IInv, AnswersKept, NEW n \in dcache.cache \cup dcache.dtlb, Freed(n)
               PROVE  Stale(n)
    BY DEF AnswersFindTheirRequest
  <2>1. /\ n \in Decoded /\ RequestsTracked
        /\ insts[n].stream \in Nat /\ memStream \in Nat
    <3>1. Stream \subseteq Nat
      BY Pool DEF Stream, FirstStream
    <3>2. n \in Num /\ n <= Len(insts) /\ memStream \in Stream
      BY DEF IInv, RequestsTracked, TypeOK
    <3>3. n \in Decoded /\ insts[n] \in DynInst
      BY <3>2, Named DEF IInv, Decoded, Num
    <3>4. QED BY <3>1, <3>2, <3>3 DEF IInv, DynInst
  <2>2. n \notin dcache.dtlb
    BY <2>1 DEF RequestsTracked, Freed
  <2>3. Lost(n)
    BY <2>2 DEF AnswersKept, OnlyTheLostAreFreed
  <2>4. QED BY <2>1, <2>3 DEF Lost, Stale
<1>4. QED BY <1>1, <1>2, <1>3, PTL DEF Spec
=============================================================================
