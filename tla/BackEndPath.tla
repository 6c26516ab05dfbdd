---------------------------- MODULE BackEndPath ----------------------------
(***************************************************************************)
(* The two counts of streams, Execute's and Memory's, agree; and Writeback *)
(* retires the program and nothing else, and Memory drops none of its      *)
(* accesses before the answer has come, as long as no branch is executed   *)
(* in the shadow of another one.                                           *)
(***************************************************************************)
EXTENDS BackEndRequests, FunctionTheorems

-----------------------------------------------------------------------------
(* The two counts of streams, where no instruction faults in execution: a  *)
(* branch that does opens no stream, and Memory, which finds it in BASE,   *)
(* counts one.                                                             *)

(* The instructions Memory has moved as results.                           *)
Moved == Ids(mTo["COMMON"]) \cup Ids(retired)

(* Memory has counted the streams of the branches it has moved.            *)
StreamsTold == memStream = FirstStream + Cardinality(Opened \cap Moved)

(* Only branches open streams, and none is a fault.                        *)
OnlyBranchesOpen ==
  \A n \in Decoded : /\ insts[n].opens # 0 => insts[n].op = "Branch"
                     /\ insts[n].op = "Branch" => ~insts[n].fault

(* A branch opens its stream when it is pushed, and goes through BASE.     *)
BranchesThroughBase ==
  \A n \in Num : Past(n) /\ insts[n].op = "Branch" =>
    /\ insts[n].opens # 0
    /\ n \notin Ids(mTo["TRAP"])
    /\ \A b \in Box \ {"BASE"} :
         n \notin Ids(eTo[b]) /\ ~ContainsExecSeqNum(isb[b], n)

BranchesCounted == StreamsTold /\ OnlyBranchesOpen /\ BranchesThroughBase
-----------------------------------------------------------------------------
(* What is on its way to Writeback is what the latch to ORDER names.       *)
LEMMA OnTheWay ==
  ASSUME IInv
  PROVE  /\ Ids(mTo["COMMON"]) \cup Ids(mTo["TRAP"]) = Ids(mTo["ORDER"])
         /\ \A n \in Moved : Past(n)
         /\ \A n \in Num : Past(n) => n \in Decoded
<1>1. Ids(mTo["COMMON"]) \cup Ids(mTo["TRAP"]) = Ids(mTo["ORDER"])
  <2>1. CASE \A b \in {"COMMON", "TRAP", "ORDER"} : mTo[b] = <<>>
    BY <2>1, IdsOfPacket
  <2>2. ASSUME NEW n, NEW to \in {"COMMON", "TRAP"},
               mTo = [b \in {"COMMON", "TRAP", "ORDER"} |->
                        IF b \in {to, "ORDER"} THEN <<n>> ELSE <<>>]
        PROVE  Ids(mTo["COMMON"]) \cup Ids(mTo["TRAP"]) = Ids(mTo["ORDER"])
    <3>1. CASE to = "COMMON"
      <4>1. mTo["COMMON"] = <<n>> /\ mTo["TRAP"] = <<>> /\ mTo["ORDER"] = <<n>>
        BY <2>2, <3>1
      <4>2. QED BY <4>1, IdsOfPacket
    <3>2. CASE to = "TRAP"
      <4>1. mTo["COMMON"] = <<>> /\ mTo["TRAP"] = <<n>> /\ mTo["ORDER"] = <<n>>
        BY <2>2, <3>2
      <4>2. QED BY <4>1, IdsOfPacket
    <3>3. QED BY <3>1, <3>2
  <2>3. QED BY <2>1, <2>2 DEF IInv, WritebackBuffers
<1>2. \A n \in Moved : Past(n)
  BY <1>1 DEF Moved, Past
<1>3. \A n \in Num : Past(n) => n \in Decoded
  BY Named DEF IInv, PastExecute, Decoded, Num
<1>4. QED BY <1>1, <1>2, <1>3

(* What trytoPush() may do for a branch: leave it in flight, or put it     *)
(* into the latch to BASE with the stream it opens.                        *)
Remains == UNCHANGED <<insts, eTo, isb>>

BranchLeaves ==
  /\ insts'[Current].opens # 0 /\ insts'[Current].op = "Branch"
  /\ ~insts'[Current].fault
  /\ Put("BASE")

(* For anything else it opens no stream.                                   *)
LEMMA OnlyBranchesArePushed ==
  ASSUME IInv, OnlyBranchesOpen, "execute" \notin Faults,
         PushFree \/ NotReady \/ PushBranch \/ PushResult \/ PushMemRef
  PROVE  IF insts[Current].op = "Branch" THEN Remains \/ BranchLeaves
         ELSE /\ insts'[Current].op # "Branch"
              /\ insts'[Current].opens = insts[Current].opens
<1> DEFINE e == insts[Current]
           s == execute.streamSeqNum + 1
<1>1. /\ Pushing /\ e \in DynInst /\ Current \in Decoded /\ insts \in Seq(DynInst)
      /\ Current \in DOMAIN insts
      /\ e.op = "Branch" => ~e.fault
      /\ s # 0 /\ execute.streamSeqNum \in Nat
  <2>1. Pushing
    BY DEF PushFree, NotReady, PushBranch, PushResult, PushMemRef, Ready
  <2>2. e \in DynInst /\ Current \in Decoded /\ insts \in Seq(DynInst)
    BY <2>1, CurrentIn DEF IInv, TypeOK
  <2>3. execute.streamSeqNum \in Nat /\ s # 0
    <3> DEFINE x == execute.streamSeqNum
    <3>1. x \in Nat
      BY Pool DEF IInv, TypeOK, Stream, FirstStream
    <3> HIDE DEF x
    <3>2. x + 1 # 0
      BY <3>1
    <3>3. QED BY <3>1, <3>2 DEF x
  <2>4. QED BY <2>1, <2>2, <2>3 DEF OnlyBranchesOpen, Decoded
<1>2. ASSUME insts' = insts, e.op = "Branch" => UNCHANGED <<eTo, isb>>
      PROVE  IF e.op = "Branch" THEN Remains \/ BranchLeaves
             ELSE insts'[Current].op # "Branch" /\ insts'[Current].opens = e.opens
  <2>1. QED BY <1>2 DEF Remains
<1>3. CASE PushFree
  <2>1. insts' = insts /\ e.op # "Branch"
    BY <1>1, <1>3 DEF PushFree, IsFree
  <2>2. QED BY <1>2, <2>1
<1>4. CASE NotReady
  <2>1. UNCHANGED insts /\ UNCHANGED <<eTo, isb>>
    BY <1>4 DEF NotReady, KeepInFlight
  <2>2. QED BY <1>2, <2>1
<1>5. CASE PushBranch
  <2>1. e.op = "Branch"
    BY <1>5 DEF PushBranch, Ready
  <2>2. \/ UNCHANGED insts /\ KeepInFlight
        \/ insts' = [insts EXCEPT ![Current].opens = s] /\ Put("BASE")
    BY <1>5 DEF PushBranch
  <2>3. CASE UNCHANGED insts /\ KeepInFlight
    BY <2>1, <2>3 DEF KeepInFlight, Remains
  <2>4. CASE insts' = [insts EXCEPT ![Current].opens = s] /\ Put("BASE")
    <3> HIDE DEF s
    <3>1. insts'[Current].opens = s /\ insts'[Current].op = e.op
          /\ insts'[Current].fault = e.fault
      BY <1>1, <2>4 DEF DynInst
    <3>2. QED BY <1>1, <2>1, <2>4, <3>1 DEF BranchLeaves
  <2>5. QED BY <2>2, <2>3, <2>4
<1>6. CASE PushResult
  <2>1. e.op \in {"Alu", "Mul", "Div", "Float"}
    BY <1>6 DEF PushResult, Ready
  <2>2. UNCHANGED insts \/ \E f : insts' = [insts EXCEPT ![Current].fault = f]
    BY <1>6 DEF PushResult
  <2>3. insts'[Current].op = e.op /\ insts'[Current].opens = e.opens
    BY <1>1, <2>2 DEF DynInst
  <2>4. QED BY <2>1, <2>3
<1>7. CASE PushMemRef
  <2>1. e.op \in {"Load", "Store"}
    BY <1>7 DEF PushMemRef, Ready
  <2>2. \E f, r : insts' = [insts EXCEPT ![Current].fault = f, ![Current].req = r]
    <3> DEFINE Target(state) ==
          CASE state \in {"SentToCache", "Complete"} /\ MayPushMemReq -> "MEMORY"
            [] state \in {"Failed", "Error"} ->
                 TargetBox([e EXCEPT !.fault = state = "Failed"])
            [] OTHER -> NoBox
    <3>1. PICK state :
            insts' = [insts EXCEPT
                         ![Current].fault = state = "Failed",
                         ![Current].req = IF state = "Error" /\ ~HasSlot(Target(state))
                                          THEN "NotIssued" ELSE state]
      BY <1>7 DEF PushMemRef
    <3> DEFINE r == IF state = "Error" /\ ~HasSlot(Target(state)) THEN "NotIssued" ELSE state
               f == state = "Failed"
    <3>2. insts' = [insts EXCEPT ![Current].fault = f, ![Current].req = r]
      BY <3>1
    <3> HIDE DEF f, r
    <3>3. QED BY <3>2
  <2>3. insts'[Current].op = e.op /\ insts'[Current].opens = e.opens
    BY <1>1, <2>2 DEF DynInst
  <2>4. QED BY <2>1, <2>3
<1>8. QED BY <1>3, <1>4, <1>5, <1>6, <1>7

(* What the steps outside trytoPush() do to what has been decoded.         *)
LEMMA SameOtherwise ==
  ASSUME IInv, [Next]_vars,
         ~(PushFree \/ NotReady \/ PushBranch \/ PushResult \/ PushMemRef)
  PROVE  /\ \A n \in Decoded : /\ insts'[n].op = insts[n].op
                               /\ insts'[n].opens = insts[n].opens
                               /\ insts'[n].fault = insts[n].fault
         /\ \A n \in Decoded' : n \notin Decoded =>
              insts'[n].opens = 0 /\ (insts'[n].op = "Branch" => ~insts'[n].fault)
         /\ Decoded \subseteq Decoded'
<1>0. /\ TypeOK /\ insts \in Seq(DynInst) /\ Len(insts) \in Nat
      /\ Decoded = 1 .. Len(insts)
  BY Named DEF IInv, TypeOK, Decoded
<1>1. CASE insts' = insts
  BY <1>1 DEF Decoded
<1>2. ASSUME NEW n, NEW d, Answered(n, d)
      PROVE  /\ Decoded' = Decoded
             /\ \A m \in Decoded : /\ insts'[m].op = insts[m].op
                                   /\ insts'[m].opens = insts[m].opens
                                   /\ insts'[m].fault = insts[m].fault
  <2>1. /\ n \in Decoded /\ d \in DynInst /\ insts[n] \in DynInst
        /\ insts' = [insts EXCEPT ![n] = d] /\ d = [insts[n] EXCEPT !.req = d.req]
    BY <1>0, <1>2, Named DEF Answered
  <2>2. /\ Decoded' = Decoded /\ insts'[n] = d
        /\ \A m \in Decoded : m # n => insts'[m] = insts[m]
    BY <1>0, <2>1, OneInstChanges
  <2> DEFINE c == [insts[n] EXCEPT !.req = d.req]
  <2>3. c.op = insts[n].op /\ c.opens = insts[n].opens /\ c.fault = insts[n].fault
    BY <2>1 DEF DynInst
  <2> HIDE DEF c
  <2>4. d = c
    BY <2>1 DEF c
  <2>5. QED BY <2>2, <2>3, <2>4
<1>3. ASSUME NEW n, NEW u, Issues(n, u)
      PROVE  /\ Decoded' = Decoded
             /\ \A m \in Decoded : /\ insts'[m].op = insts[m].op
                                   /\ insts'[m].opens = insts[m].opens
                                   /\ insts'[m].fault = insts[m].fault
  <2>1. n \in Decoded /\ u \in {0} \cup Unit /\ MarkupInstDests(n, u)
    BY <1>3, IssuesYoungest DEF Issues
  <2>2. /\ Len(insts') = Len(insts)
        /\ \A m \in Decoded : m # n => insts'[m] = insts[m]
        /\ insts'[n].op = insts[n].op
        /\ insts'[n].fault = insts[n].fault /\ insts'[n].opens = insts[n].opens
    BY <1>0, <2>1, MarkupKeeps
  <2>3. QED BY <2>2 DEF Decoded
<1>4. ASSUME NEW s \in StaticInsts,
             insts' = Append(insts,
               [op |-> s.op, dsts |-> s.dsts, srcs |-> s.srcs,
                stream |-> supply, fault |-> s.op = "FetchFault",
                fu |-> 0, forward |-> 0, req |-> "NotIssued", opens |-> 0])
      PROVE  /\ \A n \in Decoded : insts'[n] = insts[n]
             /\ \A n \in Decoded' : n \notin Decoded =>
                  insts'[n].opens = 0 /\ (insts'[n].op = "Branch" => ~insts'[n].fault)
             /\ Decoded \subseteq Decoded'
  <2> DEFINE d == [op |-> s.op, dsts |-> s.dsts, srcs |-> s.srcs,
                   stream |-> supply, fault |-> s.op = "FetchFault",
                   fu |-> 0, forward |-> 0, req |-> "NotIssued", opens |-> 0]
  <2>1. d.opens = 0 /\ (d.op = "Branch" => ~d.fault) /\ insts' = Append(insts, d)
    BY <1>4
  <2> HIDE DEF d
  <2>2. /\ Len(insts') = Len(insts) + 1
        /\ \A m \in 1 .. Len(insts) : insts'[m] = insts[m]
        /\ insts'[Len(insts) + 1] = d
    BY <1>0, <2>1
  <2>3. \A m \in Decoded' : m \in Decoded \/ m = Len(insts) + 1
    BY <1>0, <2>2 DEF Decoded
  <2>4. QED BY <1>0, <2>1, <2>2, <2>3 DEF Decoded
<1>5. CASE \/ \E n \in Num : FinishMemTranslation(n) \/ RecvTimingResp(n)
           \/ \E accept \in BOOLEAN : RecvReqRetry(accept)
  <2>1. insts' = insts \/ \E n, d : Answered(n, d)
    BY <1>5, CallbackCases
  <2>2. QED BY <1>1, <1>2, <2>1
<1>6. CASE ExecuteEvaluate
  <2>1. insts' = insts \/ \E n, u : Issues(n, u)
    BY <1>6, ExecuteCases DEF NothingIssued
  <2>2. QED BY <1>1, <1>3, <2>1
<1>7. CASE DecodeEvaluate
  <2>1. \/ insts' = insts
        \/ \E s \in StaticInsts :
             insts' = Append(insts,
                 [op |-> s.op, dsts |-> s.dsts, srcs |-> s.srcs,
                  stream |-> supply, fault |-> s.op = "FetchFault",
                  fu |-> 0, forward |-> 0, req |-> "NotIssued", opens |-> 0])
    BY <1>7 DEF DecodeEvaluate
  <2>2. QED BY <1>1, <1>4, <2>1
<1>8. CASE WritebackEvaluate \/ MemoryEvaluate \/ SetStalls \/ UNCHANGED vars
  <2>1. insts' = insts
    BY <1>8 DEF WritebackEvaluate, MemoryEvaluate, SetStalls, vars
  <2>2. QED BY <1>1, <2>1
<1>9. QED BY <1>5, <1>6, <1>7, <1>8 DEF Next, Cycle

(* What trytoPush() puts into a latch is the instruction it is at.         *)
LEMMA PutsCurrent ==
  ASSUME IInv, NEW d, PushStep(d)
  PROVE  /\ \A b \in Box : /\ Ids(eTo'[b]) \subseteq Ids(eTo[b]) \cup {Current}
                           /\ Fewer(isb'[b], isb[b])
         /\ mTo' = mTo /\ retired' = retired /\ memStream' = memStream
         /\ Current \in Num /\ Current \in Decoded
         /\ ~insts[Current].fault => ~Past(Current)
<1>1. /\ Current \in Num /\ Current \in Decoded /\ Current \in Ids(execute.inFlight)
      /\ phase' # "execute"
  BY PushKeepsInsts, Named DEF PushStep, IInv
<1>2. ASSUME NEW box \in Box, Put(box)
      PROVE  \A b \in Box : /\ Ids(eTo'[b]) \subseteq Ids(eTo[b]) \cup {Current}
                            /\ Fewer(isb'[b], isb[b])
  BY <1>1, <1>2, PutKeeps DEF Put
<1>3. ASSUME UNCHANGED <<eTo, isb>>
      PROVE  \A b \in Box : /\ Ids(eTo'[b]) \subseteq Ids(eTo[b]) \cup {Current}
                            /\ Fewer(isb'[b], isb[b])
  BY <1>3 DEF Fewer
<1>4. UNCHANGED <<eTo, isb>> \/ \E box \in Box : Put(box)
  <2>1. "BASE" \in Box
    BY DEF Box
  <2>2. QED BY <2>1 DEF PushStep, Stays, Leaves
<1>5. ~insts[Current].fault => ~Past(Current)
  BY <1>1 DEF IInv, PastExecute
<1>6. mTo' = mTo /\ retired' = retired /\ memStream' = memStream
  BY DEF PushStep, Elsewhere
<1>7. QED BY <1>1, <1>2, <1>3, <1>4, <1>5, <1>6

(* Branches are still the only ones that open streams.                     *)
LEMMA OnlyBranchesOpenKept ==
  ASSUME IInv, OnlyBranchesOpen, "execute" \notin Faults, [Next]_vars
  PROVE  OnlyBranchesOpen'
<1>1. CASE PushFree \/ NotReady \/ PushBranch \/ PushResult \/ PushMemRef
  <2>1. PICK d : PushStep(d)
    BY <1>1, PushFreeStep, NotReadyStep, PushBranchStep, PushResultStep, PushMemRefStep
  <2>2. /\ Decoded' = Decoded /\ Current \in Decoded
        /\ \A m \in Decoded : m # Current => insts'[m] = insts[m]
    BY <2>1, PushKeepsInsts
  <2>3. /\ insts'[Current].opens # 0 => insts'[Current].op = "Branch"
        /\ insts'[Current].op = "Branch" => ~insts'[Current].fault
    BY <1>1, <2>2, OnlyBranchesArePushed DEF OnlyBranchesOpen, Remains, BranchLeaves
  <2>4. QED BY <2>2, <2>3 DEF OnlyBranchesOpen
<1>2. CASE ~(PushFree \/ NotReady \/ PushBranch \/ PushResult \/ PushMemRef)
  BY <1>2, SameOtherwise DEF OnlyBranchesOpen
<1>3. QED BY <1>1, <1>2

(* What is past Execute and its boxes only shrink outside trytoPush().     *)
LEMMA NothingPushed ==
  ASSUME IInv, [Next]_vars,
         ~(PushFree \/ NotReady \/ PushBranch \/ PushResult \/ PushMemRef \/ MemoryEvaluate)
  PROVE  /\ \A b \in Box : eTo'[b] = eTo[b] /\ isb'[b].queue = isb[b].queue
         /\ \A n : Past(n)' => Past(n)
         /\ memStream' = memStream
         /\ Ids(mTo'["TRAP"]) \subseteq Ids(mTo["TRAP"])
         /\ \/ mTo' = mTo /\ retired' = retired
            \/ /\ mTo'["COMMON"] = <<>>
               /\ Ids(retired') = Ids(retired) \cup Ids(mTo["ORDER"])
<1>0. TypeOK /\ "ORDER" \notin Box
  BY DEF IInv, Box
<1>1. ASSUME \A b \in Box : eTo'[b] = eTo[b] /\ isb'[b] = isb[b],
             UNCHANGED <<mTo, retired, memStream>>
      PROVE  /\ \A b \in Box : eTo'[b] = eTo[b] /\ isb'[b].queue = isb[b].queue
             /\ \A n : Past(n)' => Past(n)
             /\ memStream' = memStream
             /\ Ids(mTo'["TRAP"]) \subseteq Ids(mTo["TRAP"])
             /\ mTo' = mTo /\ retired' = retired
  <2>1. mTo' = mTo /\ retired' = retired /\ memStream' = memStream
    BY <1>1
  <2>2. \A n : Past(n)' => Past(n)
    BY <1>1, <2>1 DEF Past
  <2>3. QED BY <1>1, <2>1, <2>2
<1>2. CASE WritebackEvaluate
  <2>1. /\ eTo' = eTo /\ isb' = isb /\ memStream' = memStream
        /\ mTo' = NoPackets({"COMMON", "TRAP", "ORDER"})
    BY <1>2 DEF WritebackEvaluate
  <2>2. \A b \in {"COMMON", "TRAP", "ORDER"} : mTo'[b] = <<>> /\ Ids(mTo'[b]) = {}
    BY <2>1, IdsOfPacket DEF NoPackets
  <2>3. Ids(retired') = Ids(retired) \cup Ids(mTo["ORDER"])
    <3>1. CASE mTo["ORDER"] = <<>> /\ retired' = retired
      BY <3>1, IdsOfPacket
    <3>2. ASSUME NEW n \in Num, mTo["ORDER"] = <<n>>, retired' = Append(retired, n)
          PROVE  Ids(retired') = Ids(retired) \cup Ids(mTo["ORDER"])
      <4>1. retired \in Seq(Num)
        BY <1>0 DEF TypeOK
      <4>2. Ids(retired') = Ids(retired) \cup {n} /\ Ids(mTo["ORDER"]) = {n}
        BY <3>2, <4>1, AppendIds, IdsOfPacket
      <4>3. QED BY <4>2
    <3>3. QED BY <1>2, <3>1, <3>2, WritebackEffect
  <2>4. \A n : Past(n)' => Past(n)
    BY <2>1, <2>2, <2>3 DEF Past
  <2>5. QED BY <2>1, <2>2, <2>3, <2>4
<1>3. CASE \/ \E n \in Num : FinishMemTranslation(n) \/ RecvTimingResp(n)
           \/ \E accept \in BOOLEAN : RecvReqRetry(accept)
  <2>1. eTo' = eTo /\ isb' = isb /\ UNCHANGED <<mTo, retired, memStream>>
    BY <1>3, CallbackCases
  <2>2. QED BY <1>1, <2>1
<1>4. CASE ExecuteEvaluate
  <2>1. ASSUME NothingIssued
        PROVE  /\ \A b \in Box : eTo'[b] = eTo[b] /\ isb'[b] = isb[b]
               /\ UNCHANGED <<mTo, retired, memStream>>
    BY <2>1 DEF NothingIssued
  <2>2. ASSUME NEW n, NEW u, Issues(n, u)
        PROVE  /\ \A b \in Box : eTo'[b] = eTo[b] /\ isb'[b] = isb[b]
               /\ UNCHANGED <<mTo, retired, memStream>>
    BY <1>0, <2>2 DEF Issues, FillSequence, TypeOK
  <2>3. QED BY <1>1, <1>4, <2>1, <2>2, ExecuteCases
<1>5. CASE DecodeEvaluate \/ SetStalls \/ UNCHANGED vars
  <2>1. eTo' = eTo /\ isb' = isb /\ UNCHANGED <<mTo, retired, memStream>>
    BY <1>5 DEF DecodeEvaluate, SetStalls, vars
  <2>2. QED BY <1>1, <2>1
<1>6. QED BY <1>2, <1>3, <1>4, <1>5 DEF Next, Cycle

(* Memory only passes on what it was given.  It counts a stream when it    *)
(* moves a branch of its own.                                              *)
LEMMA MemoryPassesOn ==
  ASSUME IInv, MemoryEvaluate
  PROVE  /\ \A b \in Box : \A n : n \notin Ids(eTo'[b])
         /\ \A b \in Box : \A n : ContainsExecSeqNum(isb'[b], n)
                                => ContainsExecSeqNum(isb[b], n) \/ n \in Ids(eTo[b])
         /\ retired' = retired /\ insts' = insts
         /\ \A b \in {"COMMON", "TRAP", "ORDER"} : mTo[b] = <<>>
         /\ \/ mTo' = mTo /\ memStream' = memStream
            \/ \E num \in Num, box \in Box, to \in {"COMMON", "TRAP"} :
                 /\ Moves(num, box, to) /\ num \in Chained
                 /\ mTo' = [b \in {"COMMON", "TRAP", "ORDER"} |->
                              IF b \in {to, "ORDER"} THEN <<num>> ELSE <<>>]
                 /\ ContainsExecSeqNum(isb[box], num) \/ num \in Ids(eTo[box])
<1>1. /\ retired' = retired /\ insts' = insts /\ phase = "memory"
      /\ eTo' = NoPackets(Box \cup {"ORDER"})
  BY DEF MemoryEvaluate
<1>2. \A b \in Box : \A n : n \notin Ids(eTo'[b])
  BY <1>1, IdsOfPacket DEF NoPackets
<1>3. \A b \in Box : \A n : ContainsExecSeqNum(TakenIn[b], n)
                          => ContainsExecSeqNum(isb[b], n) \/ n \in Ids(eTo[b])
  BY MemoryTakesIn
<1>4. \A b \in Box : \A n : ContainsExecSeqNum(isb'[b], n)
                          => ContainsExecSeqNum(isb[b], n) \/ n \in Ids(eTo[b])
  BY <1>3, MemoryEffect DEF Fewer
<1>5. /\ \A b \in {"COMMON", "TRAP", "ORDER"} : mTo[b] = <<>>
      /\ DOMAIN mTo = {"COMMON", "TRAP", "ORDER"}
  BY <1>1 DEF IInv, WritebackBuffers, TypeOK
<1>6. ASSUME NEW num \in Num, NEW box \in Box, NEW to \in {"COMMON", "TRAP"},
             Moves(num, box, to), num = FrontEntry(TakenIn["ORDER"])
      PROVE  /\ num \in Chained
             /\ mTo' = [b \in {"COMMON", "TRAP", "ORDER"} |->
                          IF b \in {to, "ORDER"} THEN <<num>> ELSE <<>>]
             /\ ContainsExecSeqNum(isb[box], num) \/ num \in Ids(eTo[box])
  <2> DEFINE o == TakenIn["ORDER"]
  <2>1. /\ o \in IsbOf(Num) /\ Tally(o) /\ OneAPacket(o) /\ Ordered(o)
        /\ o.index = 0 /\ Waiting(o) = Chained
        /\ MaxInst \in Nat /\ FrontEntry(o) # NoInst /\ 0 \in Nat
    BY <1>6, MemoryTakesIn, Pool DEF Num, NoInst
  <2> HIDE DEF o
  <2>2. FrontEntry(o) \in Waiting(o)
    BY <2>1, TakeOne
  <2>3. num \in Chained
    BY <1>6, <2>1, <2>2 DEF o
  <2>4. mTo' = [b \in {"COMMON", "TRAP", "ORDER"} |->
                  IF b \in {to, "ORDER"} THEN <<num>> ELSE <<>>]
    BY <1>5, <1>6 DEF Moves, PushOut
  <2>5. ContainsExecSeqNum(TakenIn[box], num)
    <3>1. /\ TakenIn[box] \in IsbOf(Num) /\ FrontEntry(TakenIn[box]) = num
          /\ num # NoInst
      BY <1>6, MemoryTakesIn DEF Moves, Num, NoInst
    <3>2. QED BY <3>1, FrontEntryIn
  <2>6. QED BY <1>3, <2>3, <2>4, <2>5
<1>7. \/ mTo' = mTo /\ memStream' = memStream
      \/ \E num \in Num, box \in Box, to \in {"COMMON", "TRAP"} :
           Moves(num, box, to) /\ num = FrontEntry(TakenIn["ORDER"])
  BY MemoryCases DEF Waits, Drops, DiscardStale
<1>8. QED BY <1>1, <1>2, <1>4, <1>5, <1>6, <1>7

(* A branch on its way stays in BASE until Memory moves it to COMMON.      *)
LEMMA BranchesThroughBaseKept ==
  ASSUME IInv, OnlyBranchesOpen, BranchesThroughBase, "execute" \notin Faults, [Next]_vars
  PROVE  BranchesThroughBase'
<1>0. /\ \A n \in Num : Past(n) => n \in Decoded
      /\ \A n : n \in Ids(mTo["TRAP"]) => n \in Ids(mTo["ORDER"])
  BY OnTheWay
<1> SUFFICES ASSUME NEW n \in Num, Past(n)', insts'[n].op = "Branch"
             PROVE  /\ insts'[n].opens # 0
                    /\ n \notin Ids(mTo'["TRAP"])
                    /\ \A b \in Box \ {"BASE"} :
                         n \notin Ids(eTo'[b]) /\ ~ContainsExecSeqNum(isb'[b], n)
  BY DEF BranchesThroughBase
<1>1. ASSUME Past(n), insts'[n].op = insts[n].op, insts'[n].opens = insts[n].opens
      PROVE  /\ insts'[n].opens # 0
             /\ n \notin Ids(mTo["TRAP"])
             /\ \A b \in Box \ {"BASE"} :
                  n \notin Ids(eTo[b]) /\ ~ContainsExecSeqNum(isb[b], n)
  BY <1>1 DEF BranchesThroughBase
<1>2. CASE PushFree \/ NotReady \/ PushBranch \/ PushResult \/ PushMemRef
  <2>1. PICK d : PushStep(d)
    BY <1>2, PushFreeStep, NotReadyStep, PushBranchStep, PushResultStep, PushMemRefStep
  <2>2. /\ \A b \in Box : /\ Ids(eTo'[b]) \subseteq Ids(eTo[b]) \cup {Current}
                          /\ Fewer(isb'[b], isb[b])
        /\ mTo' = mTo /\ retired' = retired
        /\ Current \in Num /\ Current \in Decoded
        /\ ~insts[Current].fault => ~Past(Current)
    BY <2>1, PutsCurrent
  <2>3. \A m \in Decoded : m # Current => insts'[m] = insts[m]
    BY <2>1, PushKeepsInsts
  <2>4. CASE n # Current
    <3>1. Past(n)
      BY <2>2, <2>4 DEF Past, Fewer
    <3>2. insts'[n] = insts[n]
      BY <1>0, <2>3, <2>4, <3>1
    <3>3. QED BY <1>1, <2>2, <2>4, <3>1, <3>2 DEF Fewer
  <2>5. CASE n = Current
    <3>1. insts[n].op = "Branch"
      BY <2>1, <2>2, <2>5, PushKeepsInsts
    <3>2. ~Past(n) /\ n \notin Ids(mTo["ORDER"])
      BY <2>2, <2>5, <3>1 DEF OnlyBranchesOpen, Past
    <3>3. CASE Remains
      <4>1. Past(n) <=> Past(n)'
        BY <2>2, <3>3 DEF Past, Remains
      <4>2. QED BY <3>2, <4>1
    <3>4. CASE BranchLeaves
      <4>1. insts'[n].opens # 0 /\ n \notin Ids(mTo'["TRAP"])
        BY <1>0, <2>2, <2>5, <3>2, <3>4 DEF BranchLeaves
      <4>2. ASSUME NEW b \in Box \ {"BASE"}
            PROVE  n \notin Ids(eTo'[b]) /\ ~ContainsExecSeqNum(isb'[b], n)
        <5>1. eTo'[b] = eTo[b]
          BY <3>4 DEF BranchLeaves, Put, IInv, TypeOK
        <5>2. QED BY <2>2, <3>2, <5>1 DEF Past, Fewer
      <4>3. QED BY <4>1, <4>2
    <3>5. QED BY <1>2, <2>5, <3>1, <3>3, <3>4, OnlyBranchesArePushed
  <2>6. QED BY <2>4, <2>5
<1>3. CASE MemoryEvaluate
  <2>1. /\ \A b \in Box : \A m : m \notin Ids(eTo'[b])
        /\ \A b \in Box : \A m : ContainsExecSeqNum(isb'[b], m)
                                   => ContainsExecSeqNum(isb[b], m) \/ m \in Ids(eTo[b])
        /\ retired' = retired /\ insts' = insts
    BY <1>3, MemoryPassesOn
  <2>2. ASSUME mTo' = mTo
        PROVE  Past(n) /\ n \notin Ids(mTo'["TRAP"])
    <3>1. Past(n)
      BY <2>1, <2>2 DEF Past
    <3>2. QED BY <1>1, <2>1, <2>2, <3>1
  <2>3. ASSUME NEW num \in Num, NEW box \in Box, NEW to \in {"COMMON", "TRAP"},
               Moves(num, box, to),
               mTo' = [b \in {"COMMON", "TRAP", "ORDER"} |->
                         IF b \in {to, "ORDER"} THEN <<num>> ELSE <<>>],
               ContainsExecSeqNum(isb[box], num) \/ num \in Ids(eTo[box])
        PROVE  Past(n) /\ n \notin Ids(mTo'["TRAP"])
    <3>1. Past(num)
      BY <2>3 DEF Past
    <3>2. Past(n)
      <4>1. Ids(mTo'["ORDER"]) = {num}
        BY <2>3, IdsOfPacket
      <4>2. QED BY <2>1, <3>1, <4>1 DEF Past
    <3>3. CASE to = "COMMON"
      <4>1. Ids(mTo'["TRAP"]) = {}
        BY <2>3, <3>3, IdsOfPacket
      <4>2. QED BY <3>2, <4>1
    <3>4. CASE to = "TRAP"
      <4>1. Ids(mTo'["TRAP"]) = {num}
        BY <2>3, <3>4, IdsOfPacket
      <4>2. box = "TRAP" \/ box = "MEMORY"
        BY <2>3, <3>4 DEF Moves, Destination
      <4>3. n # num
        BY <1>1, <2>1, <2>3, <3>1, <4>2
      <4>4. QED BY <3>2, <4>1, <4>3
    <3>5. QED BY <3>3, <3>4
  <2>4. Past(n) /\ n \notin Ids(mTo'["TRAP"])
    BY <1>3, <2>2, <2>3, MemoryPassesOn
  <2>5. QED BY <1>1, <2>1, <2>4
<1>4. CASE ~(PushFree \/ NotReady \/ PushBranch \/ PushResult \/ PushMemRef
               \/ MemoryEvaluate)
  <2>1. /\ \A b \in Box : eTo'[b] = eTo[b] /\ isb'[b].queue = isb[b].queue
        /\ Past(n)
        /\ Ids(mTo'["TRAP"]) \subseteq Ids(mTo["TRAP"])
    BY <1>4, NothingPushed
  <2>2. insts'[n].op = insts[n].op /\ insts'[n].opens = insts[n].opens
    BY <1>0, <1>4, <2>1, SameOtherwise
  <2>3. \A b \in Box : ContainsExecSeqNum(isb'[b], n) <=> ContainsExecSeqNum(isb[b], n)
    BY <2>1 DEF ContainsExecSeqNum
  <2>4. QED BY <1>1, <2>1, <2>2, <2>3
<1>5. QED BY <1>2, <1>3, <1>4

(* Memory counts one stream for each branch it moves, and no other.        *)
LEMMA StreamsToldKept ==
  ASSUME IInv, BranchesCounted, "execute" \notin Faults, [Next]_vars
  PROVE  StreamsTold'
<1> DEFINE Told == Opened \cap Moved
<1>0. /\ TypeOK /\ Decoded \subseteq Num
      /\ \A n \in Moved : Past(n)
      /\ Ids(mTo["COMMON"]) \cup Ids(mTo["TRAP"]) = Ids(mTo["ORDER"])
      /\ OnlyBranchesOpen /\ BranchesThroughBase
      /\ memStream = FirstStream + Cardinality(Told)
      /\ IsFiniteSet(Told) /\ Cardinality(Told) \in Nat
  <2>1. TypeOK /\ Decoded \subseteq Num
    BY Named DEF IInv
  <2>2. IsFiniteSet(Told) /\ Cardinality(Told) \in Nat
    BY <2>1, OpenedCounted, FS_Subset, FS_CardinalityType
  <2>3. QED BY <2>1, <2>2, OnTheWay DEF BranchesCounted, StreamsTold
<1>1. ASSUME Told' = Told, memStream' = memStream
      PROVE  StreamsTold'
  BY <1>0, <1>1 DEF StreamsTold
<1>2. CASE PushFree \/ NotReady \/ PushBranch \/ PushResult \/ PushMemRef
  <2>1. PICK d : PushStep(d)
    BY <1>2, PushFreeStep, NotReadyStep, PushBranchStep, PushResultStep, PushMemRefStep
  <2>2. /\ mTo' = mTo /\ retired' = retired /\ memStream' = memStream
        /\ Current \in Decoded
        /\ ~insts[Current].fault => ~Past(Current)
    BY <2>1, PutsCurrent
  <2>3. /\ Decoded' = Decoded
        /\ \A m \in Decoded : m # Current => insts'[m] = insts[m]
    BY <2>1, PushKeepsInsts
  <2>4. Current \in Moved => insts'[Current].opens = insts[Current].opens
    <3>1. Current \in Moved => insts[Current].op # "Branch"
      BY <1>0, <2>2 DEF OnlyBranchesOpen
    <3>2. QED BY <1>0, <1>2, <3>1, OnlyBranchesArePushed
  <2>5. Moved' = Moved
    BY <2>2 DEF Moved
  <2>6. Told' = Told
    BY <2>3, <2>4, <2>5 DEF Opened
  <2>7. QED BY <1>1, <2>2, <2>6
<1>3. CASE MemoryEvaluate
  <2>1. /\ retired' = retired /\ insts' = insts
        /\ \A b \in {"COMMON", "TRAP", "ORDER"} : mTo[b] = <<>>
    BY <1>3, MemoryPassesOn
  <2>2. Opened' = Opened
    BY <2>1 DEF Opened, Decoded
  <2>3. CASE mTo' = mTo /\ memStream' = memStream
    <3>1. Moved' = Moved
      BY <2>1, <2>3 DEF Moved
    <3>2. QED BY <1>1, <2>2, <2>3, <3>1
  <2>4. ASSUME NEW num \in Num, NEW box \in Box, NEW to \in {"COMMON", "TRAP"},
               Moves(num, box, to), num \in Chained,
               mTo' = [b \in {"COMMON", "TRAP", "ORDER"} |->
                         IF b \in {to, "ORDER"} THEN <<num>> ELSE <<>>],
               ContainsExecSeqNum(isb[box], num) \/ num \in Ids(eTo[box])
        PROVE  StreamsTold'
    <3>1. Past(num) /\ num \in Decoded /\ Moved = Ids(retired)
      <4>1. Past(num)
        BY <2>4 DEF Past
      <4>2. QED BY <2>1, <4>1, OnTheWay, IdsOfPacket DEF Moved
    <3>2. insts[num].stream = memStream /\ memStream \in Nat
          /\ memStream' = FollowBranch(box, num)
      <4>1. memStream \in Nat
        BY <1>0, Pool DEF TypeOK, Stream, FirstStream
      <4>2. QED BY <2>4, <4>1 DEF Moves, Stale
    <3>3. num \notin Moved
      <4>1. \A n \in Ids(retired) : n < num
        BY <2>4 DEF IInv, LeavesInOrder
      <4>2. num \in Nat
        BY <2>4, Named, <1>0
      <4>3. QED BY <3>1, <4>1, <4>2
    <3>4. CASE to = "TRAP"
      <4>1. box # "BASE"
        BY <2>4, <3>4 DEF Moves, Destination
      <4>2. memStream' = memStream
        BY <3>2, <4>1 DEF FollowBranch
      <4>3. mTo'["COMMON"] = <<>>
        BY <2>4, <3>4
      <4>4. Moved' = Moved
        BY <2>1, <3>1, <4>3, IdsOfPacket DEF Moved
      <4>5. QED BY <1>1, <2>2, <4>2, <4>4
    <3>5. CASE to = "COMMON"
      <4>1. mTo'["COMMON"] = <<num>>
        BY <2>4, <3>5
      <4>2. Moved' = Moved \cup {num}
        BY <2>1, <3>1, <4>1, IdsOfPacket DEF Moved
      <4>3. CASE insts[num].op # "Branch"
        <5>1. num \notin Opened
          BY <1>0, <3>1, <4>3 DEF OnlyBranchesOpen, Opened
        <5>2. memStream' = memStream
          BY <3>2, <4>3 DEF FollowBranch
        <5>3. QED BY <1>1, <2>2, <4>2, <5>1, <5>2
      <4>4. CASE insts[num].op = "Branch"
        <5>1. box = "BASE" /\ num \in Opened
          BY <1>0, <2>4, <3>1, <4>4 DEF BranchesThroughBase, Opened
        <5>2. memStream' = memStream + 1
          BY <3>2, <4>4, <5>1 DEF FollowBranch
        <5>3. Told' = Told \cup {num} /\ num \notin Told
          BY <2>2, <3>3, <4>2, <5>1
        <5>4. Cardinality(Told \cup {num}) = Cardinality(Told) + 1
          BY <1>0, <5>3, FS_AddElement
        <5> HIDE DEF Told
        <5>5. memStream' = FirstStream + Cardinality(Told')
          BY <1>0, <5>2, <5>3, <5>4 DEF FirstStream
        <5>6. QED BY <5>5 DEF StreamsTold, Told
      <4>5. QED BY <4>3, <4>4
    <3>6. QED BY <3>4, <3>5
  <2>5. QED BY <1>3, <2>3, <2>4, MemoryPassesOn
<1>4. CASE ~(PushFree \/ NotReady \/ PushBranch \/ PushResult \/ PushMemRef
               \/ MemoryEvaluate)
  <2>1. /\ memStream' = memStream
        /\ \/ mTo' = mTo /\ retired' = retired
           \/ /\ mTo'["COMMON"] = <<>>
              /\ Ids(retired') = Ids(retired) \cup Ids(mTo["ORDER"])
    BY <1>4, NothingPushed
  <2>2. Opened' = Opened
    BY <1>4, SameOtherwise DEF Opened
  <2>3. CASE mTo' = mTo /\ retired' = retired
    <3>1. Moved' = Moved
      BY <2>3 DEF Moved
    <3>2. QED BY <1>1, <2>1, <2>2, <3>1
  <2>4. CASE /\ mTo'["COMMON"] = <<>>
             /\ Ids(retired') = Ids(retired) \cup Ids(mTo["ORDER"])
    <3>1. Moved' = Moved \cup Ids(mTo["TRAP"])
      BY <1>0, <2>4, IdsOfPacket DEF Moved
    <3>2. Opened \cap Ids(mTo["TRAP"]) = {}
      <4>1. ASSUME NEW n \in Opened, n \in Ids(mTo["TRAP"])
            PROVE  FALSE
        <5>1. n \in Num /\ Past(n) /\ insts[n].op = "Branch"
          BY <1>0, <4>1 DEF Past, OnlyBranchesOpen, Opened
        <5>2. QED BY <1>0, <4>1, <5>1 DEF BranchesThroughBase
      <4>2. QED BY <4>1
    <3>3. Told' = Told
      BY <2>2, <3>1, <3>2
    <3>4. QED BY <1>1, <2>1, <3>3
  <2>5. QED BY <2>1, <2>3, <2>4
<1>5. QED BY <1>2, <1>3, <1>4

(* No branch has been decoded initially ...                                *)
LEMMA StreamsInitially ==
  ASSUME Init
  PROVE  BranchesCounted
<1>1. /\ Decoded = {} /\ Opened = {} /\ memStream = FirstStream /\ retired = <<>>
      /\ \A b \in {"COMMON", "TRAP", "ORDER"} : mTo[b] = <<>>
  BY DEF Init, Decoded, Opened, NoPackets
<1>2. StreamsTold
  <2>1. Cardinality(Opened \cap Moved) = 0
    BY <1>1, FS_EmptySet
  <2>2. QED BY <1>1, <2>1 DEF StreamsTold, FirstStream
<1>3. \A n : ~Past(n)
  <2>1. \A b \in Box : eTo[b] = <<>> /\ isb[b] = EmptyIsb
    BY DEF Init, NoPackets
  <2>2. \A n : ~ContainsExecSeqNum(EmptyIsb, n)
    BY DEF EmptyIsb, ContainsExecSeqNum
  <2>3. QED BY <1>1, <2>1, <2>2, IdsOfPacket DEF Past
<1>4. QED BY <1>1, <1>2, <1>3 DEF BranchesCounted, OnlyBranchesOpen, BranchesThroughBase

(* ... and every step counts them right.                                   *)
LEMMA BranchesCountedKept ==
  ASSUME IInv, BranchesCounted, "execute" \notin Faults, [Next]_vars
  PROVE  BranchesCounted'
<1>1. StreamsTold' /\ OnlyBranchesOpen' /\ BranchesThroughBase'
  BY StreamsToldKept, OnlyBranchesOpenKept, BranchesThroughBaseKept DEF BranchesCounted
<1>2. QED BY <1>1 DEF BranchesCounted

(* However many branches are executed in the shadow of each other, and     *)
(* whatever Memory drops: Execute is ahead of Memory by the branches that  *)
(* have opened a stream and have not been moved.                           *)
THEOREM StreamsAreCounted ==
  ASSUME "execute" \notin Faults
  PROVE  Spec => []StreamsAgree
<1>1. Init => IInv /\ BranchesCounted
  BY InitIInv, StreamsInitially
<1>2. IInv /\ BranchesCounted /\ [Next]_vars => IInv' /\ BranchesCounted'
  BY NextIInv, BranchesCountedKept
<1>3. IInv /\ BranchesCounted => StreamsAgree
  <2> SUFFICES ASSUME IInv, BranchesCounted PROVE StreamsAgree
    OBVIOUS
  <2> DEFINE Told == Opened \cap Moved
             ahead == Cardinality(Opened)
             told == Cardinality(Told)
  <2>1. /\ execute.streamSeqNum = FirstStream + ahead
        /\ memStream = FirstStream + told
    BY DEF IInv, StreamsCounted, BranchesCounted, StreamsTold
  <2>2. IsFiniteSet(Opened) /\ ahead \in Nat
    BY OpenedCounted DEF IInv
  <2>3. told \in Nat /\ Cardinality(Opened \ Moved) = ahead - told
    BY <2>2, FS_Difference, FS_Subset, FS_CardinalityType
  <2>4. Waiting(wb["COMMON"]) = {}
    <3>1. wb["COMMON"].queue = <<>>
      BY DEF IInv, WritebackBuffers
    <3>2. QED BY <3>1 DEF Waiting
  <2>5. Untold = Opened \ Moved
    BY <2>4 DEF Untold, Opened, Moved
  <2> HIDE DEF ahead, told, Told
  <2>6. QED BY <2>1, <2>2, <2>3, <2>5 DEF StreamsAgree, FirstStream
<1>4. QED BY <1>1, <1>2, <1>3, PTL DEF Spec
-----------------------------------------------------------------------------
(* The path through the machine.                                           *)

(* The instructions Memory has moved, as results or as faults.             *)
Done == Ids(retired) \cup Ids(mTo["ORDER"])

(* ORDER has a place for what Execute may issue: FillSequence() leaves an  *)
(* instruction without one if not.                                         *)
OrderHasRoom == phase = "execute" => CanReserveEntry(isb["ORDER"], OrderSize)

(* Only the first branch of a stream is executed.                          *)
FirstBranchesOpen == \A n \in Opened : NotInShadow(n)

(* Streams follow each other in the order of decoding, the ones still to   *)
(* come in the latch to the front end; and what a branch has to drop is    *)
(* all there is to issue.                                                  *)
StreamsInOrder ==
  /\ \A m, n \in Decoded : m < n => insts[m].stream <= insts[n].stream
  /\ \A n \in Decoded : insts[n].stream <= supply
  /\ \A v \in Ids(branch.out) : supply <= v
  /\ \A w \in Ids(branch.in) : supply <= w
  /\ \A v \in Ids(branch.out), w \in Ids(branch.in) : v <= w
  /\ \A c \in Opened, m \in ToIssue : c < m
  /\ execute.draining =>
       /\ \A n \in ToIssue : insts[n].stream < execute.streamSeqNum
       /\ phase \in {"push", "decode"} => supply < execute.streamSeqNum

(* A branch opens the stream after its own, and none is left out.          *)
OpenersKnown ==
  /\ \A n \in Opened : /\ insts[n].opens = insts[n].stream + 1
                       /\ insts[n].opens <= execute.streamSeqNum
  /\ \A k \in 2 .. execute.streamSeqNum : \E c \in Opened : insts[c].opens = k

(* Memory has moved no instruction in the shadow of a branch and dropped   *)
(* no other, and its stream says which branches it has moved.  (A crash    *)
(* loses the instruction in the latch from Decode.)                        *)
PathFollowed ==
  /\ \A n \in Done : NotInShadow(n)
  /\ \A n \in Decoded :
       NotInShadow(n) /\ (phase = "crashed" => n \in Opened)
         => n \in ToIssue \cup Chained \cup Done
  /\ \A n \in Decoded : NotInShadow(n) /\ n \notin Done => \A m \in Done : m < n
  /\ memStream <= execute.streamSeqNum
  /\ \A c \in Opened : insts[c].opens <= memStream <=> c \in Done

OnThePath == FirstBranchesOpen => OpenersKnown /\ PathFollowed
-----------------------------------------------------------------------------
(* The numbers of streams and of instructions.                             *)
LEMMA PathNamed ==
  ASSUME IInv
  PROVE  /\ Decoded \subseteq Nat /\ Stream \subseteq Nat /\ Num \subseteq Nat
         /\ \A n \in Decoded : /\ insts[n] \in DynInst /\ insts[n].stream \in Nat
                               /\ insts[n].stream >= 1
                               /\ insts[n].opens \in Nat
                               /\ insts[n].stream <= execute.streamSeqNum
         /\ execute.streamSeqNum \in Nat /\ supply \in Nat /\ memStream \in Nat
         /\ memStream >= 1 /\ supply <= execute.streamSeqNum
         /\ Done \subseteq Decoded /\ Chained \subseteq Decoded /\ ToIssue \subseteq Decoded
         /\ \A n \in Done, m \in Chained \cup ToIssue : n < m
         /\ \A n \in Chained, m \in ToIssue : n < m
<1>1. TypeOK /\ Decoded \subseteq Num /\ Num \subseteq Nat /\ Stream \subseteq Nat
      /\ \A k \in Stream : k >= 1
  BY Named, Pool DEF IInv, Stream, FirstStream, Num
<1>2. \A n \in Decoded : /\ insts[n] \in DynInst /\ insts[n].stream \in Stream
                         /\ insts[n].opens \in {0} \cup Stream
  BY <1>1, Named DEF DynInst
<1>3. execute.streamSeqNum \in Stream /\ supply \in Stream /\ memStream \in Stream
  BY <1>1 DEF TypeOK
<1>4. /\ supply <= execute.streamSeqNum
      /\ \A n \in Decoded : insts[n].stream <= execute.streamSeqNum
  BY DEF IInv, StreamsCounted
<1>5. /\ ToIssue \subseteq Decoded /\ Chained \subseteq Decoded
      /\ \A n \in Chained, m \in ToIssue : n < m
  BY <1>1, ToIssueNamed, ChainedNamed, ChainedOlder DEF IInv
<1>6. Done \subseteq Num
  <2>1. retired \in Seq(Num) /\ mTo["ORDER"] \in Seq(Num)
    BY <1>1 DEF TypeOK
  <2>2. QED BY <2>1, IdsIn DEF Done
<1>7. /\ Done \subseteq Decoded
      /\ \A n \in Done, m \in Chained \cup ToIssue : n < m
  BY <1>1, <1>6 DEF IInv, LeavesInOrder, Done, Decoded, Num
<1>8. ASSUME NEW n \in Decoded
      PROVE  insts[n].stream \in Nat /\ insts[n].stream >= 1 /\ insts[n].opens \in Nat
  <2> DEFINE s == insts[n].stream  o == insts[n].opens
  <2>1. s \in Stream /\ o \in {0} \cup Stream
    BY <1>2
  <2>2. \A k \in Stream : k \in Nat /\ k >= 1
    BY <1>1
  <2> HIDE DEF s, o
  <2>3. s \in Nat /\ s >= 1 /\ o \in Nat
    BY <2>1, <2>2
  <2>4. QED BY <2>3 DEF s, o
<1>9. /\ execute.streamSeqNum \in Nat /\ supply \in Nat /\ memStream \in Nat
      /\ memStream >= 1
  BY <1>1, <1>3
<1>10. Decoded \subseteq Nat
  BY <1>1
<1>11. \A n \in Done, m \in Chained \cup ToIssue : n < m
  BY <1>7
<1>12. QED BY <1>1, <1>2, <1>4, <1>5, <1>7, <1>8, <1>9, <1>10, <1>11

(* Whether an instruction is in the shadow of a branch is decided when it  *)
(* is decoded.                                                             *)
LEMMA ShadowsStay ==
  ASSUME TypeOK, Decoded \subseteq Decoded',
         \A n \in Decoded : insts'[n].stream = insts[n].stream /\ insts'[n].op = insts[n].op
  PROVE  \A n \in Decoded : NotInShadow(n)' <=> NotInShadow(n)
<1>1. Len(insts) \in Nat
  BY Named
<1>2. ASSUME NEW n \in Decoded PROVE NotInShadow(n)' <=> NotInShadow(n)
  <2>1. \A m \in 1 .. n - 1 : m \in Decoded
    BY <1>1 DEF Decoded
  <2>2. QED BY <2>1 DEF NotInShadow
<1>3. QED BY <1>2

(* Two branches that have opened the same stream are one.                  *)
LEMMA OneOpener ==
  ASSUME IInv, OnlyBranchesOpen, FirstBranchesOpen, OpenersKnown,
         NEW b \in Decoded, insts[b].op = "Branch", NotInShadow(b),
         NEW c \in Opened, insts[b].stream = insts[c].stream
  PROVE  b = c
<1>1. /\ b \in Nat /\ c \in Nat /\ c \in Decoded /\ NotInShadow(c)
      /\ insts[c].op = "Branch" /\ b >= 1 /\ c >= 1
  BY PathNamed DEF FirstBranchesOpen, OnlyBranchesOpen, Opened, Decoded
<1>2. ~(b < c)
  <2>1. b < c => b \in 1 .. c - 1
    BY <1>1
  <2>2. QED BY <1>1, <2>1 DEF NotInShadow
<1>3. ~(c < b)
  <2>1. c < b => c \in 1 .. b - 1
    BY <1>1
  <2>2. QED BY <1>1, <2>1 DEF NotInShadow
<1>4. QED BY <1>1, <1>2, <1>3

(* What is younger than the branch that has opened the stream after its    *)
(* own is in the shadow of that branch.                                    *)
LEMMA OldStreamsAreShadowed ==
  ASSUME IInv, OnlyBranchesOpen, OpenersKnown,
         NEW n \in Decoded, insts[n].stream < execute.streamSeqNum,
         \A c \in Opened : insts[c].opens = insts[n].stream + 1 => c < n
  PROVE  ~NotInShadow(n)
<1> DEFINE k == insts[n].stream + 1
<1>1. insts[n].stream \in Nat /\ insts[n].stream >= 1 /\ execute.streamSeqNum \in Nat
      /\ n \in Nat
  BY PathNamed
<1>2. k \in 2 .. execute.streamSeqNum
  BY <1>1
<1>3. PICK c \in Opened : insts[c].opens = k
  BY <1>2 DEF OpenersKnown
<1>4. /\ c \in Decoded /\ insts[c].op = "Branch" /\ insts[c].stream \in Nat
      /\ c \in Nat /\ c >= 1 /\ insts[c].opens = insts[c].stream + 1
  <2>1. c \in Decoded /\ insts[c].opens # 0
    BY DEF Opened
  <2>2. insts[c].op = "Branch" /\ insts[c].opens = insts[c].stream + 1
    BY <2>1 DEF OnlyBranchesOpen, OpenersKnown
  <2>3. insts[c].stream \in Nat /\ c \in Nat
    BY <2>1, PathNamed
  <2>4. c >= 1
    BY <2>1 DEF Decoded
  <2>5. QED BY <2>1, <2>2, <2>3, <2>4
<1>5. insts[c].stream = insts[n].stream
  BY <1>1, <1>3, <1>4
<1>6. c \in 1 .. n - 1
  BY <1>1, <1>3, <1>4
<1>7. QED BY <1>4, <1>5, <1>6 DEF NotInShadow
-----------------------------------------------------------------------------
(* Steps that leave the streams, the branches and the order of issue as    *)
(* they are; the instruction in a latch is lost with a crash.              *)
Quiet ==
  /\ Decoded' = Decoded
  /\ \A n \in Decoded : /\ insts'[n].stream = insts[n].stream
                        /\ insts'[n].op = insts[n].op
                        /\ insts'[n].opens = insts[n].opens
  /\ Chained' = Chained /\ Done' = Done
  /\ ToIssue' \subseteq ToIssue
  /\ phase' # "crashed" => ToIssue' = ToIssue /\ phase # "crashed"
  /\ phase' \in {"push", "decode"} => phase \in {"push", "decode"}
  /\ supply' = supply /\ branch' = branch /\ memStream' = memStream
  /\ execute'.streamSeqNum = execute.streamSeqNum
  /\ execute'.draining = execute.draining

(* ... keep what is known of the path.                                     *)
LEMMA QuietKeeps ==
  ASSUME IInv, Quiet
  PROVE  /\ StreamsInOrder => StreamsInOrder'
         /\ OnThePath => OnThePath'
<1>1. /\ Decoded' = Decoded
      /\ \A n \in Decoded : /\ insts'[n].stream = insts[n].stream
                            /\ insts'[n].op = insts[n].op
                            /\ insts'[n].opens = insts[n].opens
      /\ Chained' = Chained /\ Done' = Done
      /\ ToIssue' \subseteq ToIssue
      /\ phase' # "crashed" => ToIssue' = ToIssue /\ phase # "crashed"
      /\ phase' \in {"push", "decode"} => phase \in {"push", "decode"}
      /\ supply' = supply /\ branch' = branch /\ memStream' = memStream
      /\ execute'.streamSeqNum = execute.streamSeqNum
      /\ execute'.draining = execute.draining
  BY DEF Quiet
<1>2. \A n \in Decoded : NotInShadow(n)' <=> NotInShadow(n)
  BY <1>1, ShadowsStay DEF IInv
<1>3. /\ Opened' = Opened /\ Opened \subseteq Decoded
      /\ Done \subseteq Decoded /\ ToIssue \subseteq Decoded
  BY <1>1, PathNamed DEF Opened
<1>4. StreamsInOrder => StreamsInOrder'
  BY <1>1, <1>3 DEF StreamsInOrder
<1>5. ASSUME OnThePath PROVE OnThePath'
  <2> SUFFICES ASSUME FirstBranchesOpen' PROVE OpenersKnown' /\ PathFollowed'
    BY DEF OnThePath
  <2>1. FirstBranchesOpen
    BY <1>2, <1>3 DEF FirstBranchesOpen
  <2>2. OpenersKnown /\ PathFollowed
    BY <1>5, <2>1 DEF OnThePath
  <2>3. OpenersKnown'
    BY <1>1, <1>3, <2>2 DEF OpenersKnown
  <2>4. ASSUME NEW n \in Decoded, NotInShadow(n), phase' = "crashed" => n \in Opened
        PROVE  n \in ToIssue' \cup Chained \cup Done
    <3>1. CASE phase' = "crashed"
      <4>1. n \notin ToIssue
        BY <2>4, <3>1 DEF Opened, IInv, Conveyor
      <4>2. QED BY <2>2, <2>4, <3>1, <4>1 DEF PathFollowed
    <3>2. CASE phase' # "crashed"
      BY <1>1, <2>2, <2>4, <3>2 DEF PathFollowed
    <3>3. QED BY <3>1, <3>2
  <2>5. PathFollowed'
    BY <1>1, <1>2, <1>3, <2>2, <2>4 DEF PathFollowed
  <2>6. QED BY <2>3, <2>5
<1>6. QED BY <1>4, <1>5

(* Writeback, the end of Execute's cycle, the callbacks and stuttering are *)
(* such steps.                                                             *)
LEMMA QuietSteps ==
  ASSUME IInv,
         \/ WritebackEvaluate \/ SetStalls \/ UNCHANGED vars
         \/ \E n \in Num : FinishMemTranslation(n) \/ RecvTimingResp(n)
         \/ \E accept \in BOOLEAN : RecvReqRetry(accept)
  PROVE  Quiet
<1>0. TypeOK /\ Conveyor /\ Ids(Bubble) = {}
  BY IdsOfPacket DEF IInv, Bubble
<1>1. CASE WritebackEvaluate
  <2>1. /\ phase = "writeback" /\ phase' = "memory"
        /\ mTo' = NoPackets({"COMMON", "TRAP", "ORDER"})
        /\ UNCHANGED <<insts, supply, branch, dToE, executeIn, execute, units, eTo,
                       isb, memStream, dcache>>
    BY <1>1 DEF WritebackEvaluate
  <2>2. mTo'["ORDER"] = <<>> /\ Ids(mTo'["ORDER"]) = {}
    BY <2>1, IdsOfPacket DEF NoPackets
  <2>3. Ids(retired') = Ids(retired) \cup Ids(mTo["ORDER"])
    <3>1. CASE mTo["ORDER"] = <<>> /\ retired' = retired
      BY <3>1, IdsOfPacket
    <3>2. ASSUME NEW n \in Num, mTo["ORDER"] = <<n>>, retired' = Append(retired, n)
          PROVE  Ids(retired') = Ids(retired) \cup Ids(mTo["ORDER"])
      <4>1. Ids(retired') = Ids(retired) \cup {n} /\ Ids(mTo["ORDER"]) = {n}
        BY <1>0, <3>2, AppendIds, IdsOfPacket, Named
      <4>2. QED BY <4>1
    <3>3. QED BY <1>1, <3>1, <3>2, WritebackEffect
  <2>4. Done' = Done
    BY <2>2, <2>3 DEF Done
  <2>5. Arriving' = Arriving
    BY <2>1 DEF Arriving
  <2>6. ToIssue' = ToIssue /\ Chained' = Chained /\ Decoded' = Decoded
    BY <2>1, <2>5 DEF ToIssue, Chained, Decoded
  <2>7. QED BY <2>1, <2>4, <2>6 DEF Quiet
<1>2. CASE SetStalls
  <2> DEFINE blocked == {b \in Box : ~CanReserveEntry(isb[b], MemoryBufferSize)}
  <2>1. /\ phase = "push" /\ phase' = "decode"
        /\ execute' = [execute EXCEPT !.at = 1, !.blocked = blocked]
        /\ executeIn' = PushTail(executeIn)
        /\ UNCHANGED <<insts, supply, branch, dToE, units, renameId, eTo, isb,
                       memStream, mTo, wb, dcache, regs, retired>>
    BY <1>2 DEF SetStalls
  <2> HIDE DEF blocked
  <2>2. /\ execute'.streamSeqNum = execute.streamSeqNum
        /\ execute'.draining = execute.draining
    BY <1>0, <2>1 DEF TypeOK
  <2>3. Ids(executeIn'.elem) \cup Ids(executeIn'.queue)
          = Ids(executeIn.elem) \cup Ids(executeIn.queue)
    <3>1. Pointed(executeIn)
      BY <1>0 DEF Pointed, Conveyor, TypeOK
    <3>2. executeIn'.elem = Bubble
          /\ Ids(executeIn'.queue) = Ids(executeIn.elem) \cup Ids(executeIn.queue)
      BY <2>1, <3>1, PushTailKeeps
    <3>3. QED BY <1>0, <3>2
  <2>4. Arriving' = Arriving
    BY <2>1 DEF Arriving
  <2>5. ToIssue' = ToIssue /\ Chained' = Chained /\ Decoded' = Decoded /\ Done' = Done
    BY <2>1, <2>3, <2>4 DEF ToIssue, Chained, Decoded, Done
  <2>6. QED BY <2>1, <2>2, <2>5 DEF Quiet
<1>3. CASE UNCHANGED vars
  <2>1. UNCHANGED <<phase, insts, supply, branch, dToE, executeIn, execute, eTo, isb,
                    memStream, mTo, retired>>
    BY <1>3 DEF vars
  <2>2. Arriving' = Arriving
    BY <2>1 DEF Arriving
  <2>3. ToIssue' = ToIssue /\ Chained' = Chained /\ Decoded' = Decoded /\ Done' = Done
    BY <2>1, <2>2 DEF ToIssue, Chained, Decoded, Done
  <2>4. QED BY <2>1, <2>3 DEF Quiet
<1>4. CASE \/ \E n \in Num : FinishMemTranslation(n) \/ RecvTimingResp(n)
           \/ \E accept \in BOOLEAN : RecvReqRetry(accept)
  <2>1. /\ phase = "writeback" /\ phase' \in {"writeback", "crashed"}
        /\ UNCHANGED <<supply, branch, dToE, executeIn, execute, units, renameId,
                       eTo, isb, memStream, mTo, wb, regs, retired>>
        /\ insts' = insts \/ \E n, d : Answered(n, d)
    BY <1>4, CallbackCases
  <2>2. /\ Decoded' = Decoded
        /\ \A n \in Decoded : /\ insts'[n].stream = insts[n].stream
                              /\ insts'[n].op = insts[n].op
                              /\ insts'[n].opens = insts[n].opens
    <3>1. CASE insts' = insts
      BY <3>1 DEF Decoded
    <3>2. ASSUME NEW n, NEW d, Answered(n, d)
          PROVE  /\ Decoded' = Decoded
                 /\ \A m \in Decoded : /\ insts'[m].stream = insts[m].stream
                                       /\ insts'[m].op = insts[m].op
                                       /\ insts'[m].opens = insts[m].opens
      <4>1. /\ n \in Decoded /\ d \in DynInst /\ insts[n] \in DynInst
            /\ insts' = [insts EXCEPT ![n] = d] /\ d = [insts[n] EXCEPT !.req = d.req]
        BY <1>0, <3>2, Named DEF Answered
      <4>2. /\ Decoded' = Decoded /\ insts'[n] = d
            /\ \A m \in Decoded : m # n => insts'[m] = insts[m]
        BY <1>0, <4>1, OneInstChanges
      <4> DEFINE c == [insts[n] EXCEPT !.req = d.req]
      <4>3. c.op = insts[n].op /\ c.opens = insts[n].opens /\ c.stream = insts[n].stream
        BY <4>1 DEF DynInst
      <4> HIDE DEF c
      <4>4. d = c
        BY <4>1 DEF c
      <4>5. QED BY <4>2, <4>3, <4>4
    <3>3. QED BY <2>1, <3>1, <3>2
  <2>3. Arriving' = Arriving \/ Arriving' = Bubble
    BY <2>1 DEF Arriving
  <2>4. phase' # "crashed" => Arriving' = Arriving
    BY <2>1 DEF Arriving
  <2>5. ToIssue' \subseteq ToIssue /\ (phase' # "crashed" => ToIssue' = ToIssue)
    BY <1>0, <2>1, <2>3, <2>4 DEF ToIssue
  <2>6. Chained' = Chained /\ Done' = Done
    BY <2>1 DEF Chained, Done
  <2>7. QED BY <2>1, <2>2, <2>5, <2>6 DEF Quiet
<1>5. QED BY <1>1, <1>2, <1>3, <1>4

(* trytoPush() is such a step, or the current branch opens a stream and    *)
(* drains the input.                                                       *)
LEMMA PushDrains ==
  ASSUME IInv, PushFree \/ NotReady \/ PushBranch \/ PushResult \/ PushMemRef
  PROVE  execute'.streamSeqNum = execute.streamSeqNum
           => execute'.draining = execute.draining
<1>1. Pushing
  BY DEF PushFree, NotReady, PushBranch, PushResult, PushMemRef, Ready
<1>2. execute \in ExecuteFields /\ execute.streamSeqNum \in Nat
  BY <1>1, CurrentIn, PathNamed
<1>3. /\ KeepInFlight => execute'.draining = execute.draining
      /\ Erased(execute).draining = execute.draining
  BY <1>2 DEF KeepInFlight, Erased, ExecuteFields
<1>4. \A box : Leave(box) => execute'.draining = execute.draining
  BY <1>3 DEF Leave
<1>5. CASE PushFree
  <2>1. execute' = Erased(execute) \/ KeepInFlight
    BY <1>5 DEF PushFree
  <2>2. QED BY <1>3, <2>1
<1>6. CASE NotReady
  BY <1>3, <1>6 DEF NotReady
<1>7. CASE PushBranch
  <2> DEFINE new == execute.streamSeqNum + 1
  <2>1. \/ KeepInFlight
        \/ execute' = [execute EXCEPT !.at = @ + 1]
        \/ execute' = [Erased(execute) EXCEPT !.streamSeqNum = new, !.draining = TRUE]
    BY <1>7 DEF PushBranch
  <2>2. new # execute.streamSeqNum
    BY <1>2
  <2>3. Erased(execute) \in ExecuteFields
    BY <1>1, ErasedFields
  <2> HIDE DEF new
  <2>4. CASE execute' = [Erased(execute) EXCEPT !.streamSeqNum = new, !.draining = TRUE]
    <3>1. execute'.streamSeqNum = new
      BY <2>3, <2>4 DEF ExecuteFields
    <3>2. QED BY <2>2, <3>1
  <2>5. CASE execute' = [execute EXCEPT !.at = @ + 1]
    BY <1>2, <2>5 DEF ExecuteFields
  <2>6. QED BY <1>3, <2>1, <2>4, <2>5
<1>8. CASE PushResult
  <2>1. KeepInFlight \/ \E box : Leave(box)
    BY <1>8 DEF PushResult
  <2>2. QED BY <1>3, <1>4, <2>1
<1>9. CASE PushMemRef
  <2>1. KeepInFlight \/ \E box : Leave(box)
    BY <1>9 DEF PushMemRef
  <2>2. QED BY <1>3, <1>4, <2>1
<1>10. QED BY <1>5, <1>6, <1>7, <1>8, <1>9

(* One instruction of what is in flight, pushed or not.                    *)
LEMMA PushFollows ==
  ASSUME IInv, BranchesCounted, StreamsInOrder, OnThePath, "execute" \notin Faults,
         PushFree \/ NotReady \/ PushBranch \/ PushResult \/ PushMemRef
  PROVE  StreamsInOrder' /\ OnThePath'
<1> DEFINE s == execute.streamSeqNum
           b == Current
<1>1. PICK d : PushStep(d)
  BY PushFreeStep, NotReadyStep, PushBranchStep, PushResultStep, PushMemRefStep
<1>2. /\ Decoded' = Decoded /\ insts'[b] = d /\ b \in Decoded
      /\ \A n \in Decoded : /\ insts'[n].stream = insts[n].stream
                            /\ insts'[n].op = insts[n].op
                            /\ n # b => insts'[n].opens = insts[n].opens
      /\ insts[b].opens = 0 /\ b \in Ids(execute.inFlight)
      /\ ToIssue' = ToIssue
  BY <1>1, PushKeepsInsts
<1>3. /\ phase = "push" /\ supply' = supply
      /\ memStream' = memStream /\ mTo' = mTo /\ retired' = retired
      /\ phase' \in {"push", "crashed"}
  BY <1>1 DEF PushStep, Elsewhere
<1>4. Chained' = Chained
  BY <1>1, PushKeepsBuffers DEF Chained
<1>5. Done' = Done
  BY <1>3 DEF Done
<1>6. CASE SameStream(d)
  <2>1. Quiet
    <3>1. execute'.streamSeqNum = s /\ branch' = branch /\ insts'[b].opens = insts[b].opens
      BY <1>2, <1>6 DEF SameStream
    <3>2. execute'.draining = execute.draining
      BY <3>1, PushDrains
    <3>3. QED BY <1>2, <1>3, <1>4, <1>5, <3>1, <3>2 DEF Quiet
  <2>2. QED BY <2>1, QuietKeeps
<1>7. CASE OpensStream(d)
  <2>1. /\ execute'.streamSeqNum = s + 1 /\ insts'[b].opens = s + 1
        /\ branch' = Drive(branch, s + 1)
    BY <1>2, <1>7 DEF OpensStream
  <2>2. /\ s \in Nat /\ supply \in Nat /\ supply <= s /\ memStream \in Nat
        /\ ToIssue \subseteq Decoded
        /\ \A n \in Decoded : /\ insts[n].stream \in Nat /\ insts[n].stream <= s
                              /\ insts[n].opens \in Nat /\ insts[n].stream >= 1
    BY PathNamed
  <2>3. /\ branch \in LatchOf(Stream)
        /\ \A w \in Ids(branch.in) \cup Ids(branch.out) : w \in Nat /\ w <= s
    <3>1. branch \in LatchOf(Stream) /\ Stream \subseteq Nat
      BY PathNamed DEF IInv, TypeOK
    <3>2. branch.in \in Wire(Stream) /\ branch.out \in Wire(Stream)
      BY <3>1 DEF LatchOf
    <3>3. Ids(branch.in) \subseteq Stream /\ Ids(branch.out) \subseteq Stream
      BY <3>2, WireIds
    <3>4. QED BY <3>1, <3>3 DEF IInv, StreamsCounted
  <2>4. branch'.out = branch.out /\ Ids(branch'.in) = {s + 1}
    <3>1. branch'.in = <<s + 1>> /\ branch'.out = branch.out
      BY <2>1, <2>3 DEF Drive, LatchOf
    <3>2. QED BY <3>1, IdsOfPacket
  <2>5. Opened' = Opened \cup {b} /\ b \notin Opened /\ Opened \subseteq Decoded
    <3>1. insts'[b].opens # 0
      BY <2>1, <2>2
    <3>2. QED BY <1>2, <3>1 DEF Opened
  <2>6. StreamsInOrder'
    <3>1. \A m \in ToIssue : b < m
      BY <1>2 DEF IInv, Flight
    <3>2. \A n \in Decoded : insts[n].stream < s + 1
      BY <2>2
    <3>3. supply < s + 1 /\ supply <= s + 1
      BY <2>2
    <3>4. \A v \in Ids(branch.out) : v <= s + 1
      BY <2>2, <2>3
    <3>5. /\ \A m, n \in Decoded' : m < n => insts'[m].stream <= insts'[n].stream
          /\ \A n \in Decoded' : insts'[n].stream <= supply'
          /\ \A v \in Ids(branch'.out) : supply' <= v
      BY <1>2, <1>3, <2>4 DEF StreamsInOrder
    <3>6. /\ \A w \in Ids(branch'.in) : supply' <= w
          /\ \A v \in Ids(branch'.out), w \in Ids(branch'.in) : v <= w
      BY <1>3, <2>4, <3>3, <3>4
    <3>7. \A c \in Opened', m \in ToIssue' : c < m
      BY <1>2, <2>5, <3>1 DEF StreamsInOrder
    <3>8. /\ \A n \in ToIssue' : insts'[n].stream < execute'.streamSeqNum
          /\ supply' < execute'.streamSeqNum
      BY <1>2, <1>3, <2>1, <2>2, <3>2, <3>3
    <3>9. QED BY <3>5, <3>6, <3>7, <3>8 DEF StreamsInOrder
  <2>7. ASSUME FirstBranchesOpen' PROVE OpenersKnown' /\ PathFollowed'
    <3>1. \A n \in Decoded : NotInShadow(n)' <=> NotInShadow(n)
      BY <1>2, ShadowsStay DEF IInv
    <3>2. FirstBranchesOpen /\ NotInShadow(b)
      BY <1>2, <2>5, <2>7, <3>1 DEF FirstBranchesOpen
    <3>3. OpenersKnown /\ PathFollowed
      BY <3>2 DEF OnThePath
    <3>4. OnlyBranchesOpen /\ OnlyBranchesOpen'
      <4>1. [Next]_vars
        BY DEF Next, Cycle
      <4>2. QED BY <4>1, OnlyBranchesOpenKept DEF BranchesCounted
    <3>5. insts[b].op = "Branch" /\ ~insts[b].fault
      <4>1. insts'[b].opens # 0
        BY <2>1, <2>2
      <4>2. insts'[b].op = "Branch"
        BY <1>2, <3>4, <4>1 DEF OnlyBranchesOpen
      <4>3. QED BY <1>2, <3>4, <4>2 DEF OnlyBranchesOpen
    <3>6. insts[b].stream = s
      <4> SUFFICES ASSUME insts[b].stream < s PROVE FALSE
        BY <1>2, <2>2
      <4>1. insts[b].stream + 1 \in 2 .. s
        BY <1>2, <2>2
      <4>2. PICK c \in Opened : insts[c].opens = insts[b].stream + 1
        BY <3>3, <4>1 DEF OpenersKnown
      <4>3. insts[c].stream = insts[b].stream
        <5>1. insts[c].opens = insts[c].stream + 1 /\ c \in Decoded
          BY <2>5, <3>3 DEF OpenersKnown
        <5>2. QED BY <1>2, <2>2, <4>2, <5>1
      <4>4. b = c
        BY <1>2, <3>2, <3>3, <3>4, <3>5, <4>3, OneOpener
      <4>5. QED BY <2>5, <4>4
    <3>7. OpenersKnown'
      <4>1. ASSUME NEW n \in Opened'
            PROVE  /\ insts'[n].opens = insts'[n].stream + 1
                   /\ insts'[n].opens <= execute'.streamSeqNum
        <5>1. CASE n = b
          BY <1>2, <2>1, <2>2, <3>6, <5>1
        <5>2. CASE n # b
          <6>1. n \in Opened /\ n \in Decoded
            BY <2>5, <5>2
          <6>2. insts[n].opens = insts[n].stream + 1 /\ insts[n].opens <= s
            BY <3>3, <6>1 DEF OpenersKnown
          <6>3. QED BY <1>2, <2>1, <2>2, <5>2, <6>1, <6>2
        <5>3. QED BY <5>1, <5>2
      <4>2. ASSUME NEW k \in 2 .. execute'.streamSeqNum
            PROVE  \E c \in Opened' : insts'[c].opens = k
        <5>1. CASE k = s + 1
          BY <2>1, <2>5, <5>1
        <5>2. CASE k # s + 1
          <6>1. k \in 2 .. s
            BY <2>1, <2>2, <5>2
          <6>2. PICK c \in Opened : insts[c].opens = k
            BY <3>3, <6>1 DEF OpenersKnown
          <6>3. c # b /\ c \in Decoded /\ c \in Opened'
            BY <2>5
          <6>4. QED BY <1>2, <6>2, <6>3
        <5>3. QED BY <5>1, <5>2
      <4>3. QED BY <4>1, <4>2 DEF OpenersKnown
    <3>8. b \notin Done
      <4>1. b \in Num /\ ~Past(b)
        BY <1>1, <3>5, PutsCurrent
      <4>2. QED BY <4>1 DEF Past, Done
    <3>9. PathFollowed'
      <4>1. /\ \A n \in Done' : NotInShadow(n)'
            /\ \A n \in Decoded' : NotInShadow(n)' => n \in ToIssue' \cup Chained' \cup Done'
            /\ \A n \in Decoded' : NotInShadow(n)' /\ n \notin Done' => \A m \in Done' : m < n
        BY <1>2, <1>3, <1>4, <1>5, <3>1, <3>3, PathNamed DEF PathFollowed
      <4>2. memStream' <= execute'.streamSeqNum
        BY <1>3, <2>1, <2>2, <3>3 DEF PathFollowed
      <4>3. ASSUME NEW c \in Opened'
            PROVE  insts'[c].opens <= memStream' <=> c \in Done'
        <5>1. CASE c = b
          <6>1. ~(s + 1 <= memStream)
            BY <2>2, <3>3 DEF PathFollowed
          <6>2. QED BY <1>3, <1>5, <2>1, <3>8, <5>1, <6>1
        <5>2. CASE c # b
          <6>1. c \in Opened /\ c \in Decoded
            BY <2>5, <5>2
          <6>2. QED BY <1>2, <1>3, <1>5, <3>3, <5>2, <6>1 DEF PathFollowed
        <5>3. QED BY <5>1, <5>2
      <4>4. QED BY <4>1, <4>2, <4>3 DEF PathFollowed
    <3>10. QED BY <3>7, <3>9
  <2>8. QED BY <2>6, <2>7 DEF OnThePath
<1>8. QED BY <1>1, <1>6, <1>7 DEF PushStep
-----------------------------------------------------------------------------
(* Memory.                                                                 *)

(* Of a buffer with one instruction a packet, only the one at the front is *)
(* passed over by the index, however far that is moved.                    *)
LEMMA OnlyTheFrontIsSkipped ==
  ASSUME NEW b \in IsbOf(Num), Tally(b), OneAPacket(b), b.index = 0,
         FrontEntry(b) # NoInst, NEW k \in Nat
  PROVE  Waiting(b) \subseteq Waiting([b EXCEPT !.index = k]) \cup {FrontEntry(b)}
<1> DEFINE q == b.queue
           L == Len(q)
           c == [b EXCEPT !.index = k]
<1>1. /\ L \in Nat /\ L >= 1 /\ q # <<>>
      /\ \A i \in 1 .. L : Len(q[i]) = 1
      /\ FrontEntry(b) = q[1][1]
  BY IsbFields, FrontEntryIn DEF OneAPacket
<1>2. c \in IsbOf(Num) /\ c.queue = q /\ c.index = k
  BY IndexKeeps
<1> HIDE DEF c
<1>3. OneAPacket(c)
  BY <1>1, <1>2 DEF OneAPacket
<1>4. Waiting(b) = {q[i][1] : i \in {j \in 1 .. L : j = 1 => b.index = 0}}
  BY WaitingOne
<1>5. Waiting(c) = {c.queue[i][1] : i \in {j \in 1 .. Len(c.queue) : j = 1 => c.index = 0}}
  BY <1>2, <1>3, WaitingOne
<1>6. ASSUME NEW m \in Waiting(b), m # FrontEntry(b)
      PROVE  m \in Waiting(c)
  <2> HIDE DEF q, L
  <2>1. PICK i \in 1 .. L : m = q[i][1]
    BY <1>4
  <2>2. i # 1
    BY <1>1, <1>6, <2>1
  <2>3. m = c.queue[i][1] /\ i \in 1 .. Len(c.queue)
    BY <1>2, <2>1 DEF L
  <2>4. QED BY <1>5, <2>2, <2>3
<1>7. QED BY <1>6 DEF c

(* Memory takes at most the instruction at the front of ORDER, the oldest  *)
(* of those it has not moved: it drops it as one of another stream, or     *)
(* moves it.                                                               *)
LEMMA TakesTheOldest ==
  ASSUME IInv, MemoryEvaluate
  PROVE  /\ phase = "memory" /\ phase' = "execute"
         /\ UNCHANGED <<insts, supply, branch, dToE, executeIn, execute, retired>>
         /\ \A b \in {"COMMON", "TRAP", "ORDER"} : mTo[b] = <<>>
         /\ \/ Chained' = Chained /\ mTo' = mTo /\ memStream' = memStream
            \/ \E num \in Chained :
                 /\ \A m \in Chained : num <= m
                 /\ Chained \subseteq Chained' \cup {num} /\ Chained' \subseteq Chained
                 /\ \/ Stale(num) /\ mTo' = mTo /\ memStream' = memStream
                    \/ \E box \in Box, to \in {"COMMON", "TRAP"} :
                         /\ Moves(num, box, to) /\ Ids(mTo'["ORDER"]) = {num}
                         /\ ContainsExecSeqNum(isb[box], num) \/ num \in Ids(eTo[box])
<1> DEFINE o == TakenIn["ORDER"]
<1>1. /\ phase = "memory" /\ phase' = "execute"
      /\ eTo' = NoPackets(Box \cup {"ORDER"})
      /\ UNCHANGED <<insts, supply, branch, dToE, executeIn, execute, retired>>
  BY DEF MemoryEvaluate
<1>2. \A b \in {"COMMON", "TRAP", "ORDER"} : mTo[b] = <<>>
  BY MemoryPassesOn
<1>3. /\ o \in IsbOf(Num) /\ Tally(o) /\ OneAPacket(o) /\ Ordered(o) /\ o.index = 0
      /\ Waiting(o) = Chained
      /\ \A b \in Box : \A n : ContainsExecSeqNum(TakenIn[b], n)
                                 => ContainsExecSeqNum(isb[b], n) \/ n \in Ids(eTo[b])
  BY MemoryTakesIn
<1>4. Ids(eTo'["ORDER"]) = {} /\ Chained' = Waiting(isb'["ORDER"])
  <2>1. eTo'["ORDER"] = <<>>
    BY <1>1 DEF NoPackets
  <2>2. QED BY <2>1, IdsOfPacket DEF Chained
<1>5. CASE Waits
  <2>1. isb'["ORDER"] = o /\ mTo' = mTo /\ memStream' = memStream
    BY <1>5 DEF Waits
  <2>2. QED BY <1>1, <1>2, <1>3, <1>4, <2>1
<1>6. ASSUME NEW num \in Num, num = FrontEntry(o),
             NEW k \in Nat, k > 0, isb'["ORDER"] = [o EXCEPT !.index = k]
      PROVE  /\ num \in Chained /\ \A m \in Chained : num <= m
             /\ Chained \subseteq Chained' \cup {num} /\ Chained' \subseteq Chained
  <2> DEFINE c == [o EXCEPT !.index = k]
  <2>1. FrontEntry(o) # NoInst /\ MaxInst \in Nat
    BY <1>6, Pool DEF NoInst, Num
  <2>2. Waiting(o) \subseteq Waiting(c) \cup {num}
    BY <1>3, <1>6, <2>1, OnlyTheFrontIsSkipped
  <2>3. /\ Waiting(c) \subseteq Waiting(o) /\ num \in Waiting(o)
        /\ \A m \in Waiting(c) : num < m
    BY <1>3, <1>6, <2>1, TakeOne
  <2>4. Chained' = Waiting(c)
    BY <1>4, <1>6
  <2>5. Chained \subseteq Num
    BY PathNamed, Named DEF IInv
  <2> HIDE DEF c, o
  <2>6. \A m \in Chained : num <= m
    <3> SUFFICES ASSUME NEW m \in Chained PROVE num <= m
      OBVIOUS
    <3>1. m = num \/ num < m
      BY <1>3, <2>2, <2>3
    <3>2. QED BY <1>6, <2>5, <3>1, PathNamed
  <2>7. QED BY <1>3, <2>2, <2>3, <2>4, <2>6
<1>7. ASSUME NEW num \in Num, num = FrontEntry(o), Drops(num)
      PROVE  /\ num \in Chained /\ \A m \in Chained : num <= m
             /\ Chained \subseteq Chained' \cup {num} /\ Chained' \subseteq Chained
             /\ Stale(num) /\ mTo' = mTo /\ memStream' = memStream
  <2> DEFINE holders == {b \in Box : FrontEntry(TakenIn[b]) = num}
  <2>1. Stale(num) /\ DiscardStale(TakenIn, num, holders)
    BY <1>7 DEF Drops
  <2>2. isb'["ORDER"] = [o EXCEPT !.index = o.index + Cardinality(holders)]
    <3>1. DOMAIN TakenIn = Box \cup {"ORDER"} /\ "ORDER" \notin holders
      BY DEF TakenIn, Box
    <3> HIDE DEF holders
    <3>2. QED BY <2>1, <3>1 DEF DiscardStale
  <2>3. holders # {} /\ IsFiniteSet(holders)
    <3>1. IsFiniteSet(Box) /\ holders \in SUBSET Box
      <4>1. Box = {"BASE"} \cup {"TRAP"} \cup {"MBOX"} \cup {"FBOX"} \cup {"MEMORY"}
        BY DEF Box
      <4>2. QED BY <4>1, FS_Singleton, FS_Union
    <3>2. \E b \in Box : FrontEntry(TakenIn[b]) = num
      BY <1>7 DEF Drops
    <3>3. QED BY <3>1, <3>2, FS_Subset
  <2>4. Cardinality(holders) \in Nat /\ Cardinality(holders) > 0
    BY <2>3, FS_EmptySet, FS_CardinalityType
  <2> HIDE DEF holders, o
  <2>5. isb'["ORDER"] = [o EXCEPT !.index = Cardinality(holders)]
    BY <1>3, <2>2, <2>4
  <2>6. QED BY <1>6, <1>7, <2>1, <2>4, <2>5 DEF o, DiscardStale
<1>8. ASSUME NEW num \in Num, num = FrontEntry(o), NEW box \in Box,
             NEW to \in {"COMMON", "TRAP"}, Moves(num, box, to)
      PROVE  /\ num \in Chained /\ \A m \in Chained : num <= m
             /\ Chained \subseteq Chained' \cup {num} /\ Chained' \subseteq Chained
             /\ Ids(mTo'["ORDER"]) = {num}
             /\ ContainsExecSeqNum(isb[box], num) \/ num \in Ids(eTo[box])
  <2>1. isb'["ORDER"] = [o EXCEPT !.index = 1]
    <3>1. isb'["ORDER"] = ConsumeEntry(o)
      BY <1>8 DEF Moves
    <3>2. ConsumeEntry(o) = [o EXCEPT !.index = o.index + 1]
      BY DEF ConsumeEntry
    <3> HIDE DEF o
    <3>3. QED BY <1>3, <3>1, <3>2
  <2>2. mTo'["ORDER"] = <<num>>
    <3>1. DOMAIN mTo = {"COMMON", "TRAP", "ORDER"}
      BY DEF IInv, TypeOK
    <3>2. QED BY <1>8, <3>1 DEF Moves, PushOut
  <2>3. TakenIn[box] \in IsbOf(Num) /\ FrontEntry(TakenIn[box]) = num /\ num # NoInst
    BY <1>8, MemoryTakesIn, Pool DEF Moves, NoInst, Num
  <2>4. ContainsExecSeqNum(TakenIn[box], num)
    BY <2>3, FrontEntryIn
  <2>5. ContainsExecSeqNum(isb[box], num) \/ num \in Ids(eTo[box])
    BY <1>3, <2>4
  <2>6. QED BY <1>6, <1>8, <2>1, <2>2, <2>5, IdsOfPacket
<1>9. QED BY <1>1, <1>2, <1>5, <1>7, <1>8, MemoryCases

(* What Memory drops is in the shadow of a branch.                         *)
LEMMA StaleIsShadowed ==
  ASSUME IInv, OnlyBranchesOpen, StreamsInOrder, FirstBranchesOpen, OpenersKnown,
         PathFollowed, phase # "crashed",
         NEW num \in Chained, \A m \in Chained : num <= m, Stale(num)
  PROVE  ~NotInShadow(num)
<1> DEFINE k == insts[num].stream
           s == execute.streamSeqNum
<1>1. /\ num \in Decoded /\ k \in Nat /\ k >= 1 /\ s \in Nat /\ k <= s /\ num \in Nat
      /\ memStream \in Nat /\ memStream >= 1 /\ memStream <= s /\ k # memStream
      /\ \A m \in Done : m < num
  BY PathNamed DEF PathFollowed, Stale
<1>2. \A c \in Opened : insts[c].opens <= memStream <=> c \in Done
  BY DEF PathFollowed
<1>3. ASSUME k < memStream PROVE ~NotInShadow(num)
  <2>1. \A c \in Opened : insts[c].opens = k + 1 => c < num
    BY <1>1, <1>2, <1>3
  <2>2. k < s
    BY <1>1, <1>3
  <2>3. QED BY <1>1, <2>1, <2>2, OldStreamsAreShadowed
<1>4. ASSUME memStream < k PROVE FALSE
  <2>1. k \in 2 .. s
    BY <1>1, <1>4
  <2>2. PICK c \in Opened : insts[c].opens = k
    BY <2>1 DEF OpenersKnown
  <2>3. /\ c \in Decoded /\ c \in Nat /\ insts[c].opens # 0
        /\ insts[c].stream \in Nat /\ k = insts[c].stream + 1
    <3>1. c \in Decoded /\ insts[c].opens # 0 /\ k = insts[c].stream + 1
      BY <2>2 DEF Opened, OpenersKnown
    <3>2. QED BY <3>1, PathNamed
  <2>4. c \notin Done
    BY <1>1, <1>2, <1>4, <2>2
  <2>5. c \notin ToIssue
    BY <2>3 DEF IInv, Conveyor
  <2>6. c \in Chained
    BY <2>2, <2>3, <2>4, <2>5 DEF FirstBranchesOpen, PathFollowed
  <2>7. num <= c /\ c # num
    BY <1>1, <2>3, <2>6
  <2>8. k <= insts[c].stream
    BY <1>1, <2>3, <2>7 DEF StreamsInOrder
  <2>9. QED BY <1>1, <2>3, <2>8
<1>5. QED BY <1>1, <1>3, <1>4

(* What Memory moves is in the shadow of none.                             *)
LEMMA MovedIsOfThePath ==
  ASSUME IInv, BranchesThroughBase, OpenersKnown, PathFollowed, phase # "crashed",
         NEW num \in Chained, \A m \in Chained : num <= m, ~Stale(num)
  PROVE  NotInShadow(num)
<1> DEFINE T == {m \in 1 .. num - 1 :
                   insts[m].stream = insts[num].stream /\ insts[m].op = "Branch"}
<1>1. /\ num \in Decoded /\ num \in Nat /\ memStream \in Nat
      /\ insts[num].stream = memStream
      /\ Decoded \subseteq Num /\ Num \subseteq Nat /\ Chained \subseteq Nat /\ ToIssue \subseteq Nat
      /\ \A m \in ToIssue : num < m
      /\ Len(insts) \in Nat
  BY PathNamed, Named DEF Stale, IInv
<1>2. SUFFICES ASSUME T # {} PROVE FALSE
  BY DEF NotInShadow
<1>3. T \in SUBSET Nat
  OBVIOUS
<1>4. PICK m \in T : \A j \in T : m <= j
  <2> HIDE DEF T
  <2>1. QED BY <1>2, <1>3, NatMin
<1>5. /\ m \in Decoded /\ m < num /\ m \in Nat /\ m \in Num
      /\ insts[m].stream = memStream /\ insts[m].op = "Branch"
  BY <1>1 DEF Decoded
<1>6. NotInShadow(m)
  <2> SUFFICES ASSUME NEW j \in 1 .. m - 1, insts[j].stream = insts[m].stream,
                      insts[j].op = "Branch"
               PROVE  FALSE
    BY DEF NotInShadow
  <2>1. j \in 1 .. num - 1 /\ j < m
    BY <1>1, <1>5
  <2>2. j \in T
    BY <1>1, <1>5, <2>1
  <2> HIDE DEF T
  <2>3. m <= j
    BY <1>4, <2>2
  <2>4. QED BY <1>5, <2>1, <2>3
<1>7. m \in Done
  <2>1. m \in ToIssue \cup Chained \cup Done
    BY <1>5, <1>6 DEF PathFollowed
  <2>2. m \notin Chained /\ m \notin ToIssue
    BY <1>1, <1>5
  <2>3. QED BY <2>1, <2>2
<1>8. insts[m].opens # 0
  BY <1>5, <1>7 DEF BranchesThroughBase, Past, Done
<1>9. m \in Opened
  BY <1>5, <1>8 DEF Opened
<1>10. insts[m].opens = memStream + 1 /\ insts[m].opens <= memStream
  BY <1>5, <1>7, <1>9 DEF OpenersKnown, PathFollowed
<1>11. QED BY <1>1, <1>10

(* Memory takes a step along the path, or drops what is not on it.         *)
LEMMA MemoryFollows ==
  ASSUME IInv, BranchesCounted, StreamsInOrder, OnThePath, MemoryEvaluate
  PROVE  StreamsInOrder' /\ OnThePath'
<1> DEFINE s == execute.streamSeqNum
           Takes(num) ==
             /\ \A m \in Chained : num <= m
             /\ Chained \subseteq Chained' \cup {num} /\ Chained' \subseteq Chained
             /\ \/ Stale(num) /\ mTo' = mTo /\ memStream' = memStream
                \/ \E box \in Box, to \in {"COMMON", "TRAP"} :
                     /\ Moves(num, box, to) /\ Ids(mTo'["ORDER"]) = {num}
                     /\ ContainsExecSeqNum(isb[box], num) \/ num \in Ids(eTo[box])
<1>1. /\ phase = "memory" /\ phase' = "execute"
      /\ insts' = insts /\ supply' = supply /\ branch' = branch /\ dToE' = dToE
      /\ executeIn' = executeIn /\ execute' = execute /\ retired' = retired
      /\ mTo["ORDER"] = <<>>
  BY TakesTheOldest
<1>2. \/ Chained' = Chained /\ mTo' = mTo /\ memStream' = memStream
      \/ \E num \in Chained : Takes(num)
  BY TakesTheOldest
<1> HIDE DEF Takes
<1>3. Arriving' = Arriving
  BY <1>1 DEF Arriving
<1>4. ToIssue' = ToIssue /\ Decoded' = Decoded /\ Opened' = Opened
  BY <1>1, <1>3 DEF ToIssue, Decoded, Opened
<1>5. \A n \in Decoded : NotInShadow(n)' <=> NotInShadow(n)
  BY <1>1 DEF NotInShadow
<1>6. CASE Chained' = Chained /\ mTo' = mTo /\ memStream' = memStream
  <2>1. Done' = Done
    BY <1>1, <1>6 DEF Done
  <2>2. Quiet
    BY <1>1, <1>4, <1>6, <2>1 DEF Quiet
  <2>3. QED BY <2>2, QuietKeeps
<1>7. StreamsInOrder'
  BY <1>1, <1>4 DEF StreamsInOrder
<1>8. ASSUME NEW num \in Chained, Takes(num), FirstBranchesOpen'
      PROVE  OpenersKnown' /\ PathFollowed'
  <2>1. Opened \subseteq Decoded /\ Done \subseteq Decoded
    BY PathNamed DEF Opened
  <2>2. FirstBranchesOpen
    BY <1>4, <1>5, <1>8, <2>1 DEF FirstBranchesOpen
  <2>3. OpenersKnown /\ PathFollowed
    BY <2>2 DEF OnThePath
  <2>4. OpenersKnown'
    BY <1>1, <1>4, <2>3 DEF OpenersKnown
  <2>5. /\ \A m \in Chained : num <= m
        /\ Chained \subseteq Chained' \cup {num} /\ Chained' \subseteq Chained
    BY <1>8 DEF Takes
  <2>6. OnlyBranchesOpen /\ BranchesThroughBase
    BY DEF BranchesCounted
  <2>7. CASE Stale(num) /\ mTo' = mTo /\ memStream' = memStream
    <3>1. ~NotInShadow(num)
      BY <1>1, <2>2, <2>3, <2>5, <2>6, <2>7, StaleIsShadowed
    <3>2. Done' = Done
      BY <1>1, <2>7 DEF Done
    <3>3. \A n \in Decoded : NotInShadow(n) => n \in ToIssue \cup Chained' \cup Done
      BY <1>1, <2>3, <2>5, <3>1 DEF PathFollowed
    <3>4. PathFollowed'
      BY <1>1, <1>4, <1>5, <2>1, <2>3, <2>7, <3>2, <3>3 DEF PathFollowed
    <3>5. QED BY <2>4, <3>4
  <2>8. ASSUME NEW box \in Box, NEW to \in {"COMMON", "TRAP"}, Moves(num, box, to),
               Ids(mTo'["ORDER"]) = {num},
               ContainsExecSeqNum(isb[box], num) \/ num \in Ids(eTo[box])
        PROVE  PathFollowed'
    <3>1. /\ ~Stale(num) /\ memStream' = FollowBranch(box, num)
          /\ insts[num].stream = memStream
      BY <2>8 DEF Moves, Stale
    <3>2. /\ num \in Decoded /\ num \in Num /\ num \in Nat /\ memStream \in Nat /\ s \in Nat
          /\ Decoded \subseteq Nat /\ Chained \subseteq Decoded /\ ToIssue \subseteq Decoded
          /\ \A m \in ToIssue : num < m
          /\ \A n \in Decoded : insts[n].stream \in Nat /\ insts[n].opens \in Nat
      BY PathNamed, Named DEF IInv
    <3>3. NotInShadow(num)
      BY <1>1, <2>3, <2>5, <2>6, <3>1, MovedIsOfThePath
    <3>4. Done' = Done \cup {num}
      BY <1>1, <2>8, IdsOfPacket DEF Done
    <3>5. /\ \A n \in Done' : NotInShadow(n)'
          /\ \A n \in Decoded' : NotInShadow(n)' => n \in ToIssue' \cup Chained' \cup Done'
      BY <1>1, <1>4, <1>5, <2>1, <2>3, <2>5, <3>2, <3>3, <3>4 DEF PathFollowed
    <3>6. ASSUME NEW n \in Decoded', NotInShadow(n)', n \notin Done'
          PROVE  \A m \in Done' : m < n
      <4>1. n \in Decoded /\ NotInShadow(n) /\ n \notin Done /\ n # num
        BY <1>4, <1>5, <3>4, <3>6
      <4>2. \A m \in Done : m < n
        BY <2>3, <4>1 DEF PathFollowed
      <4>3. n \in ToIssue \cup Chained
        BY <1>1, <2>3, <4>1 DEF PathFollowed
      <4>4. num < n
        <5>1. CASE n \in ToIssue
          BY <3>2, <5>1
        <5>2. CASE n \in Chained
          <6>1. num <= n /\ n \in Nat
            BY <2>5, <3>2, <4>1, <5>2
          <6>2. QED BY <3>2, <4>1, <6>1
        <5>3. QED BY <4>3, <5>1, <5>2
      <4>5. QED BY <3>4, <4>2, <4>4
    <3>7. memStream <= s /\ \A c \in Opened : insts[c].opens <= memStream <=> c \in Done
      BY <2>3 DEF PathFollowed
    <3>8. \A c \in Opened : /\ insts[c].opens = insts[c].stream + 1 /\ insts[c].opens <= s
                            /\ insts[c].op = "Branch"
      BY <2>1, <2>3, <2>6 DEF OpenersKnown, OnlyBranchesOpen, Opened
    <3>9. CASE insts[num].op = "Branch"
      <4>1. Past(num)
        BY <2>8 DEF Past
      <4>2. num \in Opened /\ box = "BASE"
        BY <2>6, <2>8, <3>2, <3>9, <4>1 DEF BranchesThroughBase, Opened
      <4>3. memStream' = memStream + 1
        BY <3>1, <3>9, <4>2 DEF FollowBranch
      <4>4. insts[num].opens = memStream + 1 /\ memStream + 1 <= s
        BY <3>1, <3>8, <4>2
      <4>5. \A c \in Opened : insts[c].opens = memStream + 1 => c = num
        <5>1. ASSUME NEW c \in Opened, insts[c].opens = memStream + 1 PROVE c = num
          <6>1. insts[num].stream = insts[c].stream
            BY <2>1, <3>1, <3>2, <3>8, <5>1
          <6>2. num = c
            BY <2>2, <2>3, <2>6, <3>2, <3>3, <3>9, <6>1, OneOpener
          <6>3. QED BY <6>2
        <5>2. QED BY <5>1
      <4>6. ASSUME NEW c \in Opened
            PROVE  insts[c].opens <= memStream + 1 <=> c \in Done'
        <5>1. insts[c].opens \in Nat
          BY <2>1, <3>2
        <5>2. insts[c].opens <= memStream <=> c \in Done
          BY <3>7
        <5>3. insts[c].opens = memStream + 1 <=> c = num
          BY <4>4, <4>5
        <5>4. QED BY <3>2, <3>4, <5>1, <5>2, <5>3
      <4>7. QED BY <1>1, <1>4, <3>5, <3>6, <4>3, <4>4, <4>6 DEF PathFollowed
    <3>10. CASE insts[num].op # "Branch"
      <4>1. memStream' = memStream /\ num \notin Opened
        BY <3>1, <3>8, <3>10 DEF FollowBranch
      <4>2. QED BY <1>1, <1>4, <3>4, <3>5, <3>6, <3>7, <4>1 DEF PathFollowed
    <3>11. QED BY <3>9, <3>10
  <2>9. QED BY <1>8, <2>4, <2>7, <2>8 DEF Takes
<1>9. QED BY <1>2, <1>6, <1>7, <1>8 DEF OnThePath
-----------------------------------------------------------------------------
(* Execute.                                                                *)

(* The latch's instruction is not lost in front of the input buffer.       *)
LEMMA SetTailLosesNothing ==
  ASSUME executeIn \in BufferOf(Num), executeIn.elem = Bubble, dToE \in Wire(Num)
  PROVE  LET b == SetTail(executeIn, dToE)
         IN  Ids(executeIn.queue) \cup Ids(dToE) \subseteq Ids(b.elem) \cup Ids(b.queue)
<1> DEFINE b == SetTail(executeIn, dToE)
<1>1. executeIn \in BufferFields
  BY DEF BufferOf, BufferFields
<1>2. CASE dToE = Bubble
  BY <1>2, IdsOfPacket DEF SetTail, Bubble
<1>3. CASE dToE # Bubble /\ executeIn.queue = <<>>
  <2>1. b = [executeIn EXCEPT !.elem = dToE]
    BY <1>3 DEF SetTail
  <2>2. b.elem = dToE /\ b.queue = executeIn.queue
    BY <1>1, <2>1 DEF BufferFields
  <2>3. QED BY <2>2
<1>4. CASE dToE # Bubble /\ executeIn.queue # <<>>
  <2> DEFINE f == FreeReservation(executeIn)
             q == Append(executeIn.queue, dToE[1])
  <2>1. dToE[1] \in Num /\ Ids(dToE) = {dToE[1]}
    BY <1>4, WireIds
  <2>2. f \in BufferFields /\ f.queue = executeIn.queue
    BY <1>1 DEF FreeReservation, BufferFields
  <2> HIDE DEF f
  <2>3. b = [f EXCEPT !.queue = q]
    BY <1>4, <2>2 DEF SetTail, Push, f
  <2>4. Ids(q) = Ids(executeIn.queue) \cup {dToE[1]}
    BY <1>1, <2>1, AppendIds DEF BufferFields
  <2> HIDE DEF q
  <2>5. b.queue = q
    BY <2>2, <2>3 DEF BufferFields
  <2>6. QED BY <2>1, <2>4, <2>5
<1>5. QED BY <1>2, <1>3, <1>4

(* Nothing but the front is taken off.                                     *)
LEMMA PopInputTakesTheFront ==
  ASSUME NEW b, Pointed(b)
  PROVE  LET c == PopInput(b)
         IN  \A m \in Ids(b.elem) \cup Ids(b.queue) :
               m \in Ids(c.elem) \cup Ids(c.queue) \/ (~IsEmpty(b) /\ m = Front(b))
<1> DEFINE c == PopInput(b)
<1>1. b \in BufferFields /\ (b.elem # Bubble => b.queue = <<>>)
  BY DEF Pointed, BufferOf, BufferFields
<1>2. CASE IsEmpty(b)
  BY <1>2 DEF PopInput
<1>3. CASE b.elem # Bubble
  <2>1. b.elem \in Wire(Num) /\ b.queue = <<>> /\ Front(b) = b.elem[1] /\ ~IsEmpty(b)
    BY <1>1, <1>3 DEF BufferFields, Front, IsEmpty
  <2>2. Ids(b.elem) = {Front(b)} /\ Ids(b.queue) = {}
    BY <1>3, <2>1, WireIds, IdsOfPacket
  <2>3. QED BY <2>1, <2>2
<1>4. CASE b.elem = Bubble /\ b.queue # <<>>
  <2> DEFINE q == b.queue
  <2>1. /\ c = [b EXCEPT !.queue = Tail(q)] /\ Front(b) = q[1] /\ ~IsEmpty(b)
        /\ q \in Seq(Num)
    BY <1>1, <1>4 DEF PopInput, IsEmpty, Pop, Front, BufferFields
  <2>2. c.queue = Tail(q) /\ Ids(b.elem) = {}
    BY <1>1, <1>4, <2>1, IdsOfPacket DEF BufferFields, Bubble
  <2>3. /\ Len(q) \in Nat /\ Len(Tail(q)) = Len(q) - 1
        /\ \A i \in 1 .. Len(Tail(q)) : Tail(q)[i] = q[i + 1]
    BY <1>4, <2>1, TailIds
  <2>4. ASSUME NEW m \in Ids(q), m # q[1]
        PROVE  m \in Ids(Tail(q))
    <3> HIDE DEF q
    <3>1. PICK i \in 1 .. Len(q) : m = q[i]
      BY <2>4 DEF Ids
    <3>2. i - 1 \in 1 .. Len(Tail(q)) /\ i - 1 + 1 = i
      BY <2>3, <2>4, <3>1
    <3>3. Tail(q)[i - 1] = m
      BY <2>3, <3>1, <3>2
    <3>4. QED BY <3>2, <3>3 DEF Ids
  <2>5. QED BY <2>1, <2>2, <2>4
<1>5. QED BY <1>2, <1>3, <1>4 DEF IsEmpty

(* With a place in ORDER, what is issued is named to Memory.               *)
LEMMA OrderIsFilled ==
  ASSUME IInv, phase = "execute", OrderHasRoom, NEW n \in Num, FillSequence(n)
  PROVE  Chained' = Chained \cup {n}
<1>1. /\ eTo' = [eTo EXCEPT !["ORDER"] = <<n>>] /\ eTo["ORDER"] = <<>>
      /\ DOMAIN eTo = Box \cup {"ORDER"}
  BY DEF OrderHasRoom, FillSequence, IInv, MemoryBuffers, TypeOK
<1>2. Ids(eTo'["ORDER"]) = {n} /\ Ids(eTo["ORDER"]) = {}
  <2>1. eTo'["ORDER"] = <<n>>
    BY <1>1
  <2>2. QED BY <1>1, <2>1, IdsOfPacket
<1>3. /\ isb'["ORDER"].queue = isb["ORDER"].queue
      /\ isb'["ORDER"].index = isb["ORDER"].index
  BY FillSequenceKeeps DEF IInv
<1>4. Waiting(isb'["ORDER"]) = Waiting(isb["ORDER"])
  BY <1>3 DEF Waiting
<1>5. QED BY <1>2, <1>4 DEF Chained

(* Execute takes at most the oldest instruction there is to issue: it      *)
(* names it to Memory, or discards it as one of a stream that is over; and *)
(* it discards all there is after a branch.                                *)
LEMMA ExecuteTakes ==
  ASSUME IInv, OrderHasRoom, ExecuteEvaluate
  PROVE  /\ phase = "execute" /\ phase' = "push"
         /\ UNCHANGED <<supply, branch, memStream, mTo, retired>>
         /\ execute'.streamSeqNum = execute.streamSeqNum /\ ~execute'.draining
         /\ Decoded' = Decoded
         /\ \A n \in Decoded : /\ insts'[n].stream = insts[n].stream
                               /\ insts'[n].op = insts[n].op
                               /\ insts'[n].opens = insts[n].opens
         /\ ToIssue' \subseteq ToIssue
         /\ \/ /\ Chained' = Chained
               /\ \A n \in ToIssue : \/ n \in ToIssue' \/ execute.draining
                                     \/ insts[n].stream # execute.streamSeqNum
            \/ \E n \in ToIssue :
                 /\ insts[n].stream = execute.streamSeqNum
                 /\ Chained' = Chained \cup {n}
                 /\ \A m \in ToIssue' : n < m
                 /\ \A m \in ToIssue : m \in ToIssue' \/ execute.draining \/ m = n
<1> DEFINE b == ExecuteInput
           c == PopInput(b)
           f == Front(b)
           s == execute.streamSeqNum
           Left(x) == Ids(x.elem) \cup Ids(x.queue)
<1>1. /\ phase = "execute" /\ phase' = "push"
      /\ UNCHANGED <<supply, branch, memStream, mTo, retired>>
  BY DEF ExecuteEvaluate
<1>2. /\ executeIn \in BufferOf(Num) /\ dToE \in Wire(Num)
      /\ executeIn.elem = Bubble /\ Arriving = dToE
      /\ execute \in ExecuteFields
  BY <1>1 DEF IInv, TypeOK, Conveyor, Arriving, ExecuteFields
<1>3. /\ Pointed(b) /\ Left(b) \subseteq ToIssue
      /\ Left(c) \subseteq ToIssue
      /\ ~IsEmpty(b) => f \in ToIssue /\ \A m \in Ids(c.queue) : f < m
  <2>1. /\ Pointed(b) /\ Left(b) \subseteq ToIssue
        /\ Pointed(c) /\ c.elem = Bubble /\ Ids(c.queue) \subseteq ToIssue
        /\ ~IsEmpty(b) => f \in ToIssue /\ \A m \in Ids(c.queue) : f < m
    BY <1>1, InputTaken
  <2>2. QED BY <2>1, IdsOfPacket DEF Bubble
<1>4. ~execute.draining => ToIssue \subseteq Left(b)
  <2>1. ~execute.draining => b = SetTail(executeIn, dToE)
    BY DEF ExecuteInput
  <2>2. ToIssue = Ids(executeIn.queue) \cup Ids(dToE)
    BY <1>2, IdsOfPacket DEF ToIssue, Bubble
  <2> HIDE DEF b
  <2>3. QED BY <1>2, <2>1, <2>2, SetTailLosesNothing
<1>5. \A m \in Left(b) : m \in Left(c) \/ (~IsEmpty(b) /\ m = f)
  <2> HIDE DEF b
  <2>1. QED BY <1>3, PopInputTakesTheFront
<1>6. Ids(Arriving') = {} /\ ToIssue' = Left(executeIn')
  <2>1. Ids(Arriving') = {}
    BY <1>1, IdsOfPacket DEF Arriving, Bubble
  <2>2. QED BY <2>1 DEF ToIssue
<1>7. /\ Decoded' = Decoded
      /\ \A n \in Decoded : /\ insts'[n].stream = insts[n].stream
                            /\ insts'[n].op = insts[n].op
                            /\ insts'[n].opens = insts[n].opens
      /\ ToIssue' \subseteq ToIssue
  <2>1. CASE NothingIssued
    BY <1>6, <2>1 DEF NothingIssued, Decoded
  <2>2. ASSUME NEW n, NEW u, Issues(n, u)
        PROVE  /\ Decoded' = Decoded
               /\ \A m \in Decoded : /\ insts'[m].stream = insts[m].stream
                                     /\ insts'[m].op = insts[m].op
                                     /\ insts'[m].opens = insts[m].opens
               /\ ToIssue' \subseteq ToIssue
    <3>1. n \in Decoded /\ ToIssue' \subseteq ToIssue
      BY <2>2, IssuesYoungest
    <3>2. /\ Len(insts') = Len(insts)
          /\ \A m \in Decoded : m # n => insts'[m] = insts[m]
          /\ insts'[n].op = insts[n].op
          /\ insts'[n].stream = insts[n].stream
          /\ insts'[n].opens = insts[n].opens
      BY <2>2, <3>1, MarkupKeeps DEF IInv, Issues
    <3>3. QED BY <3>1, <3>2 DEF Decoded
  <2>3. QED BY <2>1, <2>2, ExecuteCases
<1>8. \/ /\ executeIn' = b \/ (executeIn' = c /\ (IsEmpty(b) \/ insts[f].stream # s))
         /\ execute' = [execute EXCEPT !.draining = FALSE]
         /\ UNCHANGED <<insts, renameId, eTo, isb>>
      \/ /\ ~IsEmpty(b) /\ insts[f].stream = s /\ EndOfLine(b, f)
  <2>1. IF ~IsEmpty(b) /\ insts[f].stream = s
        THEN IssueInst(b, AdvancedUnits, f)
        ELSE /\ executeIn' = c
             /\ execute' = [execute EXCEPT !.draining = FALSE]
             /\ UNCHANGED <<insts, renameId, eTo, isb>>
    BY DEF ExecuteEvaluate
  <2> HIDE DEF b, c, f
  <2>2. QED BY <2>1 DEF IssueInst, DidntIssue
<1>9. execute'.streamSeqNum = s /\ ~execute'.draining
  <2>1. \/ execute' = [execute EXCEPT !.draining = FALSE]
        \/ execute' = [execute EXCEPT !.draining = FALSE, !.inFlight = Append(@, f)]
    BY <1>8 DEF EndOfLine
  <2> HIDE DEF f
  <2>2. QED BY <1>2, <2>1 DEF ExecuteFields
<1>10. ASSUME executeIn' = b \/ (executeIn' = c /\ (IsEmpty(b) \/ insts[f].stream # s)),
              UNCHANGED <<insts, renameId, eTo, isb>>
       PROVE  /\ Chained' = Chained
              /\ \A n \in ToIssue : \/ n \in ToIssue' \/ execute.draining
                                    \/ insts[n].stream # s
  <2>1. Chained' = Chained
    BY <1>10 DEF Chained
  <2> HIDE DEF b, c, f
  <2>2. \A n \in ToIssue : n \in Left(executeIn') \/ execute.draining \/ insts[n].stream # s
    <3>1. CASE executeIn' = b
      BY <1>4, <3>1
    <3>2. CASE executeIn' = c /\ (IsEmpty(b) \/ insts[f].stream # s)
      BY <1>4, <1>5, <3>2
    <3>3. QED BY <1>10, <3>1, <3>2
  <2>3. QED BY <1>6, <2>1, <2>2
<1>11. ASSUME ~IsEmpty(b), insts[f].stream = s, EndOfLine(b, f)
       PROVE  /\ f \in ToIssue /\ Chained' = Chained \cup {f}
              /\ \A m \in ToIssue' : f < m
              /\ \A m \in ToIssue : m \in ToIssue' \/ execute.draining \/ m = f
  <2>1. executeIn' = c /\ FillSequence(f)
    BY <1>11 DEF EndOfLine
  <2>2. f \in ToIssue /\ f \in Num
    BY <1>3, <1>11, ToIssueNamed, Named DEF IInv
  <2> HIDE DEF b, f
  <2>3. Chained' = Chained \cup {f}
    BY <1>1, <2>1, <2>2, OrderIsFilled
  <2>4. c.elem = Bubble
    BY <1>1, InputTaken DEF b
  <2> HIDE DEF c
  <2>5. ToIssue' = Ids(c.queue)
    BY <1>6, <2>1, <2>4, IdsOfPacket DEF Bubble
  <2>6. \A m \in ToIssue' : f < m
    BY <1>3, <1>11, <2>5
  <2>7. \A m \in ToIssue : m \in ToIssue' \/ execute.draining \/ m = f
    BY <1>4, <1>5, <1>6, <2>1
  <2>8. QED BY <2>2, <2>3, <2>6, <2>7
<1> HIDE DEF b, c, f
<1>12. QED BY <1>1, <1>7, <1>8, <1>9, <1>10, <1>11

(* What Execute discards is in the shadow of a branch.                     *)
LEMMA ExecuteFollows ==
  ASSUME IInv, BranchesCounted, StreamsInOrder, OnThePath, OrderHasRoom, ExecuteEvaluate
  PROVE  StreamsInOrder' /\ OnThePath'
<1> DEFINE s == execute.streamSeqNum
<1>1. /\ phase = "execute" /\ phase' = "push"
      /\ supply' = supply /\ branch' = branch /\ memStream' = memStream
      /\ mTo' = mTo /\ retired' = retired
      /\ execute'.streamSeqNum = s /\ ~execute'.draining
      /\ Decoded' = Decoded
      /\ \A n \in Decoded : /\ insts'[n].stream = insts[n].stream
                            /\ insts'[n].op = insts[n].op
                            /\ insts'[n].opens = insts[n].opens
      /\ ToIssue' \subseteq ToIssue
  BY ExecuteTakes
<1>2. \/ /\ Chained' = Chained
         /\ \A n \in ToIssue : n \in ToIssue' \/ execute.draining \/ insts[n].stream # s
      \/ \E n \in ToIssue :
           /\ insts[n].stream = s
           /\ Chained' = Chained \cup {n}
           /\ \A m \in ToIssue' : n < m
           /\ \A m \in ToIssue : m \in ToIssue' \/ execute.draining \/ m = n
  BY ExecuteTakes
<1>3. /\ Done' = Done /\ Opened' = Opened /\ Opened \subseteq Decoded
      /\ Done \subseteq Decoded /\ ToIssue \subseteq Decoded
      /\ s \in Nat
      /\ \A n \in Decoded : insts[n].stream \in Nat /\ insts[n].stream <= s
  BY <1>1, PathNamed DEF Done, Opened
<1>4. \A n \in Decoded : NotInShadow(n)' <=> NotInShadow(n)
  BY <1>1, ShadowsStay DEF IInv
<1>5. StreamsInOrder'
  BY <1>1, <1>3 DEF StreamsInOrder
<1>6. ASSUME FirstBranchesOpen' PROVE OpenersKnown' /\ PathFollowed'
  <2>1. FirstBranchesOpen
    BY <1>3, <1>4, <1>6 DEF FirstBranchesOpen
  <2>2. OpenersKnown /\ PathFollowed /\ OnlyBranchesOpen
    BY <2>1 DEF OnThePath, BranchesCounted
  <2>3. OpenersKnown'
    BY <1>1, <1>3, <2>2 DEF OpenersKnown
  <2>4. ASSUME NEW n \in ToIssue, execute.draining \/ insts[n].stream # s
        PROVE  ~NotInShadow(n)
    <3>1. insts[n].stream < s
      <4>1. CASE execute.draining
        BY <4>1 DEF StreamsInOrder
      <4>2. CASE insts[n].stream # s
        BY <1>3, <4>2
      <4>3. QED BY <2>4, <4>1, <4>2
    <3>2. \A c \in Opened : c < n
      BY DEF StreamsInOrder
    <3>3. QED BY <1>3, <2>2, <3>1, <3>2, OldStreamsAreShadowed
  <2>5. ASSUME NEW n \in ToIssue, NotInShadow(n)
        PROVE  n \in ToIssue' \cup Chained'
    BY <1>2, <2>4, <2>5
  <2>6. Chained \subseteq Chained'
    BY <1>2
  <2>7. \A n \in Decoded' : NotInShadow(n)' => n \in ToIssue' \cup Chained' \cup Done'
    BY <1>1, <1>3, <1>4, <2>2, <2>5, <2>6 DEF PathFollowed
  <2>8. PathFollowed'
    BY <1>1, <1>3, <1>4, <2>2, <2>7 DEF PathFollowed
  <2>9. QED BY <2>3, <2>8
<1>7. QED BY <1>5, <1>6 DEF OnThePath
-----------------------------------------------------------------------------
(* Decode.                                                                 *)

(* What is new comes last, and is of a stream no older than the others.    *)
LEMMA DecodeFollows ==
  ASSUME IInv, StreamsInOrder, OnThePath, DecodeEvaluate
  PROVE  StreamsInOrder' /\ OnThePath'
<1> DEFINE N == Len(insts) + 1
<1>1. /\ phase = "decode" /\ phase' = "writeback" /\ branch' = Clock(branch)
      /\ execute' = execute /\ eTo' = eTo /\ isb' = isb /\ memStream' = memStream
      /\ mTo' = mTo /\ retired' = retired
  BY DecodeCases
<1>2. /\ Decoded \subseteq Nat /\ supply \in Nat
      /\ Done \subseteq Decoded /\ Opened \subseteq Decoded
      /\ \A n \in Decoded : insts[n].stream \in Nat
      /\ Len(insts) \in Nat /\ insts \in Seq(DynInst) /\ Decoded = 1 .. Len(insts)
      /\ branch \in LatchOf(Stream)
  <2>1. /\ Decoded \subseteq Nat /\ Done \subseteq Decoded
        /\ \A n \in Decoded : insts[n].stream \in Nat
    BY PathNamed
  <2>2. insts \in Seq(DynInst) /\ branch \in LatchOf(Stream) /\ supply \in Stream
    BY DEF IInv, TypeOK
  <2>3. Len(insts) \in Nat /\ Decoded = 1 .. Len(insts)
    BY <2>2 DEF Decoded
  <2>4. Opened \subseteq Decoded
    BY DEF Opened
  <2>5. supply \in Nat
    BY PathNamed
  <2>6. QED BY <2>1, <2>2, <2>3, <2>4, <2>5
<1>3. \A n \in Decoded : n < N
  BY <1>2
<1>4. Ids(branch'.in) = {} /\ Ids(branch'.out) = Ids(branch.in)
  BY <1>1, IdsOfPacket DEF Clock, Bubble
<1>5. Arriving = Bubble /\ Arriving' = dToE' /\ Ids(Bubble) = {}
  BY <1>1, IdsOfPacket DEF Arriving, Bubble
<1>6. \E D \in SUBSET {N} :
        /\ Decoded' = Decoded \cup D /\ ToIssue' = ToIssue \cup D
        /\ \A n \in Decoded : insts'[n] = insts[n]
        /\ \A n \in D : insts'[n].stream = supply /\ insts'[n].opens = 0
        /\ D # {} => supply' = supply
        /\ supply <= supply' /\ \A w \in Ids(branch.in) : supply' <= w
  <2>1. CASE /\ UNCHANGED <<insts, executeIn>> /\ dToE' = Bubble
             /\ \/ supply' = supply
                \/ branch.out # Bubble /\ supply' = branch.out[1]
    <3>1. Decoded' = Decoded /\ ToIssue' = ToIssue /\ insts' = insts
      BY <1>5, <2>1 DEF Decoded, ToIssue
    <3>2. supply <= supply' /\ \A w \in Ids(branch.in) : supply' <= w
      <4>1. CASE supply' = supply
        BY <1>2, <4>1 DEF StreamsInOrder
      <4>2. CASE branch.out # Bubble /\ supply' = branch.out[1]
        <5>1. branch.out \in Wire(Stream)
          BY <1>2 DEF LatchOf
        <5>2. supply' \in Ids(branch.out)
          BY <4>2, <5>1, WireIds
        <5>3. QED BY <5>2 DEF StreamsInOrder
      <4>3. QED BY <2>1, <4>1, <4>2
    <3> HIDE DEF N
    <3>3. WITNESS {} \in SUBSET {N}
    <3>4. QED BY <3>1, <3>2
  <2>2. ASSUME NEW d \in DynInst, d.stream = supply, d.opens = 0,
               insts' = Append(insts, d), dToE' = <<N>>,
               executeIn' = Reserve(executeIn), supply' = supply
        PROVE  /\ Decoded' = Decoded \cup {N} /\ ToIssue' = ToIssue \cup {N}
               /\ \A n \in Decoded : insts'[n] = insts[n]
               /\ insts'[N].stream = supply /\ insts'[N].opens = 0
               /\ supply' = supply
               /\ supply <= supply' /\ \A w \in Ids(branch.in) : supply' <= w
    <3>1. Len(insts') = N /\ insts'[N] = d /\ \A n \in Decoded : insts'[n] = insts[n]
      <4> HIDE DEF DynInst
      <4>1. QED BY <1>2, <2>2
    <3>2. Decoded' = Decoded \cup {N}
      BY <1>2, <3>1 DEF Decoded
    <3>3. executeIn'.elem = executeIn.elem /\ executeIn'.queue = executeIn.queue
      <4>1. executeIn \in BufferFields
        BY DEF IInv, TypeOK, BufferOf, BufferFields
      <4>2. QED BY <2>2, <4>1 DEF Reserve, BufferFields
    <3>4. Ids(dToE') = {N}
      BY <2>2, IdsOfPacket
    <3>5. ToIssue' = ToIssue \cup {N}
      BY <1>5, <3>3, <3>4 DEF ToIssue
    <3>6. supply <= supply' /\ \A w \in Ids(branch.in) : supply' <= w
      BY <1>2, <2>2 DEF StreamsInOrder
    <3>7. QED BY <2>2, <3>1, <3>2, <3>5, <3>6
  <2>3. CASE \E d \in DynInst :
               /\ d.stream = supply /\ d.opens = 0
               /\ insts' = Append(insts, d) /\ dToE' = <<N>>
               /\ executeIn' = Reserve(executeIn) /\ supply' = supply
    <3>1. /\ Decoded' = Decoded \cup {N} /\ ToIssue' = ToIssue \cup {N}
          /\ \A n \in Decoded : insts'[n] = insts[n]
          /\ insts'[N].stream = supply /\ insts'[N].opens = 0
          /\ supply' = supply
          /\ supply <= supply' /\ \A w \in Ids(branch.in) : supply' <= w
      BY <2>2, <2>3
    <3> HIDE DEF N
    <3>2. WITNESS {N} \in SUBSET {N}
    <3>3. QED BY <3>1
  <2>4. QED BY <2>1, <2>3, DecodeCases
<1> HIDE DEF N
<1>7. PICK D \in SUBSET {N} :
        /\ Decoded' = Decoded \cup D /\ ToIssue' = ToIssue \cup D
        /\ \A n \in Decoded : insts'[n] = insts[n]
        /\ \A n \in D : insts'[n].stream = supply /\ insts'[n].opens = 0
        /\ D # {} => supply' = supply
        /\ supply <= supply' /\ \A w \in Ids(branch.in) : supply' <= w
  BY <1>6
<1>8. Opened' = Opened
  BY <1>7 DEF Opened
<1>9. Chained' = Chained /\ Done' = Done
  BY <1>1 DEF Chained, Done
<1>10. supply' \in Nat
  <2>1. [Next]_vars
    BY DEF Next, Cycle
  <2>2. IInv'
    BY <2>1, NextIInv
  <2>3. Stream \subseteq Nat
    BY PathNamed
  <2>4. QED BY <2>2, <2>3 DEF IInv, TypeOK
<1>11. StreamsInOrder'
  <2>1. \A n \in Decoded' : insts'[n].stream <= supply'
    BY <1>2, <1>7, <1>10 DEF StreamsInOrder
  <2>2. ASSUME NEW m \in Decoded', NEW n \in Decoded', m < n
        PROVE  insts'[m].stream <= insts'[n].stream
    <3>1. m \in Decoded
      BY <1>2, <1>3, <1>7, <2>2
    <3>2. CASE n \in Decoded
      BY <1>7, <2>2, <3>1, <3>2 DEF StreamsInOrder
    <3>3. CASE n \in D
      BY <1>7, <3>1, <3>3 DEF StreamsInOrder
    <3>4. QED BY <1>7, <3>2, <3>3
  <2>3. \A c \in Opened', m \in ToIssue' : c < m
    BY <1>2, <1>3, <1>7, <1>8 DEF StreamsInOrder
  <2>4. execute'.draining => \A n \in ToIssue' : insts'[n].stream < execute'.streamSeqNum
    <3>1. execute.draining =>
            /\ \A n \in ToIssue : insts[n].stream < execute.streamSeqNum
            /\ supply < execute.streamSeqNum
      BY <1>1 DEF StreamsInOrder
    <3>2. ToIssue \subseteq Decoded
      BY PathNamed
    <3>3. QED BY <1>1, <1>7, <3>1, <3>2
  <2>5. QED BY <1>1, <1>4, <1>7, <2>1, <2>2, <2>3, <2>4 DEF StreamsInOrder
<1>12. ASSUME FirstBranchesOpen' PROVE OpenersKnown' /\ PathFollowed'
  <2>1. \A n \in Decoded : NotInShadow(n)' <=> NotInShadow(n)
    BY <1>7, ShadowsStay DEF IInv
  <2>2. FirstBranchesOpen
    BY <1>2, <1>8, <1>12, <2>1 DEF FirstBranchesOpen
  <2>3. OpenersKnown /\ PathFollowed
    BY <2>2 DEF OnThePath
  <2>4. OpenersKnown'
    BY <1>1, <1>2, <1>7, <1>8, <2>3 DEF OpenersKnown
  <2>5. ASSUME NEW n \in Decoded', NotInShadow(n)'
        PROVE  /\ n \in ToIssue' \cup Chained' \cup Done'
               /\ n \notin Done' => \A m \in Done' : m < n
    <3>1. CASE n \in Decoded
      BY <1>1, <1>7, <1>9, <2>1, <2>3, <2>5, <3>1 DEF PathFollowed
    <3>2. CASE n \in D
      BY <1>2, <1>3, <1>7, <1>9, <3>2
    <3>3. QED BY <1>7, <3>1, <3>2
  <2>6. PathFollowed'
    BY <1>1, <1>2, <1>7, <1>8, <1>9, <2>1, <2>3, <2>5 DEF PathFollowed
  <2>7. QED BY <2>4, <2>6
<1>13. QED BY <1>11, <1>12 DEF OnThePath
-----------------------------------------------------------------------------
(* All steps.                                                              *)

(* Every step follows the path.                                            *)
LEMMA NextFollows ==
  ASSUME IInv, BranchesCounted, StreamsInOrder, OnThePath, OrderHasRoom,
         "execute" \notin Faults, [Next]_vars
  PROVE  StreamsInOrder' /\ OnThePath'
<1>1. CASE \/ WritebackEvaluate \/ SetStalls \/ UNCHANGED vars
           \/ \E n \in Num : FinishMemTranslation(n) \/ RecvTimingResp(n)
           \/ \E accept \in BOOLEAN : RecvReqRetry(accept)
  BY <1>1, QuietSteps, QuietKeeps
<1>2. CASE MemoryEvaluate
  BY <1>2, MemoryFollows
<1>3. CASE ExecuteEvaluate
  BY <1>3, ExecuteFollows
<1>4. CASE PushFree \/ NotReady \/ PushBranch \/ PushResult \/ PushMemRef
  BY <1>4, PushFollows
<1>5. CASE DecodeEvaluate
  BY <1>5, DecodeFollows
<1>6. QED BY <1>1, <1>2, <1>3, <1>4, <1>5 DEF Next, Cycle

(* While only first branches open streams, the program runs through all of *)
(* them.                                                                   *)
LEMMA StreamsOfTheProgram ==
  ASSUME IInv, FirstBranchesOpen, OpenersKnown
  PROVE  \A k \in 1 .. execute.streamSeqNum : OnPathStream[k]
<1> DEFINE s == execute.streamSeqNum
           Reached(g, k) ==
             \/ k = FirstStream
             \/ \E n \in Decoded :
                  /\ insts[n].opens = k /\ insts[n].stream < k
                  /\ NotInShadow(n) /\ g[insts[n].stream]
           f == [k \in Stream |-> k <= s]
<1>1. /\ Stream \subseteq Nat /\ s \in Nat /\ s \in Stream
      /\ \A k \in Stream : k >= 1
      /\ \A k \in 1 .. s : k \in Stream
      /\ \A n \in Decoded : /\ insts[n].stream \in Nat /\ insts[n].stream >= 1
                            /\ insts[n].stream <= s
  <2>1. s \in Stream /\ MaxInst \in Nat
    BY Pool DEF IInv, TypeOK
  <2>2. QED BY <2>1, PathNamed DEF Stream, FirstStream
<1>2. ASSUME NEW k \in 2 .. s
      PROVE  \E n \in Decoded : /\ insts[n].opens = k /\ insts[n].stream = k - 1
                                /\ NotInShadow(n)
  <2>1. PICK n \in Opened : insts[n].opens = k
    BY DEF OpenersKnown
  <2>2. n \in Decoded /\ NotInShadow(n) /\ k = insts[n].stream + 1
    BY <2>1 DEF Opened, FirstBranchesOpen, OpenersKnown
  <2>3. insts[n].stream \in Nat
    BY <1>1, <2>2
  <2>4. QED BY <2>1, <2>2, <2>3
<1>3. ASSUME NEW k \in Stream PROVE k <= s <=> Reached(f, k)
  <2>1. ASSUME k <= s PROVE Reached(f, k)
    <3>1. CASE k = 1
      BY <3>1 DEF FirstStream
    <3>2. CASE k # 1
      <4>1. k \in 2 .. s
        BY <1>1, <2>1, <3>2
      <4>2. PICK n \in Decoded : /\ insts[n].opens = k /\ insts[n].stream = k - 1
                                 /\ NotInShadow(n)
        BY <1>2, <4>1
      <4>3. f[insts[n].stream] /\ insts[n].stream < k
        <5>1. k - 1 \in 1 .. s /\ k - 1 < k
          BY <1>1, <4>1
        <5>2. k - 1 \in Stream /\ k - 1 <= s
          BY <1>1, <5>1
        <5>3. f[k - 1]
          BY <5>2
        <5>4. QED BY <4>2, <5>1, <5>3
      <4> HIDE DEF f
      <4>4. QED BY <4>2, <4>3
    <3>3. QED BY <3>1, <3>2
  <2>2. ASSUME Reached(f, k) PROVE k <= s
    <3>1. CASE k = FirstStream
      BY <1>1, <3>1 DEF FirstStream
    <3>2. ASSUME NEW n \in Decoded, insts[n].opens = k PROVE k <= s
      <4>1. n \in Opened
        BY <1>1, <3>2 DEF Opened
      <4>2. QED BY <3>2, <4>1 DEF OpenersKnown
    <3> HIDE DEF f
    <3>3. QED BY <2>2, <3>1, <3>2
  <2> HIDE DEF Reached
  <2>3. QED BY <2>1, <2>2
<1>4. f = [k \in Stream |-> Reached(f, k)]
  <2>1. \A k \in Stream : Reached(f, k) \in BOOLEAN /\ (k <= s) \in BOOLEAN
    BY <1>1
  <2>2. \A k \in Stream : (k <= s) = Reached(f, k)
    <3> HIDE DEF Reached
    <3>1. QED BY <1>3, <2>1
  <2> DEFINE g == f
  <2>3. \A k \in Stream : (k <= s) = Reached(g, k)
    BY <2>2
  <2>4. g = [k \in Stream |-> k <= s]
    OBVIOUS
  <2> HIDE DEF Reached, g
  <2>5. g = [k \in Stream |-> Reached(g, k)]
    BY <2>3, <2>4
  <2>6. QED BY <2>5 DEF g
<1>5. OnPathStream = [k \in Stream |-> Reached(OnPathStream, k)]
  <2> HIDE DEF f
  <2>1. \E g : g = [k \in Stream |-> Reached(g, k)]
    BY <1>4
  <2>2. OnPathStream = CHOOSE g : g = [k \in Stream |-> Reached(g, k)]
    BY DEF OnPathStream
  <2>3. QED BY <2>1, <2>2
<1> HIDE DEF f
<1> DEFINE T == {k \in 1 .. s : ~OnPathStream[k]}
<1>6. SUFFICES ASSUME T # {} PROVE FALSE
  OBVIOUS
<1>7. PICK k \in T : \A j \in T : k <= j
  <2>1. T \in SUBSET Nat
    OBVIOUS
  <2> HIDE DEF T
  <2>2. QED BY <1>6, <2>1, NatMin
<1>8. k \in 1 .. s /\ ~OnPathStream[k] /\ k \in Stream
  BY <1>1
<1>9. ~Reached(OnPathStream, k)
  BY <1>5, <1>8
<1>10. k \in 2 .. s
  BY <1>1, <1>8, <1>9 DEF FirstStream
<1>11. PICK n \in Decoded : /\ insts[n].opens = k /\ insts[n].stream = k - 1
                            /\ NotInShadow(n)
  BY <1>2, <1>10
<1>12. k - 1 \in 1 .. s /\ ~(k <= k - 1) /\ k - 1 < k
  BY <1>1, <1>10
<1>13. OnPathStream[k - 1]
  BY <1>7, <1>12
<1>14. QED BY <1>9, <1>11, <1>12, <1>13

(* What is known of the path is what is to be shown of it.                 *)
LEMMA PathRetired ==
  ASSUME IInv, OnThePath, OnlyTheProgramBranches
  PROVE  RetiresThePath
<1>1. FirstBranchesOpen
  BY DEF OnlyTheProgramBranches, FirstBranchesOpen, Opened, OnPath
<1>2. OpenersKnown /\ PathFollowed
  BY <1>1 DEF OnThePath
<1>3. /\ Increasing(retired) /\ retired \in Seq(Num) /\ Len(retired) \in Nat
      /\ Decoded = 1 .. Len(insts) /\ Len(insts) \in Nat /\ Num \subseteq Nat
      /\ Ids(retired) \subseteq Done /\ Done \subseteq Decoded
  <2>1. retired \in Seq(Num)
    BY DEF IInv, TypeOK
  <2>2. QED BY <2>1, PathNamed, Named DEF IInv, LeavesInOrder, Done, Decoded
<1>4. ASSUME NEW i \in 1 .. Len(retired) PROVE OnPath(retired[i])
  <2> DEFINE n == retired[i]
  <2>1. n \in Ids(retired)
    BY DEF Ids
  <2> HIDE DEF n
  <2>2. n \in Decoded /\ NotInShadow(n)
    BY <1>2, <1>3, <2>1 DEF PathFollowed
  <2>3. insts[n].stream \in 1 .. execute.streamSeqNum
    BY <2>2, PathNamed
  <2>4. OnPath(n)
    BY <1>1, <1>2, <2>2, <2>3, StreamsOfTheProgram DEF OnPath
  <2>5. QED BY <2>4 DEF n
<1>5. RetiresInOrder
  BY <1>3 DEF Increasing, RetiresInOrder
<1>6. ASSUME retired # <<>>, NEW n \in 1 .. retired[Len(retired)], OnPath(n)
      PROVE  n \in Ids(retired)
  <2> DEFINE last == retired[Len(retired)]
  <2>1. Len(retired) \in 1 .. Len(retired)
    BY <1>3, <1>6
  <2>2. last \in Ids(retired)
    BY <2>1 DEF Ids
  <2> HIDE DEF last
  <2>3. last \in Done /\ last \in Decoded /\ last \in Nat
    <3>1. last \in Done /\ last \in Decoded
      BY <1>3, <2>2
    <3>2. Decoded \subseteq Nat
      BY PathNamed
    <3>3. QED BY <3>1, <3>2
  <2>4. n \in Decoded /\ n <= last /\ n \in Nat
    BY <1>3, <2>3 DEF last
  <2>5. NotInShadow(n)
    BY <1>6 DEF OnPath
  <2>6. n \in Done
    BY <1>2, <2>3, <2>4, <2>5 DEF PathFollowed
  <2>7. n \notin Ids(mTo["ORDER"])
    BY <2>2, <2>3, <2>4 DEF IInv, LeavesInOrder
  <2>8. QED BY <2>6, <2>7 DEF Done
<1>7. QED BY <1>4, <1>5, <1>6 DEF RetiresThePath

(* The inductive invariant of the path ...                                 *)
FollowsThePath == IInv /\ BranchesCounted /\ StreamsInOrder /\ OnThePath

(* ... holds initially, with nothing decoded, ...                          *)
LEMMA PathInitially ==
  ASSUME Init
  PROVE  FollowsThePath
<1>1. IInv /\ BranchesCounted
  BY InitIInv, StreamsInitially
<1>2. /\ Decoded = {} /\ Opened = {} /\ supply = FirstStream /\ memStream = FirstStream
      /\ branch = EmptyLatch /\ execute.streamSeqNum = FirstStream /\ ~execute.draining
      /\ retired = <<>> /\ mTo["ORDER"] = <<>>
  BY DEF Init, Decoded, Opened, NoPackets
<1>3. Done = {} /\ Ids(branch.in) = {} /\ Ids(branch.out) = {}
  BY <1>2, IdsOfPacket DEF Done, EmptyLatch, Bubble
<1>4. StreamsInOrder
  BY <1>2, <1>3 DEF StreamsInOrder
<1>5. OnThePath
  BY <1>2, <1>3 DEF OnThePath, OpenersKnown, PathFollowed, FirstStream
<1>6. QED BY <1>1, <1>4, <1>5 DEF FollowsThePath

(* ... and in every step.                                                  *)
LEMMA PathKept ==
  ASSUME FollowsThePath, OrderHasRoom, "execute" \notin Faults, [Next]_vars
  PROVE  FollowsThePath'
<1>1. IInv' /\ BranchesCounted'
  BY NextIInv, BranchesCountedKept DEF FollowsThePath
<1>2. StreamsInOrder' /\ OnThePath'
  BY NextFollows DEF FollowsThePath
<1>3. QED BY <1>1, <1>2 DEF FollowsThePath

(* Results overtake each other, what follows a branch is issued and        *)
(* executed before it is known to be wrong, and its slots are given back   *)
(* by Memory or Execute: Writeback retires the program, in order, without  *)
(* a gap.  That is while ORDER has a place for what Execute issues and no  *)
(* branch is executed in the shadow of another, where nothing faults in    *)
(* execution.                                                              *)
THEOREM TheProgramIsRetired ==
  ASSUME "execute" \notin Faults
  PROVE  Spec /\ []OrderHasRoom => [](OnlyTheProgramBranches => RetiresThePath)
<1>1. Init => FollowsThePath
  BY PathInitially
<1>2. FollowsThePath /\ OrderHasRoom /\ [Next]_vars => FollowsThePath'
  BY PathKept
<1>3. FollowsThePath => (OnlyTheProgramBranches => RetiresThePath)
  BY PathRetired DEF FollowsThePath
<1>4. QED BY <1>1, <1>2, <1>3, PTL DEF Spec
-----------------------------------------------------------------------------
(* The accesses of the program.                                            *)

(* Memory has moved n, or has it elsewhere than in MEMORY.                 *)
Bypasses(n) ==
  \/ n \in Done
  \/ \E b \in Box \ {"MEMORY"} : n \in Ids(eTo[b]) \/ ContainsExecSeqNum(isb[b], n)

(* An access is not moved before it is answered.                           *)
AccessesAwaitAnswers == \A n \in dcache.cache : ~Bypasses(n)

(* Every step waits for the answers.                                       *)
LEMMA AccessesAwaitKept ==
  ASSUME IInv, AnswersKept, AccessesAwaitAnswers, [Next]_vars
  PROVE  AccessesAwaitAnswers'
<1>1. IInv' /\ FaultsFailed'
  BY NextIInv, FaultsFailedKept DEF AnswersKept
<1>2. \A n : Bypasses(n) => Past(n)
  BY DEF Bypasses, Past, Done
<1>3. ASSUME NEW n \in dcache'.cache
      PROVE  /\ n \in Decoded' /\ n \in Num /\ ~insts'[n].fault
             /\ insts'[n].req = "SentToCache" /\ insts'[n].op \in MemOp
             /\ n \in Ids(execute'.inFlight) => ~Bypasses(n)'
  <2>1. n \in Num /\ n <= Len(insts') /\ insts'[n].req = "SentToCache"
    BY <1>1 DEF IInv, TypeOK, RequestsTracked
  <2>2. n \in Decoded'
    BY <2>1 DEF Decoded, Num
  <2>3. insts'[n].op \in MemOp /\ ~insts'[n].fault
    BY <1>1, <2>1, <2>2 DEF IInv, RequestsTracked, FaultsFailed
  <2>4. Past(n)' /\ n \in Ids(execute'.inFlight) => insts'[n].fault
    BY <1>1, <2>1 DEF IInv, PastExecute
  <2>5. Bypasses(n)' => Past(n)'
    BY DEF Bypasses, Past, Done
  <2>6. QED BY <2>1, <2>2, <2>3, <2>4, <2>5
<1> SUFFICES ASSUME NEW n \in dcache'.cache, n \notin Ids(execute'.inFlight), Bypasses(n)'
             PROVE  FALSE
  BY <1>3 DEF AccessesAwaitAnswers
<1>4. ASSUME n \in dcache.cache, Bypasses(n) PROVE FALSE
  BY <1>4 DEF AccessesAwaitAnswers
<1>5. CASE PushFree \/ NotReady \/ PushBranch \/ PushResult \/ PushMemRef
  <2> DEFINE c == Current
  <2>1. PICK d : PushStep(d)
    BY <1>5, PushFreeStep, NotReadyStep, PushBranchStep, PushResultStep, PushMemRefStep
  <2>2. /\ \A b \in Box : Ids(eTo'[b]) \subseteq Ids(eTo[b]) \cup {c} /\ Fewer(isb'[b], isb[b])
        /\ mTo' = mTo /\ retired' = retired
        /\ ~insts[c].fault => ~Past(c)
    BY <2>1, PutsCurrent
  <2>3. n \in dcache.cache \/ n = c
    BY <2>1 DEF PushStep, TracksRequest, Track
  <2>4. Done' = Done
    BY <2>2 DEF Done
  <2>5. CASE n # c
    <3>1. Bypasses(n)
      BY <2>2, <2>4, <2>5 DEF Bypasses, Fewer
    <3>2. QED BY <1>4, <2>3, <2>5, <3>1
  <2>6. CASE n = c
    <3>1. c \in Ids(execute.inFlight)
      BY <2>1, PushKeepsInsts
    <3>2. CASE IntoMemory
      <4>1. /\ eTo' = [eTo EXCEPT !["MEMORY"] = Append(@, c)]
            /\ isb' = [isb EXCEPT !["MEMORY"] = ReserveEntry(@)]
            /\ ~insts[c].fault /\ DOMAIN eTo = Box \cup {"ORDER"}
            /\ DOMAIN isb = Box \cup {"ORDER"}
        BY <3>2 DEF IntoMemory, IsFree, IInv, TypeOK
      <4>2. \A b \in Box \ {"MEMORY"} : eTo'[b] = eTo[b] /\ isb'[b] = isb[b]
        BY <4>1
      <4>3. Bypasses(n)
        BY <2>4, <4>2 DEF Bypasses
      <4>4. QED BY <1>2, <2>2, <2>6, <4>1, <4>3
    <3>3. CASE PastMemory
      BY <1>3, <2>6, <3>1, <3>3 DEF PastMemory
    <3>4. QED BY <1>5, <3>2, <3>3, AccessesGoToMemory DEF AnswersKept
  <2>7. QED BY <2>5, <2>6
<1>6. CASE MemoryEvaluate
  <2>1. dcache' = dcache /\ execute' = execute /\ insts' = insts
    BY <1>6 DEF MemoryEvaluate
  <2>2. /\ \A b \in Box : n \notin Ids(eTo'[b])
        /\ \A b \in Box : ContainsExecSeqNum(isb'[b], n)
                            => ContainsExecSeqNum(isb[b], n) \/ n \in Ids(eTo[b])
        /\ retired' = retired
    BY <1>6, MemoryPassesOn
  <2>3. ~Bypasses(n)
    BY <1>4, <2>1
  <2>4. n \in Done'
    BY <2>2, <2>3 DEF Bypasses
  <2>5. n \in Ids(mTo'["ORDER"]) /\ mTo' # mTo
    BY <2>2, <2>3, <2>4 DEF Bypasses, Done
  <2>6. PICK box \in Box, to \in {"COMMON", "TRAP"} :
          /\ Moves(n, box, to)
          /\ ContainsExecSeqNum(isb[box], n) \/ n \in Ids(eTo[box])
    <3>1. ASSUME NEW num \in Num, NEW box \in Box, NEW to \in {"COMMON", "TRAP"},
                 Moves(num, box, to), Ids(mTo'["ORDER"]) = {num},
                 ContainsExecSeqNum(isb[box], num) \/ num \in Ids(eTo[box])
          PROVE  \E x \in Box, t \in {"COMMON", "TRAP"} :
                   /\ Moves(n, x, t)
                   /\ ContainsExecSeqNum(isb[x], n) \/ n \in Ids(eTo[x])
      <4>1. n = num
        BY <2>5, <3>1
      <4>2. QED BY <3>1, <4>1
    <3>2. Chained \subseteq Num
      BY PathNamed, Named DEF IInv
    <3>3. QED BY <1>6, <2>5, <3>1, <3>2, TakesTheOldest
  <2>7. box = "MEMORY"
    BY <2>3, <2>6 DEF Bypasses
  <2>8. to = NoBox
    BY <1>3, <2>1, <2>6, <2>7 DEF Moves, Destination
  <2>9. QED BY <2>6, <2>8 DEF NoBox
<1>7. ASSUME n \in dcache.cache, Done' = Done,
             \A b \in Box : eTo'[b] = eTo[b] /\ isb'[b].queue = isb[b].queue
      PROVE  FALSE
  <2>1. \A b \in Box :
          /\ n \in Ids(eTo'[b]) => n \in Ids(eTo[b])
          /\ ContainsExecSeqNum(isb'[b], n) => ContainsExecSeqNum(isb[b], n)
    BY <1>7 DEF ContainsExecSeqNum
  <2>2. Bypasses(n)
    BY <1>7, <2>1 DEF Bypasses
  <2>3. QED BY <1>4, <1>7, <2>2
<1>8. CASE \/ WritebackEvaluate \/ SetStalls \/ UNCHANGED vars
           \/ \E m \in Num : FinishMemTranslation(m) \/ RecvTimingResp(m)
           \/ \E accept \in BOOLEAN : RecvReqRetry(accept)
  <2>1. Done' = Done
    BY <1>8, QuietSteps DEF Quiet
  <2>2. eTo' = eTo /\ isb' = isb
    BY <1>8, CallbackCases DEF WritebackEvaluate, SetStalls, vars
  <2>3. n \in dcache.cache
    <3>1. CASE WritebackEvaluate \/ SetStalls \/ UNCHANGED vars
      BY <3>1 DEF WritebackEvaluate, SetStalls, vars
    <3>2. CASE \/ \E m \in Num : FinishMemTranslation(m) \/ RecvTimingResp(m)
               \/ \E accept \in BOOLEAN : RecvReqRetry(accept)
      <4>1. dcache'.cache \subseteq dcache.cache \cup Ids(execute.inFlight)
        BY <3>2, CacheTakesWhatIsInFlight
      <4>2. execute' = execute
        BY <3>2, CallbackCases
      <4>3. QED BY <4>1, <4>2
    <3>3. QED BY <1>8, <3>1, <3>2
  <2>4. QED BY <1>7, <2>1, <2>2, <2>3
<1>9. CASE ExecuteEvaluate \/ DecodeEvaluate
  <2>1. mTo' = mTo /\ retired' = retired /\ dcache' = dcache
    BY <1>9 DEF ExecuteEvaluate, DecodeEvaluate
  <2>2. \A b \in Box : eTo'[b] = eTo[b] /\ isb'[b].queue = isb[b].queue
    <3>1. CASE DecodeEvaluate
      BY <3>1 DEF DecodeEvaluate
    <3>2. CASE NothingIssued
      BY <3>2 DEF NothingIssued
    <3>3. ASSUME NEW m, NEW u, Issues(m, u)
          PROVE  \A b \in Box : eTo'[b] = eTo[b] /\ isb'[b].queue = isb[b].queue
      <4>1. m \in Num /\ FillSequence(m) /\ phase = "execute"
        BY <3>3, IssuesYoungest DEF Issues
      <4>2. QED BY <4>1, FillSequenceKeeps DEF IInv
    <3>4. QED BY <1>9, <3>1, <3>2, <3>3, ExecuteCases
  <2>3. Done' = Done
    BY <2>1 DEF Done
  <2>4. QED BY <1>7, <2>1, <2>2, <2>3
<1>10. QED BY <1>5, <1>6, <1>8, <1>9 DEF Next, Cycle

(* What is lost is not the program's.                                      *)
LEMMA LostIsShadowed ==
  ASSUME IInv, OnlyBranchesOpen, FirstBranchesOpen, OpenersKnown, PathFollowed,
         NEW n \in Decoded, n \notin Done, Lost(n)
  PROVE  ~NotInShadow(n)
<1> DEFINE k == insts[n].stream
           s == execute.streamSeqNum
<1>1. /\ k \in Nat /\ k >= 1 /\ k <= s /\ s \in Nat
      /\ memStream \in Nat /\ memStream >= 1 /\ memStream <= s
  BY PathNamed DEF PathFollowed
<1>2. \A c \in Opened : insts[c].opens <= memStream <=> c \in Done
  BY DEF PathFollowed
<1>3. CASE k < memStream
  <2> SUFFICES ASSUME NotInShadow(n) PROVE FALSE
    OBVIOUS
  <2>1. \A m \in Done : m < n
    BY DEF PathFollowed
  <2>2. \A c \in Opened : insts[c].opens = k + 1 => c < n
    BY <1>1, <1>2, <1>3, <2>1
  <2>3. k < s
    BY <1>1, <1>3
  <2>4. QED BY <2>2, <2>3, OldStreamsAreShadowed
<1>4. CASE memStream < k /\ \A m \in Chained : k <= insts[m].stream
  <2>1. k \in 2 .. s
    BY <1>1, <1>4
  <2>2. PICK c \in Opened : insts[c].opens = k
    BY <2>1 DEF OpenersKnown
  <2>3. /\ c \in Decoded /\ insts[c].opens # 0 /\ NotInShadow(c)
        /\ insts[c].stream \in Nat /\ k = insts[c].stream + 1
    <3>1. c \in Decoded /\ insts[c].opens # 0 /\ NotInShadow(c) /\ k = insts[c].stream + 1
      BY <2>2 DEF Opened, FirstBranchesOpen, OpenersKnown
    <3>2. QED BY <3>1, PathNamed
  <2>4. c \notin Done
    BY <1>1, <1>2, <1>4, <2>2
  <2>5. c \notin ToIssue
    BY <2>3 DEF IInv, Conveyor
  <2>6. c \in Chained
    BY <2>2, <2>3, <2>4, <2>5 DEF PathFollowed
  <2>7. QED BY <1>1, <1>4, <2>3, <2>6
<1>5. QED BY <1>3, <1>4 DEF Lost

(* Memory drops no access of the program whose answer is still to come:    *)
(* there, too, the drop follows the branches the program has executed.     *)
THEOREM ProgramRequestsAreHeld ==
  ASSUME "execute" \notin Faults, OneMemoryUnit
  PROVE  Spec /\ []OrderHasRoom => []ProgramRequestsHeld
<1> DEFINE Inv == FollowsThePath /\ AnswersKept /\ AccessesAwaitAnswers
<1>1. Init => Inv
  <2> SUFFICES ASSUME Init PROVE Inv
    OBVIOUS
  <2>1. dcache.cache = {}
    BY DEF Init
  <2>2. AccessesAwaitAnswers
    BY <2>1 DEF AccessesAwaitAnswers
  <2>3. QED BY <2>2, PathInitially, AnswersInitially
<1>2. Inv /\ OrderHasRoom /\ [Next]_vars => Inv'
  <2> SUFFICES ASSUME Inv, OrderHasRoom, [Next]_vars PROVE Inv'
    OBVIOUS
  <2>1. IInv
    BY DEF FollowsThePath
  <2>2. FollowsThePath'
    BY PathKept
  <2>3. AnswersKept' /\ AccessesAwaitAnswers'
    BY <2>1, AnswersKeptOn, AccessesAwaitKept
  <2>4. QED BY <2>2, <2>3
<1>3. Inv => ProgramRequestsHeld
  <2> SUFFICES ASSUME Inv, OnlyTheProgramBranches, NEW n \in dcache.cache \cup dcache.dtlb,
                      OnPath(n), Freed(n)
               PROVE  FALSE
    BY DEF ProgramRequestsHeld
  <2>1. IInv /\ OnlyBranchesOpen /\ OnThePath
    BY DEF FollowsThePath, BranchesCounted
  <2>2. FirstBranchesOpen
    BY DEF OnlyTheProgramBranches, FirstBranchesOpen, Opened, OnPath
  <2>3. OpenersKnown /\ PathFollowed
    BY <2>1, <2>2 DEF OnThePath
  <2>4. n \in Num /\ n <= Len(insts)
    BY <2>1 DEF IInv, RequestsTracked, TypeOK
  <2>5. n \in Decoded
    BY <2>4 DEF Decoded, Num
  <2>6. n \notin dcache.dtlb
    BY <2>1, <2>5 DEF IInv, RequestsTracked, Freed
  <2>7. Lost(n) /\ n \notin Done
    BY <2>6 DEF AnswersKept, OnlyTheLostAreFreed, AccessesAwaitAnswers, Bypasses
  <2>8. ~NotInShadow(n)
    BY <2>1, <2>2, <2>3, <2>5, <2>7, LostIsShadowed
  <2>9. QED BY <2>8 DEF OnPath
<1> HIDE DEF Inv
<1>4. QED BY <1>1, <1>2, <1>3, PTL DEF Spec
-----------------------------------------------------------------------------
(* Where ORDER is longer than the program it always has room.              *)

(* An ORDER with one instruction a packet has as many entries as packets.  *)
LEMMA OccupiedIsLength ==
  ASSUME NEW b \in IsbOf(Num), Tally(b), OneAPacket(b)
  PROVE  b.occupied = Len(b.queue)
<1> DEFINE len == Len(b.queue)
<1>1. len \in Nat /\ b.occupied \in Nat
  BY IsbFields
<1>2. PICK t \in [1 .. len + 1 -> Nat] :
        /\ t[1] = b.occupied /\ t[len + 1] = 0
        /\ \A i \in 1 .. len : t[i] = Len(b.queue[i]) + t[i + 1]
  BY DEF Tally
<1>3. \A i \in 1 .. len : t[i] = 1 + t[i + 1]
  BY <1>2 DEF OneAPacket
<1> HIDE DEF len
<1> DEFINE Off == {i \in 1 .. len + 1 : t[i] + i # b.occupied + 1}
<1>4. Off = {}
  <2> SUFFICES ASSUME Off # {} PROVE FALSE
    OBVIOUS
  <2>1. Off \subseteq Nat
    BY <1>1
  <2> HIDE DEF Off
  <2>2. PICK x \in Off : \A y \in Off : x <= y
    BY <2>1, NatMin
  <2>3. \A y \in Off : ~(y < x)
    BY <2>1, <2>2
  <2>4. x \in 1 .. len + 1 /\ x \in Nat /\ t[x] + x # b.occupied + 1
    BY <1>1 DEF Off
  <2>5. x # 1
    BY <1>1, <1>2, <2>4
  <2>6. x - 1 \in 1 .. len /\ x - 1 \in 1 .. len + 1 /\ x - 1 < x /\ (x - 1) + 1 = x
    BY <1>1, <2>4, <2>5
  <2>7. t[x - 1] + (x - 1) = b.occupied + 1
    BY <2>3, <2>6 DEF Off
  <2>8. t[x - 1] = 1 + t[x]
    BY <1>3, <2>6
  <2>9. t[x] \in Nat
    BY <1>2, <2>4
  <2>10. QED BY <1>1, <2>4, <2>7, <2>8, <2>9
<1>5. len + 1 \in 1 .. len + 1
  BY <1>1
<1>6. t[len + 1] + (len + 1) = b.occupied + 1
  BY <1>4, <1>5
<1>7. b.occupied = len
  BY <1>1, <1>2, <1>6
<1>8. QED BY <1>7 DEF len

(* Packets in the order of decoding are for different instructions.        *)
LEMMA LongOrdersHaveRoom ==
  ASSUME IInv, OrderSize > MaxInst
  PROVE  OrderHasRoom
<1> SUFFICES ASSUME phase = "execute" PROVE CanReserveEntry(isb["ORDER"], OrderSize)
  BY DEF OrderHasRoom
<1> DEFINE b == isb["ORDER"]
<1> DEFINE q == b.queue
<1>1. b \in IsbOf(Num) /\ MaxInst \in Nat /\ OrderSize \in Nat
  BY BackEndAssumption DEF IInv, TypeOK, BackEndAssumption
<1>2. Tally(b) /\ b.reserved = 0 /\ OneAPacket(b) /\ Ordered(b)
  <2>1. Tally(b) /\ b.reserved = Len(eTo["ORDER"]) /\ eTo["ORDER"] = <<>>
    BY DEF IInv, MemoryBuffers
  <2>2. OneAPacket(b) /\ Ordered(b)
    BY DEF IInv, OrderKept
  <2>3. QED BY <2>1, <2>2
<1>3. b.occupied = Len(q) /\ Len(q) \in Nat
  BY <1>1, <1>2, OccupiedIsLength, IsbFields
<1>4. \A i \in 1 .. Len(q) : q[i][1] \in Num
  <2> HIDE DEF b
  <2> TAKE i \in 1 .. Len(q)
  <2>1. Len(q[i]) = 1 /\ \A j \in 1 .. Len(q[i]) : q[i][j] \in Num
    BY <1>1, <1>2, IsbFields DEF OneAPacket
  <2>2. 1 \in 1 .. Len(q[i])
    BY <2>1
  <2>3. QED BY <2>1, <2>2
<1> DEFINE f == [i \in 1 .. Len(q) |-> q[i][1]]
<1>5. f \in [1 .. Len(q) -> Num]
  BY <1>4
<1>6. \A i, j \in 1 .. Len(q) : f[i] = f[j] => i = j
  <2>1. SUFFICES ASSUME NEW i \in 1 .. Len(q), NEW j \in 1 .. Len(q), f[i] = f[j], i # j
                 PROVE  FALSE
    OBVIOUS
  <2>2. i < j \/ j < i
    BY <1>3, <2>1
  <2>3. q[i][1] < q[j][1] \/ q[j][1] < q[i][1]
    BY <1>2, <2>2 DEF Ordered
  <2>4. q[i][1] = q[j][1] /\ q[i][1] \in Nat
    BY <1>1, <1>4, <2>1 DEF Num
  <2>5. QED BY <2>3, <2>4
<1> HIDE DEF f
<1>7. f \in Injection(1 .. Len(q), Num)
  BY <1>5, <1>6, Fun_IsInj
<1>8. IsFiniteSet(Num) /\ Cardinality(Num) = MaxInst
  BY <1>1, FS_Interval DEF Num
<1>9. Cardinality(1 .. Len(q)) <= MaxInst
  BY <1>7, <1>8, FS_Injection
<1>10. Cardinality(1 .. Len(q)) = Len(q)
  BY <1>3, FS_Interval
<1>11. b.reserved + b.occupied < OrderSize
  BY <1>1, <1>2, <1>3, <1>9, <1>10
<1>12. QED BY <1>11 DEF CanReserveEntry

(* With an ORDER longer than the program the two theorems need no          *)
(* hypothesis about ORDER: Writeback retires the program, and Memory drops *)
(* none of its accesses whose answer is still to come.                     *)
THEOREM LongOrdersSuffice ==
  ASSUME "execute" \notin Faults, OneMemoryUnit, OrderSize > MaxInst
  PROVE  Spec => [](/\ OnlyTheProgramBranches => RetiresThePath
                    /\ ProgramRequestsHeld)
<1>1. Spec => []IInv
  BY Invariance
<1>2. IInv => OrderHasRoom
  BY LongOrdersHaveRoom
<1>3. Spec /\ []OrderHasRoom => [](OnlyTheProgramBranches => RetiresThePath)
  BY TheProgramIsRetired
<1>4. Spec /\ []OrderHasRoom => []ProgramRequestsHeld
  BY ProgramRequestsAreHeld
<1>5. QED BY <1>1, <1>2, <1>3, <1>4, PTL
=============================================================================
