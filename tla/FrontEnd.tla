------------------------------ MODULE FrontEnd ------------------------------
(***************************************************************************)
(* Fetch1, Fetch2 and Decode (cpu/fetch1.cc, fetch2.cc, decode.cc), the    *)
(* latches and input buffers between them, and the two things that disturb *)
(* them: the answers of the ITLB and of the instruction cache, which       *)
(* arrive between two cycles, and the branches of Execute, which reach all *)
(* three stages one cycle after they are taken.                            *)
(*                                                                         *)
(* One cycle of Pipeline::evaluate is five steps in its order: Execute,    *)
(* Decode, Fetch2, Fetch1, and the clock edge of the latches (Writeback    *)
(* and Memory touch nothing of this module).  Execute is seen through what *)
(* it does to the front end: it consumes instructions, takes branches and  *)
(* drains its input after one.                                             *)
(*                                                                         *)
(* An address is the index of a 2-byte parcel; it wraps at the end of the  *)
(* address space as the 64-bit program counter does at 2^64.  A line is an *)
(* aligned word, two parcels; an instruction is one parcel if it is        *)
(* compressed and two otherwise, so a line may hold the end of one         *)
(* instruction and the start of the next.  predictionSeqNum never leaves   *)
(* its first value, so the stream number alone tells a stale line from a   *)
(* current one.                                                            *)
(***************************************************************************)
EXTENDS Buffers, FiniteSets

CONSTANTS
  FetchLimit,           \* fetch requests in flight (params.fetchLimit)
  Fetch2BufferSize,     \* params.fetch2InputBufferSize
  DecodeBufferSize,     \* params.decodeInputBufferSize
  ExecuteBufferSize,    \* params.executeInputBufferSize
  NumWords,             \* words of the address space
  Compressed,           \* the parcels whose low bits say "compressed"
  MaxStream,            \* bound: the last stream a branch may open
  Faults                \* outcomes of a translation: {FALSE} or BOOLEAN

ASSUME FrontEndAssumption ==
  /\ FetchLimit \in Nat \ {0}
  /\ Fetch2BufferSize \in Nat \ {0}
  /\ DecodeBufferSize \in Nat \ {0}
  /\ ExecuteBufferSize \in Nat \ {0}
  /\ NumWords \in Nat \ {0}
  /\ Compressed \subseteq 0 .. (2 * NumWords - 1)
  /\ MaxStream \in Nat \ {0}
  /\ Faults \subseteq BOOLEAN /\ Faults # {}

FirstStream == 1
Stream == FirstStream .. MaxStream
Addr == 0 .. (2 * NumWords - 1)

(* A pc that has stepped n parcels on.                                     *)
After(pc, n) == (pc + n) % (2 * NumWords)

(* Mutant: the pc does not wrap. *)
NextPcUnbounded(pc) == pc + 2

(* PCState::advance() in Fetch1, which knows nothing of lengths: a word.   *)
NextPc(pc) == After(pc, 2)

(* The address of the word a parcel is in: "& ~((Addr)4 - 1)".             *)
Base(pc) == pc - (pc % 2)

(* Heap cells of FetchRequests: fetchLine() is guarded by fetchLimit, so   *)
(* there is always a free one.  A freed cell is used again.                *)
Request == 1 .. FetchLimit

NoRequest == [state |-> "NotIssued", stream |-> FirstStream, pc |-> 0,
              fault |-> FALSE]

VARIABLES
  phase,      \* the stage that evaluates next
  fetch1,     \* Fetch1ThreadInfo: next pc and stream
  fetch2In,   \* Fetch2::inputBuffer
  fetch2,     \* Fetch2 and, as the fields itlb, icache and owesRetry, what
              \* the ITLB and the instruction cache still owe it
  decodeIn,   \* Decode::inputBuffer
  decode,     \* DecodeThreadInfo and the thread's RISC-V decoder
  executeIn,  \* Execute::inputBuffer
  execute,    \* what Execute keeps about streams; expect is the pc the next
              \* instruction of the stream must have, AnyPc after a fault
  f1ToF2, f2ToD, dToE,
  branch      \* eToF1, eToF2 and eToD, which always carry the same value

vars == <<phase, fetch1, fetch2In, fetch2, decodeIn, decode, executeIn,
          execute, f1ToF2, f2ToD, dToE, branch>>
-----------------------------------------------------------------------------
(* Types.                                                                  *)

(* A fetch is no fault until the ITLB answers that it is one.              *)
Fault == Faults \cup {FALSE}

Fetch == [stream : Stream, pc : Addr]
Line == [stream : Stream, pc : Addr, addr : {Base(pc) : pc \in Addr},
         fault : Fault]
Bytes == UNION {[1 .. n -> Addr] : n \in 0 .. 2}
Inst == [stream : Stream, pc : Addr, bytes : Bytes, fault : Fault]
BranchData == [stream : Stream, target : Addr]
AnyPc == 2 * NumWords

(* mid is the first parcel of an instruction whose second one is not there *)
(* yet (Decoder::mid and emi).                                             *)
DecodeState ==
  [havePC : BOOLEAN, pc : Addr, lastStreamSeqNum : Stream, mid : Wire(Addr)]

FetchRequest ==
  [state : {"NotIssued", "InTranslation", "Translated", "RequestIssuing",
            "Complete"},
   stream : Stream, pc : Addr, fault : Fault]

Fetch2State ==
  [req : [Request -> FetchRequest],
   requests : Seq(Request), transfers : Seq(Request),
   icacheState : {"IcacheRunning", "IcacheNeedsRetry"},
   fetchState : {"FetchRunning", "FetchWaiting"},
   thread : Wire(Fetch),
   streamSeqNum : Stream,
   itlb : SUBSET Request, icache : SUBSET Request, owesRetry : BOOLEAN]

TypeOK ==
  /\ phase \in {"execute", "decode", "fetch2", "fetch1", "clock"}
  /\ fetch1 \in Fetch
  /\ fetch2In \in BufferOf(Fetch)
  /\ fetch2 \in Fetch2State
  /\ decodeIn \in BufferOf(Line)
  /\ decode \in DecodeState
  /\ executeIn \in BufferOf(Inst)
  /\ execute \in [streamSeqNum : Stream, draining : BOOLEAN,
                  issued : BOOLEAN, expect : Addr \cup {AnyPc}]
  /\ f1ToF2 \in LatchOf(Fetch)
  /\ f2ToD \in LatchOf(Line)
  /\ dToE \in LatchOf(Inst)
  /\ branch \in LatchOf(BranchData)

(* CClassCPU::startup has called wakeupFetch: Fetch1 holds the entry pc.   *)
Init ==
  /\ phase = "execute"
  /\ \E entry \in Addr :
       /\ fetch1 = [stream |-> FirstStream, pc |-> entry]
       /\ execute = [streamSeqNum |-> FirstStream, draining |-> FALSE,
                     issued |-> FALSE, expect |-> entry]
  /\ fetch2In = EmptyBuffer
  /\ fetch2 = [req |-> [p \in Request |-> NoRequest],
               requests |-> <<>>, transfers |-> <<>>,
               icacheState |-> "IcacheRunning",
               fetchState |-> "FetchWaiting",
               thread |-> Bubble, streamSeqNum |-> FirstStream,
               itlb |-> {}, icache |-> {}, owesRetry |-> FALSE]
  /\ decodeIn = EmptyBuffer
  /\ decode = [havePC |-> FALSE, pc |-> 0, lastStreamSeqNum |-> FirstStream,
               mid |-> Bubble]
  /\ executeIn = EmptyBuffer
  /\ f1ToF2 = EmptyLatch
  /\ f2ToD = EmptyLatch
  /\ dToE = EmptyLatch
  /\ branch = EmptyLatch
-----------------------------------------------------------------------------
(* Execute, seen from the front end.                                       *)

(* FUs see DrainHaltFetch and then DrainAllInsts within one evaluate: the  *)
(* cycle after a branch discards all input.                                *)
ExecuteInput ==
  LET b == SetTail(executeIn, dToE.out)
  IN  IF execute.draining THEN PopAll(b) ELSE b

(* issue(): at most one line a cycle leaves the input; it is dropped if    *)
(* its stream is not the current one.                                      *)
Consume(e, inst) ==
  IF inst.stream # e.streamSeqNum THEN e
  ELSE [e EXCEPT !.issued = @ \/ ~inst.fault,
                 !.expect = IF inst.fault THEN AnyPc
                            ELSE After(inst.pc, Len(inst.bytes))]

(* handleBranch() and updateBranchData(): instructions that were issued in *)
(* an earlier cycle open new streams.  They need not be of the current     *)
(* stream any more, trytoPush does not look; each of the units may have    *)
(* one in the same cycle, and the latch shows the last.                    *)
TakeBranch(e, taken) ==
  [e EXCEPT !.streamSeqNum = taken.stream, !.draining = TRUE,
            !.expect = taken.target]

ExecuteEvaluate(consume) ==
  /\ phase = "execute"
  /\ phase' = "decode"
  /\ LET b == ExecuteInput
         e == [execute EXCEPT !.draining = FALSE]
         e1 == IF consume THEN Consume(e, Front(b)) ELSE e
     IN  /\ consume => ~IsEmpty(b)
         /\ executeIn' = PushTail(IF consume THEN PopInput(b) ELSE b)
         /\ \/ /\ execute' = e1
               /\ UNCHANGED branch
            \/ /\ execute.issued
               /\ \E taken \in BranchData :
                    /\ taken.stream > execute.streamSeqNum
                    /\ execute' = TakeBranch(e1, taken)
                    /\ branch' = Drive(branch, taken)
  /\ UNCHANGED <<fetch1, fetch2In, fetch2, decodeIn, decode, f1ToF2, f2ToD,
                 dToE>>
-----------------------------------------------------------------------------
(* Decode.                                                                 *)

(* Mutant: a branch ends the cycle, and the input stays where it is.       *)
DecodeRedirectKeepingInput == UNCHANGED <<decodeIn, decode, dToE, executeIn>>

(* A branch empties the input buffer and ends the cycle: the line that is  *)
(* in the latch now is never put into the buffer.                          *)
DecodeRedirect ==
  /\ decodeIn' = PopAll(decodeIn)
  /\ UNCHANGED <<decode, dToE, executeIn>>

(* Decoder::moreBytes(): what the bytes of the word at addr yield for the  *)
(* pc.  The parcels of an instruction, or none yet; outOfBytes says that   *)
(* the word is used up.                                                    *)
MoreBytes(pc, mid, addr) ==
  LET low == addr
      high == addr + 1
  IN  IF pc % 2 = 0
      THEN IF low \in Compressed
           THEN [bytes |-> <<low>>, mid |-> mid, outOfBytes |-> FALSE]
           ELSE [bytes |-> <<low, high>>, mid |-> mid, outOfBytes |-> TRUE]
      ELSE IF mid # Bubble
      THEN [bytes |-> <<mid[1], low>>, mid |-> Bubble, outOfBytes |-> FALSE]
      ELSE IF high \in Compressed
      THEN [bytes |-> <<high>>, mid |-> Bubble, outOfBytes |-> TRUE]
      ELSE [bytes |-> <<>>, mid |-> <<high>>, outOfBytes |-> TRUE]

(* Decode and its input, on their way through the loop of evaluate():      *)
(* state d, buffer b, and the instruction made, if any.                    *)
Turn(d, b, inst) == [decode |-> d, input |-> b, inst |-> inst]

(* Mutant: the decoder keeps half an instruction of the old stream.        *)
StartStreamKeepingHalf(d, line) ==
  IF ~d.havePC \/ d.lastStreamSeqNum # line.stream
  THEN [d EXCEPT !.havePC = TRUE, !.pc = line.pc] ELSE d

(* The first line of a stream, or after a fault, sets the pc and resets    *)
(* the decoder.                                                            *)
StartStream(d, line) ==
  IF ~d.havePC \/ d.lastStreamSeqNum # line.stream
  THEN [d EXCEPT !.havePC = TRUE, !.pc = line.pc, !.mid = Bubble] ELSE d

(* A line that is a fault takes the whole buffer with it.                  *)
DecodeFault(d, b) ==
  LET line == Front(b)
  IN  Turn([d EXCEPT !.havePC = FALSE, !.lastStreamSeqNum = line.stream],
           PopAll(b),
           <<[stream |-> line.stream, pc |-> d.pc, bytes |-> <<>>,
              fault |-> TRUE]>>)

(* Mutant: a line is dropped with the first instruction it yields.         *)
DecodeWholeLine(d, b) ==
  LET line == Front(b)
      m == MoreBytes(d.pc, d.mid, line.addr)
  IN  Turn([d EXCEPT !.pc = After(@, Len(m.bytes)), !.mid = m.mid,
                     !.lastStreamSeqNum = line.stream],
           PopInput(b),
           IF m.bytes = <<>> THEN Bubble
           ELSE <<[stream |-> line.stream, pc |-> d.pc, bytes |-> m.bytes,
                   fault |-> FALSE]>>)

DecodeWord(d, b) ==
  LET line == Front(b)
      m == MoreBytes(d.pc, d.mid, line.addr)
  IN  Turn([d EXCEPT !.pc = After(@, Len(m.bytes)), !.mid = m.mid,
                     !.lastStreamSeqNum = line.stream],
           IF m.outOfBytes THEN PopInput(b) ELSE b,
           IF m.bytes = <<>> THEN Bubble
           ELSE <<[stream |-> line.stream, pc |-> d.pc, bytes |-> m.bytes,
                   fault |-> FALSE]>>)

DecodeLine(d, b) ==
  LET e == StartStream(d, Front(b))
  IN  IF Front(b).fault THEN DecodeFault(e, b) ELSE DecodeWord(e, b)

(* The loop goes on to the next line until there is an instruction.  A     *)
(* line that yields none is the first half of one that straddles two       *)
(* lines; the next line of the stream completes it.                        *)
DecodeLines(b) ==
  LET first == DecodeLine(decode, b)
  IN  IF first.inst = Bubble /\ ~IsEmpty(first.input)
      THEN DecodeLine(first.decode, first.input) ELSE first

DecodeEvaluate ==
  /\ phase = "decode"
  /\ phase' = "fetch2"
  /\ IF branch.out # Bubble THEN DecodeRedirect
     ELSE LET b == SetTail(decodeIn, f2ToD.out)
          IN  IF CanReserve(executeIn, ExecuteBufferSize) /\ ~IsEmpty(b)
              THEN LET last == DecodeLines(b)
                   IN  /\ decode' = last.decode
                       /\ decodeIn' = PushTail(last.input)
                       /\ IF last.inst = Bubble
                          THEN UNCHANGED <<dToE, executeIn>>
                          ELSE /\ dToE' = Drive(dToE, last.inst[1])
                               /\ executeIn' = Reserve(executeIn)
              ELSE /\ decodeIn' = PushTail(b)
                   /\ UNCHANGED <<decode, dToE, executeIn>>
  /\ UNCHANGED <<fetch1, fetch2In, fetch2, execute, f1ToF2, f2ToD, branch>>
-----------------------------------------------------------------------------
(* Fetch2.  The operators below take and return the state f of Fetch2;     *)
(* input is its input buffer at that point of the cycle.                   *)

InFlight(f) == Len(f.requests) + Len(f.transfers)

GetInput(input) == IF IsEmpty(input) THEN Bubble ELSE <<Front(input)>>

IsDiscardable(f, input, p) ==
  /\ f.req[p].state \notin {"InTranslation", "RequestIssuing"}
  /\ f.req[p].stream # (IF IsEmpty(input) THEN f.streamSeqNum
                        ELSE Front(input).stream)

MoveFromRequestsToTransfers(f) ==
  [f EXCEPT !.requests = Tail(@), !.transfers = Append(@, Head(f.requests))]

(* Mutant: a refusal does not make Fetch2 wait.                            *)
TryToSendCarelessly(f, p, accept) ==
  IF accept
  THEN MoveFromRequestsToTransfers(
         [f EXCEPT !.req[p].state = "RequestIssuing",
                   !.icache = @ \cup {p}])
  ELSE [f EXCEPT !.owesRetry = TRUE]

(* sendTimingReq() is accepted or refused; whoever refuses owes a retry.   *)
(* An accepted request moves to transfers (every caller moves it).         *)
TryToSend(f, p, accept) ==
  IF accept
  THEN MoveFromRequestsToTransfers(
         [f EXCEPT !.req[p].state = "RequestIssuing",
                   !.icache = @ \cup {p}])
  ELSE [f EXCEPT !.icacheState = "IcacheNeedsRetry", !.owesRetry = TRUE]

(* Mutant: the request at the head is not asked whether it is translated.  *)
TryToSendUntranslated(f, input, p, accept) ==
  IF Head(f.requests) # p THEN f
  ELSE IF IsDiscardable(f, input, p) \/ f.req[p].fault
       THEN MoveFromRequestsToTransfers(
              [f EXCEPT !.req[p].state = "Complete"])
       ELSE TryToSend(f, p, accept)

TryToSendToTransfers(f, input, p, accept) ==
  IF Head(f.requests) # p \/ f.req[p].state = "InTranslation" THEN f
  ELSE IF IsDiscardable(f, input, p) \/ f.req[p].fault
       THEN MoveFromRequestsToTransfers(
              [f EXCEPT !.req[p].state = "Complete"])
       ELSE TryToSend(f, p, accept)

(* FetchRequest::finish() and handleTLBResponse(): the ITLB answers.       *)
Finish(f, input, p, fault, accept) ==
  TryToSendToTransfers(
    [f EXCEPT !.req[p].state = "Translated", !.req[p].fault = fault,
              !.itlb = @ \ {p}],
    input, p, accept)

Allocated(f, p) == f.req[p].state # "NotIssued"

(* fetchLine(): the request goes to the ITLB, which may answer at once.    *)
FetchLine(f, input, immediate, fault, accept) ==
  LET p == CHOOSE q \in Request : ~Allocated(f, q)
      g == [f EXCEPT !.req[p] = [state |-> "InTranslation",
                                 stream |-> f.thread[1].stream,
                                 pc |-> f.thread[1].pc, fault |-> FALSE],
                     !.requests = Append(@, p),
                     !.itlb = @ \cup {p},
                     !.fetchState = "FetchRunning"]
  IN  IF immediate THEN Finish(g, input, p, fault, accept) ELSE g

StepQueues(f, input, accept) ==
  IF f.icacheState = "IcacheRunning" /\ f.requests # <<>>
  THEN TryToSendToTransfers(f, input, Head(f.requests), accept) ELSE f

(* popAndDiscard(transfers). *)
PopTransfers(f) ==
  [f EXCEPT !.req[Head(f.transfers)] = NoRequest, !.transfers = Tail(@)]

ResponseReady(f) ==
  /\ f.transfers # <<>>
  /\ f.req[Head(f.transfers)].state = "Complete"

(* processResponse(): the line carries the pc of the input it was fetched  *)
(* for, and the word its request has read.                                 *)
LineOf(f) ==
  LET r == f.req[Head(f.transfers)]
  IN  [stream |-> r.stream, pc |-> f.thread[1].pc, addr |-> Base(r.pc),
       fault |-> r.fault]

(* Mutant: an old answer retires the new stream's input.                   *)
RespondPoppingAlways(f, input, reserved) ==
  LET p == Head(f.transfers)
  IN  IF ~ResponseReady(f)
      THEN /\ fetch2' = f
           /\ fetch2In' = PushTail(input)
           /\ decodeIn' = reserved
           /\ UNCHANGED f2ToD
      ELSE /\ fetch2' = [PopTransfers(f) EXCEPT !.fetchState = "FetchWaiting"]
           /\ fetch2In' = PushTail(PopInput(input))
           /\ IF IsDiscardable(f, input, p)
              THEN /\ decodeIn' = FreeReservation(reserved)
                   /\ UNCHANGED f2ToD
              ELSE /\ decodeIn' = reserved
                   /\ f2ToD' = Drive(f2ToD, LineOf(f))

(* The front transfer, once complete: an old stream's gives back its slot  *)
(* in Decode, a current one's leaves as a line and retires the input.      *)
Respond(f, input, reserved) ==
  LET p == Head(f.transfers)
  IN  IF ~ResponseReady(f)
      THEN /\ fetch2' = f
           /\ fetch2In' = PushTail(input)
           /\ decodeIn' = reserved
           /\ UNCHANGED f2ToD
      ELSE IF IsDiscardable(f, input, p)
      THEN /\ fetch2' = PopTransfers(f)
           /\ fetch2In' = PushTail(input)
           /\ decodeIn' = FreeReservation(reserved)
           /\ UNCHANGED f2ToD
      ELSE /\ fetch2' = [PopTransfers(f) EXCEPT !.fetchState = "FetchWaiting"]
           /\ fetch2In' = PushTail(PopInput(input))
           /\ decodeIn' = reserved
           /\ f2ToD' = Drive(f2ToD, LineOf(f))

(* Mutant: the fetch under way is not given up.                            *)
Fetch2RedirectKeepingFetch ==
  /\ fetch2' = [fetch2 EXCEPT !.streamSeqNum = branch.out[1].stream]
  /\ fetch2In' = PopAll(fetch2In)
  /\ UNCHANGED <<decodeIn, f2ToD>>

(* A branch ends the cycle before the latch is read, as in Decode.         *)
Fetch2Redirect ==
  /\ fetch2' = [fetch2 EXCEPT !.streamSeqNum = branch.out[1].stream,
                              !.thread = Bubble,
                              !.fetchState = "FetchWaiting"]
  /\ fetch2In' = PopAll(fetch2In)
  /\ UNCHANGED <<decodeIn, f2ToD>>

(* fetch2_thread is looked up before the latch is read.                    *)
Fetch2Step ==
  LET f == IF fetch2.fetchState = "FetchWaiting"
           THEN [fetch2 EXCEPT !.thread = GetInput(fetch2In)] ELSE fetch2
      input == SetTail(fetch2In, f1ToF2.out)
      start == /\ CanReserve(decodeIn, DecodeBufferSize)
               /\ InFlight(f) < FetchLimit
               /\ f.fetchState = "FetchWaiting"
  IN  IF f.thread = Bubble
      THEN /\ fetch2' = f
           /\ fetch2In' = PushTail(input)
           /\ UNCHANGED <<decodeIn, f2ToD>>
      ELSE \E immediate, accept, accept2 \in BOOLEAN, fault \in Faults :
             LET g == IF start
                      THEN FetchLine(f, input, immediate, fault, accept)
                      ELSE f
             IN  Respond(StepQueues(g, input, accept2), input,
                         IF start THEN Reserve(decodeIn) ELSE decodeIn)

Fetch2Evaluate ==
  /\ phase = "fetch2"
  /\ phase' = "fetch1"
  /\ IF branch.out # Bubble THEN Fetch2Redirect ELSE Fetch2Step
  /\ UNCHANGED <<fetch1, decode, executeIn, execute, f1ToF2, dToE, branch>>

(* The callbacks, between two cycles.                                      *)
ItlbFinish(p, fault, accept) ==
  /\ phase = "execute"
  /\ p \in fetch2.itlb
  /\ fetch2' = Finish(fetch2, fetch2In, p, fault, accept)
  /\ UNCHANGED <<phase, fetch1, fetch2In, decodeIn, decode, executeIn,
                 execute, f1ToF2, f2ToD, dToE, branch>>

RecvTimingResp(p) ==
  /\ phase = "execute"
  /\ p \in fetch2.icache
  /\ fetch2' = [fetch2 EXCEPT !.req[p].state = "Complete",
                              !.icache = @ \ {p}]
  /\ UNCHANGED <<phase, fetch1, fetch2In, decodeIn, decode, executeIn,
                 execute, f1ToF2, f2ToD, dToE, branch>>

(* Mutant: after the retry Fetch2 still thinks it waits for one.           *)
RecvReqRetryStillWaiting(accept) ==
  /\ phase = "execute"
  /\ fetch2.owesRetry
  /\ fetch2' = TryToSend([fetch2 EXCEPT !.owesRetry = FALSE],
                         Head(fetch2.requests), accept)
  /\ UNCHANGED <<phase, fetch1, fetch2In, decodeIn, decode, executeIn,
                 execute, f1ToF2, f2ToD, dToE, branch>>

RecvReqRetry(accept) ==
  /\ phase = "execute"
  /\ fetch2.owesRetry
  /\ fetch2' = TryToSend([fetch2 EXCEPT !.icacheState = "IcacheRunning",
                                        !.owesRetry = FALSE],
                         Head(fetch2.requests), accept)
  /\ UNCHANGED <<phase, fetch1, fetch2In, decodeIn, decode, executeIn,
                 execute, f1ToF2, f2ToD, dToE, branch>>
-----------------------------------------------------------------------------
(* Fetch1.                                                                 *)

(* checkRedirect().  The target of a branch is the npc of its PCState,     *)
(* which advancepc() makes the pc.                                         *)
Redirected ==
  IF branch.out = Bubble THEN fetch1
  ELSE [stream |-> branch.out[1].stream, pc |-> branch.out[1].target]

(* processResponse() and advancepc(): the pc leaves for the slot reserved  *)
(* in Fetch2.                                                              *)
Emit(thread) ==
  /\ fetch2In' = Reserve(fetch2In)
  /\ f1ToF2' = Drive(f1ToF2, thread)
  /\ fetch1' = [thread EXCEPT !.pc = NextPc(@)]

Fetch1Evaluate ==
  /\ phase = "fetch1"
  /\ phase' = "clock"
  /\ IF CanReserve(fetch2In, Fetch2BufferSize)
     THEN Emit(Redirected)
     ELSE fetch1' = Redirected /\ UNCHANGED <<fetch2In, f1ToF2>>
  /\ UNCHANGED <<fetch2, decodeIn, decode, executeIn, execute, f2ToD, dToE,
                 branch>>

ClockLatches ==
  /\ phase = "clock"
  /\ phase' = "execute"
  /\ f1ToF2' = Clock(f1ToF2)
  /\ f2ToD' = Clock(f2ToD)
  /\ dToE' = Clock(dToE)
  /\ branch' = Clock(branch)
  /\ UNCHANGED <<fetch1, fetch2In, fetch2, decodeIn, decode, executeIn,
                 execute>>

Evaluate ==
  \/ \E consume \in BOOLEAN : ExecuteEvaluate(consume)
  \/ DecodeEvaluate
  \/ Fetch2Evaluate
  \/ Fetch1Evaluate
  \/ ClockLatches

Callback ==
  \/ \E p \in Request, fault \in Faults, accept \in BOOLEAN :
       ItlbFinish(p, fault, accept)
  \/ \E p \in Request : RecvTimingResp(p)
  \/ \E accept \in BOOLEAN : RecvReqRetry(accept)

Next == Evaluate \/ Callback

Spec == Init /\ [][Next]_vars

(* The tick is rescheduled every cycle; the MMU and the memory system      *)
(* answer what they accepted and accept what they asked to be retried;     *)
(* Execute does not leave its input alone for ever.                        *)
Fairness ==
  /\ WF_vars(Evaluate)
  /\ \A p \in Request :
       /\ SF_vars(\E fault \in Faults, accept \in BOOLEAN :
                    ItlbFinish(p, fault, accept))
       /\ SF_vars(RecvTimingResp(p))
  /\ SF_vars(RecvReqRetry(TRUE))
  /\ SF_vars(ExecuteEvaluate(TRUE))

FairSpec == Spec /\ Fairness
-----------------------------------------------------------------------------
(* Properties.                                                             *)

Ids(q) == {q[i] : i \in 1 .. Len(q)}
NoDuplicates(q) == \A i, j \in 1 .. Len(q) : q[i] = q[j] => i = j
InState(f, S) == {p \in Request : f.req[p].state \in S}

(* Whoever still has to call back on a FetchRequest (the ITLB, the         *)
(* instruction cache) holds one that exists, sits in the queue its state   *)
(* says, and is waiting for exactly that call; and no request waits for a  *)
(* call nobody will make.  This is what isDiscardable and popAndDiscard    *)
(* must preserve: "without orphaning in flight TLB lookups/memory          *)
(* accesses".                                                              *)
RequestsKept(f) ==
  /\ f.itlb = InState(f, {"InTranslation"})
  /\ f.icache = InState(f, {"RequestIssuing"})
  /\ Ids(f.requests) = InState(f, {"InTranslation", "Translated"})
  /\ Ids(f.transfers) = InState(f, {"RequestIssuing", "Complete"})
  /\ NoDuplicates(f.requests)
  /\ NoDuplicates(f.transfers)

NoOrphanedRequest == RequestsKept(fetch2)

(* The two assertions of recvReqRetry hold whenever a retry may come, and  *)
(* the packet it sends again is the refused one: Fetch2 waits for a retry  *)
(* iff the cache owes one, and the front request is then translated.       *)
RetryKept(f) ==
  /\ f.owesRetry <=> f.icacheState = "IcacheNeedsRetry"
  /\ f.owesRetry => /\ f.requests # <<>>
                    /\ f.req[Head(f.requests)].state = "Translated"

RetryFindsRequest == RetryKept(fetch2)

(* What is still to be put into the buffer behind latch l, whose reader    *)
(* evaluates last in the phases given.                                     *)
Coming(l, phases) ==
  Len(l.in) + (IF phase \in phases THEN Len(l.out) ELSE 0)

(* Every entry on its way into an input buffer has a slot reserved there,  *)
(* and no buffer is promised beyond its capacity, so neither warning of    *)
(* Queue ("No space to push data", "No space is reservable") is reached.   *)
SlotsSuffice ==
  /\ Len(fetch2In.queue) + fetch2In.reserved <= Fetch2BufferSize
  /\ Len(decodeIn.queue) + decodeIn.reserved <= DecodeBufferSize
  /\ Len(executeIn.queue) + executeIn.reserved <= ExecuteBufferSize
  /\ Coming(f1ToF2, {"execute", "decode", "fetch2"}) <= fetch2In.reserved
  /\ Coming(f2ToD, {"execute", "decode"}) + InFlight(fetch2)
       <= decodeIn.reserved
  /\ Coming(dToE, {"execute"}) <= executeIn.reserved

(* The line being fetched is the one at the front of the input buffer:     *)
(* fetch2_thread, kept over the cycles of a fetch, never outlives the      *)
(* entry it points to, and exactly one request is out for it.              *)
FetchIsForFront ==
  fetch2.fetchState = "FetchRunning" =>
    /\ ~IsEmpty(fetch2In)
    /\ fetch2.thread = <<Front(fetch2In)>>
    /\ Cardinality({p \in Request :
         /\ fetch2.req[p].state # "NotIssued"
         /\ fetch2.req[p].stream = Front(fetch2In).stream
         /\ fetch2.req[p].pc = Front(fetch2In).pc}) = 1

(* What latch l still has to deliver, whose reader evaluates last in the   *)
(* phases given.                                                           *)
Due(l, phases) == IF phase \in phases THEN l.out ELSE Bubble
FetchDue == Due(f1ToF2, {"execute", "decode", "fetch2"})
LineDue == Due(f2ToD, {"execute", "decode"})
InstDue == Due(dToE, {"execute"})

(* Everything between Decode and Execute, and between Fetch1 and Decode,   *)
(* oldest first; what Fetch1 emits next comes last.                        *)
Insts == Contents(executeIn) \o InstDue \o dToE.in
Words == Contents(decodeIn) \o LineDue \o f2ToD.in
           \o Contents(fetch2In) \o FetchDue \o f1ToF2.in \o <<fetch1>>

(* Where the stream s is in q.  (Execute skips, and Decode and Fetch2      *)
(* discard, the rest.)                                                     *)
Places(q, s) == {i \in 1 .. Len(q) : q[i].stream = s}
IsFirst(P, i) == i \in P /\ \A k \in P : i <= k
IsNext(P, i, j) ==
  i \in P /\ j \in P /\ i < j /\ \A k \in P : k <= i \/ j <= k

(* The parcel Decode needs next.                                           *)
NeededParcel == IF decode.mid = Bubble THEN decode.pc ELSE After(decode.pc, 1)

(* The pc an instruction leads to; after a fault it may be any.            *)
Follower(inst) == IF inst.fault THEN AnyPc ELSE After(inst.pc, Len(inst.bytes))

(* The front end holds the rest of the current stream without a gap, a     *)
(* repetition or a swap, whatever redirects, refused packets and discarded *)
(* requests the queues have seen.  From the pc Execute expects to the one  *)
(* Decode has reached, the instructions follow each other by their         *)
(* lengths; from the word of the parcel Decode needs next to the pc Fetch1 *)
(* will emit next, the lines follow each other word by word.  A fault      *)
(* releases what follows it: Decode dumps its input there, and takes its   *)
(* pc from the next line.                                                  *)
NoGap ==
  LET s == execute.streamSeqNum
      I == Places(Insts, s)
      W == Places(Words, s)
      started == decode.havePC /\ decode.lastStreamSeqNum = s
      LeadsTo(pc) ==
        IF I = {} THEN execute.expect \in {pc, AnyPc}
        ELSE \A i \in I : (\A k \in I : k <= i) =>
               Follower(Insts[i]) \in {pc, AnyPc}
  IN  /\ \A i, j \in W : IsNext(W, i, j) => Words[j].pc = NextPc(Words[i].pc)
      /\ \A i, j \in I : IsNext(I, i, j) =>
           Follower(Insts[i]) \in {Insts[j].pc, AnyPc}
      /\ \A i \in I : IsFirst(I, i) => execute.expect \in {Insts[i].pc, AnyPc}
      /\ IF started
         THEN /\ LeadsTo(decode.pc)
              /\ \A j \in W : IsFirst(W, j) =>
                   Base(Words[j].pc) = Base(NeededParcel)
         ELSE \A j \in W : IsFirst(W, j) => LeadsTo(Words[j].pc)

(* Decoder::compressed() of the first parcel.                              *)
Length(pc) == IF pc \in Compressed THEN 1 ELSE 2

(* An instruction is made of the bytes at its pc, all of them and no       *)
(* others, also when they were read as parts of two words: the pc Decode   *)
(* steps for itself, the words Fetch2 reads and the half the decoder keeps *)
(* never part.                                                             *)
BytesAreAtPc ==
  \A i \in 1 .. Len(executeIn.queue) :
    LET inst == executeIn.queue[i]
    IN  ~inst.fault =>
          inst.bytes = [k \in 1 .. Length(inst.pc) |-> After(inst.pc, k - 1)]

(* Two cycles after a branch nothing of the old stream is left where it    *)
(* could still become an instruction.                                      *)
RedirectFlushes ==
  phase = "execute" /\ branch.out = Bubble /\ ~execute.draining =>
    LET Old(q) == \E i \in 1 .. Len(q) : q[i].stream # execute.streamSeqNum
    IN  /\ ~Old(executeIn.queue) /\ ~Old(dToE.out)
        /\ ~Old(decodeIn.queue) /\ ~Old(f2ToD.out)
        /\ ~Old(fetch2In.queue) /\ ~Old(f1ToF2.out)
        /\ fetch1.stream = execute.streamSeqNum
        /\ fetch2.streamSeqNum = execute.streamSeqNum
-----------------------------------------------------------------------------
(* The front end implements the abstract instruction stream: every         *)
(* instruction issue() accepts is the next one of the current stream.      *)
InstStreamImpl == INSTANCE InstStream
  WITH stream <- execute.streamSeqNum, next <- execute.expect

ImplementsInstStream == InstStreamImpl!Spec

(* Reserved slots nobody is going to fill.                                 *)
LostInFetch2 ==
  fetch2In.reserved - Coming(f1ToF2, {"execute", "decode", "fetch2"})
LostInDecode ==
  decodeIn.reserved - (Coming(f2ToD, {"execute", "decode"})
                         + InFlight(fetch2))

(* Instructions keep coming to Execute, through refusals, retries, faults  *)
(* and redirects; the only way the front end can stop is that redirects    *)
(* have cost one of its buffers every slot it has.                         *)
FetchGoesOn ==
  \/ []<>(dToE.out # Bubble)
  \/ <>[](\/ LostInFetch2 = Fetch2BufferSize
          \/ LostInDecode = DecodeBufferSize)

(* numReservedSlots as its declaration describes it: "Number of slots      *)
(* currently reserved for future (reservation respecting) pushes".         *)
ReservedForFuturePushes ==
  /\ LostInFetch2 = 0
  /\ LostInDecode = 0
=============================================================================
