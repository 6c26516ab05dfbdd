--------------------------- MODULE CClassPipeline ---------------------------
(***************************************************************************)
(* The whole pipeline (cpu/pipeline.cc): the front end of FrontEnd and the *)
(* back end of BackEnd, running one program.  Each of the two modules      *)
(* stands for the other by what it can do to it: FrontEnd lets Execute     *)
(* consume its input and branch as it likes, BackEnd lets Decode deliver   *)
(* the next instruction of the stream whenever there is room.  Here they   *)
(* share the latch dToE, Execute's input buffer and the branch latches,    *)
(* which both keep: the back end as execSeqNums and streams, the front end *)
(* (frontDToE, ...) as addresses.                                          *)
(*                                                                         *)
(* Pipeline::evaluate runs Writeback, Memory, Execute, Decode, Fetch2,     *)
(* Fetch1 and the clock.  The modules step together in Execute, once it is *)
(* known what it has consumed and where it has branched, and in Decode,    *)
(* once it is known what it delivers.  The latches are clocked in the last *)
(* step for the front end; those of the back end are packets, which need   *)
(* no clock, and eToF1 is clocked with Decode.                             *)
(***************************************************************************)
EXTENDS BackEnd

CONSTANTS
  FetchLimit, Fetch2BufferSize, DecodeBufferSize, NumWords, Compressed,
  Program,      \* the instruction at each address
  Targets,      \* where the branch at each address may lead
  Entry         \* the pc the thread starts with

VARIABLES
  frontPhase, frontExecuteIn, frontExecute, frontDToE, frontBranch,
  fetch1, fetch2In, fetch2, decodeIn, decode, f1ToF2, f2ToD,
  fetched,      \* history: insts as the front end knows them
  outcome       \* history: the target of the branch that opened each stream

(* The front end, with what is proved of it.                               *)
FE == INSTANCE FrontEndStream
  WITH phase <- frontPhase, executeIn <- frontExecuteIn,
       execute <- frontExecute, dToE <- frontDToE, branch <- frontBranch,
       MaxStream <- MaxInst + 1, Faults <- {FALSE}

ASSUME PipelineAssumption ==
  /\ FetchLimit \in Nat \ {0}
  /\ Fetch2BufferSize \in Nat \ {0}
  /\ DecodeBufferSize \in Nat \ {0}
  /\ NumWords \in Nat \ {0}
  /\ Compressed \subseteq FE!Addr
  /\ Program \in [FE!Addr -> StaticInsts]
  /\ Targets \in [FE!Addr -> SUBSET FE!Addr]
  /\ Entry \in FE!Addr
  /\ ShadowOps = Op

frontVars == <<frontPhase, frontExecuteIn, frontExecute, frontDToE,
               frontBranch, fetch1, fetch2In, fetch2, decodeIn, decode,
               f1ToF2, f2ToD>>
pipelineVars == <<vars, frontVars, fetched, outcome>>

PipelineInit ==
  /\ Init
  /\ FE!Init
  /\ frontExecute.expect = Entry
  /\ fetched = <<>>
  /\ outcome = <<Entry>>

(* The address the instruction at pc leads to.                             *)
Successors ==
  [pc \in FE!Addr |-> IF Program[pc].op = "Branch" THEN Targets[pc]
                      ELSE {FE!After(pc, FE!Length(pc))}]
-----------------------------------------------------------------------------
(* The bound: when MaxInst instructions have been decoded the front end    *)
(* stops where it would decode the next, and the back end goes on alone.   *)
FrontEndDone == Len(insts) = MaxInst /\ frontPhase = "decode"

BetweenCycles == phase = "writeback" /\ frontPhase = "execute"

(* Writeback, Memory, the units and issue(), and trytoPush().              *)
BackEndSteps ==
  /\ frontPhase = "execute" \/ FrontEndDone
  /\ \/ WritebackEvaluate
     \/ MemoryEvaluate
     \/ ExecuteEvaluate
     \/ PushFree
     \/ NotReady
     \/ PushBranch
     \/ PushResult
     \/ PushMemRef
     \/ FrontEndDone /\ DecodeEvaluate
  /\ UNCHANGED <<frontVars, fetched, outcome>>

(* The instruction whose branch opened stream s.                           *)
Opener(s) == CHOOSE n \in 1 .. Len(insts) : insts[n].opens = s

(* The branches of the cycle lead where the program lets them.             *)
Branches ==
  \E picks \in [1 .. execute.streamSeqNum - Len(outcome) -> FE!Addr] :
    /\ \A i \in DOMAIN picks :
         picks[i] \in Targets[fetched[Opener(Len(outcome) + i)].pc]
    /\ outcome' = outcome \o picks

(* The end of Execute: the front end sees its input shorter by what issue  *)
(* has consumed, and the last branch of the cycle.                         *)
ExecuteEnds ==
  /\ SetStalls
  /\ Branches
  /\ UNCHANGED fetched
  /\ IF FrontEndDone THEN UNCHANGED frontVars
     ELSE /\ FE!ExecuteEvaluate(
               Len(Contents(FE!ExecuteInput)) > Len(Contents(executeIn)))
          /\ IF branch.in = Bubble THEN frontBranch' = frontBranch
             ELSE frontBranch'.in = <<[stream |-> branch.in[1],
                                       target |-> outcome'[branch.in[1]]]>>

(* Decode delivers the instruction of the program it has decoded.          *)
Decodes ==
  /\ ~FrontEndDone
  /\ FE!DecodeEvaluate
  /\ DecodeEvaluate
  /\ IF frontDToE'.in = Bubble
     THEN dToE' = Bubble /\ UNCHANGED fetched
     ELSE LET inst == frontDToE'.in[1]
              new == insts'[Len(insts')]
          IN  /\ dToE' # Bubble
              /\ [op |-> new.op, dsts |-> new.dsts, srcs |-> new.srcs]
                   = Program[inst.pc]
              /\ fetched' = Append(fetched, inst)
  /\ UNCHANGED outcome

(* Fetch2, Fetch1 and the latches.                                         *)
FrontEndSteps ==
  /\ phase = "writeback"
  /\ FE!Fetch2Evaluate \/ FE!Fetch1Evaluate \/ FE!ClockLatches
  /\ UNCHANGED <<vars, fetched, outcome>>

(* The ITLB and the instruction cache, the DTLB and the data cache.        *)
FrontCallback(answer) ==
  BetweenCycles /\ answer /\ UNCHANGED <<vars, fetched, outcome>>

BackCallback(answer) ==
  /\ BetweenCycles \/ FrontEndDone
  /\ answer
  /\ UNCHANGED <<frontVars, fetched, outcome>>

Callbacks ==
  \/ FrontCallback(FE!Callback)
  \/ BackCallback(\/ \E n \in Num : FinishMemTranslation(n) \/ RecvTimingResp(n)
                  \/ \E accept \in BOOLEAN : RecvReqRetry(accept))

(* Nothing is said of the program after undefined behaviour.               *)
Crashed == phase = "crashed" /\ UNCHANGED pipelineVars

Evaluate == BackEndSteps \/ ExecuteEnds \/ Decodes \/ FrontEndSteps

PipelineNext == Evaluate \/ Callbacks \/ Crashed

PipelineSpec == PipelineInit /\ [][PipelineNext]_pipelineVars

(* The tick is rescheduled every cycle, and whoever has accepted a request *)
(* answers it, or accepts it when it has asked for it again.               *)
PipelineFairness ==
  /\ WF_pipelineVars(Evaluate)
  /\ \A p \in FE!Request :
       /\ SF_pipelineVars(FrontCallback(\E accept \in BOOLEAN :
                                          FE!ItlbFinish(p, FALSE, accept)))
       /\ SF_pipelineVars(FrontCallback(FE!RecvTimingResp(p)))
  /\ SF_pipelineVars(FrontCallback(FE!RecvReqRetry(TRUE)))
  /\ SF_pipelineVars(BackCallback(\E n \in Num : FinishMemTranslation(n)))
  /\ SF_pipelineVars(BackCallback(\E n \in Num : RecvTimingResp(n)))
  /\ SF_pipelineVars(BackCallback(RecvReqRetry(TRUE)))

PipelineFairSpec == PipelineSpec /\ PipelineFairness
-----------------------------------------------------------------------------
(* Properties.                                                             *)

(* The instructions behind execSeqNums, as the front end knows them.       *)
AsFetched(nums) == [i \in 1 .. Len(nums) |-> fetched[nums[i]]]

(* Between two cycles the two ends agree on all they share: what Execute   *)
(* has still to issue and how many slots of its buffer are promised, the   *)
(* stream it is in and whether it drains, and what Decode was told of the  *)
(* last branch.  In particular the front end delivers the stream the back  *)
(* end is told, and in the cycle it learns of a branch nothing at all.     *)
ViewsAgree ==
  /\ BetweenCycles =>
       /\ frontExecuteIn.queue = AsFetched(executeIn.queue)
       /\ frontExecuteIn.reserved = executeIn.reserved
       /\ frontDToE.out = AsFetched(dToE)
       /\ frontExecute.streamSeqNum = execute.streamSeqNum
       /\ frontExecute.draining = execute.draining
       /\ branch.out = [i \in 1 .. Len(frontBranch.out) |->
                          frontBranch.out[i].stream]
  /\ \A n \in 1 .. Len(insts) : fetched[n].stream = insts[n].stream

(* The pc after instruction n, as it was executed.                         *)
NextPcOf(n) ==
  IF insts[n].op = "Branch" THEN outcome[insts[n].opens]
  ELSE FE!After(fetched[n].pc, FE!Length(fetched[n].pc))

(* The pipeline executes the program: what it retires, fetched ahead along *)
(* wrong paths and handed from stage to stage by number, is one            *)
(* instruction after the other, each where the one before it has led.      *)
IsaImpl == INSTANCE InOrderIsa
  WITH Pc <- FE!Addr,
       count <- Len(retired),
       last <- IF retired = <<>> THEN Entry
               ELSE fetched[retired[Len(retired)]].pc,
       pc <- IF retired = <<>> THEN Entry
             ELSE NextPcOf(retired[Len(retired)])

ImplementsIsa == IsaImpl!Spec

(* The program runs on until the bound: what is on its path is fetched,    *)
(* decoded and retired, through redirects, refused packets and accesses    *)
(* answered late.  The ways for it to stop are three: the answer to an     *)
(* access Memory has dropped, a wrong-path branch, and redirects that have *)
(* cost Fetch2 or Decode every slot of its input buffer.                   *)
ProgramGoesOn ==
  <>(\/ phase = "crashed"
     \/ ~OnlyTheProgramBranches
     \/ FE!LostInFetch2 = Fetch2BufferSize
     \/ FE!LostInDecode = DecodeBufferSize
     \/ /\ Len(insts) = MaxInst
        /\ \A n \in Decoded : OnPath(n) => n \in Ids(retired))
=============================================================================
