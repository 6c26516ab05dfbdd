------------------------------ MODULE BackEnd ------------------------------
(***************************************************************************)
(* Execute, Memory and Writeback (cpu/execute.cc, memory.cc, writeback.cc) *)
(* with the scoreboard (scoreboard.cc), the DTLB and the data cache.       *)
(*                                                                         *)
(* Execute issues in order to functional units of different latencies; a   *)
(* unit's result goes to one of five buffers of Memory, by kind, so that   *)
(* results overtake each other.  The order of issue is kept in a sixth     *)
(* buffer, ORDER: Memory moves to Writeback only the instruction ORDER     *)
(* names, and drops there what a branch has made wrong-path.               *)
(*                                                                         *)
(* The widths are the defaults: one instruction a cycle is decoded, moved  *)
(* by Memory and retired.  A cycle is the steps writeback, memory, execute *)
(* (the units and issue), push (trytoPush, one in-flight instruction a     *)
(* step) and decode (the front end, which delivers the next instruction of *)
(* its stream or nothing, and the clock edge).  A latch whose reader       *)
(* evaluates before its writer is the packet it carries.                   *)
(*                                                                         *)
(* An instruction is its execSeqNum, the index of its record in insts; the *)
(* value it computes is its execSeqNum too.                                *)
(***************************************************************************)
EXTENDS Buffers, FunctionalUnits, FiniteSets

Seqs == INSTANCE SequencesExt

CONSTANTS
  Reg,                  \* integer registers
  StaticInsts,          \* instructions a program may have
  FuncUnits,            \* the pool: kinds of instruction, opLat, issueLat
  ExecuteBufferSize,    \* params.executeInputBufferSize
  MemoryBufferSize,     \* params.memoryInputBufferSize
  WritebackBufferSize,  \* capacity of COMMON and TRAP in Writeback
  OrderSize,            \* capacity of ORDER in Memory (numFUIDs)
  ShadowOps,            \* kinds that may follow a branch in its stream
  MaxInst,              \* bound: instructions decoded
  Faults                \* the faults there may be

Op == {"Alu", "Branch", "Mul", "Div", "Float", "Load", "Store", "NoCost",
       "FetchFault"}
FaultKind == {"execute", "translation", "response"}
MaxForward == 4         \* MAX_FORWARD_INSTS

ASSUME BackEndAssumption ==
  /\ StaticInsts \subseteq [op : Op, dsts : SUBSET Reg, srcs : SUBSET Reg]
  /\ FuncUnits \in Seq([ops : SUBSET Op, opLat : Nat \ {0}, issueLat : Nat])
  /\ Len(FuncUnits) > 1
  /\ ExecuteBufferSize \in Nat \ {0}
  /\ MemoryBufferSize \in Nat \ {0}
  /\ WritebackBufferSize \in Nat \ {0}
  /\ OrderSize \in Nat \ {0}
  /\ ShadowOps \subseteq Op
  /\ MaxInst \in Nat
  /\ Faults \subseteq FaultKind

Unit == 1 .. Len(FuncUnits)
Num == 1 .. MaxInst
FirstStream == 1
Stream == FirstStream .. (MaxInst + 1)
Box == {"BASE", "TRAP", "MBOX", "FBOX", "MEMORY"}
NoBox == "none"

VARIABLES
  phase,        \* the step of the cycle that comes next
  insts,        \* the decoded instructions, oldest first
  supply,       \* the stream Decode delivers
  branch,       \* eToF1, eToF2, eToD: the stream a branch opens
  dToE,
  executeIn,    \* Execute::inputBuffer
  execute,      \* ExecuteThreadInfo; at is trytoPush's iterator
  units,        \* Execute::funcUnits
  renameId,     \* Scoreboard::rename_id
  eTo,          \* the latches from Execute to Memory
  isb,          \* Memory's input buffers
  memStream,    \* Memory's lastStreamSeqNum
  mTo,          \* the latches from Memory to Writeback
  wb,           \* Writeback's input buffers
  dcache,       \* what the DTLB and the data cache owe Execute; retryRequest
  regs,         \* the register file: the last writer of each register
  retired       \* history: what Writeback has retired

vars == <<phase, insts, supply, branch, dToE, executeIn, execute, units,
          renameId, eTo, isb, memStream, mTo, wb, dcache, regs, retired>>
-----------------------------------------------------------------------------
(* ExecRequest::State; "Error" is a response that is an error: Failed with *)
(* no fault in the request.                                                *)
RequestState ==
  {"NotIssued", "InTranslation", "SentToCache", "WaitingRetry", "Complete",
   "Failed", "Error"}

(* CClassDynInst.  opens is the stream a branch has opened.                *)
DynInst ==
  [op : Op, dsts : SUBSET Reg, srcs : SUBSET Reg, stream : Stream,
   fault : BOOLEAN, fu : {0} \cup Unit, forward : {0} \cup Num,
   req : RequestState, opens : {0} \cup Stream]

IsbOf(S) == [queue : Seq(Seq(S)), reserved : Nat, occupied : Nat, index : Nat]

TypeOK ==
  /\ phase \in {"writeback", "memory", "execute", "push", "decode", "crashed"}
  /\ insts \in Seq(DynInst) /\ Len(insts) <= MaxInst
  /\ supply \in Stream
  /\ branch \in LatchOf(Stream)
  /\ dToE \in Wire(Num)
  /\ executeIn \in BufferOf(Num)
  /\ execute \in [streamSeqNum : Stream, draining : BOOLEAN,
                  blocked : SUBSET Box, inFlight : Seq(Num), at : Nat \ {0}]
  /\ units \in [Unit -> [pipe : Seq({NoInst} \cup Num), stalled : BOOLEAN,
                         wait : Nat]]
  /\ renameId \in [Reg -> {0} \cup Num]
  /\ eTo \in [Box \cup {"ORDER"} -> Seq(Num)]
  /\ isb \in [Box \cup {"ORDER"} -> IsbOf(Num)]
  /\ memStream \in Stream
  /\ mTo \in [{"COMMON", "TRAP", "ORDER"} -> Seq(Num)]
  /\ wb \in [{"COMMON", "TRAP", "ORDER"} -> IsbOf(Num)]
  /\ dcache \in [dtlb : SUBSET Num, cache : SUBSET Num,
                 retryRequest : {0} \cup Num, owesRetry : BOOLEAN]
  /\ regs \in [Reg -> {0} \cup Num]
  /\ retired \in Seq(Num)

NoPackets(boxes) == [b \in boxes |-> <<>>]

NewUnits == [u \in Unit |-> IdleUnit(FuncUnits[u].opLat)]
NoWriter == [r \in Reg |-> 0]

Init ==
  /\ phase = "writeback"
  /\ insts = <<>>
  /\ supply = FirstStream
  /\ branch = EmptyLatch
  /\ dToE = Bubble
  /\ executeIn = EmptyBuffer
  /\ execute = [streamSeqNum |-> FirstStream, draining |-> FALSE,
                blocked |-> {}, inFlight |-> <<>>, at |-> 1]
  /\ units = NewUnits
  /\ renameId = NoWriter
  /\ eTo = NoPackets(Box \cup {"ORDER"})
  /\ isb = [b \in Box \cup {"ORDER"} |-> EmptyIsb]
  /\ memStream = FirstStream
  /\ mTo = NoPackets({"COMMON", "TRAP", "ORDER"})
  /\ wb = [b \in {"COMMON", "TRAP", "ORDER"} |-> EmptyIsb]
  /\ dcache = [dtlb |-> {}, cache |-> {}, retryRequest |-> 0,
               owesRetry |-> FALSE]
  /\ regs = [r \in Reg |-> 0]
  /\ retired = <<>>
-----------------------------------------------------------------------------
(* The scoreboard.                                                         *)

(* markupInstDests(): the writer each destination had before becomes the   *)
(* instruction's forwardSeqNum.                                            *)
MarkupInstDests(n, u) ==
  LET d == insts[n]
      older == {renameId[r] : r \in d.dsts} \ {0}
  IN  IF d.fault
      THEN /\ insts' = [insts EXCEPT ![n].fu = u]
           /\ UNCHANGED renameId
      ELSE /\ insts' = [insts EXCEPT ![n].fu = u,
                          ![n].forward = IF older = {} THEN @
                                         ELSE CHOOSE m \in older : TRUE]
           /\ renameId' = [r \in Reg |-> IF r \in d.dsts THEN n
                                         ELSE renameId[r]]

(* Mutant: the mark of another writer is cleared, too. *)
ClearDestsOfAnyone(n) ==
  [r \in Reg |-> IF r \in insts[n].dsts THEN 0 ELSE renameId[r]]

(* Mutant: "<" for "=" in the comparison with rename_id. *)
ClearOlderDests(n) ==
  [r \in Reg |-> IF r \in insts[n].dsts /\ renameId[r] < n THEN 0
                 ELSE renameId[r]]

ClearScoreBoard == NoWriter

(* clearInstDests(): a fault clears the whole scoreboard.                  *)
ClearInstDests(n) ==
  IF insts[n].fault THEN ClearScoreBoard
  ELSE [r \in Reg |-> IF r \in insts[n].dsts /\ renameId[r] = n THEN 0
                      ELSE renameId[r]]

InBase(n) == ContainsExecSeqNum(isb["BASE"], n)
InCommon(n) == ContainsExecSeqNum(wb["COMMON"], n)

(* Mutant: a result in any of Memory's buffers counts as available.        *)
CanIssueOnAnyBox(n) ==
  \/ insts[n].fault
  \/ \A r \in insts[n].srcs :
       renameId[r] # 0 =>
         \/ \E box \in Box : ContainsExecSeqNum(isb[box], renameId[r])
         \/ InCommon(renameId[r])

CanInstIssue(n) ==
  \/ insts[n].fault
  \/ \A r \in insts[n].srcs :
       renameId[r] # 0 => InBase(renameId[r]) \/ InCommon(renameId[r])

(* What an instruction leaves behind for register r: nothing if it was     *)
(* not executed or its access failed.                                      *)
Writes(n, r) ==
  /\ r \in insts[n].dsts
  /\ insts[n].op # "NoCost" /\ ~insts[n].fault /\ insts[n].req # "Error"

(* The writer whose result an instruction takes if it is still in a        *)
(* buffer: the one it has displaced, or the one marked now.                *)
Rname(n, r) == IF insts[n].forward # 0 THEN insts[n].forward ELSE renameId[r]

LookForForwards(n, r) ==
  LET rname == Rname(n, r)
  IN  rname # 0 /\ (InBase(rname) \/ InCommon(rname))

(* A result that does not write r forwards a zero.                         *)
ForwardRegResult(rname, r) == IF Writes(rname, r) THEN rname ELSE 0

(* getRegOperand(): the value instruction n reads from register r if it    *)
(* executes now.                                                           *)
Operand(n, r) ==
  IF LookForForwards(n, r) THEN ForwardRegResult(Rname(n, r), r) ELSE regs[r]
-----------------------------------------------------------------------------
(* Writeback.                                                              *)

WritebackEvaluate ==
  /\ phase = "writeback"
  /\ phase' = "memory"
  /\ mTo' = NoPackets({"COMMON", "TRAP", "ORDER"})
  /\ LET in == [b \in DOMAIN wb |->
                  IF b = "ORDER" THEN PushUnreserved(wb[b], mTo[b])
                  ELSE PushPacket(wb[b], mTo[b])]
         num == FrontEntry(in["ORDER"])
         from == {b \in {"COMMON", "TRAP"} : FrontEntry(in[b]) = num}
     IN  IF num = NoInst \/ from = {}
         THEN /\ wb' = in
              /\ UNCHANGED <<renameId, regs, retired>>
         ELSE LET box == IF "COMMON" \in from THEN "COMMON" ELSE "TRAP"
                  commits == box = "COMMON" /\ ~insts[num].fault
              IN  /\ wb' = [b \in DOMAIN in |->
                              ResetConsumed(IF b \in {box, "ORDER"}
                                            THEN ConsumeEntry(in[b])
                                            ELSE in[b])]
                  /\ retired' = Append(retired, num)
                  /\ IF commits
                     THEN /\ regs' = [r \in Reg |-> IF Writes(num, r) THEN num
                                                    ELSE regs[r]]
                          /\ renameId' = ClearInstDests(num)
                     ELSE UNCHANGED <<regs, renameId>>
  /\ UNCHANGED <<insts, supply, branch, dToE, executeIn, execute, units, eTo,
                 isb, memStream, dcache>>
-----------------------------------------------------------------------------
(* Memory.                                                                 *)

(* Mutant: Memory does not wait for the response.                          *)
DestinationAtOnce(box, n) ==
  IF box = "TRAP" \/ (box = "MEMORY" /\ insts[n].fault) THEN "TRAP" ELSE "COMMON"

(* The buffer of Writeback instruction n leaves box for; NoBox while its   *)
(* request is not complete.                                                *)
Destination(box, n) ==
  CASE box = "TRAP" -> "TRAP"
    [] box = "MEMORY" /\ (insts[n].fault \/ insts[n].req = "Error") -> "TRAP"
    [] box = "MEMORY" /\ insts[n].req # "Complete" -> NoBox
    [] OTHER -> "COMMON"

(* The box looked at first among those whose front is n.                   *)
FirstBox(boxes) ==
  CHOOSE b \in boxes :
    LET rank == <<"BASE", "TRAP", "MBOX", "FBOX", "MEMORY">>
    IN  \E i \in 1 .. 5 : b = rank[i] /\ \A j \in 1 .. i - 1 : rank[j] \notin boxes

(* Mutant: Memory follows the stream of Execute.                           *)
StaleForExecute(n) == insts[n].stream # execute.streamSeqNum

Stale(n) == insts[n].stream # memStream

(* An instruction of another stream than Memory's is skipped in ORDER, and *)
(* the packet it sits in is dropped, whatever else is in it.               *)
DiscardStale(in, num, holders) ==
  /\ isb' = [b \in DOMAIN in |->
               CASE b \in holders -> PopPacket(in[b])
                 [] b = "ORDER" ->
                      [in[b] EXCEPT !.index = @ + Cardinality(holders)]
                 [] OTHER -> in[b]]
  /\ renameId' = ClearInstDests(num)
  /\ UNCHANGED <<memStream, mTo, wb>>

(* Mutant: Memory is not told of the branch.                               *)
FollowNothing(box, num) == memStream

(* The stream after instruction num has left box: a branch opens the next. *)
FollowBranch(box, num) ==
  IF box = "BASE" /\ insts[num].op = "Branch" THEN insts[num].stream + 1
  ELSE memStream

(* pushCommon() and pushTrap().                                            *)
PushOut(to, num) == mTo' = [mTo EXCEPT ![to] = <<num>>, !["ORDER"] = <<num>>]

Move(in, num, box) ==
  LET to == Destination(box, num)
  IN  IF to = NoBox
      THEN /\ isb' = in
           /\ UNCHANGED <<renameId, memStream, mTo, wb>>
      ELSE /\ isb' = [b \in DOMAIN in |-> IF b \in {box, "ORDER"}
                                          THEN ConsumeEntry(in[b]) ELSE in[b]]
           /\ PushOut(to, num)
           /\ wb' = [wb EXCEPT ![to] = ReserveEntry(@)]
           /\ memStream' = FollowBranch(box, num)
           /\ UNCHANGED renameId

MemoryEvaluate ==
  /\ phase = "memory"
  /\ phase' = "execute"
  /\ eTo' = NoPackets(Box \cup {"ORDER"})
  /\ LET in == [b \in DOMAIN isb |-> ResetConsumed(PushPacket(isb[b], eTo[b]))]
         num == FrontEntry(in["ORDER"])
         holders == {b \in Box : FrontEntry(in[b]) = num}
     IN  IF num = NoInst \/ holders = {}
         THEN /\ isb' = in
              /\ UNCHANGED <<renameId, memStream, mTo, wb>>
         ELSE IF Stale(num)
         THEN DiscardStale(in, num, holders)
         ELSE Move(in, num, FirstBox(holders))
  /\ UNCHANGED <<insts, supply, branch, dToE, executeIn, execute, units,
                 dcache, regs, retired>>
-----------------------------------------------------------------------------
(* Execute: the units and issue().                                         *)

ExecuteInput ==
  LET b == SetTail(executeIn, dToE)
  IN  IF execute.draining THEN PopAll(b) ELSE b

(* In the cycle after a branch the loop over the units spends its first    *)
(* turn on DrainHaltFetch: that unit is not advanced.                      *)
AdvancedUnits ==
  [u \in Unit |-> IF execute.draining /\ u = 1 THEN SkipCycle(units[u])
                  ELSE Advance(units[u], FuncUnits[u].issueLat)]

Provides(u, op) == op \in FuncUnits[u].ops

Capable(u, n) == insts[n].fault \/ Provides(u, insts[n].op)

FreeUnits(us, n) ==
  {u \in Unit : Capable(u, n) /\ ~AlreadyPushed(us[u]) /\ ~us[u].stalled
                  /\ CanInsert(us[u])}

(* Mutant: ORDER is given the size of the other buffers.                   *)
FillShortSequence(n) ==
  IF CanReserveEntry(isb["ORDER"], MemoryBufferSize)
  THEN /\ eTo' = [eTo EXCEPT !["ORDER"] = <<n>>]
       /\ isb' = [isb EXCEPT !["ORDER"] = ReserveEntry(@)]
  ELSE UNCHANGED <<eTo, isb>>

(* FillSequence() does nothing when ORDER has no room.                     *)
FillSequence(n) ==
  IF CanReserveEntry(isb["ORDER"], OrderSize)
  THEN /\ eTo' = [eTo EXCEPT !["ORDER"] = <<n>>]
       /\ isb' = [isb EXCEPT !["ORDER"] = ReserveEntry(@)]
  ELSE UNCHANGED <<eTo, isb>>

(* A free instruction is issued without a unit, and without a look at the  *)
(* scoreboard.                                                             *)
IssueFree(us, n) ==
  /\ insts[n].op = "NoCost" /\ ~insts[n].fault
  /\ units' = us
  /\ MarkupInstDests(n, 0)

(* The others go to the first unit that takes them.                        *)
IssueToUnit(us, n) ==
  LET takers == FreeUnits(us, n)
      u == CHOOSE v \in takers : \A w \in takers : v <= w
  IN  /\ insts[n].op # "NoCost" \/ insts[n].fault
      /\ takers # {} /\ CanInstIssue(n)
      /\ units' = [us EXCEPT ![u] = PushUnit(@, n)]
      /\ MarkupInstDests(n, u)

(* The end of the line: with one instruction a packet it is consumed, and  *)
(* the instruction takes its place in ORDER.                               *)
EndOfLine(b, n) ==
  /\ executeIn' = PopInput(b)
  /\ execute' = [execute EXCEPT !.draining = FALSE,
                                !.inFlight = Append(@, n)]
  /\ FillSequence(n)

DidntIssue(b, us, n) ==
  /\ insts[n].op # "NoCost" \/ insts[n].fault
  /\ FreeUnits(us, n) = {} \/ ~CanInstIssue(n)
  /\ executeIn' = b
  /\ units' = us
  /\ execute' = [execute EXCEPT !.draining = FALSE]
  /\ UNCHANGED <<insts, renameId, eTo, isb>>

IssueInst(b, us, n) ==
  \/ EndOfLine(b, n) /\ (IssueFree(us, n) \/ IssueToUnit(us, n))
  \/ DidntIssue(b, us, n)

ExecuteEvaluate ==
  /\ phase = "execute"
  /\ phase' = "push"
  /\ LET b == ExecuteInput
     IN  IF ~IsEmpty(b) /\ insts[Front(b)].stream = execute.streamSeqNum
         THEN IssueInst(b, AdvancedUnits, Front(b))
         ELSE /\ executeIn' = PopInput(b)
              /\ units' = AdvancedUnits
              /\ execute' = [execute EXCEPT !.draining = FALSE]
              /\ UNCHANGED <<insts, renameId, eTo, isb>>
  /\ UNCHANGED <<supply, branch, dToE, memStream, mTo, wb, dcache, regs,
                 retired>>
-----------------------------------------------------------------------------
(* Execute: trytoPush(), one instruction of inFlightInsts a step.          *)

Pushing == phase = "push" /\ execute.at <= Len(execute.inFlight)
Current == execute.inFlight[execute.at]
Blocked(box) == box \in execute.blocked

(* Faults and free instructions wait for no unit.                          *)
IsFree(d) == d.fault \/ d.op = "NoCost"

(* The head of its unit; a unit has stalled as soon as it has one.         *)
AtHead(n) == UnitFront(units[insts[n].fu]) = n

(* The box pushInstToLatch() chooses.                                      *)
TargetBox(d) ==
  CASE d.fault /\ ~Blocked("TRAP") -> "TRAP"
    [] d.op \in {"Mul", "Div"} /\ ~Blocked("MBOX") -> "MBOX"
    [] d.op = "Float" /\ ~Blocked("FBOX") -> "FBOX"
    [] ~Blocked("BASE") -> "BASE"
    [] OTHER -> NoBox

FindIsbIfFree(d) == TargetBox(d) # NoBox

HasSlot(box) == box # NoBox /\ Len(eTo[box]) < MaxForward

Put(box) ==
  /\ eTo' = [eTo EXCEPT ![box] = Append(@, Current)]
  /\ isb' = [isb EXCEPT ![box] = ReserveEntry(@)]

Erased(e) == [e EXCEPT !.inFlight = Seqs!RemoveAt(@, e.at)]

KeepInFlight ==
  /\ execute' = [execute EXCEPT !.at = @ + 1]
  /\ UNCHANGED <<units, eTo, isb>>

(* Mutant: the unit is not started again.                                  *)
StillStalled == units

(* The unit goes on with the next cycle.                                   *)
Released == [units EXCEPT ![insts[Current].fu].stalled = FALSE]

Leave(box) ==
  /\ Put(box)
  /\ execute' = Erased(execute)
  /\ units' = Released

Elsewhere == <<supply, dToE, executeIn, renameId, memStream, mTo, wb, regs,
               retired>>

(* pushInstToLatch() asks the static instruction of a fetch fault for its  *)
(* kind when TRAP is blocked; it has none, and the program ends.           *)
DereferenceNull(d) == d.op = "FetchFault" /\ Blocked("TRAP")

(* The unit such an instruction was pushed into, if any, is not released.  *)
PushFree ==
  /\ Pushing
  /\ LET d == insts[Current]
         box == TargetBox(d)
     IN  /\ IsFree(d)
         /\ phase' = IF DereferenceNull(d) THEN "crashed" ELSE phase
         /\ IF ~DereferenceNull(d) /\ HasSlot(box)
            THEN /\ Put(box)
                 /\ execute' = Erased(execute)
                 /\ UNCHANGED units
            ELSE KeepInFlight
  /\ UNCHANGED <<insts, branch, dcache, Elsewhere>>

NotReady ==
  /\ Pushing
  /\ ~IsFree(insts[Current]) /\ ~AtHead(Current)
  /\ KeepInFlight
  /\ UNCHANGED <<phase, insts, branch, dcache, Elsewhere>>

Ready(ops) ==
  /\ Pushing
  /\ insts[Current].op \in ops /\ ~IsFree(insts[Current]) /\ AtHead(Current)

MayFault(kind) == IF kind \in Faults THEN BOOLEAN ELSE {FALSE}

(* handleBranch(): a faulting branch has been put into BASE and stays in   *)
(* flight.  Any other is taken, whichever stream it is of.                 *)
PushBranch ==
  /\ Ready({"Branch"})
  /\ IF ~FindIsbIfFree(insts[Current]) \/ ~HasSlot("BASE")
     THEN KeepInFlight /\ UNCHANGED <<insts, branch>>
     ELSE \/ /\ "execute" \in Faults
             /\ insts' = [insts EXCEPT ![Current].fault = TRUE]
             /\ Put("BASE")
             /\ execute' = [execute EXCEPT !.at = @ + 1]
             /\ UNCHANGED <<units, branch>>
          \/ LET new == execute.streamSeqNum + 1
             IN  /\ insts' = [insts EXCEPT ![Current].opens = new]
                 /\ branch' = Drive(branch, new)
                 /\ Put("BASE")
                 /\ units' = Released
                 /\ execute' = [Erased(execute) EXCEPT !.streamSeqNum = new,
                                                       !.draining = TRUE]
  /\ UNCHANGED <<phase, dcache, Elsewhere>>

PushResult ==
  /\ Ready({"Alu", "Mul", "Div", "Float"})
  /\ IF ~FindIsbIfFree(insts[Current])
     THEN KeepInFlight /\ UNCHANGED insts
     ELSE \E fault \in MayFault("execute") :
            LET box == TargetBox([insts[Current] EXCEPT !.fault = fault])
            IN  /\ insts' = [insts EXCEPT ![Current].fault = fault]
                /\ IF HasSlot(box) THEN Leave(box) ELSE KeepInFlight
  /\ UNCHANGED <<phase, branch, dcache, Elsewhere>>

(* Where a request is, for the DTLB, the cache and retryRequest, once it   *)
(* is in the given state.                                                  *)
Track(n, state) ==
  [dtlb |-> IF state = "InTranslation" THEN dcache.dtlb \cup {n}
            ELSE dcache.dtlb \ {n},
   cache |-> IF state = "SentToCache" THEN dcache.cache \cup {n}
             ELSE dcache.cache \ {n},
   retryRequest |-> IF state = "WaitingRetry" THEN n ELSE dcache.retryRequest,
   owesRetry |-> state = "WaitingRetry" \/ dcache.owesRetry]

(* The cache accepts a request or refuses it.                              *)
SendTimingMemReq == {"SentToCache", "WaitingRetry"}

(* A translated request is sent at once; a fault is its end.               *)
Translated ==
  SendTimingMemReq \cup (IF "translation" \in Faults THEN {"Failed"} ELSE {})

(* The DTLB answers while it is asked, or later.                           *)
InitiateMemAccess == {"InTranslation"} \cup Translated

(* pushMemReqToLatch().                                                    *)
MayPushMemReq == ~Blocked("MEMORY") /\ HasSlot("MEMORY")

(* Mutant: a request is forgotten once the cache has it.                   *)
InitiatesAgain(d) ==
  d.req \in {"NotIssued", "SentToCache"} /\ ~Blocked("MEMORY")

(* An access is initiated once, and not while MEMORY is blocked.           *)
Initiates(d) == d.req = "NotIssued" /\ ~Blocked("MEMORY")

(* An access leaves Execute once the cache has it, or as a fault.  The     *)
(* request of an error response that finds no room is dropped: the access  *)
(* starts again.                                                           *)
PushMemRef ==
  /\ Ready({"Load", "Store"})
  /\ LET d == insts[Current]
     IN  \E state \in IF Initiates(d) THEN InitiateMemAccess ELSE {d.req} :
           LET fault == state = "Failed"
               sent == state \in {"SentToCache", "Complete"}
               box == CASE sent /\ MayPushMemReq -> "MEMORY"
                        [] state \in {"Failed", "Error"} ->
                             TargetBox([d EXCEPT !.fault = fault])
                        [] OTHER -> NoBox
               dropped == state = "Error" /\ ~HasSlot(box)
           IN  /\ insts' = [insts EXCEPT
                              ![Current].fault = fault,
                              ![Current].req = IF dropped THEN "NotIssued"
                                               ELSE state]
               /\ dcache' = Track(Current, state)
               /\ IF HasSlot(box) THEN Leave(box) ELSE KeepInFlight
  /\ UNCHANGED <<phase, branch, Elsewhere>>

(* The end of evaluate(): SetStalls().                                     *)
SetStalls ==
  /\ phase = "push" /\ execute.at > Len(execute.inFlight)
  /\ phase' = "decode"
  /\ execute' = [execute EXCEPT !.at = 1,
                   !.blocked = {b \in Box :
                                  ~CanReserveEntry(isb[b], MemoryBufferSize)}]
  /\ executeIn' = PushTail(executeIn)
  /\ UNCHANGED <<insts, supply, branch, dToE, units, renameId, eTo, isb,
                 memStream, mTo, wb, dcache, regs, retired>>
-----------------------------------------------------------------------------
(* The front end: after a redirect it delivers the new stream, and nothing *)
(* in the cycle it learns of it.                                           *)

InShadow == \E n \in 1 .. Len(insts) :
              insts[n].op = "Branch" /\ insts[n].stream = supply

DecodeEvaluate ==
  /\ phase = "decode"
  /\ phase' = "writeback"
  /\ branch' = Clock(branch)
  /\ IF branch.out # Bubble
     THEN /\ supply' = branch.out[1]
          /\ dToE' = Bubble
          /\ UNCHANGED <<insts, executeIn>>
     ELSE /\ UNCHANGED supply
          /\ \/ /\ dToE' = Bubble
                /\ UNCHANGED <<insts, executeIn>>
             \/ /\ Len(insts) < MaxInst
                /\ CanReserve(executeIn, ExecuteBufferSize)
                /\ \E s \in StaticInsts :
                     /\ InShadow => s.op \in ShadowOps
                     /\ insts' = Append(insts,
                          [op |-> s.op, dsts |-> s.dsts, srcs |-> s.srcs,
                           stream |-> supply, fault |-> s.op = "FetchFault",
                           fu |-> 0, forward |-> 0, req |-> "NotIssued",
                           opens |-> 0])
                /\ dToE' = <<Len(insts) + 1>>
                /\ executeIn' = Reserve(executeIn)
  /\ UNCHANGED <<execute, units, renameId, eTo, isb, memStream, mTo, wb,
                 dcache, regs, retired>>
-----------------------------------------------------------------------------
(* The callbacks, between two cycles.                                      *)

Ids(q) == {q[i] : i \in 1 .. Len(q)}
Flat(q) == Seqs!FlattenSeq(q)
Rest(b) == SubSeq(Flat(b.queue), b.index + 1, Len(Flat(b.queue)))

(* What the reader of buffer b has still to take.                          *)
Waiting(b) ==
  {n \in Num : \E i \in 1 .. Len(b.queue) : \E j \in 1 .. Len(b.queue[i]) :
                 b.queue[i][j] = n /\ (i = 1 => j > b.index)}

Callback(n, states) ==
  /\ phase = "writeback"
  /\ \E state \in states :
       /\ insts' = [insts EXCEPT ![n].req = state]
       /\ dcache' = Track(n, state)
  /\ UNCHANGED <<phase, supply, branch, dToE, executeIn, execute, units,
                 renameId, eTo, isb, memStream, mTo, wb, regs, retired>>

FinishMemTranslation(n) == n \in dcache.dtlb /\ Callback(n, Translated)

(* The ExecRequest of a wrong-path access goes with the packet Memory      *)
(* drops, also while the cache still owes the answer to it.                *)
Freed(n) ==
  n \notin Ids(execute.inFlight) \cup Ids(eTo["MEMORY"]) \cup Waiting(isb["MEMORY"])

(* The answer is written to the request it was sent for.  What a write to  *)
(* a freed one does is undefined: nothing that matters, or anything else,  *)
(* which is the end of what can be said ("crashed").                       *)
RecvTimingResp(n) ==
  /\ n \in dcache.cache
  /\ IF ~Freed(n)
     THEN Callback(n, {"Complete"}
                        \cup (IF "response" \in Faults THEN {"Error"} ELSE {}))
     ELSE /\ phase = "writeback"
          /\ phase' \in {"writeback", "crashed"}
          /\ dcache' = [dcache EXCEPT !.cache = @ \ {n}]
          /\ UNCHANGED <<insts, supply, branch, dToE, executeIn, execute, units,
                         renameId, eTo, isb, memStream, mTo, wb, regs, retired>>

RecvReqRetry(accept) ==
  /\ phase = "writeback"
  /\ dcache.owesRetry
  /\ LET n == dcache.retryRequest
     IN  IF accept
         THEN /\ insts' = [insts EXCEPT ![n].req = "SentToCache"]
              /\ dcache' = [Track(n, "SentToCache")
                              EXCEPT !.retryRequest = 0, !.owesRetry = FALSE]
         ELSE UNCHANGED <<insts, dcache>>
  /\ UNCHANGED <<phase, supply, branch, dToE, executeIn, execute, units,
                 renameId, eTo, isb, memStream, mTo, wb, regs, retired>>

Cycle ==
  \/ WritebackEvaluate
  \/ MemoryEvaluate
  \/ ExecuteEvaluate
  \/ PushFree
  \/ NotReady
  \/ PushBranch
  \/ PushResult
  \/ PushMemRef
  \/ SetStalls
  \/ DecodeEvaluate

Next ==
  \/ Cycle
  \/ \E n \in Num : FinishMemTranslation(n) \/ RecvTimingResp(n)
  \/ \E accept \in BOOLEAN : RecvReqRetry(accept)

Spec == Init /\ [][Next]_vars

(* The tick is rescheduled every cycle; the MMU and the memory system go   *)
(* on answering what they accepted, and accept what they asked to be       *)
(* retried.                                                                *)
Fairness ==
  /\ WF_vars(Cycle)
  /\ SF_vars(\E n \in Num : FinishMemTranslation(n))
  /\ SF_vars(\E n \in Num : RecvTimingResp(n))
  /\ SF_vars(RecvReqRetry(TRUE))

FairSpec == Spec /\ Fairness
-----------------------------------------------------------------------------
(* Properties.                                                             *)

Decoded == 1 .. Len(insts)

(* No branch is decoded ahead of n in its stream: every branch is taken.   *)
NotInShadow(n) ==
  \A m \in 1 .. n - 1 : insts[m].stream = insts[n].stream => insts[m].op # "Branch"

(* The streams the program runs through: the first one, and those that the *)
(* first branch of such a stream has opened.                               *)
OnPathStream[s \in Stream] ==
  \/ s = FirstStream
  \/ \E n \in Decoded :
       /\ insts[n].opens = s /\ insts[n].stream < s
       /\ NotInShadow(n) /\ OnPathStream[insts[n].stream]

(* The instructions the program executes.                                  *)
OnPath(n) == OnPathStream[insts[n].stream] /\ NotInShadow(n)

(* The order RetiresThePath asks for: Writeback retires in the order of    *)
(* decoding and nothing twice, although results overtake each other in the *)
(* units and in Memory's buffers, wrong paths are dropped on the way and   *)
(* faulting branches are pushed twice.                                     *)
RetiresInOrder == \A i \in 1 .. Len(retired) - 1 : retired[i] < retired[i + 1]

(* What Writeback retires is the program's own execution, in its order and *)
(* with nothing left out or repeated, although results overtake each other *)
(* in the units and wrong-path instructions are among them.                *)
RetiresThePath ==
  /\ \A i \in 1 .. Len(retired) : OnPath(retired[i])
  /\ RetiresInOrder
  /\ retired # <<>> =>
       \A n \in 1 .. retired[Len(retired)] : OnPath(n) => n \in Ids(retired)

(* The order of issue that is still to be worked off, oldest first.        *)
OrderChain == Rest(wb["ORDER"]) \o mTo["ORDER"] \o Rest(isb["ORDER"]) \o eTo["ORDER"]

(* Instructions past issue() that Memory or Writeback has still to handle. *)
Held == Ids(execute.inFlight)
          \cup (UNION {Ids(eTo[b]) \cup Waiting(isb[b]) : b \in Box})
          \cup (UNION {Ids(mTo[b]) \cup Waiting(wb[b]) : b \in {"COMMON", "TRAP"}})

(* Every result in flight will be asked for: ORDER names exactly the       *)
(* instructions that are somewhere between issue and retirement, each once *)
(* and in the order of issue.  (FillSequence ignores a full ORDER, and     *)
(* Memory drops packets as a whole: an instruction that fell out of either *)
(* side would block the other for ever.)                                   *)
OrderNamesWhatIsHeld ==
  /\ Ids(OrderChain) = Held
  /\ \A i \in 1 .. Len(OrderChain) - 1 : OrderChain[i] < OrderChain[i + 1]

Sent == {"SentToCache", "Complete", "Error"}

(* "the for loop will make multiple same requests to the cache": a request *)
(* goes out once, and after those of all older instructions.               *)
SendsInOrder ==
  \A n \in Decoded :
    /\ insts[n].req \in Sent => insts'[n].req \in Sent
    /\ insts[n].req \notin Sent /\ insts'[n].req \in Sent =>
         \A m \in 1 .. n - 1 :
           insts[m].op \in {"Load", "Store"} /\ insts[m].fu # 0
             => insts[m].req \in Sent \/ insts[m].fault

MemRequestsInOrder == [][SendsInOrder]_vars

(* Nobody who calls back does so on a request that is gone: what the DTLB  *)
(* and retryRequest hold is in flight in Execute, and what the cache holds *)
(* is there or on its way through Memory.                                  *)
RequestsHeld ==
  LET inMemory == Ids(eTo["MEMORY"]) \cup Waiting(isb["MEMORY"])
      inFlight == Ids(execute.inFlight)
  IN  /\ dcache.dtlb \subseteq {n \in inFlight : insts[n].req = "InTranslation"}
      /\ dcache.cache \subseteq {n \in inFlight \cup inMemory :
                                  insts[n].req = "SentToCache"}
      /\ dcache.owesRetry <=> dcache.retryRequest # 0
      /\ dcache.owesRetry =>
           /\ dcache.retryRequest \in inFlight
           /\ insts[dcache.retryRequest].req = "WaitingRetry"

(* No wrong-path branch has been executed.  One that was issued before the *)
(* redirect is, and opens a stream that Memory never hears of: what the    *)
(* front end fetches from then on is not the program, and Memory drops it. *)
OnlyTheProgramBranches == \A n \in Decoded : insts[n].opens # 0 => OnPath(n)

(* Memory drops what a branch made wrong-path, whatever the cache still    *)
(* owes it; while only the program branches, no access of the program is   *)
(* among it.                                                               *)
ProgramRequestsHeld ==
  OnlyTheProgramBranches =>
    \A n \in dcache.cache \cup dcache.dtlb : OnPath(n) => ~Freed(n)

(* An answer of the DTLB or the cache finds its request, unless Memory has *)
(* dropped the access as one of a stream that is over, or that it has not  *)
(* been told of and never will.                                            *)
AnswersFindTheirRequest ==
  \A n \in dcache.cache \cup dcache.dtlb : Freed(n) => Stale(n)

(* The branches whose new stream Memory has not been told of.              *)
Untold ==
  {n \in Decoded :
     /\ insts[n].opens # 0
     /\ n \notin Ids(mTo["COMMON"]) \cup Waiting(wb["COMMON"]) \cup Ids(retired)}

(* Execute counts its streams, Memory works them out from the branches it  *)
(* moves: the two numbers differ by the branches in between, the ones it   *)
(* is going to drop included.                                              *)
StreamsAgree == execute.streamSeqNum = memStream + Cardinality(Untold)

(* A unit only stands still for an instruction that will start it again,   *)
(* and an instruction that waits for its unit is in it.  Faults wait for   *)
(* no unit: they leave without starting again the one they are in.         *)
UnitsHoldWhatIsInFlight ==
  /\ \A u \in Unit :
       units[u].stalled =>
         LET n == UnitFront(units[u])
         IN  n \in Ids(execute.inFlight) \/ insts[n].fault
  /\ \A n \in Ids(execute.inFlight) :
       ~IsFree(insts[n]) => n \in Ids(units[insts[n].fu].pipe)

(* A register the scoreboard calls free has no writer of the program in    *)
(* flight: the marks of wrong-path instructions, and their removal, do not *)
(* uncover an older instruction that is still to write.                    *)
FreeRegistersAreWritten ==
  \A n \in Decoded : \A r \in insts[n].dsts :
    n \in Held /\ OnPath(n) => renameId[r] # 0

(* "Are any of its source registers due to be written by other marked-up   *)
(* instructions in flight": what the scoreboard makes an instruction wait  *)
(* for is in flight, and is going to write.                                *)
BusyRegistersWillBeWritten ==
  \A r \in Reg : renameId[r] # 0 => renameId[r] \in Held

(* Instruction n computes in the next step.                                *)
Computes(n) ==
  /\ Ready({"Alu", "Mul", "Div", "Float", "Branch", "Load", "Store"})
  /\ n = Current
  /\ insts[n].req = "NotIssued"

(* The last instruction before n that wrote r.                             *)
LatestWriter(n, r) ==
  LET before == {m \in 1 .. n - 1 : OnPath(m) /\ Writes(m, r)}
  IN  IF before = {} THEN 0 ELSE CHOOSE m \in before : \A k \in before : k <= m

(* rename_id as scoreboard.hh describes it, "the most recent inst to       *)
(* generate this register value", makes every operand the latest value.    *)
OperandsAreLatest ==
  \A n \in Decoded : Computes(n) /\ OnPath(n) =>
    \A r \in insts[n].srcs : Operand(n, r) = LatestWriter(n, r)

(* The part of it that holds: with no older writer of its destination in   *)
(* flight when it is issued, and no younger writer of its source when it   *)
(* executes, an instruction reads the latest value, wherever that is on    *)
(* its way from the unit to the register file.                             *)
ForwardsTheLatest ==
  \A n \in Decoded : Computes(n) /\ OnPath(n) /\ insts[n].forward = 0 =>
    \A r \in insts[n].srcs :
      renameId[r] <= n => Operand(n, r) = LatestWriter(n, r)

(* Memory moves at most one instruction a cycle and Writeback takes it in  *)
(* the next: COMMON and TRAP never fill, though Memory does not ask them   *)
(* before it reserves.                                                     *)
WritebackKeepsUp ==
  \A b \in {"COMMON", "TRAP"} :
    wb[b].reserved + wb[b].occupied <= WritebackBufferSize

(* "assert(canReserve())": no slot of Memory is promised that is not free. *)
ReservesWhatIsFree ==
  \A b \in Box : isb[b].reserved + isb[b].occupied <= MemoryBufferSize

(* "if there is no eligible instructions this cycle just break off and     *)
(* check in the next cycle": the next cycle, or a later one, has one.      *)
EveryInstRetires ==
  \A n \in Num : (n \in Decoded /\ OnPath(n)) ~> (n \in Ids(retired))
=============================================================================
