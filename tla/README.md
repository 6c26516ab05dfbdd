# A formal model of the CClass pipeline

CClass is an in-order RISC-V processor model for gem5: six stages (Fetch1,
Fetch2, Decode, Execute, Memory, Writeback) that one object, `Pipeline`,
evaluates once a cycle from the last stage to the first, and latches between
them that move at the end of the cycle. This directory holds TLA+ modules of
that pipeline, TLC configurations that check them on small instances, and
proofs about the front end, the back end and the two together for every instance. All paths below are relative to
`src/CClass-gem5/src/cpu/`.

## 1. Inventory

| Component | State it keeps | Operations | What makes it correct |
|---|---|---|---|
| Latches, `Queue`, `InputBuffer` (`buffers.hh`) | wires; deque, `elementPtr`, `numReservedSlots` | write, advance; reserve, freeReservation, setTail, pop, pushTail | an element always has a reserved slot; a reservation always has an element to come |
| Fetch1 (`fetch1.cc`) | next pc, stream | redirect, emit the pc and step it, wait for room | no pc skipped or repeated |
| Fetch2 (`fetch2.cc`) | `requests`, `transfers`, `icacheState`, `fetchState`, `fetch2_thread`, stream | start a fetch, ITLB answer, send, cache answer, refusal and retry, discard, redirect | callbacks find their request; a line is delivered once and for the right stream |
| Decode (`decode.cc`) | `havePC`, pc, last stream, half an instruction | decode a line, dump on fault, redirect | the pc of an instruction is where its bytes come from |
| Execute (`execute.cc`) | input, `inFlightInsts`, functional units, blocked flags, `streamSeqNum`, drain state, `pendingMemRequests`, `retryRequest` | issue, advance the units, push results by kind, execute branches, start memory accesses, DTLB and cache callbacks | in-order issue, each access sent once and in order, nothing lost between issue and push |
| Functional units (`func_unit.cc`, `buffers.hh`) | pipeline, `stalled`, `nextInsertCycle` | push, advance | nothing falls off the end |
| Scoreboard, forwarding (`scoreboard.cc`, `exec_context.cc`) | `rename_id` | mark, clear, may issue, look up an operand | operands are the latest values; no mark outlives its writer |
| Memory (`memory.cc`) | five result buffers BASE, TRAP, MBOX, FBOX, MEMORY; ORDER; an index into each; `lastStreamSeqNum` | move the instruction ORDER names to Writeback, drop wrong-path ones | program order, nothing lost, wrong path dropped |
| Writeback (`writeback.cc`) | COMMON, TRAP, ORDER and indices; register file | commit, retire traps | each instruction of the program retired once |
| `Pipeline`, `CClassCPU` | the latches, the tick event | evaluate the stages; start, ports | the stages together execute the program |
| Parameters (`BaseCClassCPU.py`) | sizes, widths, latencies | none | |

**Interaction.** Forward latches carry fetches, lines, instructions, results and
the order of issue; three latches carry a branch from Execute to Fetch1, Fetch2
and Decode. Back-pressure does not use latches: a stage reserves in the input
buffer of the next one, in the same cycle. Writeback and Execute share the
scoreboard with Memory. The ITLB, the DTLB and both caches call back between
cycles, on request objects the stages keep.

**What is hard.** A redirect meets requests that are half-way through
translation or the cache, and input that is still in a latch. Results of units
of different latency overtake each other and have to be put in order again.
Wrong-path instructions mark the scoreboard and send memory accesses. Packets
may be refused and retried. Space is reserved before it is used, on paths that
give it back in different places. `PROJECT.json` lists the hazards with their lines.

## 2. Modules

    Buffers ------> FrontEnd ---> FrontEndProofs --> FrontEndStream
       |               |  implements InstStream
       |               +--> MCFrontEnd
       |               |
       |               v
       |         CClassPipeline ---> MCCClassPipeline
       |               ^  |  implements InOrderIsa, runs FrontEndStream and BackEnd
       |               |  +--> PipelineProofs (with BackEndPath)
       |               |
       +-----------> BackEnd ---> MCBackEnd
                       ^   |
                       |   +--> BackEndLemmas --> BackEndProofs --> BackEndRequests
                       |   BackEndRequests --> BackEndPath --> BackEndHeld
                       +-- FunctionalUnits, InstructionBuffers

* `Buffers`: latch of delay 1, `Queue` and `InputBuffer` as operators on records.
* `FrontEnd`: Fetch1, Fetch2 and Decode. Its steps are the phases of one cycle
  (`execute`, `decode`, `fetch2`, `fetch1`, `clock`), one action each, and the
  callbacks `ItlbFinish`, `RecvTimingResp` and `RecvReqRetry` between cycles.
  Execute appears as what it does to the front end: it consumes instructions or
  not, and may take a branch once it has issued something.
* `InstStream`: the abstract specification of the front end: the instructions of
  a stream in the order of their addresses, up to a fault or a new stream.
* `InstructionBuffers`: the input buffers of Memory and Writeback, where packets
  of instructions arrive and are read by index.
* `FunctionalUnits`: a unit as a pipeline that stalls when something reaches its end.
* `BackEnd`: Execute, Memory, Writeback, scoreboard, DTLB and data cache. The
  phases are `writeback`, `memory`, `execute` (units and issue), `push` (the loop
  of `trytoPush`, one instruction in flight a step, one action per kind of
  instruction) and `decode` (the front end, which delivers any instruction of its
  stream or nothing). The callbacks come between cycles.
* `CClassPipeline`: the two joined, running one program, in the order of
  `Pipeline::evaluate`. `FrontEnd` and `BackEnd` each keep their own view of what lies
  between them (the latch `dToE`, Execute's input, stream, drain state and the
  branch latches), the front end as addresses and the back end as `execSeqNum`s. They step
  together at the end of Execute (`ExecuteEnds`), once it is known what was consumed
  and where the branches lead, and in Decode (`Decodes`), which delivers the
  instruction the program has at the decoded pc. Every other step is one module's.
  Nothing forces the two views to agree except that both follow the code: that they
  do is the invariant `ViewsAgree`.
* `FrontEndProofs`, `FrontEndStream`, `BackEndLemmas`, `BackEndProofs`,
  `BackEndRequests`, `BackEndPath`, `BackEndHeld`, `PipelineProofs`: lemmas,
  inductive invariants and theorems (section 4).
* `InOrderIsa`: the abstract specification of the whole: one instruction at a time,
  each where the one before it leads.

Correspondence of state: a latch read before it is written in a cycle is one
packet (`eTo`, `mTo`, `dToE` of `BackEnd`), otherwise a record with both ends.
An instruction is its `execSeqNum`, an index into `insts`, where its kind,
registers, stream, fault, unit, `forwardSeqNum` and the state of its
`ExecRequest` are. Its result is represented by the same number, so "reads the
value of instruction n" is "reads n". `pendingMemRequests`, `retryRequest` and the
requests the DTLB and the cache hold are `req` and `dcache`.

Abstractions, and why they are sound for the properties:

* An address is the number of a parcel of two bytes; a line is the aligned word
  of two parcels that `fetchLine` asks for. `Compressed` says at which addresses an
  instruction of two bytes stands; any other is four bytes long and may straddle two
  lines, in which case Decode waits with its first half. The pc wraps at `NumWords`
  words. `predictionSeqNum` never changes, so streams alone decide what is stale.
* Every branch opens a new stream: `handleBranch` compares the pc of the executed
  branch, which `execute` leaves as it is, with the sequential one, so it always
  finds a change.
* Widths are the defaults: `decodeInputWidth`, `memoryIssueLimit` and
  `writebackWidth` 1, one thread, all delays 1. With one instruction a packet
  from Decode the issue limits of Execute are never reached.
* Assertions do not stop the model. A build with assertions (`gem5.opt`) ends
  where `ReservesWhatIsFree` is broken; one without goes on as the model does. The
  safety properties cover both; `EveryInstRetires` and `ProgramGoesOn` are about
  executions that no assertion ends.
* The unsigned count of reservations of Writeback's ORDER wraps; nobody reads it,
  and the model leaves it at 0.
* Undefined behaviour is a choice. A fetch fault that meets a blocked TRAP buffer
  dereferences a null static instruction: the phase becomes `crashed`. The cache's
  answer to an access Memory has dropped as wrong-path writes to a freed
  `ExecRequest`: nothing visible happens, or the phase becomes `crashed`. Nothing
  follows a crash, which is why the runs with faults or with wrong-path accesses do not check
  deadlock. `CClassPipeline` makes a crash a self-loop and checks deadlock: it
  would see a joint step on which the two modules cannot agree.

## 3. Runs

| Run | Question | Instance | Result |
|---|---|---|---|
| `front_end` | requests, slots, streams and pcs under redirects, refusals, faults; refinement of `InstStream` | 2 fetches in flight, buffers 2/2/2, 4 parcels with straddling and compressed instructions, 3 streams | holds, 717 thousand states |
| `front_end_live` | do instructions keep coming? | buffers 2/2/2, 1 word, 3 streams | holds, up to lost slots, 100 thousand states |
| `front_end_slots` | is a reservation always for a push to come? | buffers 2/3/3, 2 words | violated |
| `back_end` | retirement order, ORDER, callbacks, scoreboard, forwarding, buffer counts, memory order | 4 instructions out of 6 kinds, 6 units, buffers 2, ORDER 6 | holds, 722 thousand states |
| `back_end_branches` | wrong-path arithmetic, loads and branches: retirement, scoreboard, accesses, stream counts | 5 instructions, ORDER 6 | holds, 728 thousand states |
| `back_end_faults` | faults of all kinds | 4 instructions | holds, 572 thousand states |
| `back_end_live` | is every instruction retired? | 3 dependent instructions | holds |
| `pipeline` | do the six stages execute a program? agreement of front and back end, refinement of `InOrderIsa`, progress | 6 instructions of a program of 6, in 8 parcels | holds, 78 thousand states |
| `back_end_reserve` | is only free space reserved? | 7 instructions | violated |
| `back_end_operands` | is every operand the latest value? | 4 instructions | violated |
| `back_end_mbox` | a multiplication behind a division | 2 instructions | violated: stops |
| `back_end_packet` | right- and wrong-path results in one packet | 4 instructions | violated: stops |

**Bounds.** `MaxStream` bounds the branches taken (two redirects meet each other
and the requests of the first stream), `NumWords` the address space (a stream
wraps, so no pc is special; with `Compressed = {0, 3}` a stream from parcel 0 or 1 has an
instruction that straddles two lines between compressed ones, and a redirect to
parcel 2 finds one that does not), `MaxInst` the instructions decoded. Buffers of one
or two entries fill with the first instructions that wait; four instructions let
two units hold results back while a third delivers, and read, write and overwrite
one register. Five are enough for a branch, its shadow with a load and a branch in
it, and a new stream while an older load waits; six were checked once
(5 million states, the same properties hold). `ShadowOps` restricts what may follow a
branch in its stream; `pipeline` does not restrict it. Latencies 3, 9
and 6 of the slow units become 2, 4 and 3, which keeps their order. ORDER of size 6
never fills with buffers of two slots; the default of 30 (`numFUIDs`) goes with larger buffers.

The program of `pipeline` is a loop: a compressed load, an addition that uses it and
straddles two words, a compressed branch back or on, a store, and two branches in a
row. At six instructions all of these are reached: a wrong-path branch that is
executed, the answer to a dropped access, lost slots in Fetch2 and Decode, refused and
retried packets, a wrong-path store that is sent, two redirects on the path, and
six instructions retired. Seven and eight instructions (182 and 387 thousand states)
were checked once and hold.

**Fairness.** The tick event is rescheduled in every cycle (`wakeupOnEvent` at the
end of each stage), so the steps of a cycle are weakly fair. The MMU answers every
translation and the memory system every accepted packet, and a refused packet is
retried and in the end accepted: strong fairness of the callbacks, because a
callback is possible only between two cycles. In `FrontEnd` Execute is assumed to
go on consuming: that Execute may stop for reasons of its own is what the runs of
`BackEnd` are about. `CClassPipeline` needs no such assumption; it assumes only the
tick and the answers. `FetchGoesOn` admits one way to stop: redirects that have
cost a buffer all its slots (`front_end_slots` shows how one is lost).
`ProgramGoesOn` admits that and two more: a crash, and a wrong-path branch.

**The properties.** Each is commented where it is defined. The main ones:

* `NoOrphanedRequest`, `RetryFindsRequest`: every callback owed to Fetch2 finds a
  live request in the queue and state it expects.
* `NoGap`, `BytesAreAtPc`, `ImplementsInstStream`: pcs between Fetch1 and Execute are
  consecutive, every instruction is made of the bytes at its pc, also when they come
  in two lines, and issue sees exactly the abstract stream.
* `RetiresThePath`: what Writeback retires is the program's own execution, in
  order, complete, and without wrong-path instructions.
* `OrderNamesWhatIsHeld`: ORDER and the result buffers hold the same instructions.
* `FreeRegistersAreWritten`, `BusyRegistersWillBeWritten`: a mark of the
  scoreboard stands for a writer in flight, and the other way round.
* `ForwardsTheLatest`: an operand is the latest value, wherever that is between
  unit and register file, for instructions the two defects shown by
  `OperandsAreLatest` do not touch.
* `MemRequestsInOrder`, `RequestsHeld`, `ProgramRequestsHeld`: accesses are sent
  once, in order, wrong-path ones too, and nobody calls back on a request of the
  program that is gone.
* `AnswersFindTheirRequest`: an answer that finds its request gone is for an access
  of a stream that is not Memory's, however redirects nest.
* `StreamsAgree`: Execute's stream number is Memory's plus the branches that have
  opened a stream and that Memory has not moved, the ones it will drop included.
* `UnitsHoldWhatIsInFlight`: a unit stands still only for what is in it.
* `ViewsAgree`: what the front end believes Execute has consumed, reserved and
  started is what Execute has.
* `ImplementsIsa`, `ProgramGoesOn`: what is retired is an execution of the program,
  and the program runs to its bound unless one of the known stops is met.

**Nested redirects.** A branch that was issued behind another one in the same cycle or the
next is executed although the first one has made it wrong-path: `trytoPush` does
not compare streams. Execute counts two new streams, Memory drops the second branch and counts one,
and from then on drops everything. `ProgramRequestsHeld` and `ProgramGoesOn` except this
case (`OnlyTheProgramBranches`); `StreamsAgree` counts the dropped branch, which is never
moved, for ever; `ImplementsIsa` and `RetiresThePath` hold through it in the runs, since
nothing wrong is retired. No comment of the code says otherwise, so no run
is made of it.

**Findings.** Five runs end in a violation; `PROJECT.json` quotes what the source
says for each. A redirect leaks a reservation in Fetch2 or Decode. Execute may
reserve more of BASE than there is. Operands are looked up by the wrong writer.
A multiplication that overtakes a division stops the machine, and so does a
wrong-path result that shares a packet with a right-path one. Four more
disagreements were met while exploring, by the properties named: after a trap the
destinations of the instruction stay marked (`BusyRegistersWillBeWritten` with
faults), a fetch fault on a wrong path clears the whole scoreboard
(`FreeRegistersAreWritten` with fetch faults in `ShadowOps`), a wrong-path result is
forwarded to the right path, and a free instruction with a destination forwards a
zero (`ForwardsTheLatest` with `ShadowOps`, and with such an instruction).

## 4. Proofs

**Front end.** `FrontEndProofs` proves for all values of the constants that satisfy
`FrontEndAssumption` (positive sizes; any number of streams, words, requests):
`TypeCorrect`, `RequestsNeverOrphaned`, `RetriesFindRequest`, `SlotsAlwaysSuffice`.

The four follow from one inductive invariant, `IInv`: the type invariant, the
request bookkeeping (`RequestsKept`), the state of the retry (`RetryKept`), the
slot accounting (`SlotsSuffice`) and the facts about phases, latches and the
buffered element that tie them together: an input buffer has no waiting element
outside the step that reads it, a latch that was read is only counted until the
reader's phase is over, and in each phase only the wires already written are full.
They are needed because none of the named properties is inductive alone: that a
slot suffices when a line arrives depends on how many requests are in flight, which
depends on the queues holding each request once. The proof has a lemma per operator
of Fetch2 (sending, moving, discarding, popping keep the requests) and one
per action; `Invariance` puts them together.

`FrontEndStream` proves the rest of what `front_end` checks, again without further hypotheses:

| Theorem | Property |
|---|---|
| `BranchesFlush` | `RedirectFlushes` |
| `FetchesTheFront` | `FetchIsForFront` |
| `InstructionsAreTheirBytes` | `BytesAreAtPc` |
| `StreamIsImplemented` | `ImplementsInstStream` |
| `NoGapInTheStream` | `NoGap` |

They come from a second inductive invariant, `Conveyed` (`ConveysOneStream`), which reads the front
end as a conveyor from Fetch1 to Execute:

* `OneStream`, `Flushed`, `Redirects`: everything on it is of one stream, the one Fetch2 knows
  (`Now`), although the three stages hear of a branch one after the other. That is so
  because Execute, Decode and Fetch2 drop what they have in that order in one cycle, and because a
  second branch on its way opens a later stream than the first. Fetch1, which hears last, may hold the
  old pc for one step (`Behind`).
* `OneFetch`: of the requests in flight one at most is of `Now`, it is for the word at the
  front of Fetch2's input, and it is there exactly while Fetch2 is running. Requests of
  older streams are what `IsDiscardable` recognises, and with this nothing else is.
* `WordsLinked`: each word leads to the next one, over latches and buffers, up to the pc of Fetch1.
  `WordNeeded` and `HalfKept`: the first of them is the word of the parcel Decode needs next, and a kept
  half is the one at Decode's pc, so an instruction that is put together from two words has the bytes at its pc.
* `InstsChained`: each instruction leads to the next one, the last one to Decode's pc, and
  `expect` to the first.

The invariant is stated latch by latch and buffer by buffer (`WordF1` to `FirstWord`, `PcD` to `FirstInst`
name the pc at which each of them begins), so that the lemma for an action speaks only of the two
it touches; `LinkedConcat` and `ChainedConcat` put the pieces together again for `NoGap`.
`MoreBytesAt` and `WordSteps` are the arithmetic of pcs that wrap.

**Back end.** For all values of the constants that satisfy `BackEndAssumption` (any pool of
two or more units, any program, any sizes):

| Theorem | Property | Further hypotheses |
|---|---|---|
| `TypeCorrectness` | `TypeOK` | |
| `WritebackTakesWhatMemoryMoves` | `WritebackKeepsUp` | |
| `NoUnitLosesAnInstruction` | `UnitsHoldWhatIsInFlight` | |
| `Retirement` | the order in `RetiresThePath` | |
| `RequestsGoOutInOrder` | `MemRequestsInOrder` | one memory unit, no error responses |
| `AnswersAreForRequests` | `AnswersFindTheirRequest` | one memory unit |
| `StreamsAreCounted` | `StreamsAgree` | no faults of execution |
| `TheProgramIsRetired` | `RetiresThePath` | no faults of execution, ORDER has room, only the program branches |
| `ProgramRequestsAreHeld` | `ProgramRequestsHeld` | one memory unit, no faults of execution, ORDER has room |
| `LongOrdersSuffice` | both of these | the same, with ORDER longer than the program instead of with room |
| `WhatIsHeldIsNamed` | half of `OrderNamesWhatIsHeld`: ORDER names all that is held | no faults of execution, ORDER has room |
| `OrderAndBoxesAgree` | `OrderNamesWhatIsHeld` | the same, nothing in the shadow of a branch |
| `RequestsAreHeld` | `RequestsHeld` | the same, one memory unit |
| `FreeRegisters` | `FreeRegistersAreWritten` | no faults of execution, ORDER has room, every fault on the path |
| `BusyRegisters` | `BusyRegistersWillBeWritten` | no faults of execution, ORDER has room, nothing in a shadow, no trap retired |
| `WithoutFaults` | both of these, the second until something is in a shadow | no faults, ORDER has room |
| `LatestIsForwarded` | `ForwardsTheLatest` | no faults, free instructions without destinations, ORDER has room, nothing in a shadow |

`BackEndLemmas` holds what the operators return and preserve: queues of
instructions, packets and their index (`Tally`: `occupied` is the number of
instructions in the packets, so popping never makes it negative), `InputBuffer`, units.

`BackEndProofs` has the inductive invariant `IInv`, a conjunction whose parts need each other:

* `TypeOK` needs that what is reserved in Memory and Writeback is what is in the latch
  (`MemoryBuffers`, `WritebackBuffers`): otherwise a push would take a reservation below zero.
  `WritebackBuffers` says that a packet is in the latch or gone, never in a buffer between two
  phases, and with that COMMON and TRAP hold at most one instruction.
* That a unit never drops what reaches its end (`UnitKept`, `FlightInUnits`) needs to
  know that what is in its pipeline is in flight, that the pipeline is in the order of issue, and
  that what is still to be issued is younger (`Conveyor`, `Flight`): otherwise a push
  might start a unit for a number that is in it a second time.
* `RequestsTracked` places every request by its state; a request in translation or
  waiting for its retry is at the front of its stalled unit.
* `OrderKept` and `LeavesInOrder` are `RetiresInOrder` made inductive: what is retired is older than
  what is in Memory's latch, that than what ORDER holds, that than what Execute has still to issue.
* `PastExecute`: what has left Execute is in flight no more, except for a faulting branch, which
  is pushed twice.
* `StreamsCounted`: the stream number counts the branches that have opened one, which bounds it
  by the number of instructions, and what ORDER holds is in the order of streams.

There is a lemma for the preservation of each part by each action that touches it;
`MemoryCases`, `ExecuteCases`, `DecodeCases`, `PushStep` and `Answered` restate the
actions as few alternatives with what each changes, which the other modules use too.

`BackEndRequests` adds `AnswersKept`: faults of accesses are failed requests, at most one access a
cycle enters the latch to MEMORY, and what is freed while the cache owes its answer is
lost to Memory: its stream is not Memory's, and ORDER no longer names a branch that could
make it so. With two memory units Memory may drop an access with a packet it shares with a
wrong-path one, and accesses of different units overtake each other, so the hypothesis
is needed; the default pool (`BaseCClassCPU.py`) has one. An error response that finds no room makes the
access start again (hazard at `execute.cc:752`), so the order of requests is claimed without them.

`BackEndPath` begins with `BranchesCounted`: Memory's stream is the number of branches moved, only branches
open streams, and a branch that is past Execute has opened one and goes through BASE. A branch that
faults in execution is pushed to BASE before its fault is seen and opens no
stream, while Memory counts one: with such faults the two counts part, and the
hypothesis is needed.

It then follows the program through the machine. While no branch is executed in
the shadow of another (`FirstBranchesOpen`):

* `OpenersKnown`: every stream but the first was opened by one branch, of the stream before it;
* `StreamsInOrder`: streams follow each other in the order of decoding, those still in the latch
  to the front end included, and what is to be drained is all there is to issue;
* `PathFollowed`: what Memory has moved is not in the shadow of a branch, what is not in a shadow
  is to be issued, in ORDER or moved, in the order of decoding, and Memory's stream
  number says which of the branches it has moved.

The last is what makes Memory's rule right: it drops what is not of its stream,
which, with the two other facts, is what is in a shadow. `StreamsOfTheProgram` then
shows that the streams so reached are those of `OnPathStream`. The hypotheses are needed. Faults of
execution part the two counts of streams, as above. In a pool that executes branches in
slow units a nested redirect breaks `RetiresThePath`. And `FillSequence` ignores a full ORDER (hazard in `PROJECT.json`), whereupon an
instruction is never moved; "ORDER has room" is therefore stated of the behaviour (`[]OrderHasRoom`), and
`LongOrdersSuffice` shows it follows from the size alone where ORDER is longer than the program: it
holds one instruction a packet, in order. A wrong-path instruction stays in ORDER until it is the oldest,
so no size of buffers bounds what ORDER holds behind one slow access.

`BackEndHeld` proves that ORDER and the five other buffers are about the same instructions.

* `PlacedOnce`: an instruction in flight has not been pushed, and one that has been is in one box
  (a latch and the buffer behind it), and there once. A branch that faults in
  execution is pushed twice, hence the hypothesis.
* `HeldIsNamed`: whatever Memory has still to move is in ORDER. This holds with wrong paths
  too, for Memory drops whole packets: more may go than ORDER has named, never less.
* `NamedIsHeld`: what ORDER names is still to be found. This is where wrong paths matter. Memory
  drops a packet with everything in it, and leaves the index where it is for the packet
  behind it, so `Indexed` (an empty buffer has index 0) fails with the first drop; without shadows
  Memory drops nothing (`StaleIsShadowed` of `BackEndPath`).

That "nothing is in a shadow" is a hypothesis on the states, `NothingInShadow`, so that the theorems
speak of every program up to its first wrong-path instruction. `HeldIsNamed` and, where nothing
faults, `FreeRegistersAreWritten` (`WithoutFaults`) do not need it: they hold with wrong paths too.

The second part of `BackEndHeld` compares `rename_id` with `Marked`, the instructions ORDER names up to
the latch to Writeback. `ScoreboardSteps` says that both change in three ways only: issue
marks the youngest, Memory drops the oldest, Writeback retires it.

* `MarksCover`: each register of a marked instruction carries its number or a younger one. Since the oldest
  leaves first and takes away its own number only, the others stay covered. A
  dropped fault takes away all marks (`clearInstDests`), and then this ends, so
  `FreeRegisters` is stated for executions whose faults are on the path (`FaultsOfTheProgram`);
  wrong-path instructions that are no faults are covered by the proof. Writeback's commit
  clears nothing for a fault.
* `MarksAreWriters`: a number in `rename_id` is of a marked instruction that writes the register. Writeback
  leaves the marks of what came through TRAP, so it is proved up to the first retired trap (`NothingTrapped`),
  for which `TrapsKept` shows that only faults and error responses go through TRAP.

A fetch fault has no static instruction and hence no destinations: `FetchFaultsWriteNothing` says so of `StaticInsts`.

The last part follows an operand from the unit that computes it to the one that reads it, in executions
without faults and wrong paths (`Undisturbed`, `NothingInShadow`). It adds to what is above:

* `RegsAreLatest`: the register file has the youngest retired writer of each register;
* `ConsumedLeft`: what Memory has taken from a packet of BASE it has moved to Writeback, so that
  a marked instruction that is in BASE is still found there after any step (`BaseKept`), which
  is what lets Writeback clear a mark and write the register before Memory forgets the packet;
* `SourcesReady`: the older writers of its sources that are marked are in BASE as long as an
  instruction is in flight. `canInstIssue()` makes it so, later marks are of younger instructions (`MarksVanish`), and
  marks only go when the register file has the value;
* `FirstWriters`: an instruction that found no writer of its destinations marked is the oldest marked
  one to write them. It is needed for the instruction that reads the register it writes:
  its own mark hides the writer before, which then must have been retired.

`OperandsOfTheLatest` distinguishes the three values `rename_id` can have then: none, an older
instruction, the reader itself. Both hypotheses are needed. A wrong-path result that an older access
holds back in BASE keeps its mark and is taken by an instruction of the new stream; and a
free instruction with a destination is marked but never executed, so that a reader takes a
zero from it (hazards in `PROJECT.json`).

**Pipeline.** `PipelineProofs` is about the six stages with any program, under `PipelineAssumption` and
`BackEndAssumption`:

| Theorem | What it says |
|---|---|
| `PipelineRunsTheBackEnd` | `PipelineSpec => Spec`: the pipeline is a back end |
| `PipelineRunsTheFrontEnd` | `PipelineSpec => FE!Spec`: the pipeline is a front end |
| `TheEndsAgree` | `PipelineSpec => []ViewsAgree` |
| `TheProgramIsExecuted` | `PipelineSpec => ImplementsIsa`, where nothing faults in execution, while ORDER has room and only the program branches |
| `LongOrdersExecute` | the same, with ORDER longer than the program instead of with room |

The first two carry everything above to the composition: `BothEndsKept` uses them to have the invariants of
both halves there, and what Execute issues from is `InstStream` again. They say nothing of whether the two
halves are about the same machine: a front end may consume while its back end does not. That
they are is `ViewsAgree`, and it is not inductive, because within a cycle one half is
ahead of the other. `Joint` says how far, latch by latch:

* `InStep`: which stages of the back end evaluate while the front end is in which of its phases.
* `SameInput`: Execute's input has the same instructions and reservations in both views, but from `issue()`
  to the end of Execute the front end may have one more. `ExecuteEnds` has it
  consume exactly when the back end's view is the shorter one.
* `SameStreams`, `SameBranches`: while `trytoPush` runs, the back end drains and counts one more stream
  exactly if its branch latch has been written; the front end hears of it when the loop is through.
* `SameDelivery`: the latch from Decode has the same packet at whichever end it is.
* `SameSupply`: the stream the program delivers from is the one Fetch2 knows, and Decode, which hears of
  a branch a step before Fetch2, has it already; here `Conveyed` is needed.
* `Recorded`: there is one record of what was fetched for each instruction.

Nothing is said once the bound `MaxInst` is reached or the back end has crashed (`Stopped`): the front end then
goes on alone or stands still, and `ViewsAgree` excludes the same states.

`TheProgramIsExecuted` is where the proofs of the two ends meet. `RetiresThePath` says that what is retired is
the instructions in no shadow, all of them up to the last one, as numbers in the order of decoding; it knows no
addresses. `ProgramFollowed` gives each number its pc:

* `Located`: a decoded instruction is the program's at its pc. The first one of its stream is where
  the stream starts (`outcome`), any other behind the one decoded before it.
* `Continued`: Decode is behind the last instruction it has delivered. `DecodeMoves` of `FrontEndStream` says of the
  front end that the pc it delivers and the one it keeps are linked so.
* `Expected`, `Delivered`: the front end may deliver the first instruction of a stream long after the branch. Until
  then Execute expects the start of the stream, and `InstsChained` of the front end leads from there to Decode's
  pc (`FirstOfItsStream`). A delivered instruction that Execute has still to issue is one of those recorded in `fetched`.
* `OutcomesCounted`, `OpenersLead`: the target of every stream Execute has opened is known when Execute is through,
  and it is one the program allows. In the phase `push` Execute is ahead, hence `RetiredLead`: what
  is retired has led somewhere, because the cycle in which it was pushed is over (`RetiredHaveLed`).

The step is `OneRetired`. Between two instructions retired one after the other there are only instructions in a
shadow, so the second is either the next one decoded or the first in a stream that the first has opened
(`LedByTheLast`); the first one is at the entry (`LedByTheEntry`). The hypotheses are those of `TheProgramIsRetired`. `OnlyTheProgramBranches`
excludes the nested redirects of section 3, and it is a hypothesis on the behaviour because the constants do not
say how far apart two branches are fetched.

**Only model-checked.** Liveness: `FetchGoesOn`, `EveryInstRetires` and `ProgramGoesOn` (fairness and `ENABLED` are out
of the prover's reach).

## 5. Not modelled

* Suspension and re-activation of a thread (`activateContext`, `suspendContext`; only
  system calls ask for them) and more than one thread. Draining for checkpoints is
  commented out in the code.
* Branch prediction: not implemented in the code, its sequence number never changes.
* Fences, atomics and system calls; the code's ordering of barriers is commented out.
* Values of registers and memory beyond "written by". What a wrong-path store has
  written stays written: the runs contain such stores, but no property speaks of memory.
* Input, issue, memory and writeback widths other than the defaults, latches of
  other delays, the timing annotations of the units.
* Floating-point registers, which are marked like integer ones but never forwarded.
* Statistics, tracing, serialisation, parameters, build files, run scripts and the
  superseded files under `trash`.

## 6. Plan

Every safety property the runs check has a theorem. Open are the hypotheses that the runs suggest could be
weaker: where branches are executed in one cycle, `ImplementsIsa` and `RetiresThePath` hold through nested redirects,
after which Memory drops everything, so that what is retired stays a beginning of the program. A proof would have to
follow two stream counts that have parted.

## 7. Running

    tlc -workers 2 -config FrontEndSafe.cfg MCFrontEnd.tla
    tlc -workers 2 -config BackEndSafe.cfg MCBackEnd.tla
    tlc -workers 2 -config Pipeline.cfg MCCClassPipeline.tla
    tlapm FrontEndProofs.tla
    tlapm FrontEndStream.tla
    tlapm BackEndLemmas.tla
    tlapm BackEndProofs.tla
    tlapm BackEndRequests.tla
    tlapm BackEndPath.tla
    tlapm BackEndHeld.tla
    tlapm PipelineProofs.tla

The operators commented as "Mutant" are not used by the specifications; each is a
plausible mistake in the definition after it, which one of the properties detects
when it takes that definition's place (`PROJECT.json`, "mutants").
