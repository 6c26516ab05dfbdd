-------------------------- MODULE FunctionalUnits --------------------------
(***************************************************************************)
(* A functional unit: a pipeline of opLat stages behind the wire an        *)
(* instruction is pushed on, which stalls when an instruction reaches its  *)
(* end (SelfStallingPipeline in cpu/buffers.hh, FUPipeline in              *)
(* cpu/func_unit.cc).  wait is nextInsertCycle, counted from the current   *)
(* cycle.                                                                  *)
(***************************************************************************)
EXTENDS Naturals, Sequences, InstructionBuffers

IdleUnit(opLat) ==
  [pipe |-> [i \in 1 .. opLat + 1 |-> NoInst], stalled |-> FALSE, wait |-> 0]

AlreadyPushed(f) == f.pipe[1] # NoInst
UnitFront(f) == f.pipe[Len(f.pipe)]
CanInsert(f) == f.wait = 0

PushUnit(f, num) == [f EXCEPT !.pipe[1] = num]

OneLess(n) == IF n = 0 THEN 0 ELSE n - 1

(* A cycle in which advance() is not called.                               *)
SkipCycle(f) == [f EXCEPT !.wait = OneLess(@)]

(* Whatever reaches the end of the pipeline stalls it.                     *)
Shift(f) ==
  LET pipe == <<NoInst>> \o SubSeq(f.pipe, 1, Len(f.pipe) - 1)
  IN  IF f.stalled THEN f
      ELSE [f EXCEPT !.pipe = pipe, !.stalled = pipe[Len(pipe)] # NoInst]

(* advance(): stalled cycles do not count towards the issue latency.       *)
Advance(f, issueLat) ==
  LET wait == IF AlreadyPushed(f) THEN issueLat
              ELSE IF f.stalled THEN f.wait ELSE OneLess(f.wait)
  IN  [Shift(f) EXCEPT !.wait = wait]
=============================================================================
