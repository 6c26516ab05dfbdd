-------------------------- MODULE MCCClassPipeline --------------------------
(* The pipeline with a program of six instructions in four words, for TLC: *)
(* a compressed load; an addition that uses it, across two words; a        *)
(* compressed branch, back to the load or on to the store behind it; and   *)
(* two more compressed branches, one behind the other.                     *)
EXTENDS CClassPipeline

AllOps == Op

Pool ==
  <<[ops |-> {"Alu", "Branch"}, opLat |-> 1, issueLat |-> 1],
    [ops |-> {"Alu", "Branch"}, opLat |-> 1, issueLat |-> 1],
    [ops |-> {"Load", "Store"}, opLat |-> 1, issueLat |-> 1]>>

Inst(o, d, s) == [op |-> o, dsts |-> d, srcs |-> s]
Load == Inst("Load", {1}, {})
Add == Inst("Alu", {1}, {1})
Jump == Inst("Branch", {}, {})
Save == Inst("Store", {}, {1})

LoopInsts == {Load, Add, Jump, Save}
Loop ==
  [pc \in 0 .. 7 |-> CASE pc = 0 -> Load [] pc \in {1, 2} -> Add
                       [] pc \in {4, 5} -> Save [] OTHER -> Jump]
LoopTargets ==
  [pc \in 0 .. 7 |-> CASE pc = 3 -> {0, 4} [] pc = 6 -> {1, 7} [] pc = 7 -> {0}
                       [] OTHER -> {}]
=============================================================================
