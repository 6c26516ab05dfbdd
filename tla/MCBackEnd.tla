----------------------------- MODULE MCBackEnd -----------------------------
(* The back end on small instances, for TLC.                               *)
EXTENDS BackEnd

(* The pool of BaseCClassCPU.py: two integer units and the memory unit ... *)
Pool ==
  <<[ops |-> {"Alu", "Branch"}, opLat |-> 1, issueLat |-> 1],
    [ops |-> {"Alu", "Branch"}, opLat |-> 1, issueLat |-> 1],
    [ops |-> {"Load", "Store"}, opLat |-> 1, issueLat |-> 1]>>

(* ... and the slow ones, with latencies 3, 9 and 6 cut down to 2, 4, 3.   *)
LongPool ==
  Pool \o <<[ops |-> {"Mul"}, opLat |-> 2, issueLat |-> 1],
            [ops |-> {"Div"}, opLat |-> 4, issueLat |-> 4],
            [ops |-> {"Float"}, opLat |-> 3, issueLat |-> 1]>>

Inst(o, d, s) == [op |-> o, dsts |-> d, srcs |-> s]

StraightLine ==
  {Inst("Alu", {1}, {1}), Inst("Alu", {2}, {1}), Inst("Load", {1}, {2}),
   Inst("Store", {}, {1})}

(* Every unit but the divider, each reading what another writes.           *)
EveryUnit ==
  {Inst("Alu", {1}, {1}), Inst("Mul", {2}, {1}), Inst("Float", {1}, {2}),
   Inst("Load", {1}, {2}), Inst("Store", {}, {1}), Inst("NoCost", {}, {})}

MulsAndDivs == {Inst("Mul", {}, {}), Inst("Div", {}, {})}

Branching ==
  {Inst("Alu", {1}, {1}), Inst("Branch", {}, {1}), Inst("Load", {2}, {})}

(* Without dependences.                                                    *)
Independent == {Inst("Alu", {}, {}), Inst("Load", {}, {})}
IndependentBranching == Independent \cup {Inst("Branch", {}, {})}

Dependent ==
  {Inst("Alu", {1}, {1}), Inst("Load", {1}, {}), Inst("Store", {}, {1})}

Faulting ==
  {Inst("Alu", {1}, {1}), Inst("FetchFault", {}, {}), Inst("Load", {1}, {}),
   Inst("Branch", {}, {})}
=============================================================================
