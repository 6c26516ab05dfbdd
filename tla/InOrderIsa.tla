----------------------------- MODULE InOrderIsa -----------------------------
(***************************************************************************)
(* What the processor promises the program: its instructions are executed  *)
(* one at a time, each where the one before it leads.                      *)
(***************************************************************************)
EXTENDS Naturals

CONSTANTS
  Pc,           \* addresses
  Entry,        \* where execution starts
  Successors    \* where the instruction at an address may lead

VARIABLES
  count,        \* instructions executed
  last,         \* the address of the last one
  pc            \* the address of the next one

Init ==
  /\ count = 0
  /\ last = Entry
  /\ pc = Entry

Step ==
  /\ count' = count + 1
  /\ last' = pc
  /\ pc' \in Successors[pc]

Spec == Init /\ [][Step]_<<count, last, pc>>
=============================================================================
