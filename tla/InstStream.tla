----------------------------- MODULE InstStream -----------------------------
(***************************************************************************)
(* What the front end as a whole promises Execute: the instructions of one *)
(* stream in the order of their addresses, starting where the branch that  *)
(* opened the stream points, none missing and none twice, until a line     *)
(* faults or the next branch opens a new stream.                           *)
(***************************************************************************)
EXTENDS Naturals

CONSTANTS NumWords, Compressed, MaxStream

VARIABLES stream,   \* the current stream
          next      \* the pc of its next instruction; AnyPc after a fault

Addr == 0 .. (2 * NumWords - 1)
AnyPc == 2 * NumWords

Following(pc) == (pc + (IF pc \in Compressed THEN 1 ELSE 2)) % (2 * NumWords)

Init == stream = 1 /\ next \in Addr

Deliver ==
  /\ UNCHANGED stream
  /\ next' \in IF next = AnyPc THEN Addr \cup {AnyPc}
               ELSE {Following(next), AnyPc}

Branch ==
  /\ stream' \in (stream + 1) .. MaxStream
  /\ next' \in Addr

Next == Deliver \/ Branch

Spec == Init /\ [][Next]_<<stream, next>>
=============================================================================
