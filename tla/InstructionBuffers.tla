------------------------ MODULE InstructionBuffers ------------------------
(***************************************************************************)
(* The input buffers of Memory and Writeback (InstructionInputBuffer in    *)
(* cpu/buffers.hh) with the index their reader keeps into the front packet *)
(* (MemoryThreadInfo, WritebackThreadInfo).  A packet is what a stage      *)
(* writes into a latch in one cycle: a sequence of execSeqNums, empty for  *)
(* a bubble.  Slots are counted in instructions, not in packets.           *)
(***************************************************************************)
EXTENDS Naturals, Sequences

(* isBubble() of a CClassDynInst: execSeqNum 0. *)
NoInst == 0

EmptyIsb == [queue |-> <<>>, reserved |-> 0, occupied |-> 0, index |-> 0]

(* Mutant: the reserved slots are forgotten. *)
CanReserveEntryUnreserved(b, capacity) == b.occupied < capacity

CanReserveEntry(b, capacity) == b.reserved + b.occupied < capacity

(* Mutant: the slot is not reserved. *)
ReserveNothing(b) == b

ReserveEntry(b) == [b EXCEPT !.reserved = @ + 1]

(* Mutant: the packet takes slots, and gives no reservations back. *)
PushKeepingReservations(b, packet) ==
  IF packet = <<>> THEN b
  ELSE [b EXCEPT !.queue = Append(@, packet), !.occupied = @ + Len(packet)]

(* Mutant: the packet is pushed at the wrong end of the deque. *)
PushAtFront(b, packet) ==
  IF packet = <<>> THEN b
  ELSE [b EXCEPT !.queue = <<packet>> \o @,
                 !.reserved = @ - Len(packet),
                 !.occupied = @ + Len(packet)]

(* setTail() of a wire that may be a bubble. *)
PushPacket(b, packet) ==
  IF packet = <<>> THEN b
  ELSE [b EXCEPT !.queue = Append(@, packet),
                 !.reserved = @ - Len(packet),
                 !.occupied = @ + Len(packet)]

(* The order buffer of Writeback: nobody reserves in it, so its unsigned   *)
(* count of reservations wraps; nobody reads that count.                   *)
PushUnreserved(b, packet) ==
  IF packet = <<>> THEN b
  ELSE [b EXCEPT !.queue = Append(@, packet), !.occupied = @ + Len(packet)]

PopPacket(b) ==
  IF b.queue = <<>> THEN b
  ELSE [b EXCEPT !.queue = Tail(@), !.occupied = @ - Len(Head(b.queue))]

(* resetConsumedInputs() of one buffer. *)
ResetConsumed(b) ==
  IF b.queue # <<>> /\ b.index >= Len(Head(b.queue))
  THEN [PopPacket(b) EXCEPT !.index = 0] ELSE b

(* The entry the reader looks at. *)
FrontEntry(b) ==
  IF b.queue # <<>> /\ b.index < Len(Head(b.queue))
  THEN Head(b.queue)[b.index + 1] ELSE NoInst

ConsumeEntry(b) == [b EXCEPT !.index = @ + 1]

(* containsExecSeqNum() of any packet of the buffer. *)
ContainsExecSeqNum(b, num) ==
  \E i \in 1 .. Len(b.queue) :
    \E j \in 1 .. Len(b.queue[i]) : b.queue[i][j] = num
=============================================================================
