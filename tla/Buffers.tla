------------------------------ MODULE Buffers ------------------------------
(***************************************************************************)
(* The storage classes the pipeline stages are joined with                 *)
(* (cpu/buffers.hh): the latch between two stages and the stage input      *)
(* buffer, whose slots are reserved by the producer one latch delay before *)
(* they are filled.                                                        *)
(*                                                                         *)
(* A wire of a latch is a sequence of length 0 (a bubble) or 1.  An input  *)
(* buffer is a record                                                      *)
(*   queue     the entries of the std::deque,                              *)
(*   elem      the element setTail() refers to while the queue is empty,   *)
(*             as a sequence of length 0 (NULL) or 1,                      *)
(*   reserved  numReservedSlots.                                           *)
(***************************************************************************)
EXTENDS Naturals, Sequences

Bubble == <<>>
Wire(S) == {Bubble} \cup {<<x>> : x \in S}
LatchOf(S) == [in : Wire(S), out : Wire(S)]
BufferOf(S) == [queue : Seq(S), elem : Wire(S), reserved : Nat]

(* Latch of delay 1: stages read .out and write .in; evaluate() moves the  *)
(* written value to the reader and leaves a bubble to be overwritten.      *)
EmptyLatch == [in |-> Bubble, out |-> Bubble]
Drive(l, x) == [l EXCEPT !.in = <<x>>]
Clock(l) == [in |-> Bubble, out |-> l.in]

EmptyBuffer == [queue |-> <<>>, elem |-> Bubble, reserved |-> 0]

(* Mutant: the space left is counted one too many. *)
CanReserveOneMore(b, capacity) == Len(b.queue) + b.reserved <= capacity

(* unreservedRemainingSpace() # 0. *)
CanReserve(b, capacity) == Len(b.queue) + b.reserved < capacity
Reserve(b) == [b EXCEPT !.reserved = @ + 1]
FreeReservation(b) == [b EXCEPT !.reserved = IF @ # 0 THEN @ - 1 ELSE @]

(* Queue::push takes one reservation with it, if there is one. *)
Push(b, x) == [FreeReservation(b) EXCEPT !.queue = Append(@, x)]

(* InputBuffer: an element that meets an empty queue is only pointed to    *)
(* until PushTail; a Pop in between gives its reservation back.            *)
SetTail(b, wire) ==
  IF wire = Bubble THEN b
  ELSE IF b.queue = <<>> THEN [b EXCEPT !.elem = wire] ELSE Push(b, wire[1])

PushTail(b) ==
  IF b.elem = Bubble THEN b ELSE [Push(b, b.elem[1]) EXCEPT !.elem = Bubble]

Contents(b) == b.elem \o b.queue
IsEmpty(b) == b.elem = Bubble /\ b.queue = <<>>
Front(b) == IF b.elem # Bubble THEN b.elem[1] ELSE b.queue[1]

Pop(b) ==
  IF b.elem # Bubble THEN [FreeReservation(b) EXCEPT !.elem = Bubble]
  ELSE [b EXCEPT !.queue = Tail(@)]

(* popInput() of the stages. *)
PopInput(b) == IF IsEmpty(b) THEN b ELSE Pop(b)

(* Mutant: "if" for "while". *)
PopOnce(b) == PopInput(b)

(* The loop "while not empty: pop". *)
PopAll(b) ==
  [IF b.elem # Bubble THEN FreeReservation(b) ELSE b
     EXCEPT !.elem = Bubble, !.queue = <<>>]
=============================================================================
