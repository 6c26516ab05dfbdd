--------------------------- MODULE PipelineProofs ---------------------------
(***************************************************************************)
(* What holds of the whole pipeline for every program: each of its steps   *)
(* is one the front end allows and one the back end allows, so that what   *)
(* is proved of each holds of the two together; between two cycles they    *)
(* agree on all they share; and what they retire is an execution of the    *)
(* program.                                                                *)
(***************************************************************************)
EXTENDS CClassPipeline, BackEndPath

-----------------------------------------------------------------------------
(* The two ends of the pipeline.                                           *)

(* The parameters of the front end are those it asks for.                  *)
LEMMA FrontEndParameters ==
  /\ FetchLimit \in Nat \ {0} /\ Fetch2BufferSize \in Nat \ {0}
  /\ DecodeBufferSize \in Nat \ {0} /\ ExecuteBufferSize \in Nat \ {0}
  /\ NumWords \in Nat \ {0} /\ Compressed \subseteq 0 .. (2 * NumWords - 1)
  /\ MaxInst + 1 \in Nat \ {0}
  /\ {FALSE} \subseteq BOOLEAN /\ {FALSE} # {}
BY PipelineAssumption, BackEndAssumption DEF FE!Addr

(* Every step of the pipeline is a step of the back end, or none of its    *)
(* business.                                                               *)
LEMMA StepsOfTheBackEnd ==
  ASSUME [PipelineNext]_pipelineVars
  PROVE  [Next]_vars
<1>1. CASE BackEndSteps
  BY <1>1 DEF BackEndSteps, Next, Cycle
<1>2. CASE ExecuteEnds
  BY <1>2 DEF ExecuteEnds, Next, Cycle
<1>3. CASE Decodes
  BY <1>3 DEF Decodes, Next, Cycle
<1>4. CASE FrontEndSteps
  BY <1>4 DEF FrontEndSteps
<1>5. CASE Callbacks
  BY <1>5 DEF Callbacks, FrontCallback, BackCallback, Next
<1>6. CASE Crashed \/ UNCHANGED pipelineVars
  BY <1>6 DEF Crashed, pipelineVars
<1>7. QED BY <1>1, <1>2, <1>3, <1>4, <1>5, <1>6 DEF PipelineNext, Evaluate

(* Every step of the pipeline is a step of the front end, or none of its   *)
(* business.                                                               *)
LEMMA StepsOfTheFrontEnd ==
  ASSUME [PipelineNext]_pipelineVars
  PROVE  [FE!Next]_FE!vars
<1>1. UNCHANGED frontVars => UNCHANGED FE!vars
  BY DEF frontVars, FE!vars
<1>2. CASE BackEndSteps
  BY <1>1, <1>2 DEF BackEndSteps
<1>3. CASE ExecuteEnds
  <2>1. CASE FrontEndDone
    BY <1>1, <1>3, <2>1 DEF ExecuteEnds
  <2>2. CASE ~FrontEndDone
    <3> DEFINE c == Len(Contents(FE!ExecuteInput)) > Len(Contents(executeIn))
    <3>1. c \in BOOLEAN /\ FE!ExecuteEvaluate(c)
      BY <1>3, <2>2 DEF ExecuteEnds
    <3> HIDE DEF c
    <3>2. QED BY <3>1 DEF FE!Next, FE!Evaluate
  <2>3. QED BY <2>1, <2>2
<1>4. CASE Decodes
  BY <1>4 DEF Decodes, FE!Next, FE!Evaluate
<1>5. CASE FrontEndSteps
  BY <1>5 DEF FrontEndSteps, FE!Next, FE!Evaluate
<1>6. CASE Callbacks
  BY <1>1, <1>6 DEF Callbacks, FrontCallback, BackCallback, FE!Next
<1>7. CASE Crashed \/ UNCHANGED pipelineVars
  BY <1>1, <1>7 DEF Crashed, pipelineVars
<1>8. QED BY <1>2, <1>3, <1>4, <1>5, <1>6, <1>7 DEF PipelineNext, Evaluate

(* BackEnd stands for the front end by a Decode that may deliver anything: *)
(* what is proved of that holds of the pipeline.                           *)
THEOREM PipelineRunsTheBackEnd == PipelineSpec => Spec
<1>1. PipelineInit => Init
  BY DEF PipelineInit
<1>2. [PipelineNext]_pipelineVars => [Next]_vars
  BY StepsOfTheBackEnd
<1>3. QED BY <1>1, <1>2, PTL DEF PipelineSpec, Spec

(* FrontEnd stands for the back end by an Execute that may consume and     *)
(* branch as it likes: what is proved of that holds of the pipeline.       *)
THEOREM PipelineRunsTheFrontEnd == PipelineSpec => FE!Spec
<1>1. PipelineInit => FE!Init
  BY DEF PipelineInit
<1>2. [PipelineNext]_pipelineVars => [FE!Next]_FE!vars
  BY StepsOfTheFrontEnd
<1>3. QED BY <1>1, <1>2, PTL DEF PipelineSpec, FE!Spec

(* So its invariants are the pipeline's.                                   *)
LEMMA BothEndsKept == PipelineSpec => []IInv /\ []FE!IInv /\ []FE!Conveyed
<1>1. Spec => []IInv
  BY Invariance
<1>2. FE!Spec => []FE!IInv
  BY FrontEndParameters, FE!Invariance DEF FE!Invariance
<1>3. FE!Spec => []FE!Conveyed
  BY FrontEndParameters, FE!ConveysOneStream DEF FE!ConveysOneStream
<1>4. QED
  BY <1>1, <1>2, <1>3, PipelineRunsTheBackEnd, PipelineRunsTheFrontEnd, PTL
-----------------------------------------------------------------------------
(* What the two ends share, step by step.                                  *)

(* A queue of Execute's input as the front end sees it.                    *)
Image(b) ==
  [queue |-> AsFetched(b.queue), elem |-> AsFetched(b.elem),
   reserved |-> b.reserved]

StreamsOf(w) == [i \in 1 .. Len(w) |-> w[i].stream]

(* fetched tells for each instruction what the front end has delivered.    *)
Recorded ==
  /\ fetched \in Seq(FE!Inst) /\ Len(fetched) = Len(insts)
  /\ \A n \in 1 .. Len(insts) : fetched[n].stream = insts[n].stream

(* The bound is reached, or nothing more is said.                          *)
Stopped == FrontEndDone \/ phase = "crashed"

(* The stages of the back end that evaluate while the front end is where   *)
(* it is.                                                                  *)
InStep ==
  CASE frontPhase = "execute" -> phase \in {"writeback", "memory", "execute", "push"}
    [] frontPhase = "decode" -> phase = "decode"
    [] OTHER -> phase = "writeback"

(* While issue() has been done by the back end only, its input may be one  *)
(* shorter.                                                                *)
SameInput ==
  IF phase = "push"
  THEN \/ FE!ExecuteInput = Image(executeIn)
       \/ /\ ~FE!IsEmpty(FE!ExecuteInput)
          /\ FE!PopInput(FE!ExecuteInput) = Image(executeIn)
  ELSE frontExecuteIn = Image(executeIn)

SameDelivery ==
  /\ frontPhase = "execute" => frontDToE.out = AsFetched(dToE)
  /\ frontPhase \in {"fetch2", "fetch1", "clock"} =>
       frontDToE.in = AsFetched(dToE)

(* Branches are shown to the front end when trytoPush() is through.        *)
SameStreams ==
  IF phase = "push"
  THEN /\ execute.draining <=> branch.in # Bubble
       /\ execute.streamSeqNum =
            (IF branch.in = Bubble THEN frontExecute.streamSeqNum ELSE branch.in[1])
  ELSE /\ execute.draining = frontExecute.draining
       /\ execute.streamSeqNum = frontExecute.streamSeqNum

SameBranches ==
  /\ frontPhase \in {"execute", "decode"} => branch.out = StreamsOf(frontBranch.out)
  /\ frontPhase = "decode" => branch.in = StreamsOf(frontBranch.in)
  /\ frontPhase \notin {"execute", "decode"} =>
       branch.out = StreamsOf(frontBranch.in)
  /\ frontPhase # "decode" /\ phase # "push" => branch.in = Bubble

(* Decode delivers the stream Fetch2 is on; it hears of a branch first.    *)
SameSupply ==
  supply = IF frontPhase = "fetch2" /\ frontBranch.out # Bubble
           THEN frontBranch.out[1].stream ELSE FE!Now

Shared ==
  /\ InStep
  /\ SameInput
  /\ SameDelivery
  /\ SameStreams
  /\ SameBranches
  /\ SameSupply

Joint == Recorded /\ (Stopped \/ Shared)

(* A stage of the front end writes its latch once a cycle.                 *)
EachOnce ==
  /\ frontBranch.in # Bubble => frontPhase # "execute"
  /\ frontDToE.in # Bubble => frontPhase \in {"fetch2", "fetch1", "clock"}

(* The front end: its types as far as it shares them, and its stream.      *)
FrontKept ==
  /\ frontPhase \in {"execute", "decode", "fetch2", "fetch1", "clock"}
  /\ frontExecuteIn \in BufferOf(FE!Inst)
  /\ frontExecute \in [streamSeqNum : FE!Stream, draining : BOOLEAN,
                       issued : BOOLEAN, expect : FE!Addr \cup {FE!AnyPc}]
  /\ frontDToE \in LatchOf(FE!Inst)
  /\ frontBranch \in LatchOf(FE!BranchData)
  /\ EachOnce
  /\ FE!NextFetch.stream = FE!Now
  /\ FE!InstsOf(FE!Now) \subseteq FE!Inst
  /\ \A x \in FE!InstsOf(FE!Now) : x.stream = FE!Now
  /\ frontDToE.in \in Wire(FE!InstsOf(FE!Now))

-----------------------------------------------------------------------------
(* Queues and buffers, as the two ends see them.                           *)

(* The instructions behind a queue of numbers.                             *)
LEMMA ImageOfQueue ==
  ASSUME NEW S \in SUBSET Nat, NEW q \in Seq(S)
  PROVE  LET f == AsFetched(q)
             T == {fetched[n] : n \in S}
         IN  /\ f \in Seq(T) /\ Len(f) = Len(q)
             /\ \A i \in 1 .. Len(q) : f[i] = fetched[q[i]]
             /\ f = <<>> <=> q = <<>>
             /\ q # <<>> => AsFetched(Tail(q)) = Tail(f)
<1> DEFINE f == AsFetched(q)
           T == {fetched[n] : n \in S}
           l == Len(q)
<1>1. /\ l \in Nat /\ f = [i \in 1 .. l |-> fetched[q[i]]]
      /\ \A i \in 1 .. l : q[i] \in S
  BY DEF AsFetched
<1>2. /\ f \in Seq(T) /\ Len(f) = l
      /\ \A i \in 1 .. l : f[i] = fetched[q[i]]
  <2>1. \A i \in 1 .. l : fetched[q[i]] \in T
    BY <1>1
  <2> HIDE DEF T, l
  <2>2. QED BY <1>1, <2>1
<1>3. f = <<>> <=> q = <<>>
  <2>1. (f = <<>> <=> Len(f) = 0) /\ (q = <<>> <=> Len(q) = 0)
    <3> HIDE DEF f, T
    <3>1. QED BY <1>2
  <2>2. QED BY <1>2, <2>1
<1>4. q # <<>> => AsFetched(Tail(q)) = Tail(f)
  <2> SUFFICES ASSUME q # <<>> PROVE AsFetched(Tail(q)) = Tail(f)
    OBVIOUS
  <2>1. /\ Tail(q) \in Seq(S) /\ Len(Tail(q)) = l - 1 /\ l > 0
        /\ \A i \in 1 .. l - 1 : Tail(q)[i] = q[i + 1]
    OBVIOUS
  <2>2. /\ Tail(f) \in Seq(T) /\ Len(Tail(f)) = l - 1
        /\ \A i \in 1 .. l - 1 : Tail(f)[i] = f[i + 1]
    <3>1. f # <<>>
      BY <1>3
    <3> HIDE DEF f, T
    <3>2. QED BY <1>2, <3>1
  <2>3. AsFetched(Tail(q)) = [i \in 1 .. l - 1 |-> fetched[q[i + 1]]]
    BY <2>1 DEF AsFetched
  <2> DEFINE h == AsFetched(Tail(q))
             k == l - 1
  <2>4. /\ h \in Seq(T) /\ Len(h) = k
        /\ \A i \in 1 .. k : h[i] = fetched[q[i + 1]]
    <3>1. \A i \in 1 .. k : fetched[q[i + 1]] \in T
      <4>1. \A i \in 1 .. k : q[i + 1] \in S
        BY <1>1
      <4>2. QED BY <4>1
    <3>2. k \in Nat
      BY <2>1
    <3> HIDE DEF T, k
    <3>3. QED BY <2>3, <3>1, <3>2 DEF k
  <2>5. \A i \in 1 .. k : Tail(f)[i] = h[i]
    <3>1. \A i \in 1 .. k : i + 1 \in 1 .. l
      BY <1>1
    <3>2. QED BY <1>2, <2>2, <2>4, <3>1
  <2> DEFINE g == Tail(f)
  <2> HIDE DEF f, T, g, h, k
  <2>6. g \in Seq(T) /\ Len(g) = k /\ \A i \in 1 .. k : g[i] = h[i]
    BY <2>2, <2>5 DEF g, k
  <2>7. g = h
    BY <2>4, <2>6, SeqEqual
  <2>8. QED BY <2>7 DEF g, h, f
<1>5. QED BY <1>2, <1>3, <1>4

(* One more instruction, and one alone.                                    *)
LEMMA ImageOfOne ==
  ASSUME NEW S \in SUBSET Nat, NEW q \in Seq(S), NEW n \in S
  PROVE  /\ AsFetched(<<n>>) = <<fetched[n]>> /\ AsFetched(<<>>) = <<>>
         /\ AsFetched(Append(q, n)) = Append(AsFetched(q), fetched[n])
<1> DEFINE f == AsFetched(q)
           l == Len(q)
           T == {fetched[m] : m \in S}
<1>1. AsFetched(<<n>>) = <<fetched[n]>>
  <2>1. Len(<<n>>) = 1 /\ <<n>>[1] = n /\ 1 .. 1 = {1}
    OBVIOUS
  <2>2. AsFetched(<<n>>) = [i \in 1 .. 1 |-> fetched[<<n>>[i]]]
    BY <2>1 DEF AsFetched
  <2>3. \A i \in 1 .. 1 : fetched[<<n>>[i]] = fetched[n]
    BY <2>1
  <2>4. AsFetched(<<n>>) = [i \in 1 .. 1 |-> fetched[n]]
    BY <2>2, <2>3
  <2>5. <<fetched[n]>> = [i \in 1 .. 1 |-> fetched[n]]
    OBVIOUS
  <2>6. QED BY <2>4, <2>5
<1>2. AsFetched(<<>>) = <<>>
  BY ImageOfQueue, EmptySeq
<1>3. AsFetched(Append(q, n)) = Append(f, fetched[n])
  <2>1. /\ Append(q, n) \in Seq(S) /\ Len(Append(q, n)) = l + 1 /\ l \in Nat
        /\ \A i \in 1 .. l : Append(q, n)[i] = q[i]
        /\ Append(q, n)[l + 1] = n
    OBVIOUS
  <2>2. f \in Seq(T) /\ Len(f) = l /\ \A i \in 1 .. l : f[i] = fetched[q[i]]
    BY ImageOfQueue
  <2> DEFINE g == Append(f, fetched[n])
             h == AsFetched(Append(q, n))
  <2>3. /\ g \in Seq(T) /\ Len(g) = l + 1
        /\ \A i \in 1 .. l : g[i] = f[i]
        /\ g[l + 1] = fetched[n]
    <3>1. fetched[n] \in T
      OBVIOUS
    <3> HIDE DEF f, T
    <3>2. QED BY <2>2, <3>1, AppendProperties
  <2>4. /\ h \in Seq(T) /\ Len(h) = l + 1
        /\ \A i \in 1 .. l + 1 : h[i] = fetched[Append(q, n)[i]]
    BY <2>1, ImageOfQueue
  <2>5. \A i \in 1 .. l + 1 : g[i] = h[i]
    <3> SUFFICES ASSUME NEW i \in 1 .. l + 1 PROVE g[i] = h[i]
      OBVIOUS
    <3>1. i \in 1 .. l \/ i = l + 1
      BY <2>1
    <3> HIDE DEF f, T, g, h
    <3>2. QED BY <2>1, <2>2, <2>3, <2>4, <3>1
  <2> HIDE DEF f, T, g, h
  <2>6. g = h
    BY <2>1, <2>3, <2>4, <2>5, SeqEqual
  <2>7. QED BY <2>6 DEF g, h, f
<1>4. QED BY <1>1, <1>2, <1>3

(* A buffer by its fields, and a reservation that is taken back.           *)
Fields(q, e, n) == [queue |-> q, elem |-> e, reserved |-> n]
LessOne(n) == IF n # 0 THEN n - 1 ELSE n

(* The operators of Buffers, by the fields.                                *)
LEMMA BufferFieldsAfter ==
  ASSUME NEW q, NEW e, NEW n
  PROVE  LET c == Fields(q, e, n)
         IN  /\ IsEmpty(c) <=> e = <<>> /\ q = <<>>
             /\ e # <<>> => /\ PopInput(c) = Fields(q, <<>>, LessOne(n))
                            /\ PopAll(c) = Fields(<<>>, <<>>, LessOne(n))
                            /\ PushTail(c) =
                                 Fields(Append(q, e[1]), <<>>, LessOne(n))
             /\ e = <<>> => /\ q # <<>> => PopInput(c) = Fields(Tail(q), e, n)
                            /\ q = <<>> => PopInput(c) = c
                            /\ PopAll(c) = Fields(<<>>, <<>>, n)
                            /\ PushTail(c) = c
             /\ Reserve(c) = Fields(q, e, n + 1)
<1> DEFINE c == Fields(q, e, n)
<1>1. FreeReservation(c) = Fields(q, e, LessOne(n))
  BY DEF FreeReservation, Fields, LessOne
<1>2. IsEmpty(c) <=> e = <<>> /\ q = <<>>
  BY DEF IsEmpty, Bubble, Fields
<1>3. Reserve(c) = Fields(q, e, n + 1)
  BY DEF Reserve, Fields
<1>4. c.elem = e /\ c.queue = q
  BY DEF Fields
<1>5. ASSUME NEW m, NEW d, d = Fields(q, e, m)
      PROVE  [d EXCEPT !.elem = <<>>, !.queue = <<>>] = Fields(<<>>, <<>>, m)
  <2> DEFINE f == [d EXCEPT !.elem = <<>>]
  <2>1. [d EXCEPT !.elem = <<>>, !.queue = <<>>] = [f EXCEPT !.queue = <<>>]
    BY Zenon DEF f
  <2>2. f = Fields(q, <<>>, m)
    BY <1>5 DEF Fields
  <2> HIDE DEF f
  <2>3. [f EXCEPT !.queue = <<>>] = Fields(<<>>, <<>>, m)
    BY <2>2 DEF Fields
  <2>4. QED BY <2>1, <2>3
<1>6. ASSUME e # <<>>
      PROVE  /\ PopInput(c) = Fields(q, <<>>, LessOne(n))
             /\ PopAll(c) = Fields(<<>>, <<>>, LessOne(n))
             /\ PushTail(c) = Fields(Append(q, e[1]), <<>>, LessOne(n))
  <2> DEFINE d == FreeReservation(c)
             p == Append(q, e[1])
             f == [d EXCEPT !.queue = p]
  <2>1. PopInput(c) = [d EXCEPT !.elem = <<>>]
    BY <1>2, <1>4, <1>6 DEF PopInput, Pop, Bubble
  <2>2. PopAll(c) = [d EXCEPT !.elem = <<>>, !.queue = <<>>]
    BY <1>4, <1>6 DEF PopAll, Bubble
  <2>3. PushTail(c) = [Push(c, e[1]) EXCEPT !.elem = <<>>]
    BY <1>4, <1>6 DEF PushTail, Bubble
  <2>4. d = Fields(q, e, LessOne(n)) /\ d.queue = q
    BY <1>1 DEF Fields
  <2>5. Push(c, e[1]) = [d EXCEPT !.queue = Append(d.queue, e[1])]
    BY DEF Push
  <2> HIDE DEF d, p
  <2>6. PopInput(c) = Fields(q, <<>>, LessOne(n))
    BY <2>1, <2>4 DEF Fields
  <2>7. f = Fields(p, e, LessOne(n))
    BY <2>4 DEF Fields
  <2>8. Push(c, e[1]) = f
    BY <2>4, <2>5 DEF p
  <2> HIDE DEF f
  <2>9. [f EXCEPT !.elem = <<>>] = Fields(p, <<>>, LessOne(n))
    BY <2>7 DEF Fields
  <2>10. PushTail(c) = Fields(p, <<>>, LessOne(n))
    BY <2>3, <2>8, <2>9
  <2>11. PopAll(c) = Fields(<<>>, <<>>, LessOne(n))
    <3>1. [d EXCEPT !.elem = <<>>, !.queue = <<>>] = Fields(<<>>, <<>>, LessOne(n))
      BY <1>5, <2>4
    <3>2. QED BY <2>2, <3>1
  <2>12. QED BY <2>6, <2>10, <2>11 DEF p
<1>7. ASSUME e = <<>>
      PROVE  /\ q # <<>> => PopInput(c) = Fields(Tail(q), e, n)
             /\ q = <<>> => PopInput(c) = c
             /\ PopAll(c) = Fields(<<>>, <<>>, n)
             /\ PushTail(c) = c
  <2>1. q # <<>> => PopInput(c) = [c EXCEPT !.queue = Tail(q)]
    BY <1>2, <1>4, <1>7 DEF PopInput, Pop, Bubble
  <2> DEFINE t == Tail(q)
  <2>2. [c EXCEPT !.queue = t] = Fields(t, e, n)
    <3> HIDE DEF t
    <3>1. QED BY DEF Fields
  <2>3. PopAll(c) = [c EXCEPT !.elem = <<>>, !.queue = <<>>]
    BY <1>4, <1>7 DEF PopAll, Bubble
  <2>4. PopAll(c) = Fields(<<>>, <<>>, n)
    <3>1. [c EXCEPT !.elem = <<>>, !.queue = <<>>] = Fields(<<>>, <<>>, n)
      BY <1>5
    <3>2. QED BY <2>3, <3>1
  <2>5. PushTail(c) = c /\ (q = <<>> => PopInput(c) = c)
    BY <1>2, <1>4, <1>7 DEF PushTail, PopInput, Bubble
  <2>6. QED BY <2>1, <2>2, <2>4, <2>5
<1>8. QED BY <1>2, <1>3, <1>6, <1>7

(* setTail of a packet, as far as the queue is concerned.                *)
LEMMA BufferFieldsTail ==
  ASSUME NEW q, NEW e, NEW n, NEW w
  PROVE  LET c == Fields(q, e, n)
         IN  /\ w = <<>> => SetTail(c, w) = c
             /\ w # <<>> /\ q = <<>> => SetTail(c, w) = Fields(q, w, n)
             /\ w # <<>> /\ q # <<>> =>
                  SetTail(c, w) = Fields(Append(q, w[1]), e, LessOne(n))
<1> DEFINE c == Fields(q, e, n)
<1>1. FreeReservation(c) = Fields(q, e, LessOne(n))
  BY DEF FreeReservation, Fields, LessOne
<1>2. c.queue = q /\ [c EXCEPT !.elem = w] = Fields(q, w, n)
  BY DEF Fields
<1>3. [Fields(q, e, LessOne(n)) EXCEPT !.queue = Append(@, w[1])]
        = Fields(Append(q, w[1]), e, LessOne(n))
  BY DEF Fields
<1>4. QED BY <1>1, <1>2, <1>3 DEF SetTail, Push, Bubble

(* The front end has them from the same module.                            *)
LEMMA SameOperators ==
  ASSUME NEW c
  PROVE  /\ FE!IsEmpty(c) = IsEmpty(c) /\ FE!PopInput(c) = PopInput(c)
         /\ FE!PopAll(c) = PopAll(c) /\ FE!PushTail(c) = PushTail(c)
         /\ FE!Reserve(c) = Reserve(c) /\ FE!Bubble = Bubble
         /\ FE!Contents(c) = Contents(c)
         /\ \A w : FE!SetTail(c, w) = SetTail(c, w)
BY DEF FE!IsEmpty, IsEmpty, FE!PopInput, PopInput, FE!Pop, Pop, FE!PopAll, PopAll,
       FE!PushTail, PushTail, FE!Reserve, Reserve, FE!SetTail, SetTail,
       FE!Push, Push, FE!FreeReservation, FreeReservation, FE!Bubble, Bubble,
       FE!Contents, Contents

(* A buffer, and its image, by the fields.                                 *)
LEMMA ImageFields ==
  /\ \A b \in BufferFields : b = Fields(b.queue, b.elem, b.reserved)
  /\ \A q, e, n : Image(Fields(q, e, n)) = Fields(AsFetched(q), AsFetched(e), n)
<1>1. ASSUME NEW q, NEW e, NEW n
      PROVE  Image(Fields(q, e, n)) = Fields(AsFetched(q), AsFetched(e), n)
  BY DEF Image, Fields
<1>2. QED BY <1>1 DEF BufferFields, Fields

(* What is on a wire, and what joins a queue from it.                      *)
LEMMA ImageOfWire ==
  ASSUME NEW q \in Seq(Num), NEW w \in Wire(Num)
  PROVE  LET v == AsFetched(w)
         IN  \/ w = <<>> /\ v = <<>>
             \/ /\ w # <<>> /\ v # <<>>
                /\ AsFetched(Append(q, w[1])) = Append(AsFetched(q), v[1])
<1> DEFINE v == AsFetched(w)
<1>1. Num \in SUBSET Nat
  BY DEF Num
<1>2. CASE w = <<>>
  BY <1>1, <1>2, ImageOfQueue, EmptySeq
<1>3. CASE w # <<>>
  <2>1. PICK n \in Num : w = <<n>>
    BY <1>3 DEF Wire, Bubble
  <2>2. /\ AsFetched(<<n>>) = <<fetched[n]>>
        /\ AsFetched(Append(q, n)) = Append(AsFetched(q), fetched[n])
    BY <1>1, ImageOfOne
  <2>3. v = <<fetched[n]>> /\ w[1] = n
    BY <2>1, <2>2
  <2>4. v # <<>> /\ v[1] = fetched[n]
    <3> HIDE DEF v
    <3>1. QED BY <2>3
  <2>5. QED BY <1>3, <2>2, <2>3, <2>4
<1>4. QED BY <1>2, <1>3

(* The operators of Buffers do the same on either side.                    *)
LEMMA ImageOfBuffer ==
  ASSUME NEW b \in BufferFields
  PROVE  /\ FE!IsEmpty(Image(b)) <=> IsEmpty(b)
         /\ FE!PopInput(Image(b)) = Image(PopInput(b))
         /\ FE!PopAll(Image(b)) = Image(PopAll(b))
         /\ FE!PushTail(Image(b)) = Image(PushTail(b))
         /\ FE!Reserve(Image(b)) = Image(Reserve(b))
         /\ \A w \in Wire(Num) :
              FE!SetTail(Image(b), AsFetched(w)) = Image(SetTail(b, w))
<1> DEFINE p == b.queue  d == b.elem  n == b.reserved
           q == AsFetched(p)  e == AsFetched(d)
           c == Image(b)
<1>1. /\ p \in Seq(Num) /\ Num \in SUBSET Nat /\ n \in Nat /\ d \in Wire(Num)
  BY DEF BufferFields, Num
<1>2. b = Fields(p, d, n) /\ c = Fields(q, e, n)
  <2>1. b = Fields(p, d, n)
    BY ImageFields
  <2> HIDE DEF p, d, n
  <2>2. QED BY <2>1, ImageFields
<1>3. /\ q = <<>> <=> p = <<>>
      /\ p # <<>> => AsFetched(Tail(p)) = Tail(q)
  BY <1>1, ImageOfQueue
<1>4. AsFetched(<<>>) = <<>>
  BY <1>1, ImageOfQueue, EmptySeq
<1>5. \/ d = <<>> /\ e = <<>>
      \/ d # <<>> /\ e # <<>> /\ AsFetched(Append(p, d[1])) = Append(q, e[1])
  BY <1>1, ImageOfWire
<1> HIDE DEF p, d, n
<1>6. /\ IsEmpty(c) <=> IsEmpty(b)
      /\ Reserve(c) = Image(Reserve(b))
  BY <1>2, <1>3, <1>5, ImageFields, BufferFieldsAfter
<1>7. PopInput(c) = Image(PopInput(b))
  <2>1. CASE d = <<>> /\ p = <<>>
    <3>1. PopInput(c) = c /\ PopInput(b) = b
      BY <1>2, <1>3, <1>5, <2>1, BufferFieldsAfter
    <3>2. QED BY <3>1
  <2>2. CASE d = <<>> /\ p # <<>>
    <3>1. PopInput(c) = Fields(Tail(q), e, n) /\ PopInput(b) = Fields(Tail(p), d, n)
      BY <1>2, <1>3, <1>5, <2>2, BufferFieldsAfter
    <3>2. Image(Fields(Tail(p), d, n)) = Fields(AsFetched(Tail(p)), AsFetched(d), n)
      BY ImageFields
    <3>3. QED BY <1>3, <2>2, <3>1, <3>2
  <2>3. CASE d # <<>>
    <3>1. PopInput(c) = Fields(q, <<>>, LessOne(n)) /\ PopInput(b) = Fields(p, <<>>, LessOne(n))
      BY <1>2, <1>3, <1>5, <2>3, BufferFieldsAfter
    <3>2. QED BY <1>4, <3>1, ImageFields
  <2>4. QED BY <2>1, <2>2, <2>3
<1>8. PopAll(c) = Image(PopAll(b))
  <2>1. CASE d = <<>>
    <3>1. PopAll(c) = Fields(<<>>, <<>>, n) /\ PopAll(b) = Fields(<<>>, <<>>, n)
      BY <1>2, <1>5, <2>1, BufferFieldsAfter
    <3>2. QED BY <1>4, <3>1, ImageFields
  <2>2. CASE d # <<>>
    <3>1. /\ PopAll(c) = Fields(<<>>, <<>>, LessOne(n))
          /\ PopAll(b) = Fields(<<>>, <<>>, LessOne(n))
      BY <1>2, <1>5, <2>2, BufferFieldsAfter
    <3>2. QED BY <1>4, <3>1, ImageFields
  <2>3. QED BY <2>1, <2>2
<1>9. PushTail(c) = Image(PushTail(b))
  <2>1. CASE d = <<>>
    <3>1. PushTail(c) = c /\ PushTail(b) = b
      BY <1>2, <1>5, <2>1, BufferFieldsAfter
    <3>2. QED BY <3>1
  <2>2. CASE d # <<>>
    <3>1. /\ PushTail(c) = Fields(Append(q, e[1]), <<>>, LessOne(n))
          /\ PushTail(b) = Fields(Append(p, d[1]), <<>>, LessOne(n))
      BY <1>2, <1>5, <2>2, BufferFieldsAfter
    <3>2. Image(Fields(Append(p, d[1]), <<>>, LessOne(n)))
            = Fields(AsFetched(Append(p, d[1])), AsFetched(<<>>), LessOne(n))
      BY ImageFields
    <3>3. QED BY <1>4, <1>5, <2>2, <3>1, <3>2
  <2>3. QED BY <2>1, <2>2
<1>10. ASSUME NEW w \in Wire(Num)
       PROVE  SetTail(c, AsFetched(w)) = Image(SetTail(b, w))
  <2> DEFINE v == AsFetched(w)
  <2>1. \/ w = <<>> /\ v = <<>>
        \/ w # <<>> /\ v # <<>> /\ AsFetched(Append(p, w[1])) = Append(q, v[1])
    BY <1>1, ImageOfWire
  <2> HIDE DEF c
  <2>2. CASE w = <<>>
    <3>1. SetTail(c, v) = c /\ SetTail(b, w) = b
      BY <1>2, <2>1, <2>2, BufferFieldsTail
    <3>2. QED BY <3>1 DEF c
  <2>3. CASE w # <<>> /\ p = <<>>
    <3>1. SetTail(c, v) = Fields(q, v, n) /\ SetTail(b, w) = Fields(p, w, n)
      BY <1>2, <1>3, <2>1, <2>3, BufferFieldsTail
    <3>2. QED BY <3>1, ImageFields
  <2>4. CASE w # <<>> /\ p # <<>>
    <3>1. /\ SetTail(c, v) = Fields(Append(q, v[1]), e, LessOne(n))
          /\ SetTail(b, w) = Fields(Append(p, w[1]), d, LessOne(n))
      BY <1>2, <1>3, <2>1, <2>4, BufferFieldsTail
    <3>2. Image(Fields(Append(p, w[1]), d, LessOne(n)))
            = Fields(AsFetched(Append(p, w[1])), AsFetched(d), LessOne(n))
      BY ImageFields
    <3>3. QED BY <2>1, <2>4, <3>1, <3>2
  <2>5. QED BY <2>2, <2>3, <2>4
<1>11. QED BY <1>6, <1>7, <1>8, <1>9, <1>10, SameOperators

(* They stay buffers of what they hold.                                    *)
LEMMA TypedBuffers ==
  ASSUME NEW S, NEW b \in BufferOf(S), NEW w \in Wire(S)
  PROVE  /\ SetTail(b, w) \in BufferOf(S) /\ PopAll(b) \in BufferOf(S)
         /\ PopInput(b) \in BufferOf(S)
<1> DEFINE p == b.queue  d == b.elem  n == b.reserved
<1>1. /\ p \in Seq(S) /\ n \in Nat /\ d \in Wire(S) /\ <<>> \in Wire(S)
      /\ <<>> \in Seq(S)
  BY EmptySeq DEF BufferOf, Wire, Bubble
<1>2. b = Fields(p, d, n)
  BY DEF BufferOf, Fields
<1>3. \A q \in Seq(S), e \in Wire(S), k \in Nat : Fields(q, e, k) \in BufferOf(S)
  BY DEF Fields, BufferOf
<1>4. LessOne(n) \in Nat
  BY <1>1 DEF LessOne
<1>5. p # <<>> => Tail(p) \in Seq(S)
  BY <1>1
<1>6. w # <<>> => Append(p, w[1]) \in Seq(S)
  <2> SUFFICES ASSUME w # <<>> PROVE Append(p, w[1]) \in Seq(S)
    OBVIOUS
  <2>1. w[1] \in S
    BY DEF Wire, Bubble
  <2>2. QED BY <1>1, <2>1
<1> HIDE DEF p, d, n
<1>7. SetTail(b, w) \in BufferOf(S)
  <2>1. CASE w = <<>>
    BY <1>2, <2>1, BufferFieldsTail
  <2>2. CASE w # <<>> /\ p = <<>>
    <3>1. SetTail(b, w) = Fields(p, w, n)
      BY <1>2, <2>2, BufferFieldsTail
    <3>2. QED BY <1>1, <1>3, <3>1
  <2>3. CASE w # <<>> /\ p # <<>>
    <3>1. SetTail(b, w) = Fields(Append(p, w[1]), d, LessOne(n))
      BY <1>2, <2>3, BufferFieldsTail
    <3>2. QED BY <1>1, <1>3, <1>4, <1>6, <2>3, <3>1
  <2>4. QED BY <2>1, <2>2, <2>3
<1>8. PopAll(b) \in BufferOf(S)
  <2>1. PopAll(b) \in {Fields(<<>>, <<>>, LessOne(n)), Fields(<<>>, <<>>, n)}
    BY <1>2, BufferFieldsAfter
  <2>2. QED BY <1>1, <1>3, <1>4, <2>1
<1>9. PopInput(b) \in BufferOf(S)
  <2>1. CASE d # <<>>
    BY <1>1, <1>2, <1>3, <1>4, <2>1, BufferFieldsAfter
  <2>2. CASE d = <<>> /\ p # <<>>
    <3>1. PopInput(b) = Fields(Tail(p), d, n)
      BY <1>2, <2>2, BufferFieldsAfter
    <3>2. QED BY <1>1, <1>3, <1>5, <2>2, <3>1
  <2>3. CASE d = <<>> /\ p = <<>>
    BY <1>2, <2>3, BufferFieldsAfter
  <2>4. QED BY <2>1, <2>2, <2>3
<1>10. QED BY <1>7, <1>8, <1>9

(* The buffers of execSeqNums stay such.                                 *)
LEMMA BuffersTyped ==
  ASSUME NEW b \in BufferFields, NEW w \in Wire(Num)
  PROVE  /\ SetTail(b, w) \in BufferFields /\ PopAll(b) \in BufferFields
         /\ PopInput(b) \in BufferFields
<1>1. BufferFields = BufferOf(Num)
  BY DEF BufferFields, BufferOf
<1>2. QED BY <1>1, TypedBuffers

(* What issue() has taken shows in the length of the input.                *)
LEMMA InputLength ==
  ASSUME NEW S, NEW c \in [queue : Seq(S), elem : Wire(S), reserved : Nat]
  PROVE  /\ Len(Contents(c)) \in Nat
         /\ Len(Contents(c)) = Len(c.elem) + Len(c.queue)
         /\ ~IsEmpty(c) => Len(Contents(PopInput(c))) < Len(Contents(c))
<1> DEFINE q == c.queue  e == c.elem  n == c.reserved
<1>1. q \in Seq(S) /\ e \in Wire(S) /\ n \in Nat /\ c = Fields(q, e, n)
  BY DEF Fields
<1>2. e \in Seq(S)
  <2>1. CASE e = <<>>
    BY <2>1, EmptySeq
  <2>2. CASE e # <<>>
    <3>1. PICK x \in S : e = <<x>>
      BY <1>1, <2>2 DEF Wire, Bubble
    <3>2. <<x>> \in Seq(S)
      OBVIOUS
    <3>3. QED BY <3>1, <3>2
  <2>3. QED BY <2>1, <2>2
<1>3. Contents(c) = e \o q
  BY DEF Contents
<1>4. Len(e \o q) = Len(e) + Len(q) /\ Len(e) \in Nat /\ Len(q) \in Nat
  BY <1>1, <1>2
<1>5. ASSUME ~IsEmpty(c)
      PROVE  Len(Contents(PopInput(c))) < Len(e) + Len(q)
  <2>1. CASE e # <<>>
    <3>1. PopInput(c) = Fields(q, <<>>, LessOne(n))
      BY <1>1, <2>1, BufferFieldsAfter
    <3>2. Contents(PopInput(c)) = <<>> \o q
      BY <3>1 DEF Contents, Fields
    <3>3. <<>> \o q = q
      BY <1>1, ConcatEmptySeq
    <3>4. Len(e) > 0
      BY <1>2, <2>1, EmptySeq
    <3>5. QED BY <1>4, <3>2, <3>3, <3>4
  <2>2. CASE e = <<>>
    <3>1. q # <<>>
      BY <1>5, <2>2 DEF IsEmpty, Bubble
    <3>2. PopInput(c) = Fields(Tail(q), e, n)
      BY <1>1, <2>2, <3>1, BufferFieldsAfter
    <3>3. Contents(PopInput(c)) = <<>> \o Tail(q)
      BY <2>2, <3>2 DEF Contents, Fields
    <3>4. Tail(q) \in Seq(S) /\ Len(Tail(q)) = Len(q) - 1
      BY <1>1, <3>1
    <3>5. <<>> \o Tail(q) = Tail(q)
      BY <3>4, ConcatEmptySeq
    <3>6. Len(e) = 0
      BY <2>2, EmptySeq
    <3>7. QED BY <1>4, <3>3, <3>4, <3>5, <3>6
  <2>3. QED BY <2>1, <2>2
<1>6. QED BY <1>3, <1>4, <1>5

(* The image of a buffer is as long.                                       *)
LEMMA ImageLength ==
  ASSUME NEW b \in BufferFields
  PROVE  /\ Image(b) \in [queue : Seq({fetched[n] : n \in Num}),
                          elem : Wire({fetched[n] : n \in Num}), reserved : Nat]
         /\ Len(Contents(Image(b))) = Len(Contents(b))
<1> DEFINE T == {fetched[n] : n \in Num}
           q == AsFetched(b.queue)
           e == AsFetched(b.elem)
<1>1. /\ b \in [queue : Seq(Num), elem : Wire(Num), reserved : Nat]
      /\ Num \in SUBSET Nat
  BY DEF BufferFields, Num
<1>2. q \in Seq(T) /\ Len(q) = Len(b.queue)
  BY <1>1, ImageOfQueue
<1>3. e \in Wire(T) /\ Len(e) = Len(b.elem)
  <2>1. CASE b.elem = <<>>
    <3>1. e = <<>>
      BY <1>1, <2>1, ImageOfQueue, EmptySeq
    <3>2. QED BY <2>1, <3>1 DEF Wire, Bubble
  <2>2. CASE b.elem # <<>>
    <3>1. PICK n \in Num : b.elem = <<n>>
      BY <1>1, <2>2 DEF Wire, Bubble
    <3>2. e = <<fetched[n]>>
      BY <1>1, <3>1, ImageOfOne
    <3>3. Len(<<fetched[n]>>) = 1 /\ Len(<<n>>) = 1
      OBVIOUS
    <3>4. e \in Wire(T)
      BY <3>2 DEF Wire
    <3>5. QED BY <3>1, <3>2, <3>3, <3>4
  <2>3. QED BY <2>1, <2>2
<1>4. Image(b) = [queue |-> q, elem |-> e, reserved |-> b.reserved]
  BY DEF Image
<1> HIDE DEF T, q, e
<1>5. Image(b) \in [queue : Seq(T), elem : Wire(T), reserved : Nat]
  BY <1>1, <1>2, <1>3, <1>4
<1>6. Len(Contents(Image(b))) = Len(e) + Len(q)
  <2> DEFINE c == Image(b)
  <2>1. c.elem = e /\ c.queue = q
    BY <1>4
  <2> HIDE DEF c
  <2>2. Len(Contents(c)) = Len(c.elem) + Len(c.queue)
    BY <1>5, InputLength DEF c
  <2>3. QED BY <2>1, <2>2 DEF c
<1>7. Len(Contents(b)) = Len(b.elem) + Len(b.queue)
  BY <1>1, InputLength
<1>8. QED BY <1>2, <1>3, <1>5, <1>6, <1>7 DEF T
-----------------------------------------------------------------------------
(* What holds of the front end, as the pipeline needs it.                  *)
LEMMA FrontEndState ==
  ASSUME FE!IInv, FE!Conveyed
  PROVE  FrontKept
<1>1. FE!StreamsKept
  BY DEF FE!Conveyed
<1>2. FE!WrittenOnce /\ FE!OneStream
  BY <1>1 DEF FE!StreamsKept
<1>3. \A S : FE!Wire(S) = Wire(S)
  BY DEF FE!Wire, Wire, FE!Bubble, Bubble
<1>4. frontBranch \in LatchOf(FE!BranchData) /\ frontDToE \in LatchOf(FE!Inst)
  BY <1>3 DEF FE!IInv, FE!LatchesTyped, FE!LatchOf, LatchOf
<1>5. /\ FE!InstsOf(FE!Now) \subseteq FE!Inst
      /\ \A x \in FE!InstsOf(FE!Now) : x.stream = FE!Now
  BY DEF FE!InstsOf
<1>6. /\ FE!InstDue \in Wire(FE!InstsOf(FE!Now)) /\ FE!NextFetch.stream = FE!Now
      /\ frontDToE.in \in Wire(FE!InstsOf(FE!Now))
  BY <1>2, <1>3 DEF FE!OneStream
<1>7. frontExecuteIn \in BufferOf(FE!Inst)
  BY <1>3 DEF FE!IInv, FE!BuffersSettled, FE!Settled, FE!BufferOf, BufferOf
<1>8. /\ frontExecute \in [streamSeqNum : FE!Stream, draining : BOOLEAN,
                          issued : BOOLEAN, expect : FE!Addr \cup {FE!AnyPc}]
      /\ frontPhase \in {"execute", "decode", "fetch2", "fetch1", "clock"}
  BY DEF FE!IInv, FE!StagesTyped
<1>9. /\ frontBranch.in # Bubble => frontPhase # "execute"
      /\ frontDToE.in # Bubble => frontPhase \in {"fetch2", "fetch1", "clock"}
  BY <1>2 DEF FE!WrittenOnce, FE!Bubble, Bubble
<1>10. QED BY <1>4, <1>5, <1>6, <1>7, <1>8, <1>9 DEF FrontKept, EachOnce
-----------------------------------------------------------------------------
(* Each step keeps what the two share.                                     *)

(* What is recorded of an instruction stays.                               *)
LEMMA ImagesStay ==
  ASSUME UNCHANGED fetched
  PROVE  /\ Image(executeIn)' = Image(executeIn')
         /\ AsFetched(dToE)' = AsFetched(dToE')
         /\ dToE' = dToE => AsFetched(dToE)' = AsFetched(dToE)
         /\ executeIn' = executeIn => Image(executeIn)' = Image(executeIn)
BY DEF Image, AsFetched

(* The decoded instructions keep their streams in all but Decode.          *)
SameDecoded ==
  /\ Len(insts') = Len(insts)
  /\ \A n \in 1 .. Len(insts) : insts'[n].stream = insts[n].stream

(* Of one instruction another field may change ...                       *)
LEMMA OneChangesKeeps ==
  ASSUME TypeOK, NEW n \in Num, NEW d, d.stream = insts[n].stream,
         insts' = [insts EXCEPT ![n] = d]
  PROVE  SameDecoded
<1>1. insts \in Seq(DynInst)
  BY DEF TypeOK
<1>2. Len(insts') = Len(insts) /\ \A m \in 1 .. Len(insts) :
         insts'[m] = IF m = n THEN d ELSE insts[m]
  <2> HIDE DEF DynInst
  <2>1. QED BY <1>1
<1>3. QED BY <1>2 DEF SameDecoded

(* ... and that is all that happens to them but in Decode, ...           *)
LEMMA StepsKeepDecoded ==
  ASSUME IInv, [Next]_vars, ~DecodeEvaluate
  PROVE  SameDecoded
<1>1. TypeOK /\ Decoded \subseteq Num /\ Decoded = 1 .. Len(insts)
  BY Named DEF IInv, Decoded
<1>2. CASE UNCHANGED insts
  BY <1>2 DEF SameDecoded
<1>3. CASE \E n, u : Issues(n, u)
  <2>1. PICK n, u : Issues(n, u)
    BY <1>3
  <2>2. n \in Decoded /\ u \in {0} \cup Unit /\ MarkupInstDests(n, u)
    BY <2>1, IssuesYoungest DEF Issues
  <2>3. /\ Len(insts') = Len(insts)
        /\ \A m \in Decoded : m # n => insts'[m] = insts[m]
        /\ insts'[n].stream = insts[n].stream
    BY <1>1, <2>2, MarkupKeeps
  <2>4. QED BY <1>1, <2>3 DEF SameDecoded
<1>4. CASE \E d : PushStep(d)
  <2>1. PICK d : PushStep(d)
    BY <1>4
  <2>2. /\ d.stream = insts[Current].stream /\ insts' = [insts EXCEPT ![Current] = d]
        /\ phase = "push" /\ execute.at \in 1 .. Len(execute.inFlight)
    BY <2>1 DEF PushStep, Becomes
  <2>3. Current \in Num
    BY <2>2, CurrentIn DEF Pushing
  <2>4. QED BY <1>1, <2>2, <2>3, OneChangesKeeps
<1>5. CASE \E n, d : Answered(n, d)
  <2>1. PICK n, d : Answered(n, d)
    BY <1>5
  <2>2. n \in Num /\ insts' = [insts EXCEPT ![n] = d] /\ insts[n] \in DynInst
    BY <1>1, <2>1, Named DEF Answered
  <2>3. d.stream = insts[n].stream
    BY <2>1, <2>2 DEF Answered, DynInst
  <2>4. QED BY <1>1, <2>2, <2>3, OneChangesKeeps
<1>6. CASE Next
  <2>1. CASE PushFree \/ NotReady \/ PushBranch \/ PushResult \/ PushMemRef
    BY <1>4, <2>1, PushFreeStep, NotReadyStep, PushBranchStep, PushResultStep,
       PushMemRefStep
  <2>2. CASE ExecuteEvaluate
    BY <1>2, <1>3, <2>2, ExecuteCases DEF NothingIssued
  <2>3. CASE WritebackEvaluate \/ MemoryEvaluate \/ SetStalls
    BY <1>2, <2>3 DEF WritebackEvaluate, MemoryEvaluate, SetStalls
  <2>4. CASE \/ \E n \in Num : FinishMemTranslation(n) \/ RecvTimingResp(n)
             \/ \E accept \in BOOLEAN : RecvReqRetry(accept)
    BY <1>2, <1>5, <2>4, CallbackCases
  <2>5. QED BY <1>6, <2>1, <2>2, <2>3, <2>4 DEF Next, Cycle
<1>7. QED BY <1>2, <1>6 DEF vars

(* ... so that their record stays right.                                 *)
LEMMA RecordStays ==
  ASSUME Recorded, SameDecoded, UNCHANGED fetched
  PROVE  Recorded'
BY DEF Recorded, SameDecoded

(* The steps of the back end alone, but for those of trytoPush() and of    *)
(* issue(), leave what is shared alone.                                    *)
LEMMA StagesKeepShared ==
  ASSUME Shared, WritebackEvaluate \/ MemoryEvaluate, frontPhase = "execute",
         UNCHANGED <<frontVars, fetched>>
  PROVE  Shared'
<1>1. /\ phase \in {"writeback", "memory"} /\ phase' \in {"memory", "execute"}
      /\ UNCHANGED <<supply, branch, dToE, executeIn, execute>>
  BY DEF WritebackEvaluate, MemoryEvaluate
<1>2. UNCHANGED <<frontPhase, frontExecuteIn, frontExecute, frontDToE, frontBranch,
                  fetch1, fetch2>>
  BY DEF frontVars
<1>3. /\ Image(executeIn)' = Image(executeIn) /\ AsFetched(dToE)' = AsFetched(dToE)
      /\ FE!Now' = FE!Now /\ StreamsOf(frontBranch.out)' = StreamsOf(frontBranch.out)
      /\ StreamsOf(frontBranch.in)' = StreamsOf(frontBranch.in)
  BY <1>1, <1>2, ImagesStay DEF FE!Now, StreamsOf
<1>4. InStep'
  BY <1>1, <1>2 DEF Shared, InStep
<1>5. SameInput'
  BY <1>1, <1>2, <1>3 DEF Shared, SameInput
<1>6. SameDelivery'
  BY <1>1, <1>2, <1>3 DEF Shared, SameDelivery
<1>7. SameStreams'
  BY <1>1, <1>2 DEF Shared, SameStreams
<1>8. SameBranches'
  BY <1>1, <1>2, <1>3 DEF Shared, SameBranches
<1>9. SameSupply'
  BY <1>1, <1>2, <1>3 DEF Shared, SameSupply
<1>10. QED BY <1>4, <1>5, <1>6, <1>7, <1>8, <1>9 DEF Shared

(* issue() leaves the stream as it is.                                     *)
LEMMA ExecuteKeepsStream ==
  ASSUME IInv, ExecuteEvaluate
  PROVE  execute'.draining = FALSE /\ execute'.streamSeqNum = execute.streamSeqNum
<1>1. NothingIssued \/ \E n, u : Issues(n, u)
  BY ExecuteCases
<1>2. ASSUME NEW n, NEW u, Issues(n, u)
      PROVE  n \in Num /\ execute' = [execute EXCEPT !.draining = FALSE,
                                        !.inFlight = Append(@, n)]
  <2>1. TypeOK /\ Conveyor /\ Decoded \subseteq Num
    BY Named DEF IInv
  <2>2. n \in ToIssue /\ execute' = [execute EXCEPT !.draining = FALSE,
                                       !.inFlight = Append(@, n)]
    BY <1>2 DEF Issues
  <2>3. QED BY <2>1, <2>2, ToIssueNamed
<1>3. \/ execute' = [execute EXCEPT !.draining = FALSE]
      \/ \E n \in Num : execute' = [execute EXCEPT !.draining = FALSE,
                                      !.inFlight = Append(@, n)]
  BY <1>1, <1>2 DEF NothingIssued
<1>4. execute \in ExecuteFields
  BY DEF IInv, TypeOK, ExecuteFields
<1>5. QED BY <1>3, <1>4 DEF ExecuteFields

(* issue() has seen the same input.                                        *)
LEMMA ExecuteKeepsShared ==
  ASSUME IInv, Shared, ExecuteEvaluate, frontPhase = "execute",
         UNCHANGED <<frontVars, fetched>>
  PROVE  Shared'
<1> DEFINE b == ExecuteInput
           a == SetTail(executeIn, dToE)
<1>1. /\ phase = "execute" /\ phase' = "push" /\ UNCHANGED <<supply, branch, dToE>>
      /\ executeIn' \in {b, PopInput(b)}
      /\ execute'.draining = FALSE /\ execute'.streamSeqNum = execute.streamSeqNum
  <2>1. /\ phase = "execute" /\ phase' = "push" /\ UNCHANGED <<supply, branch, dToE>>
        /\ executeIn' \in {b, PopInput(b)}
    BY DEF ExecuteEvaluate, IssueInst, EndOfLine, DidntIssue
  <2>2. execute'.draining = FALSE /\ execute'.streamSeqNum = execute.streamSeqNum
    BY ExecuteKeepsStream
  <2>3. QED BY <2>1, <2>2
<1>2. UNCHANGED <<frontPhase, frontExecuteIn, frontExecute, frontDToE, frontBranch,
                  fetch1, fetch2>>
  BY DEF frontVars
<1>3. /\ Image(executeIn)' = Image(executeIn') /\ AsFetched(dToE)' = AsFetched(dToE)
      /\ FE!Now' = FE!Now /\ StreamsOf(frontBranch.out)' = StreamsOf(frontBranch.out)
      /\ StreamsOf(frontBranch.in)' = StreamsOf(frontBranch.in)
      /\ FE!ExecuteInput' = FE!ExecuteInput
  BY <1>1, <1>2, ImagesStay DEF FE!Now, StreamsOf, FE!ExecuteInput
<1>4. InStep'
  BY <1>1, <1>2 DEF InStep
<1>5. FE!ExecuteInput = Image(b) /\ b \in BufferFields
  <2>1. /\ frontExecuteIn = Image(executeIn) /\ frontDToE.out = AsFetched(dToE)
        /\ execute.draining = frontExecute.draining
    BY <1>1 DEF Shared, SameInput, SameDelivery, SameStreams
  <2>2. executeIn \in BufferFields /\ dToE \in Wire(Num)
    BY DEF IInv, TypeOK, BufferOf, BufferFields
  <2>3. FE!SetTail(Image(executeIn), AsFetched(dToE)) = Image(a)
    BY <2>2, ImageOfBuffer
  <2>4. a \in BufferFields
    BY <2>2, BuffersTyped
  <2>5. FE!PopAll(Image(a)) = Image(PopAll(a)) /\ PopAll(a) \in BufferFields
    BY <2>2, <2>4, ImageOfBuffer, BuffersTyped
  <2> HIDE DEF a
  <2>6. FE!ExecuteInput = IF frontExecute.draining THEN FE!PopAll(Image(a)) ELSE Image(a)
    BY <2>1, <2>3 DEF FE!ExecuteInput
  <2>7. b = IF execute.draining THEN PopAll(a) ELSE a
    BY DEF ExecuteInput, a
  <2> HIDE DEF b
  <2>8. QED BY <2>1, <2>4, <2>5, <2>6, <2>7
<1>6. SameInput'
  <2>1. FE!IsEmpty(Image(b)) <=> IsEmpty(b)
    BY <1>5, ImageOfBuffer
  <2>2. FE!PopInput(Image(b)) = Image(PopInput(b))
    BY <1>5, ImageOfBuffer
  <2>3. IsEmpty(b) => PopInput(b) = b
    BY DEF PopInput
  <2> HIDE DEF b
  <2>4. QED BY <1>1, <1>3, <1>5, <2>1, <2>2, <2>3 DEF SameInput
<1> HIDE DEF b, a
<1>7. SameDelivery'
  BY <1>1, <1>2, <1>3 DEF Shared, SameDelivery
<1>8. SameStreams'
  BY <1>1, <1>2 DEF Shared, SameStreams, SameBranches
<1>9. SameBranches'
  BY <1>1, <1>2, <1>3 DEF Shared, SameBranches
<1>10. SameSupply'
  BY <1>1, <1>2, <1>3 DEF Shared, SameSupply
<1>11. QED BY <1>4, <1>6, <1>7, <1>8, <1>9, <1>10 DEF Shared

(* trytoPush() shows the front end nothing but a branch, and that later.   *)
LEMMA PushKeepsShared ==
  ASSUME IInv, Shared, phase = "push", phase' = "push",
         UNCHANGED <<supply, dToE, executeIn, frontVars, fetched>>,
         \/ /\ execute'.draining = execute.draining
            /\ execute'.streamSeqNum = execute.streamSeqNum
            /\ branch' = branch
         \/ /\ execute'.draining = TRUE
            /\ execute'.streamSeqNum = execute.streamSeqNum + 1
            /\ branch' = Drive(branch, execute.streamSeqNum + 1)
  PROVE  Shared'
<1> DEFINE new == execute.streamSeqNum + 1
<1>1. UNCHANGED <<frontPhase, frontExecuteIn, frontExecute, frontDToE, frontBranch,
                  fetch1, fetch2>>
  BY DEF frontVars
<1>2. /\ Image(executeIn)' = Image(executeIn) /\ AsFetched(dToE)' = AsFetched(dToE)
      /\ FE!Now' = FE!Now /\ StreamsOf(frontBranch.out)' = StreamsOf(frontBranch.out)
      /\ StreamsOf(frontBranch.in)' = StreamsOf(frontBranch.in)
      /\ FE!ExecuteInput' = FE!ExecuteInput
  BY <1>1, ImagesStay DEF FE!Now, StreamsOf, FE!ExecuteInput
<1>3. frontPhase = "execute"
  BY DEF Shared, InStep
<1>4. /\ branch'.out = branch.out
      /\ branch'.in = branch.in \/ branch'.in = <<new>>
      /\ branch' = Drive(branch, new) => branch'.in = <<new>>
  BY DEF IInv, TypeOK, LatchOf, Drive
<1>5. InStep'
  BY <1>1, <1>3 DEF InStep
<1>6. SameInput'
  <2>1. UNCHANGED <<executeIn, FE!ExecuteInput, phase>>
    BY <1>2
  <2>2. \/ FE!ExecuteInput = Image(executeIn)
        \/ /\ ~FE!IsEmpty(FE!ExecuteInput)
           /\ FE!PopInput(FE!ExecuteInput) = Image(executeIn)
    BY DEF Shared, SameInput
  <2>3. QED BY <1>2, <2>1, <2>2, SameOperators DEF SameInput
<1>7. SameDelivery'
  BY <1>1, <1>2 DEF Shared, SameDelivery
<1>8. SameStreams'
  <2>1. <<new>> # <<>> /\ <<new>>[1] = new
    OBVIOUS
  <2>2. CASE /\ execute'.draining = execute.draining /\ branch' = branch
             /\ execute'.streamSeqNum = execute.streamSeqNum
    BY <1>1, <2>2 DEF Shared, SameStreams
  <2>3. CASE /\ execute'.draining = TRUE /\ execute'.streamSeqNum = new
             /\ branch' = Drive(branch, new)
    <3>1. branch'.in = <<new>>
      BY <1>4, <2>3
    <3>2. branch'.in # Bubble /\ branch'.in[1] = new
      BY <2>1, <3>1 DEF Bubble
    <3>3. execute'.draining <=> branch'.in # Bubble
      BY <2>3, <3>2
    <3>4. execute'.streamSeqNum =
            (IF branch'.in = Bubble THEN frontExecute'.streamSeqNum ELSE branch'.in[1])
      BY <2>3, <3>2
    <3>5. QED BY <3>3, <3>4 DEF SameStreams
  <2>4. QED BY <2>2, <2>3
<1>9. SameBranches'
  BY <1>1, <1>2, <1>3, <1>4 DEF Shared, SameBranches
<1>10. SameSupply'
  BY <1>1, <1>2, <1>3 DEF Shared, SameSupply
<1>11. QED BY <1>5, <1>6, <1>7, <1>8, <1>9, <1>10 DEF Shared

(* So do its steps.                                                        *)
LEMMA PushStepsKeepShared ==
  ASSUME IInv, Shared,
         PushFree \/ NotReady \/ PushBranch \/ PushResult \/ PushMemRef,
         UNCHANGED <<frontVars, fetched>>
  PROVE  Shared' \/ phase' = "crashed"
<1>1. execute \in ExecuteFields
  BY DEF IInv, TypeOK, ExecuteFields
<1>2. ASSUME execute' = [execute EXCEPT !.at = @ + 1]
      PROVE  /\ execute'.draining = execute.draining
             /\ execute'.streamSeqNum = execute.streamSeqNum
  BY <1>1, <1>2 DEF ExecuteFields
<1>3. ASSUME execute' = Erased(execute)
      PROVE  /\ execute'.draining = execute.draining
             /\ execute'.streamSeqNum = execute.streamSeqNum
  <2> DEFINE q == Seqs!RemoveAt(execute.inFlight, execute.at)
  <2>1. execute' = [execute EXCEPT !.inFlight = q]
    BY <1>3 DEF Erased
  <2> HIDE DEF q
  <2>2. QED BY <1>1, <2>1 DEF ExecuteFields
<1>4. ASSUME NEW new, execute' = [Erased(execute) EXCEPT !.streamSeqNum = new,
                                                        !.draining = TRUE]
      PROVE  execute'.draining = TRUE /\ execute'.streamSeqNum = new
  <2> DEFINE q == Seqs!RemoveAt(execute.inFlight, execute.at)
             e == [execute EXCEPT !.inFlight = q]
  <2>1. execute' = [e EXCEPT !.streamSeqNum = new, !.draining = TRUE]
    BY <1>4 DEF Erased
  <2>2. DOMAIN e = {"streamSeqNum", "draining", "blocked", "inFlight", "at"}
    <3> HIDE DEF q
    <3>1. QED BY <1>1 DEF ExecuteFields
  <2> HIDE DEF e
  <2>3. QED BY <2>1, <2>2
<1>5. /\ phase = "push" /\ phase' \in {"push", "crashed"}
      /\ UNCHANGED <<supply, dToE, executeIn>>
  BY DEF PushFree, NotReady, PushBranch, PushResult, PushMemRef, Pushing, Ready,
         Elsewhere
<1>6. \/ branch' = branch /\ execute' = [execute EXCEPT !.at = @ + 1]
      \/ branch' = branch /\ execute' = Erased(execute)
      \/ /\ branch' = Drive(branch, execute.streamSeqNum + 1)
         /\ execute' = [Erased(execute) EXCEPT
                          !.streamSeqNum = execute.streamSeqNum + 1,
                          !.draining = TRUE]
  <2>1. CASE PushFree
    BY <2>1 DEF PushFree, KeepInFlight
  <2>2. CASE NotReady
    BY <2>2 DEF NotReady, KeepInFlight
  <2>3. CASE PushBranch
    BY <2>3 DEF PushBranch, KeepInFlight
  <2>4. CASE PushResult
    BY <2>4 DEF PushResult, KeepInFlight, Leave
  <2>5. CASE PushMemRef
    BY <2>5 DEF PushMemRef, KeepInFlight, Leave
  <2>6. QED BY <2>1, <2>2, <2>3, <2>4, <2>5
<1>7. \/ /\ execute'.draining = execute.draining
         /\ execute'.streamSeqNum = execute.streamSeqNum
         /\ branch' = branch
      \/ /\ execute'.draining = TRUE
         /\ execute'.streamSeqNum = execute.streamSeqNum + 1
         /\ branch' = Drive(branch, execute.streamSeqNum + 1)
  BY <1>2, <1>3, <1>4, <1>6
<1>8. QED BY <1>5, <1>7, PushKeepsShared

(* The streams on a wire.                                                  *)
LEMMA StreamsOfOne ==
  /\ StreamsOf(<<>>) = <<>>
  /\ \A x : StreamsOf(<<x>>) = <<x.stream>>
<1>1. StreamsOf(<<>>) = <<>>
  <2>1. 1 .. Len(<<>>) = {}
    BY EmptySeq
  <2>2. QED BY <2>1 DEF StreamsOf
<1>2. ASSUME NEW x PROVE StreamsOf(<<x>>) = <<x.stream>>
  <2>1. 1 .. Len(<<x>>) = {1} /\ <<x>>[1] = x
    OBVIOUS
  <2>2. StreamsOf(<<x>>) = [i \in {1} |-> x.stream]
    BY <2>1 DEF StreamsOf
  <2>3. <<x.stream>> = [i \in {1} |-> x.stream]
    OBVIOUS
  <2>4. QED BY <2>2, <2>3
<1>3. QED BY <1>1, <1>2

(* At the end of Execute the front end is shown what the back end has      *)
(* done.                                                                   *)
LEMMA ExecuteEndsKeepsShared ==
  ASSUME IInv, FrontKept, Shared, ExecuteEnds, ~FrontEndDone
  PROVE  Shared'
<1> DEFINE c == FE!ExecuteInput
           d == Image(executeIn)
           consume == Len(Contents(c)) > Len(Contents(executeIn))
<1>1. /\ phase = "push" /\ phase' = "decode"
      /\ executeIn' = PushTail(executeIn)
      /\ execute'.streamSeqNum = execute.streamSeqNum
      /\ execute'.draining = execute.draining
      /\ UNCHANGED <<supply, branch, dToE, fetched>>
  <2>1. execute \in ExecuteFields
    BY DEF IInv, TypeOK, ExecuteFields
  <2> DEFINE B == {b \in Box : ~CanReserveEntry(isb[b], MemoryBufferSize)}
  <2>2. /\ phase = "push" /\ phase' = "decode"
        /\ executeIn' = PushTail(executeIn)
        /\ execute' = [execute EXCEPT !.at = 1, !.blocked = B]
        /\ UNCHANGED <<supply, branch, dToE, fetched>>
    BY DEF ExecuteEnds, SetStalls
  <2> HIDE DEF B
  <2>3. QED BY <2>1, <2>2 DEF ExecuteFields
<1>2. frontPhase = "execute"
  BY <1>1 DEF Shared, InStep
<1>3. /\ FE!ExecuteEvaluate(consume)
      /\ IF branch.in = Bubble THEN frontBranch' = frontBranch
         ELSE frontBranch'.in = <<[stream |-> branch.in[1],
                                   target |-> outcome'[branch.in[1]]]>>
  BY DEF ExecuteEnds
<1> DEFINE e == [frontExecute EXCEPT !.draining = FALSE]
           e1 == IF consume THEN FE!Consume(e, FE!Front(c)) ELSE e
<1>4. /\ frontPhase' = "decode"
      /\ frontExecuteIn' = FE!PushTail(IF consume THEN FE!PopInput(c) ELSE c)
      /\ \/ frontExecute' = e1 /\ UNCHANGED frontBranch
         \/ \E taken \in FE!BranchData :
              /\ frontExecute' = FE!TakeBranch(e1, taken)
              /\ frontBranch' = FE!Drive(frontBranch, taken)
      /\ UNCHANGED <<fetch1, fetch2, frontDToE>>
  BY <1>3 DEF FE!ExecuteEvaluate
<1>5. executeIn \in BufferFields
  BY DEF IInv, TypeOK, BufferOf, BufferFields
<1>6. (IF consume THEN FE!PopInput(c) ELSE c) = d
  <2> DEFINE T == {fetched[n] : n \in Num}
  <2>1. Len(Contents(d)) = Len(Contents(executeIn)) /\ Len(Contents(d)) \in Nat
    BY <1>5, ImageLength, InputLength
  <2>2. CASE c = d
    <3>1. ~consume
      BY <2>1, <2>2
    <3>2. QED BY <2>2, <3>1
  <2>3. CASE ~FE!IsEmpty(c) /\ FE!PopInput(c) = d
    <3>1. c \in [queue : Seq(FE!Inst), elem : Wire(FE!Inst), reserved : Nat]
      <4>1. frontDToE.out \in Wire(FE!Inst) /\ frontExecuteIn \in BufferOf(FE!Inst)
        BY DEF FrontKept, LatchOf
      <4>2. SetTail(frontExecuteIn, frontDToE.out) \in BufferOf(FE!Inst)
        BY <4>1, TypedBuffers
      <4>3. PopAll(SetTail(frontExecuteIn, frontDToE.out)) \in BufferOf(FE!Inst)
        BY <4>1, <4>2, TypedBuffers
      <4>4. c \in {SetTail(frontExecuteIn, frontDToE.out),
                  PopAll(SetTail(frontExecuteIn, frontDToE.out))}
        BY SameOperators DEF FE!ExecuteInput
      <4>5. QED BY <4>2, <4>3, <4>4 DEF BufferOf
    <3>2. /\ ~IsEmpty(c) => Len(Contents(PopInput(c))) < Len(Contents(c))
      BY <3>1, InputLength
    <3>3. Len(Contents(d)) < Len(Contents(c))
      BY <2>3, <3>2, SameOperators
    <3>4. Len(Contents(c)) \in Nat
      BY <3>1, InputLength
    <3>5. consume
      BY <2>1, <3>3, <3>4
    <3>6. QED BY <2>3, <3>5
  <2>4. QED BY <1>1, <2>2, <2>3 DEF Shared, SameInput
<1>7. frontExecuteIn' = Image(executeIn')
  <2>1. FE!PushTail(d) = Image(PushTail(executeIn))
    BY <1>5, ImageOfBuffer
  <2>2. QED BY <1>1, <1>4, <1>6, <2>1
<1>8. /\ Image(executeIn)' = Image(executeIn') /\ AsFetched(dToE)' = AsFetched(dToE)
      /\ FE!Now' = FE!Now
  BY <1>1, <1>4, ImagesStay DEF FE!Now
<1>9. /\ e1.streamSeqNum = frontExecute.streamSeqNum /\ e1.draining = FALSE
      /\ e1 \in [streamSeqNum : FE!Stream, draining : BOOLEAN,
                 issued : BOOLEAN, expect : {e1.expect}]
  <2> HIDE DEF consume, c
  <2>1. \A x : /\ FE!Consume(e, x).streamSeqNum = frontExecute.streamSeqNum
               /\ FE!Consume(e, x).draining = FALSE
               /\ FE!Consume(e, x) \in [streamSeqNum : FE!Stream, draining : BOOLEAN,
                 issued : BOOLEAN, expect : {FE!Consume(e, x).expect}]
    BY DEF FE!Consume, FrontKept
  <2>2. QED BY <2>1 DEF FrontKept
<1> HIDE DEF c, d, consume, e, e1
<1>10. /\ frontBranch.in = Bubble /\ frontBranch \in LatchOf(FE!BranchData)
       /\ \A x : FE!Drive(frontBranch, x).in = <<x>>
                /\ FE!Drive(frontBranch, x).out = frontBranch.out
       /\ branch.in \in Wire(Stream)
       /\ branch.out = StreamsOf(frontBranch.out)
       /\ execute.draining <=> branch.in # Bubble
       /\ execute.draining \in BOOLEAN
       /\ execute.streamSeqNum =
            (IF branch.in = Bubble THEN frontExecute.streamSeqNum ELSE branch.in[1])
  <2>1. frontBranch.in = Bubble /\ frontBranch \in LatchOf(FE!BranchData)
    BY <1>2 DEF FrontKept, EachOnce
  <2>2. \A x : FE!Drive(frontBranch, x).in = <<x>>
              /\ FE!Drive(frontBranch, x).out = frontBranch.out
    BY <2>1 DEF FE!Drive, LatchOf
  <2>3. branch.in \in Wire(Stream) /\ execute.draining \in BOOLEAN
    BY DEF IInv, TypeOK, LatchOf
  <2>4. QED BY <1>1, <1>2, <2>1, <2>2, <2>3 DEF Shared, SameBranches, SameStreams
<1>11. ASSUME branch.in = Bubble PROVE SameStreams' /\ SameBranches'
  <2>1. frontBranch' = frontBranch
    BY <1>3, <1>11
  <2>2. frontExecute' = e1
    <3>1. \A x : FE!Drive(frontBranch, x) # frontBranch
      <4>1. \A x : <<x>> # <<>>
        OBVIOUS
      <4>2. QED BY <1>10, <4>1 DEF Bubble
    <3>2. QED BY <1>4, <2>1, <3>1
  <2>3. SameStreams'
    <3>1. execute'.draining = frontExecute'.draining
      BY <1>1, <1>9, <1>10, <1>11, <2>2
    <3>2. execute'.streamSeqNum = frontExecute'.streamSeqNum
      BY <1>1, <1>9, <1>10, <1>11, <2>2
    <3>3. QED BY <1>1, <3>1, <3>2 DEF SameStreams
  <2>4. SameBranches'
    <3>1. StreamsOf(frontBranch.out)' = StreamsOf(frontBranch.out)
      BY <2>1 DEF StreamsOf
    <3>2. StreamsOf(frontBranch.in)' = <<>>
      BY <1>10, <2>1, StreamsOfOne DEF Bubble
    <3>3. QED BY <1>1, <1>4, <1>10, <1>11, <3>1, <3>2 DEF SameBranches, Bubble
  <2>5. QED BY <2>3, <2>4
<1>12. ASSUME branch.in # Bubble PROVE SameStreams' /\ SameBranches'
  <2>1. PICK taken : /\ frontExecute' = FE!TakeBranch(e1, taken)
                     /\ frontBranch' = FE!Drive(frontBranch, taken)
    <3> DEFINE x == [stream |-> branch.in[1], target |-> outcome'[branch.in[1]]]
    <3>1. frontBranch'.in = <<x>>
      BY <1>3, <1>12
    <3>2. <<x>> # <<>>
      OBVIOUS
    <3>3. frontBranch' # frontBranch
      BY <1>10, <3>1, <3>2 DEF Bubble
    <3>4. QED BY <1>4, <3>3
  <2>2. taken.stream = branch.in[1] /\ frontBranch'.in = <<taken>>
    <3> DEFINE t == outcome'[branch.in[1]]
    <3>1. <<taken>> = <<[stream |-> branch.in[1], target |-> t]>>
      BY <1>3, <1>10, <1>12, <2>1
    <3> HIDE DEF t
    <3>2. taken = [stream |-> branch.in[1], target |-> t]
      BY <3>1
    <3>3. QED BY <1>10, <2>1, <3>2
  <2>3. /\ frontExecute'.draining = TRUE
        /\ frontExecute'.streamSeqNum = taken.stream
    BY <1>9, <2>1 DEF FE!TakeBranch
  <2>4. branch.in = <<taken.stream>>
    <3>1. PICK s \in Stream : branch.in = <<s>>
      BY <1>10, <1>12 DEF Wire
    <3>2. QED BY <2>2, <3>1
  <2>5. SameStreams'
    <3>1. execute'.draining = TRUE /\ execute'.streamSeqNum = branch.in[1]
      BY <1>1, <1>10, <1>12
    <3>2. QED BY <1>1, <2>2, <2>3, <3>1 DEF SameStreams
  <2>6. SameBranches'
    <3>1. StreamsOf(frontBranch.out)' = StreamsOf(frontBranch.out)
      BY <1>10, <2>1 DEF StreamsOf
    <3>2. StreamsOf(frontBranch.in)' = <<taken.stream>>
      <4>1. StreamsOf(frontBranch.in)' = StreamsOf(frontBranch'.in)
        BY DEF StreamsOf
      <4>2. QED BY <2>2, <4>1, StreamsOfOne
    <3>3. QED BY <1>1, <1>4, <1>10, <2>4, <3>1, <3>2 DEF SameBranches
  <2>7. QED BY <2>5, <2>6
<1>13. InStep'
  BY <1>1, <1>4 DEF InStep
<1>14. SameInput'
  BY <1>1, <1>7, <1>8 DEF SameInput
<1>15. SameDelivery'
  BY <1>4 DEF SameDelivery
<1>16. SameSupply'
  BY <1>1, <1>2, <1>4, <1>8 DEF Shared, SameSupply
<1>17. QED BY <1>11, <1>12, <1>13, <1>14, <1>15, <1>16 DEF Shared

(* Decode in the front end: a branch is heard of first; what it delivers   *)
(* has a slot reserved in Execute's input.                                 *)
LEMMA FrontDecodes ==
  ASSUME FrontKept, FE!DecodeEvaluate
  PROVE  /\ frontPhase = "decode" /\ frontPhase' = "fetch2"
         /\ UNCHANGED <<fetch1, fetch2, frontExecute, frontBranch>>
         /\ frontDToE.in = Bubble
         /\ \/ frontDToE' = frontDToE /\ frontExecuteIn' = frontExecuteIn
            \/ /\ frontBranch.out = Bubble
               /\ frontDToE'.in # Bubble
               /\ frontExecuteIn' = FE!Reserve(frontExecuteIn)
<1>1. /\ frontPhase = "decode" /\ frontPhase' = "fetch2"
      /\ UNCHANGED <<fetch1, fetch2, frontExecute, frontBranch>>
  BY DEF FE!DecodeEvaluate
<1>2. frontDToE.in = Bubble /\ frontDToE \in LatchOf(FE!Inst)
  BY <1>1 DEF FrontKept, EachOnce
<1>3. \A x : FE!Drive(frontDToE, x).in # Bubble
  <2>1. \A x : <<x>> # <<>>
    OBVIOUS
  <2>2. QED BY <1>2, <2>1 DEF FE!Drive, LatchOf, Bubble
<1>4. CASE frontBranch.out # FE!Bubble
  BY <1>1, <1>2, <1>4 DEF FE!DecodeEvaluate, FE!DecodeRedirect
<1>5. CASE frontBranch.out = FE!Bubble
  <2>1. \/ frontDToE' = frontDToE /\ frontExecuteIn' = frontExecuteIn
        \/ /\ frontDToE' = FE!Drive(frontDToE,
                             FE!DecodeLines(FE!SetTail(decodeIn, f2ToD.out)).inst[1])
           /\ frontExecuteIn' = FE!Reserve(frontExecuteIn)
    BY <1>5 DEF FE!DecodeEvaluate
  <2>2. QED BY <1>1, <1>2, <1>3, <1>5, <2>1 DEF FE!Bubble, Bubble
<1>6. QED BY <1>4, <1>5

(* Old numbers stand for what they have stood for, the new one for what is *)
(* delivered.                                                              *)
LEMMA ImagesOfDecoded ==
  ASSUME IInv, Recorded, NEW x, fetched' = Append(fetched, x),
         executeIn' = Reserve(executeIn), dToE' = <<Len(insts) + 1>>
  PROVE  /\ Image(executeIn)' = FE!Reserve(Image(executeIn))
         /\ AsFetched(dToE)' = <<x>>
<1> DEFINE l == Len(insts)
           q == executeIn.queue
           e == executeIn.elem
           n == executeIn.reserved
<1>1. /\ fetched \in Seq(FE!Inst) /\ Len(fetched) = l /\ l \in Nat
  BY DEF Recorded
<1>2. /\ \A k \in 1 .. l : fetched'[k] = fetched[k]
      /\ fetched'[l + 1] = x
  <2> HIDE DEF l
  <2>1. QED BY <1>1, AppendProperties
<1>3. ASSUME NEW S, NEW r \in Seq(S), \A i \in 1 .. Len(r) : r[i] \in 1 .. l
      PROVE  [i \in 1 .. Len(r) |-> fetched'[r[i]]] = AsFetched(r)
  <2>1. \A i \in 1 .. Len(r) : fetched'[r[i]] = fetched[r[i]]
    BY <1>2, <1>3
  <2>2. QED BY <2>1 DEF AsFetched
<1>4. executeIn \in BufferFields
  BY DEF IInv, TypeOK, BufferOf, BufferFields
<1>5. /\ executeIn'.queue = q /\ executeIn'.elem = e /\ executeIn'.reserved = n + 1
  BY <1>4 DEF Reserve, BufferFields
<1>6. /\ \A i \in 1 .. Len(q) : q[i] \in 1 .. l
      /\ \A i \in 1 .. Len(e) : e[i] \in 1 .. l
      /\ q \in Seq(Num) /\ e \in Seq(Num)
  <2>1. Ids(q) \cup Ids(e) \subseteq 1 .. l
    BY DEF IInv, Conveyor, ToIssue
  <2>2. q \in Seq(Num) /\ e \in Wire(Num)
    BY <1>4 DEF BufferFields
  <2>3. e \in Seq(Num)
    <3>1. CASE e = <<>>
      BY <3>1, EmptySeq
    <3>2. CASE e # <<>>
      <4>1. PICK y \in Num : e = <<y>>
        BY <2>2, <3>2 DEF Wire, Bubble
      <4>2. <<y>> \in Seq(Num)
        OBVIOUS
      <4>3. QED BY <4>1, <4>2
    <3>3. QED BY <3>1, <3>2
  <2>4. QED BY <2>1, <2>2, <2>3, IdsDef
<1>7. /\ [i \in 1 .. Len(q) |-> fetched'[q[i]]] = AsFetched(q)
      /\ [i \in 1 .. Len(e) |-> fetched'[e[i]]] = AsFetched(e)
  BY <1>3, <1>6
<1>8. Image(executeIn)' = [queue |-> AsFetched(q), elem |-> AsFetched(e),
                           reserved |-> n + 1]
  <2>1. Image(executeIn)' =
          [queue |-> [i \in 1 .. Len(executeIn'.queue) |-> fetched'[executeIn'.queue[i]]],
           elem |-> [i \in 1 .. Len(executeIn'.elem) |-> fetched'[executeIn'.elem[i]]],
           reserved |-> executeIn'.reserved]
    BY Zenon DEF Image, AsFetched
  <2> HIDE DEF q, e, n
  <2>2. QED BY <1>5, <1>7, <2>1
<1>9. FE!Reserve(Image(executeIn)) = [queue |-> AsFetched(q), elem |-> AsFetched(e),
                                      reserved |-> n + 1]
  BY DEF FE!Reserve, Image
<1>10. AsFetched(dToE)' = <<x>>
  <2>1. AsFetched(dToE)' = [i \in 1 .. Len(dToE') |-> fetched'[dToE'[i]]]
    BY DEF AsFetched
  <2>2. Len(dToE') = 1 /\ dToE'[1] = l + 1
    OBVIOUS
  <2>3. \A i \in 1 .. 1 : fetched'[dToE'[i]] = x
    <3>1. \A i \in 1 .. 1 : i = 1
      OBVIOUS
    <3>2. QED BY <1>2, <2>2, <3>1
  <2>4. AsFetched(dToE)' = [i \in 1 .. 1 |-> x]
    BY <2>1, <2>2, <2>3
  <2>5. <<x>> = [i \in 1 .. 1 |-> x]
    OBVIOUS
  <2>6. QED BY <2>4, <2>5
<1>11. QED BY <1>8, <1>9, <1>10

(* Decode: a branch is heard of by both, and what the front end delivers   *)
(* is what the back end takes.                                             *)
LEMMA DecodesKeeps ==
  ASSUME IInv, FrontKept, FrontKept', Recorded, Shared, Decodes
  PROVE  Recorded' /\ Shared'
<1>1. FE!DecodeEvaluate /\ DecodeEvaluate /\ ~FrontEndDone
  BY DEF Decodes
<1>2. /\ frontPhase = "decode" /\ frontPhase' = "fetch2"
      /\ UNCHANGED <<fetch1, fetch2, frontExecute, frontBranch>>
      /\ frontDToE.in = Bubble
      /\ \/ frontDToE' = frontDToE /\ frontExecuteIn' = frontExecuteIn
         \/ /\ frontBranch.out = Bubble
            /\ frontDToE'.in # Bubble
            /\ frontExecuteIn' = FE!Reserve(frontExecuteIn)
  BY <1>1, FrontDecodes
<1>3. /\ phase = "decode" /\ phase' = "writeback" /\ branch' = Clock(branch)
      /\ UNCHANGED execute
      /\ \/ /\ UNCHANGED <<insts, executeIn>> /\ dToE' = Bubble
            /\ \/ supply' = supply /\ branch.out = Bubble
               \/ branch.out # Bubble /\ supply' = branch.out[1]
         \/ \E d \in DynInst :
              /\ d.stream = supply
              /\ insts' = Append(insts, d)
              /\ dToE' = <<Len(insts) + 1>>
              /\ executeIn' = Reserve(executeIn)
              /\ supply' = supply /\ branch.out = Bubble
  <2>1. /\ phase = "decode" /\ phase' = "writeback" /\ branch' = Clock(branch)
        /\ UNCHANGED execute
        /\ \/ /\ UNCHANGED <<insts, executeIn>> /\ dToE' = Bubble
           \/ \E d \in DynInst :
                /\ d.stream = supply
                /\ insts' = Append(insts, d)
                /\ dToE' = <<Len(insts) + 1>>
                /\ executeIn' = Reserve(executeIn)
    BY <1>1, DecodeCases
  <2>2. \/ supply' = supply /\ branch.out = Bubble
        \/ branch.out # Bubble /\ supply' = branch.out[1] /\ dToE' = Bubble
    BY <1>1 DEF DecodeEvaluate
  <2>3. <<Len(insts) + 1>> # <<>>
    OBVIOUS
  <2>4. QED BY <2>1, <2>2, <2>3 DEF Bubble
<1>4. /\ branch.out = StreamsOf(frontBranch.out)
      /\ branch.in = StreamsOf(frontBranch.in)
      /\ supply = FE!Now /\ FE!Now' = FE!Now
      /\ frontExecuteIn = Image(executeIn)
      /\ execute.draining = frontExecute.draining
      /\ execute.streamSeqNum = frontExecute.streamSeqNum
  BY <1>2, <1>3 DEF Shared, SameBranches, SameSupply, SameInput, SameStreams, FE!Now
<1>5. branch'.in = Bubble /\ branch'.out = branch.in
  BY <1>3 DEF Clock
<1>6. InStep'
  BY <1>2, <1>3 DEF InStep
<1>7. SameStreams'
  BY <1>2, <1>3, <1>4 DEF SameStreams
<1>8. SameBranches'
  <2>1. StreamsOf(frontBranch.in)' = StreamsOf(frontBranch.in)
    BY <1>2 DEF StreamsOf
  <2>2. QED BY <1>2, <1>3, <1>4, <1>5, <2>1 DEF SameBranches
<1>9. /\ frontBranch.out = Bubble <=> branch.out = Bubble
      /\ branch.out # Bubble => branch.out[1] = frontBranch.out[1].stream
  <2>1. frontBranch.out \in Wire(FE!BranchData)
    BY DEF FrontKept, LatchOf
  <2>2. CASE frontBranch.out = <<>>
    BY <1>4, <2>2, StreamsOfOne DEF Bubble
  <2>3. CASE frontBranch.out # <<>>
    <3>1. PICK x \in FE!BranchData : frontBranch.out = <<x>>
      BY <2>1, <2>3 DEF Wire, Bubble
    <3>2. branch.out = <<x.stream>>
      BY <1>4, <3>1, StreamsOfOne
    <3>3. <<x.stream>> # <<>> /\ <<x.stream>>[1] = x.stream /\ <<x>>[1] = x
      OBVIOUS
    <3>4. QED BY <2>3, <3>1, <3>2, <3>3 DEF Bubble
  <2>4. QED BY <2>2, <2>3
<1>10. SameSupply'
  <2>1. FE!Now' = FE!Now /\ frontBranch' = frontBranch /\ frontPhase' = "fetch2"
    BY <1>2, <1>4
  <2>2. supply' = IF frontBranch.out # Bubble THEN frontBranch.out[1].stream ELSE FE!Now
    BY <1>3, <1>4, <1>9
  <2>3. QED BY <2>1, <2>2 DEF SameSupply
<1>11. CASE frontDToE'.in = Bubble
  <2>1. dToE' = Bubble /\ UNCHANGED fetched /\ UNCHANGED <<insts, executeIn>>
    <3>1. dToE' = Bubble /\ UNCHANGED fetched
      BY <1>11 DEF Decodes
    <3>2. <<Len(insts) + 1>> # <<>>
      OBVIOUS
    <3>3. QED BY <1>3, <3>1, <3>2 DEF Bubble
  <2>2. frontExecuteIn' = frontExecuteIn
    BY <1>2, <1>11
  <2>3. Recorded'
    BY <2>1 DEF Recorded
  <2>4. SameInput'
    BY <1>3, <1>4, <2>1, <2>2, ImagesStay DEF SameInput
  <2>5. SameDelivery'
    <3>1. AsFetched(dToE)' = <<>>
      <4>1. AsFetched(<<>>) = <<>>
        <5>1. 1 .. Len(<<>>) = {}
          BY EmptySeq
        <5>2. QED BY <5>1 DEF AsFetched
      <4>2. AsFetched(dToE)' = AsFetched(dToE')
        BY <2>1, ImagesStay
      <4>3. QED BY <2>1, <4>1, <4>2 DEF Bubble
    <3>2. QED BY <1>2, <1>11, <3>1 DEF SameDelivery, Bubble
  <2>6. QED BY <1>6, <1>7, <1>8, <1>10, <2>3, <2>4, <2>5 DEF Shared
<1>12. CASE frontDToE'.in # Bubble
  <2> DEFINE x == frontDToE'.in[1]
  <2>1. dToE' # Bubble /\ fetched' = Append(fetched, x)
    BY <1>12 DEF Decodes
  <2>2. PICK d \in DynInst :
          /\ d.stream = supply
          /\ insts' = Append(insts, d)
          /\ dToE' = <<Len(insts) + 1>>
          /\ executeIn' = Reserve(executeIn)
    BY <1>3, <2>1
  <2>3. frontExecuteIn' = FE!Reserve(frontExecuteIn)
    BY <1>2, <1>12
  <2>4. frontDToE'.in = <<x>> /\ x \in FE!Inst /\ x.stream = supply
    <3>1. /\ frontDToE'.in \in Wire(FE!InstsOf(FE!Now)')
          /\ FE!InstsOf(FE!Now)' \subseteq FE!Inst
          /\ \A y \in FE!InstsOf(FE!Now)' : y.stream = FE!Now'
      BY DEF FrontKept
    <3>2. PICK y \in FE!InstsOf(FE!Now)' : frontDToE'.in = <<y>>
      BY <1>12, <3>1 DEF Wire
    <3>3. x = y
      BY <3>2
    <3>4. QED BY <1>4, <3>1, <3>2, <3>3
  <2> HIDE DEF x
  <2>5. /\ Image(executeIn)' = FE!Reserve(Image(executeIn))
        /\ AsFetched(dToE)' = <<x>>
    BY <2>1, <2>2, ImagesOfDecoded
  <2>6. SameInput'
    BY <1>3, <1>4, <2>3, <2>5 DEF SameInput
  <2>7. SameDelivery'
    BY <1>2, <2>4, <2>5 DEF SameDelivery
  <2>8. Recorded'
    <3>1. /\ insts \in Seq(DynInst) /\ Len(insts) \in Nat
          /\ fetched \in Seq(FE!Inst) /\ Len(fetched) = Len(insts)
          /\ \A n \in 1 .. Len(insts) : fetched[n].stream = insts[n].stream
      BY DEF IInv, TypeOK, Recorded
    <3>2. /\ Len(insts') = Len(insts) + 1
          /\ \A n \in 1 .. Len(insts) : insts'[n] = insts[n]
          /\ insts'[Len(insts) + 1] = d
      <4> HIDE DEF DynInst
      <4>1. QED BY <2>2, <3>1, AppendProperties
    <3>3. /\ fetched' \in Seq(FE!Inst) /\ Len(fetched') = Len(fetched) + 1
          /\ \A n \in 1 .. Len(fetched) : fetched'[n] = fetched[n]
          /\ fetched'[Len(fetched) + 1] = x
      BY <2>1, <2>4, <3>1, AppendProperties
    <3>4. \A n \in 1 .. Len(insts) + 1 : n \in 1 .. Len(insts) \/ n = Len(insts) + 1
      BY <3>1
    <3>5. \A n \in 1 .. Len(insts) + 1 : fetched'[n].stream = insts'[n].stream
      BY <2>2, <2>4, <3>1, <3>2, <3>3, <3>4
    <3>6. QED BY <3>1, <3>2, <3>3, <3>5 DEF Recorded
  <2>9. QED BY <1>6, <1>7, <1>8, <1>10, <2>6, <2>7, <2>8 DEF Shared
<1>13. QED BY <1>11, <1>12

(* Fetch2, Fetch1 and the latches: Fetch2 changes over to the stream of a  *)
(* branch, of which Decode has heard already.                              *)
LEMMA FrontStepsKeepShared ==
  ASSUME FrontKept, FrontKept', Shared, FrontEndSteps
  PROVE  Shared'
<1>1. /\ phase = "writeback" /\ phase' = "writeback"
      /\ UNCHANGED <<executeIn, dToE, execute, branch, supply, fetched>>
  BY DEF FrontEndSteps, vars
<1>2. Image(executeIn)' = Image(executeIn) /\ AsFetched(dToE)' = AsFetched(dToE)
  BY <1>1, ImagesStay
<1>3. ASSUME frontPhase' \in {"fetch1", "clock"},
             frontPhase \in {"fetch2", "fetch1"},
             UNCHANGED <<frontExecuteIn, frontExecute, frontDToE, frontBranch>>,
             supply = FE!Now'
      PROVE  Shared'
  <2>1. StreamsOf(frontBranch.in)' = StreamsOf(frontBranch.in)
    BY <1>3 DEF StreamsOf
  <2>2. InStep'
    BY <1>1, <1>3 DEF InStep
  <2>3. SameInput'
    BY <1>1, <1>2, <1>3 DEF Shared, SameInput
  <2>4. SameDelivery'
    BY <1>2, <1>3 DEF Shared, SameDelivery
  <2>5. SameStreams'
    BY <1>1, <1>3 DEF Shared, SameStreams
  <2>6. SameBranches'
    BY <1>1, <1>3, <2>1 DEF Shared, SameBranches
  <2>7. SameSupply'
    BY <1>1, <1>3 DEF SameSupply
  <2>8. QED BY <2>2, <2>3, <2>4, <2>5, <2>6, <2>7 DEF Shared
<1>4. CASE FE!Fetch2Evaluate
  <2>1. /\ frontPhase = "fetch2" /\ frontPhase' = "fetch1"
        /\ UNCHANGED <<fetch1, frontExecuteIn, frontExecute, frontDToE, frontBranch>>
    BY <1>4 DEF FE!Fetch2Evaluate
  <2>2. FE!Now = fetch1.stream
    BY <2>1 DEF FrontKept, FE!NextFetch
  <2>3. FE!Now' = (IF frontBranch.out = Bubble THEN fetch1
                   ELSE [stream |-> frontBranch.out[1].stream,
                         pc |-> frontBranch.out[1].target]).stream
    BY <2>1 DEF FrontKept, FE!NextFetch, FE!Redirected, FE!Bubble, Bubble
  <2>4. supply = IF frontBranch.out # Bubble THEN frontBranch.out[1].stream ELSE FE!Now
    BY <2>1 DEF Shared, SameSupply
  <2>5. supply = FE!Now'
    BY <2>2, <2>3, <2>4
  <2>6. QED BY <1>3, <2>1, <2>5
<1>5. CASE FE!Fetch1Evaluate
  <2>1. /\ frontPhase = "fetch1" /\ frontPhase' = "clock"
        /\ UNCHANGED <<fetch2, frontExecuteIn, frontExecute, frontDToE, frontBranch>>
    BY <1>5 DEF FE!Fetch1Evaluate
  <2>2. supply = FE!Now'
    BY <2>1 DEF Shared, SameSupply, FE!Now
  <2>3. QED BY <1>3, <2>1, <2>2
<1>6. CASE FE!ClockLatches
  <2>1. /\ frontPhase = "clock" /\ frontPhase' = "execute"
        /\ UNCHANGED <<fetch2, frontExecuteIn, frontExecute>>
        /\ frontDToE'.out = frontDToE.in /\ frontBranch'.out = frontBranch.in
    BY <1>6 DEF FE!ClockLatches, FE!Clock
  <2>2. StreamsOf(frontBranch.out)' = StreamsOf(frontBranch.in)
    BY <2>1 DEF StreamsOf
  <2>3. InStep'
    BY <1>1, <2>1 DEF InStep
  <2>4. SameInput'
    BY <1>1, <1>2, <2>1 DEF Shared, SameInput
  <2>5. SameDelivery'
    BY <1>2, <2>1 DEF Shared, SameDelivery
  <2>6. SameStreams'
    BY <1>1, <2>1 DEF Shared, SameStreams
  <2>7. SameBranches'
    BY <1>1, <2>1, <2>2 DEF Shared, SameBranches
  <2>8. SameSupply'
    BY <1>1, <2>1 DEF Shared, SameSupply, FE!Now
  <2>9. QED BY <2>3, <2>4, <2>5, <2>6, <2>7, <2>8 DEF Shared
<1>7. QED BY <1>4, <1>5, <1>6 DEF FrontEndSteps

(* Where neither end does what the other sees.                             *)
LEMMA NothingSharedChanges ==
  ASSUME Shared,
         UNCHANGED <<phase, executeIn, dToE, execute, branch, supply, fetched>>,
         UNCHANGED <<frontPhase, frontExecuteIn, frontExecute, frontDToE, frontBranch>>,
         FE!Now' = FE!Now
  PROVE  Shared'
<1>1. /\ Image(executeIn)' = Image(executeIn) /\ AsFetched(dToE)' = AsFetched(dToE)
      /\ StreamsOf(frontBranch.out)' = StreamsOf(frontBranch.out)
      /\ StreamsOf(frontBranch.in)' = StreamsOf(frontBranch.in)
      /\ FE!ExecuteInput' = FE!ExecuteInput
  BY ImagesStay DEF StreamsOf, FE!ExecuteInput
<1>2. InStep'
  BY DEF Shared, InStep
<1>3. SameInput'
  <2>1. \/ FE!ExecuteInput = Image(executeIn)
        \/ /\ ~FE!IsEmpty(FE!ExecuteInput)
           /\ FE!PopInput(FE!ExecuteInput) = Image(executeIn)
        \/ phase # "push" /\ frontExecuteIn = Image(executeIn)
    BY DEF Shared, SameInput
  <2>2. phase # "push" => frontExecuteIn = Image(executeIn)
    BY DEF Shared, SameInput
  <2>3. QED BY <1>1, <2>1, <2>2, SameOperators DEF SameInput
<1>4. SameDelivery'
  BY <1>1 DEF Shared, SameDelivery
<1>5. SameStreams'
  BY DEF Shared, SameStreams
<1>6. SameBranches'
  BY <1>1 DEF Shared, SameBranches
<1>7. SameSupply'
  BY DEF Shared, SameSupply
<1>8. QED BY <1>2, <1>3, <1>4, <1>5, <1>6, <1>7 DEF Shared

(* The callbacks say nothing to the other end.                             *)
LEMMA CallbacksKeepShared ==
  ASSUME IInv, FrontKept, FrontKept', Shared, Callbacks
  PROVE  Shared' \/ phase' = "crashed"
<1>1. CASE FrontCallback(FE!Callback)
  <2>1. /\ frontPhase = "execute" /\ FE!Callback
        /\ UNCHANGED <<phase, executeIn, dToE, execute, branch, supply, fetched>>
    BY <1>1 DEF FrontCallback, BetweenCycles, vars
  <2>2. UNCHANGED <<frontPhase, fetch1, frontExecuteIn, frontExecute, frontDToE,
                    frontBranch>>
    BY <2>1 DEF FE!Callback, FE!ItlbFinish, FE!RecvTimingResp, FE!RecvReqRetry
  <2>3. FE!Now' = FE!Now
    BY <2>1, <2>2 DEF FrontKept, FE!NextFetch
  <2>4. QED BY <2>1, <2>2, <2>3, NothingSharedChanges
<1>2. CASE ~FrontCallback(FE!Callback)
  <2>1. /\ \/ \E n \in Num : FinishMemTranslation(n) \/ RecvTimingResp(n)
           \/ \E accept \in BOOLEAN : RecvReqRetry(accept)
        /\ UNCHANGED <<frontVars, fetched>>
    BY <1>2 DEF Callbacks, BackCallback
  <2>2. /\ phase = "writeback" /\ phase' \in {"writeback", "crashed"}
        /\ UNCHANGED <<supply, branch, dToE, executeIn, execute>>
    BY <2>1, CallbackCases
  <2>3. UNCHANGED <<frontPhase, frontExecuteIn, frontExecute, frontDToE, frontBranch,
                    fetch2>>
    BY <2>1 DEF frontVars
  <2>4. QED BY <2>1, <2>2, <2>3, NothingSharedChanges DEF FE!Now
<1>3. QED BY <1>1, <1>2

(* After a crash nothing happens.                                          *)
LEMMA CrashedStays ==
  ASSUME phase = "crashed", [PipelineNext]_pipelineVars
  PROVE  UNCHANGED pipelineVars
<1>1. ~BackEndSteps
  BY DEF BackEndSteps, WritebackEvaluate, MemoryEvaluate, ExecuteEvaluate,
     PushFree, NotReady, PushBranch, PushResult, PushMemRef, DecodeEvaluate, Pushing,
     Ready
<1>2. ~ExecuteEnds /\ ~Decodes /\ ~FrontEndSteps
  BY DEF ExecuteEnds, SetStalls, Decodes, DecodeEvaluate, FrontEndSteps
<1>3. ~Callbacks
  <2>1. ~BetweenCycles
    BY DEF BetweenCycles
  <2>2. /\ \A n \in Num : ~FinishMemTranslation(n) /\ ~RecvTimingResp(n)
        /\ \A accept \in BOOLEAN : ~RecvReqRetry(accept)
    BY DEF FinishMemTranslation, RecvTimingResp, RecvReqRetry, Callback
  <2>3. QED BY <2>1, <2>2 DEF Callbacks, FrontCallback, BackCallback
<1>4. QED BY <1>1, <1>2, <1>3 DEF PipelineNext, Evaluate, Crashed

(* The bound and the crash are final.                                      *)
LEMMA StoppedStays ==
  ASSUME IInv, Recorded, Stopped, [PipelineNext]_pipelineVars
  PROVE  Stopped' /\ ~Decodes
<1>1. CASE phase = "crashed"
  <2>1. UNCHANGED pipelineVars
    BY <1>1, CrashedStays
  <2>2. phase' = phase
    BY <2>1 DEF pipelineVars, vars
  <2>3. ~Decodes
    BY <1>1 DEF Decodes, DecodeEvaluate
  <2>4. QED BY <1>1, <2>2, <2>3 DEF Stopped
<1>2. CASE FrontEndDone
  <2>1. ~Decodes
    BY <1>2 DEF Decodes
  <2>2. Len(insts) = MaxInst /\ frontPhase = "decode"
    BY <1>2 DEF FrontEndDone
  <2>3. UNCHANGED frontPhase
    <3>1. BackEndSteps => UNCHANGED frontPhase
      BY DEF BackEndSteps, frontVars
    <3>2. ExecuteEnds => UNCHANGED frontPhase
      BY <1>2 DEF ExecuteEnds, frontVars
    <3>3. ~FrontEndSteps
      BY <2>2 DEF FrontEndSteps, FE!Fetch2Evaluate, FE!Fetch1Evaluate, FE!ClockLatches
    <3>4. Callbacks => UNCHANGED frontPhase
      BY <2>2 DEF Callbacks, FrontCallback, BackCallback, BetweenCycles, frontVars
    <3>5. Crashed \/ UNCHANGED pipelineVars => UNCHANGED frontPhase
      BY DEF Crashed, pipelineVars, frontVars
    <3>6. QED BY <2>1, <3>1, <3>2, <3>3, <3>4, <3>5 DEF PipelineNext, Evaluate
  <2>4. Len(insts') = Len(insts)
    <3>1. [Next]_vars
      BY StepsOfTheBackEnd
    <3>2. CASE DecodeEvaluate
      <4>1. UNCHANGED insts
        BY <2>2, <3>2, BackEndAssumption DEF DecodeEvaluate
      <4>2. QED BY <4>1
    <3>3. CASE ~DecodeEvaluate
      BY <3>1, <3>3, StepsKeepDecoded DEF SameDecoded
    <3>4. QED BY <3>2, <3>3
  <2>5. QED BY <2>1, <2>2, <2>3, <2>4 DEF Stopped, FrontEndDone
<1>3. QED BY <1>1, <1>2 DEF Stopped

(* Decode alone adds to what is decoded.                                   *)
LEMMA DecodesAlone ==
  ASSUME [PipelineNext]_pipelineVars, ~Decodes, DecodeEvaluate
  PROVE  UNCHANGED insts
<1>1. phase = "decode" /\ phase' = "writeback"
  BY DEF DecodeEvaluate
<1>2. ~ExecuteEnds /\ ~FrontEndSteps
  BY <1>1 DEF ExecuteEnds, SetStalls, FrontEndSteps
<1>3. Callbacks => FrontEndDone
  BY <1>1 DEF Callbacks, FrontCallback, BackCallback, BetweenCycles
<1>4. ~Crashed /\ ~UNCHANGED pipelineVars
  BY <1>1 DEF Crashed, pipelineVars, vars
<1>5. BackEndSteps => FrontEndDone
  BY <1>1 DEF BackEndSteps, WritebackEvaluate, MemoryEvaluate, ExecuteEvaluate,
     PushFree, NotReady, PushBranch, PushResult, PushMemRef, Pushing, Ready
<1>6. FrontEndDone
  BY <1>2, <1>3, <1>4, <1>5 DEF PipelineNext, Evaluate
<1>7. QED BY <1>6, BackEndAssumption DEF DecodeEvaluate, FrontEndDone

(* Every step keeps what the two share.                                    *)
LEMMA JointStep ==
  ASSUME IInv, FrontKept, FrontKept', Joint, [PipelineNext]_pipelineVars
  PROVE  Joint'
<1>1. Recorded /\ (Stopped \/ Shared)
  BY DEF Joint
<1>2. [Next]_vars
  BY StepsOfTheBackEnd
<1>3. CASE Decodes
  <2>1. Shared
    BY <1>1, <1>3, StoppedStays
  <2>2. QED BY <1>1, <1>3, <2>1, DecodesKeeps DEF Joint
<1>4. CASE ~Decodes
  <2>1. UNCHANGED fetched
    BY <1>4 DEF PipelineNext, Evaluate, BackEndSteps, ExecuteEnds, FrontEndSteps,
       Callbacks, FrontCallback, BackCallback, Crashed, pipelineVars
  <2>2. Recorded'
    <3>1. CASE DecodeEvaluate
      <4>1. UNCHANGED insts
        BY <1>4, <3>1, DecodesAlone
      <4>2. QED BY <1>1, <2>1, <4>1 DEF Recorded
    <3>2. CASE ~DecodeEvaluate
      BY <1>1, <1>2, <2>1, <3>2, StepsKeepDecoded, RecordStays
    <3>3. QED BY <3>1, <3>2
  <2>3. CASE Stopped
    BY <1>1, <2>2, <2>3, StoppedStays DEF Joint
  <2>4. CASE Shared /\ ~Stopped
    <3>1. ~FrontEndDone
      BY <2>4 DEF Stopped
    <3>2. CASE BackEndSteps
      <4>1. frontPhase = "execute" /\ UNCHANGED <<frontVars, fetched>>
        BY <3>1, <3>2 DEF BackEndSteps
      <4>2. ASSUME WritebackEvaluate \/ MemoryEvaluate PROVE Shared'
        BY <2>4, <4>1, <4>2, StagesKeepShared
      <4>3. ASSUME ExecuteEvaluate PROVE Shared'
        BY <2>4, <4>1, <4>3, ExecuteKeepsShared
      <4>4. ASSUME PushFree \/ NotReady \/ PushBranch \/ PushResult \/ PushMemRef
            PROVE  Shared' \/ Stopped'
        BY <2>4, <4>1, <4>4, PushStepsKeepShared DEF Stopped
      <4>5. Shared' \/ Stopped'
        BY <3>1, <3>2, <4>2, <4>3, <4>4 DEF BackEndSteps
      <4>6. QED BY <2>2, <4>5 DEF Joint
    <3>3. CASE ExecuteEnds
      BY <2>2, <2>4, <3>1, <3>3, ExecuteEndsKeepsShared DEF Joint
    <3>4. CASE FrontEndSteps
      BY <2>2, <2>4, <3>4, FrontStepsKeepShared DEF Joint
    <3>5. CASE Callbacks
      BY <2>2, <2>4, <3>5, CallbacksKeepShared DEF Joint, Stopped
    <3>6. CASE Crashed \/ UNCHANGED pipelineVars
      <4>1. UNCHANGED <<vars, frontVars, fetched>>
        BY <3>6 DEF Crashed, pipelineVars
      <4>2. /\ UNCHANGED <<phase, executeIn, dToE, execute, branch, supply, fetched>>
            /\ UNCHANGED <<frontPhase, frontExecuteIn, frontExecute, frontDToE,
                           frontBranch>>
            /\ FE!Now' = FE!Now
        BY <4>1 DEF vars, frontVars, FE!Now
      <4>3. QED BY <2>2, <2>4, <4>2, NothingSharedChanges DEF Joint
    <3>7. QED BY <1>4, <3>2, <3>3, <3>4, <3>5, <3>6 DEF PipelineNext, Evaluate
  <2>5. QED BY <1>1, <2>3, <2>4
<1>5. QED BY <1>3, <1>4

(* Initially the two ends agree: nothing is between them.                *)
LEMMA JointInit ==
  ASSUME PipelineInit
  PROVE  Joint
<1>1. Init /\ FE!Init /\ fetched = <<>>
  BY DEF PipelineInit
<1>2. Recorded
  <2>1. insts = <<>> /\ Len(<<>>) = 0
    BY <1>1, EmptySeq DEF Init
  <2>2. 1 .. Len(insts) = {}
    BY <2>1
  <2>3. <<>> \in Seq(FE!Inst)
    BY EmptySeq
  <2>4. QED BY <1>1, <2>1, <2>2, <2>3 DEF Recorded
<1>3. AsFetched(<<>>) = <<>>
  <2>1. 1 .. Len(<<>>) = {}
    BY EmptySeq
  <2>2. QED BY <2>1 DEF AsFetched
<1>4. /\ phase = "writeback" /\ frontPhase = "execute"
      /\ branch = [in |-> <<>>, out |-> <<>>] /\ frontBranch = [in |-> <<>>, out |-> <<>>]
      /\ frontDToE = [in |-> <<>>, out |-> <<>>] /\ dToE = <<>>
      /\ executeIn = [queue |-> <<>>, elem |-> <<>>, reserved |-> 0]
      /\ frontExecuteIn = [queue |-> <<>>, elem |-> <<>>, reserved |-> 0]
      /\ supply = 1 /\ FE!Now = 1
  BY <1>1 DEF Init, FE!Init, EmptyLatch, FE!EmptyLatch, EmptyBuffer, FE!EmptyBuffer,
     Bubble, FE!Bubble, FirstStream, FE!FirstStream, FE!Now
<1>5. /\ execute.draining = frontExecute.draining
      /\ execute.streamSeqNum = frontExecute.streamSeqNum
  BY <1>1 DEF Init, FE!Init, FirstStream, FE!FirstStream
<1>6. InStep
  BY <1>4 DEF InStep
<1>7. SameInput
  BY <1>3, <1>4 DEF SameInput, Image
<1>8. SameDelivery
  BY <1>3, <1>4 DEF SameDelivery
<1>9. SameStreams
  BY <1>4, <1>5 DEF SameStreams
<1>10. SameBranches
  BY <1>4, StreamsOfOne DEF SameBranches, Bubble
<1>11. SameSupply
  BY <1>4 DEF SameSupply
<1>12. QED BY <1>2, <1>6, <1>7, <1>8, <1>9, <1>10, <1>11 DEF Joint, Shared

(* Between two cycles that is what ViewsAgree says.                        *)
LEMMA JointAgrees ==
  ASSUME Joint
  PROVE  ViewsAgree
<1>1. Recorded /\ (Stopped \/ Shared)
  BY DEF Joint
<1>2. ASSUME BetweenCycles
      PROVE  /\ frontExecuteIn.queue = AsFetched(executeIn.queue)
             /\ frontExecuteIn.reserved = executeIn.reserved
             /\ frontDToE.out = AsFetched(dToE)
             /\ frontExecute.streamSeqNum = execute.streamSeqNum
             /\ frontExecute.draining = execute.draining
             /\ branch.out = [i \in 1 .. Len(frontBranch.out) |->
                                frontBranch.out[i].stream]
  <2>1. phase = "writeback" /\ frontPhase = "execute" /\ Shared
    BY <1>1, <1>2 DEF BetweenCycles, Stopped, FrontEndDone
  <2>2. frontExecuteIn = Image(executeIn) /\ frontDToE.out = AsFetched(dToE)
    BY <2>1 DEF Shared, SameInput, SameDelivery
  <2>3. /\ frontExecute.streamSeqNum = execute.streamSeqNum
        /\ frontExecute.draining = execute.draining
    BY <2>1 DEF Shared, SameStreams
  <2>4. branch.out = StreamsOf(frontBranch.out)
    BY <2>1 DEF Shared, SameBranches
  <2>5. QED BY <2>2, <2>3, <2>4 DEF Image, StreamsOf
<1>3. QED BY <1>1, <1>2 DEF ViewsAgree, Recorded

(* The front end and the back end never part: between two cycles they      *)
(* agree on what Execute has still to issue and on the slots promised to   *)
(* it, on the stream and on whether it drains, on what is delivered and on *)
(* the last branch, whatever the two stages have done since.               *)
THEOREM TheEndsAgree == PipelineSpec => []ViewsAgree
<1>1. PipelineInit => Joint
  BY JointInit
<1>2. IInv /\ FrontKept /\ FrontKept' /\ Joint /\ [PipelineNext]_pipelineVars => Joint'
  BY JointStep
<1>3. FE!IInv /\ FE!Conveyed => FrontKept
  BY FrontEndState
<1>4. Joint => ViewsAgree
  BY JointAgrees
<1>5. QED BY <1>1, <1>2, <1>3, <1>4, BothEndsKept, PTL DEF PipelineSpec
-----------------------------------------------------------------------------
(* The program.                                                            *)

(* What Decode's step says to the pipeline: the front end's lemma.         *)
LEMMA FrontDecodeMoves ==
  ASSUME FE!IInv, FE!Conveyed, FE!DecodeEvaluate
  PROVE  FE!DecodeMoves
BY FrontEndParameters, FE!DecodeGoesOn DEF FE!DecodeGoesOn

(* Where each stream starts is decided when Execute is through: by then    *)
(* the target of every branch that has opened one is known.                *)
OutcomesCounted ==
  /\ outcome \in Seq(FE!Addr) /\ Len(outcome) >= 1 /\ outcome[1] = Entry
  /\ Len(outcome) <= execute.streamSeqNum
  /\ phase \notin {"push", "crashed"} => Len(outcome) = execute.streamSeqNum
  /\ ~Stopped => Len(outcome) = frontExecute.streamSeqNum

(* A branch leads where the program lets it.                               *)
OpenersLead ==
  \A n \in Opened : insts[n].opens <= Len(outcome) =>
    outcome[insts[n].opens] \in Targets[fetched[n].pc]

(* Those that are retired have done so.                                    *)
RetiredLead ==
  \A n \in Ids(retired) :
    insts[n].op = "Branch" => insts[n].opens \in 1 .. Len(outcome)

(* What Execute is given has been decoded.                                 *)
Delivered ==
  /\ frontExecuteIn \in BufferOf(Ids(fetched))
  /\ frontDToE \in LatchOf(Ids(fetched))

(* As long as nothing of a stream is decoded, Execute expects its start.   *)
Expected ==
  LET s == frontExecute.streamSeqNum
  IN  ~Stopped /\ (\A n \in Decoded : insts[n].stream # s) =>
        frontExecute.expect = outcome[s]

Following(pc) == FE!After(pc, FE!Length(pc))

(* Decode goes on behind the last instruction it has delivered.            *)
Continued ==
  fetched # <<>> =>
    LET x == fetched[Len(fetched)]
    IN  /\ x.stream <= decode.lastStreamSeqNum
        /\ x.stream = decode.lastStreamSeqNum =>
             decode.havePC /\ decode.pc = Following(x.pc)

(* The first instruction of its stream.                                    *)
Starts(n) == n = 1 \/ insts[n].stream # insts[n - 1].stream

(* An instruction is the program's at its pc, and that is where its stream *)
(* starts or where the instruction before it has led.                      *)
Located(n) ==
  /\ insts[n].op = Program[fetched[n].pc].op
  /\ IF Starts(n)
     THEN /\ insts[n].stream <= Len(outcome)
          /\ fetched[n].pc = outcome[insts[n].stream]
     ELSE fetched[n].pc = Following(fetched[n - 1].pc)

AllLocated == \A n \in Decoded : Located(n)

(* But for Decode and the end of Execute, the front end neither delivers   *)
(* nor hears of a branch.                                                  *)
LEMMA FrontOtherwise ==
  ASSUME [PipelineNext]_pipelineVars, ~Decodes, ~ExecuteEnds
  PROVE  /\ UNCHANGED <<fetched, outcome, decode, frontExecute, frontExecuteIn>>
         /\ frontDToE' = frontDToE \/ frontDToE' = Clock(frontDToE)
<1>1. CASE UNCHANGED <<frontVars, fetched, outcome>>
  BY <1>1 DEF frontVars
<1>2. CASE BackEndSteps
  BY <1>1, <1>2 DEF BackEndSteps
<1>3. CASE FrontEndSteps
  <2>1. UNCHANGED <<fetched, outcome>>
    BY <1>3 DEF FrontEndSteps
  <2>2. CASE FE!Fetch2Evaluate
    BY <2>1, <2>2 DEF FE!Fetch2Evaluate
  <2>3. CASE FE!Fetch1Evaluate
    BY <2>1, <2>3 DEF FE!Fetch1Evaluate
  <2>4. CASE FE!ClockLatches
    BY <2>1, <2>4 DEF FE!ClockLatches, FE!Clock, Clock, FE!Bubble, Bubble
  <2>5. QED BY <1>3, <2>2, <2>3, <2>4 DEF FrontEndSteps
<1>4. CASE Callbacks
  <2>1. CASE FrontCallback(FE!Callback)
    BY <2>1 DEF FrontCallback, FE!Callback, FE!ItlbFinish, FE!RecvTimingResp,
       FE!RecvReqRetry
  <2>2. CASE ~FrontCallback(FE!Callback)
    BY <1>1, <1>4, <2>2 DEF Callbacks, BackCallback
  <2>3. QED BY <2>1, <2>2
<1>5. CASE Crashed \/ UNCHANGED pipelineVars
  BY <1>1, <1>5 DEF Crashed, pipelineVars
<1>6. QED BY <1>2, <1>3, <1>4, <1>5 DEF PipelineNext, Evaluate

(* But for Decode, only a branch that is pushed changes what is known of   *)
(* an instruction: it opens the next stream.                               *)
LEMMA ProgramOtherwise ==
  ASSUME IInv, [PipelineNext]_pipelineVars, ~Decodes
  PROVE  /\ Decoded' = Decoded
         /\ \A n \in Decoded :
              /\ insts'[n].op = insts[n].op /\ insts'[n].stream = insts[n].stream
              /\ \/ insts'[n].opens = insts[n].opens
                 \/ /\ phase = "push" /\ insts[n].opens = 0
                    /\ insts'[n].opens = execute.streamSeqNum + 1
<1>1. [Next]_vars
  BY StepsOfTheBackEnd
<1>2. Decoded = 1 .. Len(insts)
  BY DEF Decoded
<1>3. SameDecoded
  <2>1. CASE DecodeEvaluate
    BY <2>1, DecodesAlone DEF SameDecoded
  <2>2. CASE ~DecodeEvaluate
    BY <1>1, <2>2, StepsKeepDecoded
  <2>3. QED BY <2>1, <2>2
<1>4. Decoded' = Decoded /\ \A n \in Decoded : insts'[n].stream = insts[n].stream
  BY <1>3 DEF SameDecoded, Decoded
<1>5. CASE PushFree \/ NotReady \/ PushBranch \/ PushResult \/ PushMemRef
  <2>1. PICK d : PushStep(d)
    BY <1>5, PushFreeStep, NotReadyStep, PushBranchStep, PushResultStep, PushMemRefStep
  <2>2. /\ insts'[Current] = d /\ insts[Current].opens = 0
        /\ \A m \in Decoded : /\ m # Current => insts'[m] = insts[m]
                              /\ insts'[m].op = insts[m].op
    BY <2>1, PushKeepsInsts
  <2>3. d.opens = insts[Current].opens \/ d.opens = execute.streamSeqNum + 1
    BY <2>1 DEF PushStep, SameStream, OpensStream
  <2>4. phase = "push"
    BY <2>1 DEF PushStep
  <2>5. ASSUME NEW n \in Decoded
        PROVE  /\ insts'[n].op = insts[n].op
               /\ \/ insts'[n].opens = insts[n].opens
                  \/ /\ phase = "push" /\ insts[n].opens = 0
                     /\ insts'[n].opens = execute.streamSeqNum + 1
    <3>1. CASE n = Current
      BY <2>2, <2>3, <2>4, <3>1
    <3>2. CASE n # Current
      BY <2>2, <3>2
    <3>3. QED BY <3>1, <3>2
  <2>6. QED BY <1>4, <2>5
<1>6. CASE ~(PushFree \/ NotReady \/ PushBranch \/ PushResult \/ PushMemRef)
  <2>1. \A n \in Decoded : insts'[n].op = insts[n].op /\ insts'[n].opens = insts[n].opens
    BY <1>1, <1>6, SameOtherwise
  <2>2. QED BY <1>4, <2>1
<1>7. QED BY <1>5, <1>6

(* The stream Execute is in changes in trytoPush(), until the end of       *)
(* Execute or a crash.                                                     *)
LEMMA StreamsOtherwise ==
  ASSUME IInv, [PipelineNext]_pipelineVars
  PROVE  /\ execute.streamSeqNum \in Nat /\ execute'.streamSeqNum \in Nat
         /\ execute.streamSeqNum <= execute'.streamSeqNum
         /\ phase # "push" \/ ExecuteEnds =>
              execute'.streamSeqNum = execute.streamSeqNum
         /\ phase = "push" /\ ~ExecuteEnds => phase' \in {"push", "crashed"}
<1> DEFINE s == execute.streamSeqNum
<1>1. s \in Nat /\ s + 1 \in Nat /\ s <= s + 1
  BY PathNamed
<1>2. CASE ExecuteEnds
  <2> DEFINE B == {b \in Box : ~CanReserveEntry(isb[b], MemoryBufferSize)}
  <2>1. execute' = [execute EXCEPT !.at = 1, !.blocked = B]
    BY <1>2 DEF ExecuteEnds, SetStalls
  <2>2. execute \in ExecuteFields
    BY DEF IInv, TypeOK, ExecuteFields
  <2> HIDE DEF B
  <2>3. execute'.streamSeqNum = s
    BY <2>1, <2>2 DEF ExecuteFields
  <2>4. QED BY <1>1, <1>2, <2>3
<1>3. ASSUME execute'.streamSeqNum = s,
             phase # "push" \/ phase' \in {"push", "crashed"}
      PROVE  /\ s \in Nat /\ execute'.streamSeqNum \in Nat
             /\ s <= execute'.streamSeqNum
             /\ phase # "push" \/ ExecuteEnds => execute'.streamSeqNum = s
             /\ phase = "push" /\ ~ExecuteEnds => phase' \in {"push", "crashed"}
  BY <1>1, <1>3
<1>4. CASE PushFree \/ NotReady \/ PushBranch \/ PushResult \/ PushMemRef
  <2>1. PICK d : PushStep(d)
    BY <1>4, PushFreeStep, NotReadyStep, PushBranchStep, PushResultStep, PushMemRefStep
  <2>2. /\ phase = "push" /\ phase' \in {"push", "crashed"}
        /\ execute'.streamSeqNum = s \/ execute'.streamSeqNum = s + 1
    BY <2>1 DEF PushStep, SameStream, OpensStream
  <2>3. ~ExecuteEnds
    BY <2>2 DEF ExecuteEnds, SetStalls
  <2>4. QED BY <1>1, <2>2, <2>3
<1>5. CASE ExecuteEvaluate
  <2>1. phase = "execute" /\ execute'.streamSeqNum = s
    <3>1. phase = "execute"
      BY <1>5 DEF ExecuteEvaluate
    <3>2. execute'.streamSeqNum = s
      BY <1>5, ExecuteKeepsStream
    <3>3. QED BY <3>1, <3>2
  <2>2. QED BY <1>3, <2>1
<1>6. CASE WritebackEvaluate \/ MemoryEvaluate \/ DecodeEvaluate
  <2>1. execute' = execute /\ phase # "push"
    BY <1>6 DEF WritebackEvaluate, MemoryEvaluate, DecodeEvaluate
  <2>2. QED BY <1>3, <2>1
<1>7. CASE FrontEndSteps \/ Callbacks
  <2>1. execute' = execute /\ phase = "writeback"
    <3>1. CASE FrontEndSteps
      BY <3>1 DEF FrontEndSteps, vars
    <3>2. CASE FrontCallback(FE!Callback)
      BY <3>2 DEF FrontCallback, BetweenCycles, vars
    <3>3. CASE Callbacks /\ ~FrontCallback(FE!Callback)
      BY <3>3, CallbackCases DEF Callbacks, BackCallback
    <3>4. QED BY <1>7, <3>1, <3>2, <3>3
  <2>2. QED BY <1>3, <2>1
<1>8. CASE Crashed \/ UNCHANGED pipelineVars
  <2>1. execute' = execute /\ phase' = phase
    BY <1>8 DEF Crashed, pipelineVars, vars
  <2>2. QED BY <1>3, <2>1
<1>9. QED
  BY <1>2, <1>4, <1>5, <1>6, <1>7, <1>8 DEF PipelineNext, Evaluate, BackEndSteps, Decodes

(* What was decoded stays, and so do the beginnings of streams.            *)
LEMMA LocatedOtherwise ==
  ASSUME NEW D, D \subseteq Nat,
         \A n \in D : n = 1 \/ n - 1 \in D,
         \A n \in D : /\ Located(n)
                      /\ insts'[n].op = insts[n].op /\ insts'[n].stream = insts[n].stream
                      /\ fetched'[n] = fetched[n]
                      /\ insts[n].stream <= Len(outcome) =>
                           /\ insts[n].stream <= Len(outcome')
                           /\ outcome'[insts[n].stream] = outcome[insts[n].stream]
  PROVE  \A n \in D : Located(n)'
<1> SUFFICES ASSUME NEW n \in D PROVE Located(n)'
  OBVIOUS
<1>1. Starts(n)' <=> Starts(n)
  BY DEF Starts
<1>2. insts'[n].op = Program[fetched'[n].pc].op
  BY DEF Located
<1>3. CASE Starts(n)
  BY <1>1, <1>2, <1>3 DEF Located
<1>4. CASE ~Starts(n)
  <2>1. n - 1 \in D
    BY <1>4 DEF Starts
  <2>2. fetched'[n].pc = Following(fetched'[n - 1].pc)
    BY <1>4, <2>1 DEF Located
  <2>3. Located(n)' <=>
          /\ insts'[n].op = Program[fetched'[n].pc].op
          /\ IF Starts(n)'
             THEN /\ insts'[n].stream <= Len(outcome')
                  /\ fetched'[n].pc = outcome'[insts'[n].stream]
             ELSE fetched'[n].pc = Following(fetched'[n - 1].pc)
    BY DEF Located, Following, FE!After, FE!Length
  <2>4. QED BY <1>1, <1>2, <1>4, <2>2, <2>3
<1>5. QED BY <1>3, <1>4
(* Once Execute is through, what a branch that is retired has opened is    *)
(* known.                                                                  *)
LEMMA RetiredHaveLed ==
  FollowsThePath /\ FirstBranchesOpen /\ OutcomesCounted
    => (phase \notin {"push", "crashed"} => RetiredLead)
<1> SUFFICES ASSUME FollowsThePath, FirstBranchesOpen, OutcomesCounted,
                    phase \notin {"push", "crashed"},
                    NEW n \in Ids(retired), insts[n].op = "Branch"
             PROVE  insts[n].opens \in 1 .. Len(outcome)
  BY DEF RetiredLead
<1>1. IInv /\ BranchesThroughBase /\ OpenersKnown
  BY DEF FollowsThePath, BranchesCounted, OnThePath
<1>2. n \in Decoded /\ n \in Num
  BY <1>1, PathNamed, Named DEF Done, IInv
<1>3. insts[n].opens # 0
  BY <1>1, <1>2 DEF BranchesThroughBase, Past
<1>4. insts[n].opens <= execute.streamSeqNum /\ insts[n].opens \in Nat
  BY <1>1, <1>2, <1>3, PathNamed DEF OpenersKnown, Opened
<1>5. Len(outcome) = execute.streamSeqNum /\ execute.streamSeqNum \in Nat
  BY <1>1, PathNamed DEF OutcomesCounted
<1>6. QED BY <1>3, <1>4, <1>5

(* Writeback alone retires.                                                *)
LEMMA RetiredOtherwise ==
  ASSUME IInv, [Next]_vars, ~WritebackEvaluate
  PROVE  retired' = retired
<1>1. CASE PushFree \/ NotReady \/ PushBranch \/ PushResult \/ PushMemRef
  <2>1. PICK d : PushStep(d)
    BY <1>1, PushFreeStep, NotReadyStep, PushBranchStep, PushResultStep, PushMemRefStep
  <2>2. QED BY <2>1, PutsCurrent
<1>2. CASE MemoryEvaluate \/ ExecuteEvaluate \/ SetStalls \/ DecodeEvaluate
  BY <1>2 DEF MemoryEvaluate, ExecuteEvaluate, SetStalls, DecodeEvaluate
<1>3. CASE \/ \E n \in Num : FinishMemTranslation(n) \/ RecvTimingResp(n)
           \/ \E accept \in BOOLEAN : RecvReqRetry(accept)
  BY <1>3, CallbackCases
<1>4. CASE UNCHANGED vars
  BY <1>4 DEF vars
<1>5. QED BY <1>1, <1>2, <1>3, <1>4 DEF Next, Cycle

(* While Execute pushes, and after a crash, nothing is retired.            *)
LEMMA RetiredLeadKept ==
  ASSUME IInv, RetiredLead, [PipelineNext]_pipelineVars,
         phase' \notin {"push", "crashed"} => RetiredLead'
  PROVE  RetiredLead'
<1> SUFFICES ASSUME phase' \in {"push", "crashed"} PROVE RetiredLead'
  OBVIOUS
<1>1. ~WritebackEvaluate /\ ~Decodes /\ ~ExecuteEnds
  BY DEF WritebackEvaluate, Decodes, DecodeEvaluate, ExecuteEnds, SetStalls
<1>2. retired' = retired
  BY <1>1, StepsOfTheBackEnd, RetiredOtherwise
<1>3. outcome' = outcome
  BY <1>1, FrontOtherwise
<1>4. ASSUME NEW n \in Ids(retired), insts'[n].op = "Branch"
      PROVE  insts'[n].opens \in 1 .. Len(outcome)
  <2>1. n \in Decoded
    BY PathNamed DEF Done
  <2>2. insts'[n].op = insts[n].op
        /\ (insts'[n].opens = insts[n].opens \/ insts[n].opens = 0)
    BY <1>1, <2>1, ProgramOtherwise
  <2>3. insts[n].opens \in 1 .. Len(outcome)
    BY <1>4, <2>2 DEF RetiredLead
  <2>4. insts[n].opens # 0
    BY <2>3
  <2>5. QED BY <2>2, <2>3, <2>4
<1>5. Ids(retired)' = Ids(retired)
  BY <1>2 DEF Ids
<1>6. QED BY <1>3, <1>4, <1>5 DEF RetiredLead

(* But for Decode and the end of Execute, nothing becomes known of the     *)
(* program.                                                                *)
LEMMA OthersFollow ==
  ASSUME IInv, Recorded, OutcomesCounted, OpenersLead, Delivered, Expected,
         Continued, AllLocated,
         [PipelineNext]_pipelineVars, ~Decodes, ~ExecuteEnds
  PROVE  /\ OutcomesCounted' /\ OpenersLead' /\ Delivered' /\ Expected'
         /\ Continued' /\ AllLocated'
<1>1. /\ UNCHANGED <<fetched, outcome, decode, frontExecute, frontExecuteIn>>
      /\ frontDToE' = frontDToE \/ frontDToE' = Clock(frontDToE)
  BY FrontOtherwise
<1>2. /\ Decoded' = Decoded
      /\ \A n \in Decoded :
           /\ insts'[n].op = insts[n].op /\ insts'[n].stream = insts[n].stream
           /\ \/ insts'[n].opens = insts[n].opens
              \/ insts'[n].opens = execute.streamSeqNum + 1
  BY ProgramOtherwise
<1>3. ~Stopped' => ~Stopped
  BY StoppedStays
<1>4. Len(outcome) <= execute.streamSeqNum /\ execute.streamSeqNum \in Nat
      /\ Len(outcome) \in Nat
  BY PathNamed DEF OutcomesCounted
<1>5. OutcomesCounted'
  <2>1. /\ execute'.streamSeqNum \in Nat
        /\ execute.streamSeqNum <= execute'.streamSeqNum
        /\ phase # "push" => execute'.streamSeqNum = execute.streamSeqNum
        /\ phase = "push" => phase' \in {"push", "crashed"}
    BY StreamsOtherwise
  <2>2. phase = "crashed" => phase' = "crashed"
    BY CrashedStays DEF pipelineVars, vars
  <2>3. Len(outcome) <= execute'.streamSeqNum
    BY <1>4, <2>1
  <2>4. phase' \notin {"push", "crashed"} => Len(outcome) = execute'.streamSeqNum
    BY <2>1, <2>2 DEF OutcomesCounted
  <2>5. QED BY <1>1, <1>3, <2>3, <2>4 DEF OutcomesCounted
<1>6. OpenersLead'
  <2>1. ASSUME NEW n \in Decoded, insts'[n].opens # 0, insts'[n].opens <= Len(outcome)
        PROVE  outcome[insts'[n].opens] \in Targets[fetched[n].pc]
    <3>1. insts'[n].opens = insts[n].opens
      BY <1>2, <1>4, <2>1
    <3>2. QED BY <2>1, <3>1 DEF OpenersLead, Opened
  <2>2. QED BY <1>1, <1>2, <2>1 DEF OpenersLead, Opened
<1>7. Delivered'
  <2>1. Ids(fetched)' = Ids(fetched)
    BY <1>1 DEF Ids
  <2>2. \A S, l : l \in LatchOf(S) => Clock(l) \in LatchOf(S)
    BY DEF LatchOf, Clock, Wire
  <2>3. QED BY <1>1, <2>1, <2>2 DEF Delivered
<1>8. Expected'
  BY <1>1, <1>2, <1>3 DEF Expected
<1>9. Continued'
  BY <1>1 DEF Continued, Following, FE!After, FE!Length
<1>10. AllLocated'
  <2>1. Decoded \subseteq Nat /\ \A n \in Decoded : n = 1 \/ n - 1 \in Decoded
    BY PathNamed, Named DEF IInv, Decoded
  <2>2. \A n \in Decoded : Located(n)'
    BY <1>1, <1>2, <2>1, LocatedOtherwise DEF AllLocated
  <2>3. QED BY <1>2, <2>2 DEF AllLocated
<1>11. QED BY <1>5, <1>6, <1>7, <1>8, <1>9, <1>10
(* So do those that push and reserve; and the front is one of them.        *)
LEMMA TypedFront ==
  ASSUME NEW S, NEW b \in BufferOf(S)
  PROVE  /\ PushTail(b) \in BufferOf(S) /\ Reserve(b) \in BufferOf(S)
         /\ ~IsEmpty(b) => Front(b) \in S
<1> DEFINE p == b.queue  d == b.elem  n == b.reserved
<1>1. /\ p \in Seq(S) /\ n \in Nat /\ d \in Wire(S) /\ <<>> \in Wire(S)
      /\ <<>> \in Seq(S)
  BY EmptySeq DEF BufferOf, Wire, Bubble
<1>2. b = Fields(p, d, n)
  BY DEF BufferOf, Fields
<1>3. \A q \in Seq(S), e \in Wire(S), k \in Nat : Fields(q, e, k) \in BufferOf(S)
  BY DEF Fields, BufferOf
<1>4. LessOne(n) \in Nat /\ n + 1 \in Nat
  BY <1>1 DEF LessOne
<1>5. d # <<>> => d[1] \in S
  BY <1>1 DEF Wire, Bubble
<1>6. ~IsEmpty(b) => Front(b) \in S
  <2>1. p # <<>> => p[1] \in S
    BY <1>1
  <2>2. QED BY <1>5, <2>1 DEF Front, IsEmpty, Bubble
<1>7. d # <<>> => Append(p, d[1]) \in Seq(S)
  <2> SUFFICES ASSUME d # <<>> PROVE Append(p, d[1]) \in Seq(S)
    OBVIOUS
  <2>1. d[1] \in S
    BY <1>5
  <2> HIDE DEF p, d
  <2>2. QED BY <1>1, <2>1
<1> HIDE DEF p, d, n
<1>8. PushTail(b) \in BufferOf(S)
  <2>1. CASE d = <<>>
    <3>1. PushTail(b) = b
      BY <1>2, <2>1, BufferFieldsAfter
    <3>2. QED BY <3>1
  <2>2. CASE d # <<>>
    <3>1. PushTail(b) = Fields(Append(p, d[1]), <<>>, LessOne(n))
      BY <1>2, <2>2, BufferFieldsAfter
    <3>2. QED BY <1>1, <1>3, <1>4, <1>7, <2>2, <3>1
  <2>3. QED BY <2>1, <2>2
<1>9. Reserve(b) \in BufferOf(S)
  <2>1. Reserve(b) = Fields(p, d, n + 1)
    BY <1>2, BufferFieldsAfter
  <2>2. QED BY <1>1, <1>3, <1>4, <2>1
<1>10. QED BY <1>6, <1>8, <1>9

(* The end of Execute in the front end: what it has issued, then what it   *)
(* is shown of the branches.                                               *)
Issued ==
  LET c == FE!ExecuteInput
      e == [frontExecute EXCEPT !.draining = FALSE]
  IN  IF Len(Contents(c)) > Len(Contents(executeIn))
      THEN FE!Consume(e, FE!Front(c)) ELSE e

(* The end of Execute adds the last branch of the cycle to it.           *)
LEMMA BranchesShown ==
  ASSUME IInv, FrontKept, Shared, ExecuteEnds, ~FrontEndDone
  PROVE  /\ branch.in = Bubble => frontExecute' = Issued
         /\ branch.in # Bubble =>
              frontExecute' = FE!TakeBranch(Issued, [stream |-> branch.in[1],
                                                     target |-> outcome'[branch.in[1]]])
<1> DEFINE c == FE!ExecuteInput
           consume == Len(Contents(c)) > Len(Contents(executeIn))
           x == [stream |-> branch.in[1], target |-> outcome'[branch.in[1]]]
<1>1. /\ FE!ExecuteEvaluate(consume)
      /\ IF branch.in = Bubble THEN frontBranch' = frontBranch
         ELSE frontBranch'.in = <<x>>
  BY DEF ExecuteEnds
<1>2. /\ frontPhase = "execute"
      /\ \/ frontExecute' = Issued /\ UNCHANGED frontBranch
         \/ \E taken \in FE!BranchData :
              /\ frontExecute' = FE!TakeBranch(Issued, taken)
              /\ frontBranch' = FE!Drive(frontBranch, taken)
  BY <1>1 DEF FE!ExecuteEvaluate, Issued
<1> HIDE DEF consume, c, x
<1>3. /\ frontBranch.in = Bubble
      /\ \A y : FE!Drive(frontBranch, y).in = <<y>> /\ <<y>> # Bubble
  <2>1. frontBranch.in = Bubble /\ frontBranch \in LatchOf(FE!BranchData)
    BY <1>2 DEF FrontKept, EachOnce
  <2>2. \A y : FE!Drive(frontBranch, y).in = <<y>>
    BY <2>1 DEF FE!Drive, LatchOf
  <2>3. \A y : <<y>> # <<>>
    OBVIOUS
  <2>4. QED BY <2>1, <2>2, <2>3 DEF Bubble
<1>4. CASE branch.in = Bubble
  BY <1>1, <1>2, <1>3, <1>4
<1>5. CASE branch.in # Bubble
  <2>1. PICK taken : /\ frontExecute' = FE!TakeBranch(Issued, taken)
                     /\ frontBranch' = FE!Drive(frontBranch, taken)
    BY <1>1, <1>2, <1>3, <1>5
  <2>2. <<taken>> = <<x>>
    BY <1>1, <1>3, <1>5, <2>1
  <2>3. taken = x
    BY <2>2
  <2>4. QED BY <1>5, <2>1, <2>3 DEF x
<1>6. QED BY <1>4, <1>5

(* The targets of the branches become known.                               *)
LEMMA OutcomesGrow ==
  ASSUME IInv, OutcomesCounted, ExecuteEnds
  PROVE  /\ phase = "push" /\ phase' = "decode"
         /\ UNCHANGED <<insts, fetched, branch>>
         /\ execute'.streamSeqNum = execute.streamSeqNum
         /\ outcome' \in Seq(FE!Addr) /\ Len(outcome') = execute.streamSeqNum
         /\ \A k \in 1 .. Len(outcome) : outcome'[k] = outcome[k]
         /\ \A k \in 1 .. Len(outcome') : k > Len(outcome) =>
              outcome'[k] \in Targets[fetched[Opener(k)].pc]
<1> DEFINE l == Len(outcome)  m == execute.streamSeqNum - l
<1>1. /\ outcome \in Seq(FE!Addr) /\ l \in Nat /\ l <= execute.streamSeqNum
      /\ execute.streamSeqNum \in Nat
  BY PathNamed DEF OutcomesCounted
<1>2. m \in Nat /\ l + m = execute.streamSeqNum
  BY <1>1
<1>3. PICK picks \in [1 .. m -> FE!Addr] :
        /\ \A i \in 1 .. m : picks[i] \in Targets[fetched[Opener(l + i)].pc]
        /\ outcome' = outcome \o picks
  BY DEF ExecuteEnds, Branches
<1>4. picks \in Seq(FE!Addr) /\ Len(picks) = m
  <2> HIDE DEF m
  <2>1. QED BY <1>2, <1>3
<1>5. /\ outcome' \in Seq(FE!Addr) /\ Len(outcome') = l + m
      /\ \A i \in 1 .. l + m :
           outcome'[i] = IF i <= l THEN outcome[i] ELSE picks[i - l]
  BY <1>1, <1>3, <1>4, ConcatProperties
<1>6. \A k \in 1 .. l : outcome'[k] = outcome[k]
  <2> HIDE DEF m
  <2>1. \A k \in 1 .. l : k \in 1 .. l + m /\ k <= l
    BY <1>1, <1>2
  <2>2. QED BY <1>5, <2>1
<1>7. ASSUME NEW k \in 1 .. l + m, k > l
      PROVE  outcome'[k] \in Targets[fetched[Opener(k)].pc]
  <2> HIDE DEF l, m
  <2>1. k - l \in 1 .. m /\ ~(k <= l) /\ l + (k - l) = k
    BY <1>1, <1>2, <1>7
  <2>2. outcome'[k] = picks[k - l]
    BY <1>5, <2>1
  <2>3. picks[k - l] \in Targets[fetched[Opener(l + (k - l))].pc]
    BY <1>3, <2>1
  <2>4. QED BY <2>1, <2>2, <2>3
<1>8. /\ phase = "push" /\ phase' = "decode" /\ UNCHANGED <<insts, fetched, branch>>
      /\ execute'.streamSeqNum = execute.streamSeqNum
  <2>1. execute'.streamSeqNum = execute.streamSeqNum
    BY StreamsOtherwise DEF PipelineNext, Evaluate
  <2>2. QED BY <2>1 DEF ExecuteEnds, SetStalls
<1>9. QED BY <1>2, <1>5, <1>6, <1>7, <1>8
(* Each of the new streams has one opener.                                 *)
LEMMA OpenerIsOne ==
  ASSUME FollowsThePath, FirstBranchesOpen, NEW n \in Opened
  PROVE  Opener(insts[n].opens) = n
<1> DEFINE k == insts[n].opens
<1>1. IInv /\ OnlyBranchesOpen /\ OpenersKnown
  BY DEF FollowsThePath, BranchesCounted, OnThePath
<1>2. n \in 1 .. Len(insts) /\ k # 0
  BY DEF Opened, Decoded
<1>3. ASSUME NEW m \in 1 .. Len(insts), insts[m].opens = k PROVE m = n
  <2>1. m \in Decoded /\ m \in Opened
    BY <1>2, <1>3 DEF Opened, Decoded
  <2>2. insts[m].stream \in Nat /\ insts[n].stream \in Nat
    BY <1>1, <2>1, PathNamed DEF Opened
  <2>3. k = insts[m].stream + 1 /\ k = insts[n].stream + 1
    BY <1>1, <1>3, <2>1 DEF OpenersKnown
  <2>4. insts[m].stream = insts[n].stream
    BY <2>2, <2>3
  <2>5. insts[m].op = "Branch" /\ NotInShadow(m)
    BY <1>1, <2>1 DEF OnlyBranchesOpen, FirstBranchesOpen, Opened
  <2>6. QED BY <1>1, <2>1, <2>4, <2>5, OneOpener
<1> HIDE DEF k
<1>4. \A m \in 1 .. Len(insts) : insts[m].opens = k <=> m = n
  BY <1>2, <1>3 DEF k
<1>5. Opener(k) = CHOOSE m \in 1 .. Len(insts) : insts[m].opens = k
  BY DEF Opener
<1>6. QED BY <1>2, <1>4, <1>5 DEF k

(* At the end of Execute the front end goes on where the program does.     *)
LEMMA ExecuteEndsExpects ==
  ASSUME IInv, FrontKept, Recorded, Shared, ~Stopped, OutcomesCounted, Delivered,
         Expected, ExecuteEnds
  PROVE  /\ Delivered'
         /\ LET s == frontExecute'.streamSeqNum
            IN  (\A n \in Decoded : insts[n].stream # s) =>
                  frontExecute'.expect = outcome'[s]
<1> DEFINE c == FE!ExecuteInput
           b == SetTail(frontExecuteIn, frontDToE.out)
           consume == Len(Contents(c)) > Len(Contents(executeIn))
           e == [frontExecute EXCEPT !.draining = FALSE]
           S == Ids(fetched)
<1>1. ~FrontEndDone
  BY DEF Stopped
<1>2. /\ consume => ~FE!IsEmpty(c)
      /\ frontExecuteIn' = FE!PushTail(IF consume THEN FE!PopInput(c) ELSE c)
      /\ frontDToE' = frontDToE
  BY <1>1 DEF ExecuteEnds, FE!ExecuteEvaluate
<1>3. /\ fetched' = fetched /\ outcome' \in Seq(FE!Addr)
      /\ \A k \in 1 .. Len(outcome) : outcome'[k] = outcome[k]
  BY OutcomesGrow
<1>4. c \in BufferOf(S)
  <2>1. frontExecuteIn \in BufferOf(S) /\ frontDToE.out \in Wire(S)
    BY DEF Delivered, LatchOf
  <2> HIDE DEF S
  <2>2. b \in BufferOf(S)
    BY <2>1, TypedBuffers
  <2>3. PopAll(b) \in BufferOf(S)
    BY <2>1, <2>2, TypedBuffers
  <2>4. c = IF frontExecute.draining THEN PopAll(b) ELSE b
    BY SameOperators DEF FE!ExecuteInput
  <2> HIDE DEF b, c
  <2>5. QED BY <2>2, <2>3, <2>4
<1>5. /\ PushTail(c) \in BufferOf(S) /\ PushTail(PopInput(c)) \in BufferOf(S)
      /\ ~IsEmpty(c) => Front(c) \in S
  <2> HIDE DEF c, S
  <2>1. PopInput(c) \in BufferOf(S)
    <3>1. <<>> \in Wire(S)
      BY DEF Wire, Bubble
    <3>2. QED BY <1>4, <3>1, TypedBuffers
  <2>2. QED BY <1>4, <2>1, TypedFront
<1>6. Delivered'
  <2>1. Ids(fetched)' = S
    BY <1>3 DEF Ids
  <2>2. frontExecuteIn' \in {PushTail(c), PushTail(PopInput(c))}
    <3> HIDE DEF c, consume
    <3>1. QED BY <1>2, SameOperators
  <2>3. frontExecuteIn' \in BufferOf(S)
    BY <1>5, <2>2
  <2>4. frontDToE' \in LatchOf(S)
    BY <1>2 DEF Delivered
  <2> HIDE DEF S
  <2>5. QED BY <2>1, <2>3, <2>4 DEF Delivered
<1>7. consume => \E n \in Decoded : FE!Front(c).stream = insts[n].stream
  <2> SUFFICES ASSUME consume PROVE \E n \in Decoded : FE!Front(c).stream = insts[n].stream
    OBVIOUS
  <2>1. ~IsEmpty(c)
    BY <1>2, SameOperators
  <2>2. Front(c) \in Ids(fetched)
    BY <1>5, <2>1
  <2>3. FE!Front(c) = Front(c)
    BY DEF FE!Front, Front, FE!Bubble, Bubble
  <2>4. PICK n \in 1 .. Len(fetched) : fetched[n] = Front(c)
    BY <2>2, IdsDef
  <2>5. n \in 1 .. Len(insts) /\ fetched[n].stream = insts[n].stream
    BY <2>4 DEF Recorded
  <2>6. QED BY <2>3, <2>4, <2>5 DEF Decoded
<1>8. e.streamSeqNum = frontExecute.streamSeqNum /\ e.expect = frontExecute.expect
  BY DEF FrontKept
<1>9. CASE branch.in = Bubble
  <2> DEFINE s == frontExecute.streamSeqNum
  <2>1. frontExecute' = IF consume THEN FE!Consume(e, FE!Front(c)) ELSE e
    BY <1>1, <1>9, BranchesShown DEF Issued
  <2> HIDE DEF consume, c, e
  <2>2. \A x : /\ FE!Consume(e, x).streamSeqNum = s
               /\ x.stream # s => FE!Consume(e, x) = e
    <3>1. e \in [streamSeqNum : FE!Stream, draining : BOOLEAN,
                 issued : BOOLEAN, expect : FE!Addr \cup {FE!AnyPc}]
      BY DEF FrontKept, e
    <3>2. QED BY <1>8, <3>1 DEF FE!Consume
  <2>3. frontExecute'.streamSeqNum = s
    BY <1>8, <2>1, <2>2
  <2>4. ASSUME \A n \in Decoded : insts[n].stream # s
        PROVE  frontExecute'.expect = outcome'[s]
    <3>1. frontExecute' = e
      BY <1>7, <2>1, <2>2, <2>4
    <3>2. frontExecute.expect = outcome[s]
      BY <2>4 DEF Expected
    <3>3. s = Len(outcome) /\ Len(outcome) \in Nat /\ Len(outcome) >= 1
      BY DEF OutcomesCounted
    <3>4. outcome'[s] = outcome[s]
      BY <1>3, <3>3
    <3>5. QED BY <1>8, <3>1, <3>2, <3>4
  <2>5. QED BY <1>6, <2>3, <2>4
<1>10. CASE branch.in # Bubble
  <2> DEFINE t == [stream |-> branch.in[1], target |-> outcome'[branch.in[1]]]
  <2>1. frontExecute' = FE!TakeBranch(Issued, t)
    BY <1>1, <1>10, BranchesShown
  <2>2. DOMAIN Issued = {"streamSeqNum", "draining", "issued", "expect"}
    <3> HIDE DEF consume, c
    <3>1. e \in [streamSeqNum : FE!Stream, draining : BOOLEAN,
                 issued : BOOLEAN, expect : FE!Addr \cup {FE!AnyPc}]
      BY DEF FrontKept
    <3>2. Issued = IF consume THEN FE!Consume(e, FE!Front(c)) ELSE e
      BY DEF Issued, consume, c
    <3> HIDE DEF e
    <3>3. \A x : DOMAIN FE!Consume(e, x) = DOMAIN e
      BY <3>1 DEF FE!Consume
    <3>4. QED BY <3>1, <3>2, <3>3
  <2> HIDE DEF t
  <2>3. frontExecute'.streamSeqNum = t.stream /\ frontExecute'.expect = t.target
    BY <2>1, <2>2 DEF FE!TakeBranch
  <2>4. QED BY <1>6, <2>3 DEF t
<1>11. QED BY <1>9, <1>10

(* At the end of Execute it is known where the new streams begin.          *)
LEMMA ExecuteEndsFollow ==
  ASSUME FollowsThePath, FirstBranchesOpen, FrontKept, Joint, Joint',
         OutcomesCounted, OpenersLead, Delivered, Expected, Continued, AllLocated,
         ExecuteEnds
  PROVE  /\ OutcomesCounted' /\ OpenersLead' /\ Delivered' /\ Expected'
         /\ Continued' /\ AllLocated'
<1>1. IInv /\ Recorded /\ [PipelineNext]_pipelineVars
  BY DEF FollowsThePath, Joint, PipelineNext, Evaluate
<1>2. /\ phase = "push" /\ phase' = "decode" /\ UNCHANGED <<insts, fetched, branch>>
      /\ execute'.streamSeqNum = execute.streamSeqNum
      /\ outcome' \in Seq(FE!Addr) /\ Len(outcome') = execute.streamSeqNum
      /\ \A k \in 1 .. Len(outcome) : outcome'[k] = outcome[k]
      /\ \A k \in 1 .. Len(outcome') : k > Len(outcome) =>
           outcome'[k] \in Targets[fetched[Opener(k)].pc]
  BY <1>1, OutcomesGrow
<1>3. /\ outcome \in Seq(FE!Addr) /\ Len(outcome) \in Nat /\ Len(outcome) >= 1
      /\ outcome[1] = Entry /\ Len(outcome) <= execute.streamSeqNum
      /\ execute.streamSeqNum \in Nat
  BY <1>1, PathNamed DEF OutcomesCounted
<1>4. Decoded' = Decoded /\ Opened' = Opened
  BY <1>2 DEF Decoded, Opened
<1>5. ~Stopped' => ~Stopped
  BY <1>1, StoppedStays
<1>6. OutcomesCounted'
  <2>1. ASSUME ~Stopped' PROVE execute'.streamSeqNum = frontExecute'.streamSeqNum
    <3>1. Shared'
      BY <2>1 DEF Joint
    <3>2. SameStreams' /\ phase' # "push"
      BY <1>2, <3>1 DEF Shared
    <3>3. QED BY <3>2 DEF SameStreams
  <2>2. Len(outcome') >= 1 /\ outcome'[1] = Entry
    BY <1>2, <1>3
  <2>3. QED BY <1>2, <1>3, <2>1, <2>2 DEF OutcomesCounted
<1>7. OpenersLead'
  <2>1. ASSUME NEW n \in Opened, insts[n].opens <= Len(outcome')
        PROVE  outcome'[insts[n].opens] \in Targets[fetched[n].pc]
    <3>1. insts[n].opens \in Nat /\ insts[n].opens # 0
      BY <1>1, PathNamed DEF Opened
    <3>2. CASE insts[n].opens <= Len(outcome)
      <4>1. outcome[insts[n].opens] \in Targets[fetched[n].pc]
        BY <3>2 DEF OpenersLead
      <4>2. insts[n].opens \in 1 .. Len(outcome)
        BY <1>3, <3>1, <3>2
      <4>3. QED BY <1>2, <4>1, <4>2
    <3>3. CASE insts[n].opens > Len(outcome)
      <4>1. insts[n].opens \in 1 .. Len(outcome')
        BY <1>2, <1>3, <2>1, <3>1
      <4>2. Opener(insts[n].opens) = n
        BY OpenerIsOne
      <4>3. QED BY <1>2, <3>3, <4>1, <4>2
    <3>4. QED BY <1>3, <3>1, <3>2, <3>3
  <2>2. QED BY <1>2, <1>4, <2>1 DEF OpenersLead
<1>8. Delivered' /\ Expected'
  <2>1. CASE Stopped
    <3>1. Stopped'
      BY <1>1, <2>1, StoppedStays
    <3>2. FrontEndDone
      BY <1>2, <2>1 DEF Stopped
    <3>3. UNCHANGED <<frontExecuteIn, frontDToE>>
      BY <3>2 DEF ExecuteEnds, frontVars
    <3>4. Ids(fetched)' = Ids(fetched)
      BY <1>2 DEF Ids
    <3>5. QED BY <3>1, <3>3, <3>4 DEF Delivered, Expected
  <2>2. CASE ~Stopped
    <3>1. Shared
      BY <2>2 DEF Joint
    <3>2. /\ Delivered'
          /\ LET s == frontExecute'.streamSeqNum
             IN  (\A n \in Decoded : insts[n].stream # s) =>
                   frontExecute'.expect = outcome'[s]
      BY <1>1, <2>2, <3>1, ExecuteEndsExpects
    <3>3. QED BY <1>2, <1>4, <3>2 DEF Expected
  <2>3. QED BY <2>1, <2>2
<1>9. Continued'
  <2>1. decode' = decode
    BY DEF ExecuteEnds, frontVars, FE!ExecuteEvaluate
  <2>2. QED BY <1>2, <2>1 DEF Continued, Following, FE!After, FE!Length
<1>10. AllLocated'
  <2>1. Decoded \subseteq Nat /\ \A n \in Decoded : n = 1 \/ n - 1 \in Decoded
    BY <1>1, PathNamed, Named DEF IInv, Decoded
  <2>2. \A n \in Decoded : insts[n].stream <= Len(outcome) =>
          /\ insts[n].stream <= Len(outcome')
          /\ outcome'[insts[n].stream] = outcome[insts[n].stream]
    <3>1. \A n \in Decoded : insts[n].stream \in Nat /\ insts[n].stream >= 1
      BY <1>1, PathNamed
    <3>2. QED BY <1>2, <1>3, <3>1
  <2>3. \A n \in Decoded : Located(n)'
    BY <1>2, <2>1, <2>2, LocatedOtherwise DEF AllLocated
  <2>4. QED BY <1>4, <2>3 DEF AllLocated
<1>11. QED BY <1>6, <1>7, <1>8, <1>9, <1>10
(* Decode delivers nothing, or an instruction of the program which is made *)
(* of the bytes at its pc, of the stream Fetch2 is on.                     *)
LEMMA DecodesWhat ==
  ASSUME IInv, FrontKept, FrontKept', Shared, Decodes
  PROVE  /\ phase = "decode" /\ phase' = "writeback"
         /\ frontPhase = "decode" /\ frontPhase' = "fetch2"
         /\ UNCHANGED <<execute, frontExecute, outcome>>
         /\ supply = FE!Now /\ FE!Now' = FE!Now
         /\ frontDToE'.out = frontDToE.out
         /\ \/ frontExecuteIn' = frontExecuteIn
            \/ frontExecuteIn' = Reserve(frontExecuteIn)
         /\ \/ frontDToE'.in = Bubble /\ UNCHANGED <<insts, fetched>>
            \/ \E x \in FE!Inst, d \in DynInst :
                 /\ frontDToE'.in = <<x>> /\ ~x.fault
                 /\ x.stream = supply /\ d.stream = supply
                 /\ fetched' = Append(fetched, x) /\ insts' = Append(insts, d)
                 /\ d.op = Program[x.pc].op /\ d.opens = 0
<1>1. FE!DecodeEvaluate /\ DecodeEvaluate /\ outcome' = outcome
  BY DEF Decodes
<1>2. /\ frontPhase = "decode" /\ frontPhase' = "fetch2"
      /\ UNCHANGED <<fetch1, fetch2, frontExecute, frontBranch>>
      /\ \/ frontExecuteIn' = frontExecuteIn
         \/ frontExecuteIn' = Reserve(frontExecuteIn)
  BY <1>1, FrontDecodes, SameOperators
<1>3. /\ phase = "decode" /\ phase' = "writeback" /\ UNCHANGED execute
      /\ \/ UNCHANGED insts /\ dToE' = Bubble
         \/ \E d \in DynInst : /\ d.stream = supply /\ insts' = Append(insts, d)
                               /\ dToE' = <<Len(insts) + 1>>
  BY <1>1, DecodeCases
<1>4. supply = FE!Now /\ FE!Now' = FE!Now
  BY <1>2 DEF Shared, SameSupply, FE!Now
<1>5. frontDToE'.out = frontDToE.out
  <2>1. \A x : FE!Drive(frontDToE, x).out = frontDToE.out
    BY DEF FE!Drive, FrontKept, LatchOf
  <2>2. CASE frontBranch.out # FE!Bubble
    BY <1>1, <2>2 DEF FE!DecodeEvaluate, FE!DecodeRedirect
  <2>3. CASE frontBranch.out = FE!Bubble
    <3>1. \/ frontDToE' = frontDToE
          \/ frontDToE' = FE!Drive(frontDToE,
                            FE!DecodeLines(FE!SetTail(decodeIn, f2ToD.out)).inst[1])
      BY <1>1, <2>3 DEF FE!DecodeEvaluate
    <3>2. QED BY <2>1, <3>1
  <2>4. QED BY <2>2, <2>3
<1>6. CASE frontDToE'.in = Bubble
  <2>1. dToE' = Bubble /\ UNCHANGED fetched
    BY <1>6 DEF Decodes
  <2>2. \A k : <<k>> # <<>>
    OBVIOUS
  <2>3. UNCHANGED insts
    BY <1>3, <2>1, <2>2 DEF Bubble
  <2>4. QED BY <1>1, <1>2, <1>3, <1>4, <1>5, <1>6, <2>1, <2>3
<1>7. CASE frontDToE'.in # Bubble
  <2> DEFINE x == frontDToE'.in[1]
             new == insts'[Len(insts')]
  <2>1. /\ dToE' # Bubble /\ fetched' = Append(fetched, x)
        /\ [op |-> new.op, dsts |-> new.dsts, srcs |-> new.srcs] = Program[x.pc]
    BY <1>7 DEF Decodes
  <2>2. PICK d \in DynInst : d.stream = supply /\ insts' = Append(insts, d)
    BY <1>3, <2>1
  <2>3. frontDToE'.in = <<x>> /\ x \in FE!Inst /\ x.stream = supply
    <3>1. /\ frontDToE'.in \in Wire(FE!InstsOf(FE!Now)')
          /\ FE!InstsOf(FE!Now)' \subseteq FE!Inst
          /\ \A y \in FE!InstsOf(FE!Now)' : y.stream = FE!Now'
      BY DEF FrontKept
    <3>2. PICK y \in FE!InstsOf(FE!Now)' : frontDToE'.in = <<y>>
      BY <1>7, <3>1 DEF Wire
    <3>3. x = y
      BY <3>2
    <3>4. QED BY <1>4, <3>1, <3>2, <3>3
  <2>4. ~x.fault
    BY <2>3 DEF FE!Inst, FE!Fault
  <2>5. /\ insts \in Seq(DynInst) /\ Len(insts) \in Nat
        /\ Len(insts') = Len(insts) + 1 /\ insts'[Len(insts) + 1] = d
    <3>1. insts \in Seq(DynInst)
      BY DEF IInv, TypeOK
    <3> HIDE DEF DynInst
    <3>2. QED BY <2>2, <3>1, AppendProperties
  <2>6. d.op = Program[x.pc].op
    <3>1. new = d
      BY <2>5
    <3> HIDE DEF new, x
    <3>2. QED BY <2>1, <3>1 DEF new, x
  <2>7. d.opens = 0
    <3>1. Len(insts) + 1 \in Decoded' /\ Len(insts) + 1 \notin Decoded
      BY <2>5 DEF Decoded
    <3>2. ~(PushFree \/ NotReady \/ PushBranch \/ PushResult \/ PushMemRef)
      BY <1>3 DEF PushFree, NotReady, PushBranch, PushResult, PushMemRef, Pushing,
         Ready
    <3>3. [Next]_vars
      BY <1>1 DEF Next, Cycle
    <3>4. insts'[Len(insts) + 1].opens = 0
      BY <3>1, <3>2, <3>3, SameOtherwise
    <3>5. QED BY <2>5, <3>4
  <2> HIDE DEF x
  <2>8. QED
    BY <1>1, <1>2, <1>3, <1>4, <1>5, <2>1, <2>2, <2>3, <2>4, <2>6, <2>7
<1>8. QED BY <1>6, <1>7

(* The first instruction of a stream is the one Execute waits for: what it *)
(* expects is where the branch has led.                                    *)
LEMMA FirstOfItsStream ==
  ASSUME FollowsThePath, FirstBranchesOpen, FE!Conveyed, FE!Conveyed',
         FrontKept, FrontKept', Recorded, Shared, ~Stopped, OutcomesCounted, Delivered,
         Expected, Decodes, NEW x, frontDToE'.in = <<x>>,
         \A n \in Decoded : insts[n].stream # supply
  PROVE  supply = Len(outcome) /\ x.pc = outcome[supply]
<1> DEFINE s == execute.streamSeqNum
<1>1. IInv /\ OpenersKnown
  BY DEF FollowsThePath, OnThePath
<1>2. /\ phase = "decode" /\ frontPhase = "decode" /\ frontPhase' = "fetch2"
      /\ supply = FE!Now /\ FE!Now' = FE!Now /\ frontExecute' = frontExecute
      /\ \/ frontExecuteIn' = frontExecuteIn
         \/ frontExecuteIn' = Reserve(frontExecuteIn)
  BY <1>1, DecodesWhat
<1>3. supply = s
  <2>1. supply \in Nat /\ supply >= 1 /\ s \in Nat /\ supply <= s
    <3>1. supply \in Stream /\ \A k \in Stream : k >= 1
      BY <1>1 DEF IInv, TypeOK, Stream, FirstStream
    <3>2. QED BY <1>1, <3>1, PathNamed
  <2>2. ASSUME supply < s PROVE FALSE
    <3>1. supply + 1 \in 2 .. s
      BY <2>1, <2>2
    <3>2. PICK c \in Opened : insts[c].opens = supply + 1
      BY <1>1, <3>1 DEF OpenersKnown
    <3>3. c \in Decoded /\ insts[c].opens = insts[c].stream + 1
      BY <1>1, <3>2 DEF OpenersKnown, Opened
    <3>4. insts[c].stream \in Nat
      BY <1>1, <3>3, PathNamed
    <3>5. insts[c].stream = supply
      BY <2>1, <3>2, <3>3, <3>4
    <3>6. QED BY <3>3, <3>5
  <2>3. QED BY <2>1, <2>2
<1>4. Len(outcome) = s /\ s = frontExecute.streamSeqNum /\ outcome \in Seq(FE!Addr)
      /\ Len(outcome) >= 1 /\ Len(outcome) \in Nat
  BY <1>2 DEF OutcomesCounted, Shared, SameStreams
<1>5. frontExecute.expect = outcome[s]
  BY <1>3, <1>4 DEF Expected
<1>6. outcome[s] \in FE!Addr
  BY <1>4
<1>7. outcome[s] # FE!AnyPc
  BY <1>6, FrontEndParameters DEF FE!Addr, FE!AnyPc
<1>8. frontExecuteIn.queue = <<>>
  <2> DEFINE q == frontExecuteIn.queue
  <2>1. q \in Seq(FE!InstsOf(FE!Now)) /\ q \in Seq(Ids(fetched))
    <3>1. frontExecuteIn \in FE!BufferOf(FE!InstsOf(FE!Now))
      BY DEF FE!Conveyed, FE!StreamsKept, FE!OneStream, FE!Settled
    <3>2. q \in Seq(FE!InstsOf(FE!Now))
      BY <3>1 DEF FE!BufferOf
    <3>3. q \in Seq(Ids(fetched))
      BY DEF Delivered, BufferOf
    <3>4. QED BY <3>2, <3>3
  <2> SUFFICES ASSUME q # <<>> PROVE FALSE
    OBVIOUS
  <2> HIDE DEF q
  <2>2. q[1] \in FE!InstsOf(FE!Now) /\ q[1] \in Ids(fetched)
    BY <2>1
  <2>3. q[1].stream = supply
    BY <1>2, <2>2 DEF FrontKept
  <2>4. PICK n \in 1 .. Len(fetched) : fetched[n] = q[1]
    BY <2>2, IdsDef
  <2>5. n \in Decoded /\ insts[n].stream = supply
    BY <2>3, <2>4 DEF Recorded, Decoded
  <2>6. QED BY <2>5
<1>9. frontExecuteIn'.queue = <<>>
  <2>1. Reserve(frontExecuteIn).queue = frontExecuteIn.queue
    BY DEF Reserve, FrontKept, BufferOf
  <2>2. QED BY <1>2, <1>8, <2>1
<1>10. frontExecute'.expect \in {FE!AnyPc, x.pc}
  <2>1. frontExecute'.streamSeqNum = FE!Now'
    BY <1>2, <1>3, <1>4
  <2>2. frontExecute'.expect \in {FE!AnyPc, FE!FirstInst'}
    BY <2>1 DEF FE!Conveyed, FE!InstsChained
  <2>3. FE!InstDue' = <<>>
    BY <1>2 DEF FE!InstDue, FE!Due, FE!Bubble
  <2>4. FE!PcDDriven' = x.pc
    <3>1. <<x>> # <<>> /\ <<x>>[1] = x
      OBVIOUS
    <3>2. QED BY <3>1 DEF FE!PcDDriven, FE!FirstPc
  <2>5. FE!FirstInst' = x.pc
    BY <1>9, <2>3, <2>4 DEF FE!FirstInst, FE!PcDue, FE!FirstPc
  <2>6. QED BY <2>2, <2>5
<1>11. QED BY <1>2, <1>3, <1>4, <1>5, <1>7, <1>10
(* What Decode delivers is the program's next instruction, or the first    *)
(* one after a branch.                                                     *)
LEMMA DecodesFollow ==
  ASSUME FollowsThePath, FirstBranchesOpen,
         FE!IInv, FE!IInv', FE!Conveyed, FE!Conveyed', FrontKept, FrontKept', Joint,
         OutcomesCounted, OpenersLead, Delivered, Expected, Continued, AllLocated,
         Decodes
  PROVE  /\ OutcomesCounted' /\ OpenersLead' /\ Delivered' /\ Expected'
         /\ Continued' /\ AllLocated'
<1> DEFINE l == Len(insts)
<1>1. IInv /\ Recorded /\ StreamsInOrder
  BY DEF FollowsThePath, Joint
<1>2. ~Stopped /\ Shared
  BY DEF Joint, Stopped, Decodes, DecodeEvaluate
<1>3. /\ phase = "decode" /\ phase' = "writeback"
      /\ frontPhase = "decode" /\ frontPhase' = "fetch2"
      /\ UNCHANGED <<execute, frontExecute, outcome>>
      /\ supply = FE!Now /\ FE!Now' = FE!Now
      /\ frontDToE'.out = frontDToE.out
      /\ \/ frontExecuteIn' = frontExecuteIn
         \/ frontExecuteIn' = Reserve(frontExecuteIn)
  BY <1>1, <1>2, DecodesWhat
<1>4. FE!DecodeMoves
  BY FrontDecodeMoves DEF Decodes
<1>5. /\ decode.lastStreamSeqNum \in Nat /\ decode'.lastStreamSeqNum \in Nat
      /\ decode.lastStreamSeqNum <= supply /\ supply \in Nat
      /\ decode.lastStreamSeqNum <= decode'.lastStreamSeqNum
  <2>1. decode.lastStreamSeqNum <= FE!Now
    BY DEF FE!Conveyed, FE!StreamsKept, FE!OneStream
  <2>2. decode \in FE!DecodeState /\ decode' \in FE!DecodeState
    BY DEF FE!IInv, FE!StagesTyped
  <2>3. decode.lastStreamSeqNum \in Nat /\ decode'.lastStreamSeqNum \in Nat
    BY <2>2 DEF FE!DecodeState, FE!Stream, FE!FirstStream
  <2>4. decode.lastStreamSeqNum <= decode'.lastStreamSeqNum
    BY <1>4 DEF FE!DecodeMoves
  <2>5. QED BY <1>1, <1>3, <2>1, <2>3, <2>4, PathNamed
<1>6. OutcomesCounted'
  BY <1>2, <1>3 DEF OutcomesCounted
<1>7. CASE frontDToE'.in = Bubble /\ UNCHANGED <<insts, fetched>>
  <2>1. Decoded' = Decoded /\ Opened' = Opened /\ Ids(fetched)' = Ids(fetched)
    BY <1>7 DEF Decoded, Opened, Ids
  <2>2. OpenersLead'
    BY <1>3, <1>7, <2>1 DEF OpenersLead
  <2>3. Delivered'
    <3> DEFINE S == Ids(fetched)
    <3>1. frontExecuteIn' \in BufferOf(S)
      <4> HIDE DEF S
      <4>1. frontExecuteIn \in BufferOf(S) => Reserve(frontExecuteIn) \in BufferOf(S)
        BY TypedFront
      <4>2. QED BY <1>3, <4>1 DEF Delivered, S
    <3>2. frontDToE' \in LatchOf(S)
      <4>1. frontDToE' = [in |-> Bubble, out |-> frontDToE.out]
        BY <1>3, <1>7 DEF FrontKept, LatchOf
      <4>2. QED BY <4>1 DEF Delivered, LatchOf, Wire
    <3>3. QED BY <2>1, <3>1, <3>2 DEF Delivered
  <2>4. Expected'
    BY <1>2, <1>3, <1>7, <2>1 DEF Expected
  <2>5. Continued'
    <3> SUFFICES ASSUME fetched # <<>>
                 PROVE  LET x == fetched[Len(fetched)]
                        IN  /\ x.stream <= decode'.lastStreamSeqNum
                            /\ x.stream = decode'.lastStreamSeqNum =>
                                 decode'.havePC /\ decode'.pc = Following(x.pc)
      BY <1>7 DEF Continued, Following, FE!After, FE!Length
    <3> DEFINE x == fetched[Len(fetched)]
               this == decode.lastStreamSeqNum
               next == decode'.lastStreamSeqNum
    <3>1. /\ x.stream <= this
          /\ x.stream = this => decode.havePC /\ decode.pc = Following(x.pc)
      BY DEF Continued
    <3>2. x.stream \in Nat
      <4>1. fetched \in Seq(FE!Inst)
        BY <1>1 DEF Recorded
      <4>2. x \in FE!Inst
        <5> HIDE DEF FE!Inst
        <5>1. QED BY <4>1
      <4>3. QED BY <4>2 DEF FE!Inst, FE!Stream, FE!FirstStream
    <3>3. CASE decode' = decode
      BY <3>1, <3>3
    <3>4. CASE FE!Begun(decode') /\ (FE!Begun(decode) => decode'.pc = decode.pc)
      <4>1. next = supply /\ decode'.havePC
        BY <1>3, <3>4 DEF FE!Begun
      <4>2. x.stream <= next
        BY <1>5, <3>1, <3>2
      <4>3. ASSUME x.stream = next PROVE decode'.pc = Following(x.pc)
        <5>1. this = supply /\ x.stream = this
          BY <1>5, <3>1, <3>2, <4>1, <4>3
        <5>2. FE!Begun(decode) /\ decode.pc = Following(x.pc)
          BY <1>3, <3>1, <5>1 DEF FE!Begun
        <5>3. QED BY <3>4, <5>2
      <4>4. QED BY <4>1, <4>2, <4>3
    <3>5. QED BY <1>4, <1>7, <3>3, <3>4 DEF FE!DecodeMoves, FE!Bubble, Bubble
  <2>6. AllLocated'
    <3>1. Decoded \subseteq Nat /\ \A n \in Decoded : n = 1 \/ n - 1 \in Decoded
      BY <1>1, PathNamed, Named DEF IInv, Decoded
    <3>2. \A n \in Decoded : Located(n)'
      BY <1>3, <1>7, <3>1, LocatedOtherwise DEF AllLocated
    <3>3. QED BY <2>1, <3>2 DEF AllLocated
  <2>7. QED BY <1>6, <2>2, <2>3, <2>4, <2>5, <2>6
<1>8. ASSUME NEW x \in FE!Inst, NEW d \in DynInst,
             frontDToE'.in = <<x>>, ~x.fault, x.stream = supply, d.stream = supply,
             fetched' = Append(fetched, x), insts' = Append(insts, d),
             d.op = Program[x.pc].op, d.opens = 0
      PROVE  /\ OpenersLead' /\ Delivered' /\ Expected'
             /\ Continued' /\ AllLocated'
  <2>1. /\ Len(insts') = l + 1 /\ insts'[l + 1] = d /\ l \in Nat
        /\ \A n \in Decoded : insts'[n] = insts[n]
    <3>1. insts \in Seq(DynInst)
      BY <1>1 DEF IInv, TypeOK
    <3> HIDE DEF DynInst
    <3>2. QED BY <1>8, <3>1, AppendProperties DEF Decoded
  <2>2. /\ Len(fetched') = l + 1 /\ fetched'[l + 1] = x
        /\ fetched \in Seq(FE!Inst) /\ Len(fetched) = l
        /\ \A n \in Decoded : fetched'[n] = fetched[n]
    <3>1. fetched \in Seq(FE!Inst) /\ Len(fetched) = l
      BY <1>1 DEF Recorded
    <3> HIDE DEF FE!Inst
    <3>2. QED BY <1>8, <3>1, AppendProperties DEF Decoded
  <2>3. /\ \A n \in Decoded' : n \in Decoded \/ n = l + 1
        /\ \A n \in Decoded : n \in Decoded' /\ n # l + 1
        /\ Decoded \subseteq Nat
    BY <2>1 DEF Decoded
  <2>4. OpenersLead'
    <3>1. ASSUME NEW n \in Opened' PROVE n \in Opened
      <4>1. n \in Decoded' /\ insts'[n].opens # 0
        BY <3>1 DEF Opened
      <4>2. n # l + 1
        BY <1>8, <2>1, <4>1
      <4>3. QED BY <2>1, <2>3, <4>1, <4>2 DEF Opened
    <3>2. QED BY <1>3, <2>1, <2>2, <3>1 DEF OpenersLead, Opened
  <2>5. Delivered'
    <3> DEFINE S == Ids(fetched)  T == Ids(fetched)'
    <3>1. S \subseteq T /\ x \in T
      <4>1. \A n \in 1 .. l : n \in 1 .. l + 1
        BY <2>1
      <4>2. S \subseteq T
        BY <2>2, <4>1 DEF Ids, Decoded
      <4>3. l + 1 \in 1 .. l + 1
        BY <2>1
      <4>4. QED BY <2>2, <4>2, <4>3 DEF Ids
    <3> HIDE DEF S, T
    <3>2. frontExecuteIn \in BufferOf(T) /\ frontDToE \in LatchOf(T)
      <4>1. frontExecuteIn \in BufferOf(S) /\ frontDToE \in LatchOf(S)
        BY DEF Delivered, S
      <4>2. Seq(S) \subseteq Seq(T) /\ Wire(S) \subseteq Wire(T)
        BY <3>1 DEF Wire
      <4>3. QED BY <4>1, <4>2 DEF BufferOf, LatchOf
    <3>3. frontExecuteIn' \in BufferOf(T)
      BY <1>3, <3>2, TypedFront
    <3>4. frontDToE' \in LatchOf(T)
      <4>1. frontDToE' = [in |-> <<x>>, out |-> frontDToE.out]
        BY <1>3, <1>8 DEF FrontKept, LatchOf
      <4>2. QED BY <3>1, <3>2, <4>1 DEF LatchOf, Wire
    <3>5. QED BY <3>3, <3>4 DEF Delivered, T
  <2>6. Expected'
    <3> DEFINE s == frontExecute.streamSeqNum
    <3>1. ASSUME \A n \in Decoded' : insts'[n].stream # s
          PROVE  \A n \in Decoded : insts[n].stream # s
      BY <2>1, <2>3, <3>1
    <3>2. QED BY <1>2, <1>3, <3>1 DEF Expected
  <2>7. Continued'
    <3>1. <<x>> # <<>> /\ <<x>>[1] = x
      OBVIOUS
    <3>2. FE!Begun(decode') /\ decode'.pc = Following(x.pc)
      BY <1>4, <1>8, <3>1 DEF FE!DecodeMoves, FE!Bubble, Following
    <3>3. decode'.havePC /\ decode'.lastStreamSeqNum = x.stream
      BY <1>3, <1>8, <3>2 DEF FE!Begun
    <3>4. QED
      BY <1>5, <1>8, <2>2, <3>2, <3>3 DEF Continued, Following, FE!After, FE!Length
  <2>8. ASSUME NEW k, k = l + 1 PROVE Located(k)'
    <3>1. insts'[k] = d /\ fetched'[k] = x
      BY <2>1, <2>2, <2>8
    <3>2. insts'[k].op = Program[fetched'[k].pc].op
      BY <1>8, <3>1
    <3>3. /\ k - 1 = l /\ (k = 1 <=> l = 0) /\ (l # 0 => l \in Decoded)
          /\ \A n \in Decoded : n = l \/ n < l
      BY <2>1, <2>8 DEF Decoded
    <3>4. Starts(k)' <=> l = 0 \/ insts[l].stream # supply
      <4>1. Starts(k)' <=> k = 1 \/ insts'[k].stream # insts'[k - 1].stream
        BY DEF Starts
      <4> HIDE DEF l
      <4>2. QED BY <1>8, <2>1, <3>1, <3>3, <4>1
    <3>5. CASE l = 0 \/ insts[l].stream # supply
      <4>1. ASSUME NEW n \in Decoded, insts[n].stream = supply PROVE FALSE
        <5>1. l \in Decoded
          BY <2>1, <4>1 DEF Decoded
        <5>2. insts[l].stream \in Nat /\ insts[l].stream <= supply
          BY <1>1, <5>1, PathNamed DEF StreamsInOrder
        <5>3. insts[n].stream <= insts[l].stream
          <6>1. CASE n = l
            BY <4>1, <5>2, <6>1, <1>5
          <6>2. CASE n < l
            BY <1>1, <5>1, <6>2 DEF StreamsInOrder
          <6>3. QED BY <3>3, <6>1, <6>2
        <5>4. insts[l].stream # supply
          BY <2>1, <3>5, <5>1 DEF Decoded
        <5>5. QED BY <1>5, <4>1, <5>2, <5>3, <5>4
      <4>2. supply = Len(outcome) /\ x.pc = outcome[supply]
        BY <1>1, <1>2, <1>8, <4>1, FirstOfItsStream
      <4>3. insts'[k].stream = supply /\ supply <= Len(outcome')
        BY <1>3, <1>5, <1>8, <3>1, <4>2
      <4>4. fetched'[k].pc = outcome'[insts'[k].stream]
        BY <1>3, <3>1, <4>2, <4>3
      <4>5. QED BY <3>2, <3>4, <3>5, <4>3, <4>4 DEF Located
    <3>6. CASE l # 0 /\ insts[l].stream = supply
      <4>1. fetched # <<>> /\ fetched[l].stream = supply /\ Len(fetched) = l
        <5>1. l \in 1 .. Len(insts)
          BY <2>1, <3>6
        <5>2. fetched[l].stream = insts[l].stream
          BY <1>1, <5>1 DEF Recorded
        <5>3. fetched # <<>>
          BY <2>2, <3>6
        <5>4. QED BY <2>2, <3>6, <5>2, <5>3
      <4>2. FE!Begun(decode) /\ decode.pc = Following(fetched[l].pc)
        <5> HIDE DEF l
        <5>1. /\ supply <= decode.lastStreamSeqNum
              /\ supply = decode.lastStreamSeqNum =>
                   decode.havePC /\ decode.pc = Following(fetched[l].pc)
          BY <4>1 DEF Continued
        <5>2. supply = decode.lastStreamSeqNum
          BY <1>5, <5>1
        <5>3. QED BY <1>3, <5>1, <5>2 DEF FE!Begun
      <4>3. x.pc = decode.pc
        <5>1. <<x>> # <<>> /\ <<x>>[1] = x
          OBVIOUS
        <5>2. QED BY <1>4, <1>8, <4>2, <5>1 DEF FE!DecodeMoves, FE!Bubble
      <4>4. fetched'[k].pc = Following(fetched'[k - 1].pc)
        <5> HIDE DEF l
        <5>1. QED BY <2>2, <3>1, <3>3, <3>6, <4>2, <4>3
      <4>5. Located(k)' <=>
              /\ insts'[k].op = Program[fetched'[k].pc].op
              /\ IF Starts(k)'
                 THEN /\ insts'[k].stream <= Len(outcome')
                      /\ fetched'[k].pc = outcome'[insts'[k].stream]
                 ELSE fetched'[k].pc = Following(fetched'[k - 1].pc)
        BY DEF Located, Following, FE!After, FE!Length
      <4>6. QED BY <3>2, <3>4, <3>6, <4>4, <4>5
    <3>7. QED BY <3>5, <3>6
  <2>9. AllLocated'
    <3>1. \A n \in Decoded : n = 1 \/ n - 1 \in Decoded
      BY <2>1 DEF Decoded
    <3>2. \A n \in Decoded : Located(n)'
      BY <1>3, <2>1, <2>2, <2>3, <3>1, LocatedOtherwise DEF AllLocated
    <3>3. ASSUME NEW n \in Decoded' PROVE Located(n)'
      BY <2>3, <2>8, <3>2
    <3>4. QED BY <3>3 DEF AllLocated
  <2>10. QED BY <2>4, <2>5, <2>6, <2>7, <2>9
<1>9. CASE frontDToE'.in # Bubble \/ ~UNCHANGED <<insts, fetched>>
  BY <1>1, <1>2, <1>6, <1>8, <1>9, DecodesWhat
<1>10. QED BY <1>7, <1>9
(* Together that is what the pipeline knows of the program it runs.        *)
ProgramFollowed ==
  OutcomesCounted /\ OpenersLead /\ Delivered /\ Expected /\ Continued /\ AllLocated

(* Initially nothing is known but the entry, ...                         *)
LEMMA ProgramInit ==
  ASSUME PipelineInit
  PROVE  ProgramFollowed /\ RetiredLead
<1>1. /\ Init /\ FE!Init /\ fetched = <<>> /\ outcome = <<Entry>>
      /\ frontExecute.expect = Entry /\ Entry \in FE!Addr
  BY PipelineAssumption DEF PipelineInit
<1>2. /\ insts = <<>> /\ retired = <<>> /\ execute.streamSeqNum = 1
      /\ frontExecute.streamSeqNum = 1
      /\ frontDToE = [in |-> Bubble, out |-> Bubble]
      /\ frontExecuteIn = [queue |-> <<>>, elem |-> Bubble, reserved |-> 0]
  BY <1>1 DEF Init, FE!Init, FirstStream, FE!FirstStream, FE!EmptyLatch, FE!EmptyBuffer,
     FE!Bubble, Bubble
<1>3. Decoded = {} /\ Opened = {}
  BY <1>2, EmptySeq DEF Decoded, Opened
<1>4. outcome \in Seq(FE!Addr) /\ Len(outcome) = 1 /\ outcome[1] = Entry
  BY <1>1
<1>5. OutcomesCounted
  BY <1>2, <1>4 DEF OutcomesCounted
<1>6. OpenersLead
  BY <1>3 DEF OpenersLead
<1>7. Delivered
  BY <1>2, EmptySeq DEF Delivered, BufferOf, LatchOf, Wire
<1>8. Expected
  BY <1>1, <1>2, <1>4 DEF Expected
<1>9. Continued
  BY <1>1 DEF Continued
<1>10. AllLocated
  BY <1>3 DEF AllLocated
<1>11. RetiredLead
  BY <1>2, IdsOfPacket DEF RetiredLead
<1>12. QED BY <1>5, <1>6, <1>7, <1>8, <1>9, <1>10, <1>11 DEF ProgramFollowed

(* ... and every step keeps it.                                          *)
LEMMA ProgramKept ==
  ASSUME FollowsThePath, FirstBranchesOpen,
         FE!IInv, FE!IInv', FE!Conveyed, FE!Conveyed', FrontKept, FrontKept',
         Joint, Joint', ProgramFollowed, [PipelineNext]_pipelineVars
  PROVE  ProgramFollowed'
<1>1. IInv /\ Recorded
  BY DEF FollowsThePath, Joint
<1>2. CASE Decodes
  BY <1>2, DecodesFollow DEF ProgramFollowed
<1>3. CASE ExecuteEnds
  BY <1>3, ExecuteEndsFollow DEF ProgramFollowed
<1>4. CASE ~Decodes /\ ~ExecuteEnds
  BY <1>1, <1>4, OthersFollow DEF ProgramFollowed
<1>5. QED BY <1>2, <1>3, <1>4

(* What an instruction that is known has led to stays.                     *)
LEMMA NextPcStays ==
  ASSUME IInv, FrontKept, FrontKept', Joint, OutcomesCounted,
         [PipelineNext]_pipelineVars, NEW n \in Decoded,
         insts[n].op = "Branch" => insts[n].opens \in 1 .. Len(outcome)
  PROVE  fetched'[n] = fetched[n] /\ NextPcOf(n)' = NextPcOf(n)
<1>1. Recorded
  BY DEF Joint
<1>2. ASSUME fetched'[n] = fetched[n], insts'[n].op = insts[n].op,
             insts[n].op = "Branch" =>
               /\ insts'[n].opens = insts[n].opens
               /\ outcome'[insts[n].opens] = outcome[insts[n].opens]
      PROVE  NextPcOf(n)' = NextPcOf(n)
  BY <1>2 DEF NextPcOf, FE!After, FE!Length
<1>3. CASE Decodes
  <2>1. Shared /\ outcome' = outcome
    BY <1>3 DEF Joint, Stopped, Decodes, DecodeEvaluate
  <2>2. CASE UNCHANGED <<insts, fetched>>
    BY <1>2, <2>1, <2>2
  <2>3. ASSUME NEW x, NEW d, fetched' = Append(fetched, x), insts' = Append(insts, d)
        PROVE  fetched'[n] = fetched[n] /\ insts'[n] = insts[n]
    <3>1. insts \in Seq(DynInst) /\ fetched \in Seq(FE!Inst) /\ Len(fetched) = Len(insts)
      BY <1>1 DEF IInv, TypeOK, Recorded
    <3> HIDE DEF DynInst, FE!Inst
    <3>2. n \in 1 .. Len(insts) /\ n \in 1 .. Len(fetched)
      BY <3>1 DEF Decoded
    <3>3. QED BY <2>3, <3>1, <3>2
  <2>4. QED BY <1>2, <1>3, <2>1, <2>2, <2>3, DecodesWhat
<1>4. CASE ExecuteEnds
  BY <1>2, <1>4, OutcomesGrow
<1>5. CASE ~Decodes /\ ~ExecuteEnds
  <2>1. fetched' = fetched /\ outcome' = outcome
    BY <1>5, FrontOtherwise
  <2>2. insts'[n].op = insts[n].op
        /\ (insts'[n].opens = insts[n].opens \/ insts[n].opens = 0)
    BY <1>5, ProgramOtherwise
  <2>3. insts[n].op = "Branch" => insts'[n].opens = insts[n].opens
    BY <2>2
  <2>4. QED BY <1>2, <2>1, <2>2, <2>3
<1>6. QED BY <1>3, <1>4, <1>5

(* The program is retired in full, with nothing else.                      *)
RetiredInFull ==
  /\ \A n \in Ids(retired) : NotInShadow(n)
  /\ retired # <<>> =>
       \A m \in 1 .. retired[Len(retired)] : NotInShadow(m) => m \in Ids(retired)

(* That is RetiresThePath, all streams that opened being the program's.  *)
LEMMA RetiredAreInFull ==
  FollowsThePath /\ FirstBranchesOpen /\ RetiresThePath => RetiredInFull
<1> SUFFICES ASSUME FollowsThePath, FirstBranchesOpen, RetiresThePath
             PROVE  RetiredInFull
  OBVIOUS
<1>1. IInv /\ OpenersKnown
  BY DEF FollowsThePath, OnThePath
<1>2. \A n \in Decoded : OnPathStream[insts[n].stream]
  <2>1. \A k \in 1 .. execute.streamSeqNum : OnPathStream[k]
    BY <1>1, StreamsOfTheProgram
  <2>2. \A n \in Decoded : insts[n].stream \in 1 .. execute.streamSeqNum
    BY <1>1, PathNamed
  <2>3. QED BY <2>1, <2>2
<1>3. \A n \in Ids(retired) : NotInShadow(n)
  BY IdsDef DEF RetiresThePath, OnPath
<1>4. ASSUME retired # <<>>, NEW m \in 1 .. retired[Len(retired)], NotInShadow(m)
      PROVE  m \in Ids(retired)
  <2>1. retired[Len(retired)] \in Ids(retired)
    <3>1. retired \in Seq(Num)
      BY <1>1, Named DEF IInv
    <3>2. Len(retired) \in 1 .. Len(retired)
      BY <1>4, <3>1
    <3>3. QED BY <3>2, IdsDef
  <2>2. m \in Decoded
    <3>1. retired[Len(retired)] \in Decoded
      BY <1>1, <2>1, PathNamed DEF Done
    <3>2. Len(insts) \in Nat
      BY <1>1, Named DEF IInv
    <3>3. QED BY <3>1, <3>2 DEF Decoded
  <2>3. OnPath(m)
    BY <1>2, <1>4, <2>2 DEF OnPath
  <2>4. QED BY <1>4, <2>3 DEF RetiresThePath
<1>5. QED BY <1>3, <1>4 DEF RetiredInFull
(* Nothing of the program is between two instructions retired one after    *)
(* the other: the second is where the first has led.                       *)
LEMMA LedByTheLast ==
  ASSUME FollowsThePath, FirstBranchesOpen, Recorded, ProgramFollowed,
         NEW l \in Decoded, NEW n \in Decoded, l < n, NotInShadow(l), NotInShadow(n),
         \A m \in 1 .. n : NotInShadow(m) => m <= l \/ m = n
  PROVE  fetched[n].pc = NextPcOf(l)
<1> DEFINE s == insts[n].stream  p == n - 1
<1>1. /\ IInv /\ OnlyBranchesOpen /\ OpenersKnown /\ StreamsInOrder
      /\ Located(n)
  BY DEF FollowsThePath, BranchesCounted, OnThePath, ProgramFollowed, AllLocated
<1>2. /\ Len(insts) \in Nat /\ l \in Nat /\ n \in Nat /\ l >= 1 /\ n <= Len(insts)
      /\ p \in Decoded /\ p \in Nat /\ l <= p /\ p < n /\ n # 1 /\ p \in 1 .. n
  <2>1. Len(insts) \in Nat
    BY <1>1, Named DEF IInv
  <2>2. QED BY <2>1 DEF Decoded
<1>3. \A k \in Decoded : k \in Nat /\ k >= 1 /\ insts[k].stream \in Nat
                         /\ insts[k].stream >= 1
  BY <1>1, <1>2, PathNamed DEF Decoded
<1>4. \A k, m \in Decoded : k <= m => insts[k].stream <= insts[m].stream
  <2> TAKE k, m \in Decoded
  <2>1. k = m => insts[k].stream <= insts[m].stream
    BY <1>3
  <2>2. k < m => insts[k].stream <= insts[m].stream
    BY <1>1 DEF StreamsInOrder
  <2>3. QED BY <1>3, <2>1, <2>2
<1>5. CASE ~Starts(n)
  <2>1. insts[p].stream = s /\ fetched[n].pc = Following(fetched[p].pc)
    BY <1>1, <1>5 DEF Located, Starts
  <2>2. insts[p].op # "Branch"
    <3>1. p \in 1 .. n - 1
      BY <1>2
    <3>2. QED BY <2>1, <3>1 DEF NotInShadow
  <2>3. NotInShadow(p)
    <3>1. \A m \in 1 .. p - 1 : m \in 1 .. n - 1
      BY <1>2
    <3>2. QED BY <2>1, <3>1 DEF NotInShadow
  <2>4. p = l
    BY <1>2, <2>3
  <2> HIDE DEF p
  <2>5. QED BY <2>1, <2>2, <2>4 DEF NextPcOf, Following
<1>6. CASE Starts(n)
  <2>1. s <= Len(outcome) /\ fetched[n].pc = outcome[s]
    BY <1>1, <1>6 DEF Located
  <2>2. insts[p].stream < s
    <3>1. insts[p].stream # s
      BY <1>2, <1>6 DEF Starts
    <3>2. insts[p].stream <= s
      BY <1>2, <1>4
    <3>3. QED BY <1>2, <1>3, <3>1, <3>2
  <2>3. s \in 2 .. execute.streamSeqNum
    <3>1. s <= execute.streamSeqNum /\ execute.streamSeqNum \in Nat
      BY <1>1, PathNamed
    <3>2. s \in Nat /\ insts[p].stream \in Nat /\ insts[p].stream >= 1
      BY <1>2, <1>3
    <3>3. QED BY <2>2, <3>1, <3>2
  <2>4. PICK c \in Opened : insts[c].opens = s
    BY <1>1, <2>3 DEF OpenersKnown
  <2>5. /\ c \in Decoded /\ s = insts[c].stream + 1 /\ NotInShadow(c)
        /\ insts[c].op = "Branch"
    BY <1>1, <2>4 DEF OpenersKnown, Opened, OnlyBranchesOpen, FirstBranchesOpen
  <2>6. c < n
    <3>1. ~(s <= insts[c].stream)
      BY <1>3, <2>5
    <3>2. ~(n <= c)
      BY <1>4, <2>5, <3>1
    <3>3. c \in Nat /\ n \in Nat
      BY <1>3, <2>5
    <3>4. QED BY <3>2, <3>3
  <2>7. c <= l
    <3>1. c \in 1 .. n /\ c # n
      BY <1>2, <1>3, <2>5, <2>6
    <3>2. QED BY <2>5, <3>1
  <2>8. c = l
    <3> SUFFICES ASSUME c < l PROVE FALSE
      BY <1>2, <1>3, <2>5, <2>7
    <3>1. insts[c].stream <= insts[l].stream /\ insts[l].stream <= insts[p].stream
      BY <1>2, <1>4, <2>5, <2>7
    <3>2. insts[c].stream = insts[l].stream
      BY <1>2, <1>3, <2>2, <2>5, <3>1
    <3>3. c \in Nat /\ c >= 1 /\ l \in Nat
      BY <1>3, <2>5
    <3>4. c \in 1 .. l - 1
      BY <3>3
    <3>5. QED BY <2>5, <3>2, <3>4 DEF NotInShadow
  <2>9. QED BY <2>1, <2>4, <2>5, <2>8 DEF NextPcOf
<1>7. QED BY <1>5, <1>6

(* The first instruction retired is the first one of the program.          *)
LEMMA LedByTheEntry ==
  ASSUME FollowsThePath, OutcomesCounted, AllLocated, 1 \in Decoded
  PROVE  fetched[1].pc = Entry
<1>1. IInv /\ Located(1)
  BY DEF FollowsThePath, AllLocated
<1>2. insts[1].stream = 1
  <2>1. insts[1].stream <= 1
    BY <1>1 DEF IInv, StreamsCounted
  <2>2. insts[1].stream \in Nat /\ insts[1].stream >= 1
    BY <1>1, PathNamed
  <2>3. QED BY <2>1, <2>2
<1>3. fetched[1].pc = outcome[1]
  BY <1>1, <1>2 DEF Located, Starts
<1>4. QED BY <1>3 DEF OutcomesCounted

(* And each leads where the program lets it.                               *)
LEMMA LeadsToASuccessor ==
  ASSUME FollowsThePath, Recorded, ProgramFollowed, NEW n \in Decoded,
         insts[n].op = "Branch" => insts[n].opens \in 1 .. Len(outcome)
  PROVE  NextPcOf(n) \in Successors[fetched[n].pc]
<1>1. IInv /\ Located(n) /\ OpenersLead /\ outcome \in Seq(FE!Addr)
  BY DEF FollowsThePath, ProgramFollowed, AllLocated, OutcomesCounted
<1>2. fetched[n].pc \in FE!Addr
  <2>1. fetched \in Seq(FE!Inst) /\ n \in 1 .. Len(fetched)
    BY DEF Recorded, Decoded
  <2>2. fetched[n] \in FE!Inst
    <3> HIDE DEF FE!Inst
    <3>1. QED BY <2>1
  <2>3. QED BY <2>2 DEF FE!Inst
<1>3. Successors[fetched[n].pc] =
        IF insts[n].op = "Branch" THEN Targets[fetched[n].pc]
        ELSE {FE!After(fetched[n].pc, FE!Length(fetched[n].pc))}
  BY <1>1, <1>2 DEF Successors, Located
<1>4. CASE insts[n].op = "Branch"
  <2>1. n \in Opened /\ insts[n].opens <= Len(outcome)
    BY <1>4 DEF Opened
  <2>2. outcome[insts[n].opens] \in Targets[fetched[n].pc]
    BY <1>1, <2>1 DEF OpenersLead
  <2>3. QED BY <1>3, <1>4, <2>2 DEF NextPcOf
<1>5. CASE insts[n].op # "Branch"
  BY <1>3, <1>5 DEF NextPcOf
<1>6. QED BY <1>4, <1>5

(* What the program has done last, and what it does next.                  *)
LastPc ==
  IF retired = <<>> THEN Entry ELSE fetched[retired[Len(retired)]].pc

ProgramPc ==
  IF retired = <<>> THEN Entry ELSE NextPcOf(retired[Len(retired)])

(* The last of an increasing sequence is above all others.                 *)
LEMMA LastIsGreatest ==
  ASSUME NEW q \in Seq(Nat), Increasing(q), q # <<>>
  PROVE  q[Len(q)] \in Ids(q) /\ \A x \in Ids(q) : x <= q[Len(q)]
<1>1. Len(q) \in 1 .. Len(q) /\ \A i \in 1 .. Len(q) : q[i] \in Nat
  OBVIOUS
<1>2. q[Len(q)] \in Ids(q)
  BY <1>1, IdsDef
<1>3. ASSUME NEW x \in Ids(q) PROVE x <= q[Len(q)]
  <2>1. PICK i \in 1 .. Len(q) : q[i] = x
    BY <1>3, IdsDef
  <2>2. CASE i = Len(q)
    BY <1>1, <2>1, <2>2
  <2>3. CASE i # Len(q)
    <3>1. i < Len(q)
      BY <2>3
    <3>2. q[i] < q[Len(q)]
      BY <1>1, <3>1 DEF Increasing
    <3>3. QED BY <1>1, <2>1, <3>2
  <2>4. QED BY <2>2, <2>3
<1>4. QED BY <1>2, <1>3

(* Unless one is retired, the program is where it was.                     *)
LEMMA NothingRetired ==
  ASSUME IInv, FrontKept, FrontKept', Joint, OutcomesCounted, RetiredLead,
         [PipelineNext]_pipelineVars, retired' = retired
  PROVE  LastPc' = LastPc /\ ProgramPc' = ProgramPc
<1>1. CASE retired = <<>>
  BY <1>1 DEF LastPc, ProgramPc
<1>2. CASE retired # <<>>
  <2>1. PICK n : n = retired[Len(retired)]
    OBVIOUS
  <2>2. n \in Ids(retired)
    <3>1. retired \in Seq(Num)
      BY Named DEF IInv
    <3>2. Len(retired) \in 1 .. Len(retired)
      BY <1>2, <3>1
    <3>3. QED BY <2>1, <3>2, IdsDef
  <2>3. n \in Decoded
    BY <2>2, PathNamed DEF Done
  <2>4. insts[n].op = "Branch" => insts[n].opens \in 1 .. Len(outcome)
    BY <2>2 DEF RetiredLead
  <2>5. fetched'[n] = fetched[n] /\ NextPcOf(n)' = NextPcOf(n)
    BY <2>3, <2>4, NextPcStays
  <2>6. LastPc' = fetched'[n].pc /\ LastPc = fetched[n].pc
    BY <1>2, <2>1 DEF LastPc
  <2>7. ProgramPc' = NextPcOf(n)' /\ ProgramPc = NextPcOf(n)
    BY <1>2, <2>1 DEF ProgramPc, NextPcOf, FE!After, FE!Length
  <2>8. QED BY <2>5, <2>6, <2>7
<1>3. QED BY <1>1, <1>2

(* If one is, it is where the program is, and leads on from there.         *)
LEMMA OneRetired ==
  ASSUME FollowsThePath, FirstBranchesOpen, IInv', FrontKept, FrontKept', Joint,
         ProgramFollowed, RetiredLead', RetiredInFull, RetiredInFull',
         [PipelineNext]_pipelineVars, WritebackEvaluate,
         NEW n \in Num, retired' = Append(retired, n)
  PROVE  /\ LastPc' = ProgramPc
         /\ ProgramPc' \in Successors[ProgramPc]
<1>1. IInv /\ Recorded /\ OutcomesCounted /\ AllLocated
  BY DEF FollowsThePath, Joint, ProgramFollowed
<1>2. UNCHANGED <<insts, fetched, outcome>>
  <2>1. ~Decodes /\ ~ExecuteEnds
    BY DEF WritebackEvaluate, Decodes, DecodeEvaluate, ExecuteEnds, SetStalls
  <2>2. insts' = insts
    BY DEF WritebackEvaluate
  <2>3. QED BY <2>1, <2>2, FrontOtherwise
<1>3. /\ retired \in Seq(Num) /\ retired \in Seq(Nat) /\ Increasing(retired)
      /\ retired' \in Seq(Nat) /\ Increasing(retired')
  <2>1. retired \in Seq(Num) /\ Num \subseteq Nat
    BY <1>1, Named, PathNamed DEF IInv
  <2>2. retired \in Seq(Nat) /\ retired' \in Seq(Nat)
    <3>1. n \in Nat
      BY <2>1
    <3>2. retired \in Seq(Nat)
      BY <1>1, Named DEF IInv
    <3>3. QED BY <3>1, <3>2, AppendIds
  <2>3. Increasing(retired) /\ Increasing(retired)'
    BY <1>1 DEF IInv, LeavesInOrder
  <2>4. Increasing(retired')
    BY <2>3 DEF Increasing
  <2>5. QED BY <2>1, <2>2, <2>3, <2>4
<1>4. /\ Len(retired') = Len(retired) + 1 /\ retired'[Len(retired')] = n
      /\ Ids(retired') = Ids(retired) \cup {n} /\ retired' # <<>>
  BY <1>3, AppendIds
<1>5. n \in Decoded /\ n \in Nat /\ n >= 1
  <2>1. n \in Ids(retired)'
    BY <1>4 DEF Ids
  <2>2. n <= Len(insts')
    BY <2>1 DEF IInv, LeavesInOrder
  <2>3. Len(insts) \in Nat
    BY <1>1, Named DEF IInv
  <2>4. QED BY <1>2, <2>2, <2>3 DEF Decoded, Num
<1>6. /\ NotInShadow(n)
      /\ \A m \in 1 .. n : NotInShadow(m) => m \in Ids(retired) \/ m = n
  <2>1. \A m : NotInShadow(m)' <=> NotInShadow(m)
    BY <1>2 DEF NotInShadow
  <2>2. \A m \in Ids(retired') : NotInShadow(m)
    BY <2>1 DEF RetiredInFull, Ids
  <2>3. \A m \in 1 .. n : NotInShadow(m) => m \in Ids(retired')
    BY <1>4, <2>1 DEF RetiredInFull, Ids
  <2>4. QED BY <1>4, <2>2, <2>3
<1>7. insts[n].op = "Branch" => insts[n].opens \in 1 .. Len(outcome)
  <2>1. n \in Ids(retired)'
    BY <1>4 DEF Ids
  <2>2. insts'[n].op = "Branch" => insts'[n].opens \in 1 .. Len(outcome')
    BY <2>1 DEF RetiredLead
  <2>3. QED BY <1>2, <2>2
<1>8. LastPc' = fetched[n].pc /\ ProgramPc' = NextPcOf(n)
  <2>1. NextPcOf(n)' = NextPcOf(n)
    BY <1>2 DEF NextPcOf, FE!After, FE!Length
  <2>2. LastPc' = fetched'[n].pc
    BY <1>4 DEF LastPc
  <2>3. ProgramPc' = NextPcOf(n)'
    BY <1>4 DEF ProgramPc, NextPcOf, FE!After, FE!Length
  <2>4. QED BY <1>2, <2>1, <2>2, <2>3
<1>9. fetched[n].pc = ProgramPc
  <2>1. CASE retired = <<>>
    <3>1. Ids(retired) = {}
      BY <2>1, IdsOfPacket
    <3>2. NotInShadow(1) /\ 1 \in 1 .. n
      BY <1>5 DEF NotInShadow
    <3>3. n = 1
      BY <1>6, <3>1, <3>2
    <3>4. QED BY <1>1, <1>5, <2>1, <3>3, LedByTheEntry DEF ProgramPc
  <2>2. CASE retired # <<>>
    <3>1. PICK l : l = retired[Len(retired)]
      OBVIOUS
    <3>2. l \in Ids(retired) /\ \A m \in Ids(retired) : m <= l
      BY <1>3, <2>2, <3>1, LastIsGreatest
    <3>3. l \in Decoded /\ NotInShadow(l)
      BY <1>1, <3>2, PathNamed DEF Done, RetiredInFull
    <3>4. l < n
      <4>1. Len(retired) \in 1 .. Len(retired') /\ Len(retired') \in 1 .. Len(retired')
            /\ Len(retired) < Len(retired')
        BY <1>3, <1>4, <2>2
      <4>2. retired'[Len(retired)] = l
        BY <1>3, <2>2, <3>1
      <4>3. QED BY <1>3, <1>4, <4>1, <4>2 DEF Increasing
    <3>5. \A m \in 1 .. n : NotInShadow(m) => m <= l \/ m = n
      BY <1>6, <3>2
    <3>6. fetched[n].pc = NextPcOf(l)
      BY <1>1, <1>5, <1>6, <3>3, <3>4, <3>5, LedByTheLast
    <3>7. QED BY <2>2, <3>1, <3>6 DEF ProgramPc
  <2>3. QED BY <2>1, <2>2
<1>10. NextPcOf(n) \in Successors[fetched[n].pc]
  BY <1>1, <1>5, <1>7, LeadsToASuccessor
<1>11. QED BY <1>8, <1>9, <1>10

(* Writeback executes the next instruction of the program, and nobody else *)
(* any.                                                                    *)
LEMMA RetiresTheNext ==
  ASSUME FollowsThePath, FirstBranchesOpen, FrontKept, FrontKept', Joint,
         ProgramFollowed, RetiredLead, RetiredLead', RetiredInFull, RetiredInFull',
         [PipelineNext]_pipelineVars
  PROVE  [/\ Len(retired)' = Len(retired) + 1
          /\ LastPc' = ProgramPc
          /\ ProgramPc' \in Successors[ProgramPc]]_<<Len(retired), LastPc, ProgramPc>>
<1>1. IInv /\ OutcomesCounted /\ [Next]_vars
  BY StepsOfTheBackEnd DEF FollowsThePath, ProgramFollowed
<1>2. IInv'
  BY <1>1, NextIInv
<1>3. CASE retired' = retired
  <2>1. LastPc' = LastPc /\ ProgramPc' = ProgramPc
    BY <1>1, <1>3, NothingRetired
  <2>2. QED BY <1>3, <2>1
<1>4. CASE WritebackEvaluate
  <2>1. ASSUME NEW n \in Num, retired' = Append(retired, n)
        PROVE  /\ Len(retired)' = Len(retired) + 1
               /\ LastPc' = ProgramPc
               /\ ProgramPc' \in Successors[ProgramPc]
    <3>1. LastPc' = ProgramPc /\ ProgramPc' \in Successors[ProgramPc]
      BY <1>2, <1>4, <2>1, OneRetired
    <3>2. retired \in Seq(Num)
      BY <1>1, Named DEF IInv
    <3>3. Len(retired') = Len(retired) + 1
      BY <2>1, <3>2, AppendIds
    <3>4. QED BY <3>1, <3>3
  <2>2. retired' = retired \/ \E n \in Num : retired' = Append(retired, n)
    BY <1>1, <1>4, WritebackEffect
  <2>3. QED BY <1>3, <2>1, <2>2
<1>5. CASE ~WritebackEvaluate
  BY <1>1, <1>3, <1>5, RetiredOtherwise
<1>6. QED BY <1>4, <1>5

(* What is retired has led on as soon as Execute is through.               *)
RetiredKnown == phase \notin {"push", "crashed"} => RetiredLead

(* The inductive invariant of the program, while ORDER has room and no     *)
(* branch is executed in the shadow of another.                            *)
FollowsTheProgram ==
  /\ FollowsThePath /\ FirstBranchesOpen
  /\ FrontKept /\ Joint
  /\ ProgramFollowed /\ RetiredLead /\ RetiredInFull

(* The program is followed from the entry on.                            *)
LEMMA TheProgramIsFollowed ==
  ASSUME "execute" \notin Faults
  PROVE  PipelineSpec /\ []OrderHasRoom /\ []OnlyTheProgramBranches
           => []FollowsTheProgram
<1>1. PipelineInit => Joint /\ FollowsThePath /\ ProgramFollowed /\ RetiredLead
  BY JointInit, PathInitially, ProgramInit DEF PipelineInit
<1>2. FE!IInv /\ FE!Conveyed => FrontKept
  BY FrontEndState
<1>3. OnlyTheProgramBranches => FirstBranchesOpen
  BY DEF OnlyTheProgramBranches, FirstBranchesOpen, Opened, OnPath
<1>4. IInv /\ FrontKept /\ FrontKept' /\ Joint /\ [PipelineNext]_pipelineVars => Joint'
  BY JointStep
<1>5. FollowsThePath /\ OrderHasRoom /\ [PipelineNext]_pipelineVars => FollowsThePath'
  BY StepsOfTheBackEnd, PathKept
<1>6. FollowsThePath /\ FirstBranchesOpen /\ FE!IInv /\ FE!IInv' /\ FE!Conveyed
        /\ FE!Conveyed' /\ FrontKept /\ FrontKept' /\ Joint /\ Joint' /\ ProgramFollowed
        /\ [PipelineNext]_pipelineVars => ProgramFollowed'
  BY ProgramKept
<1>7. FollowsThePath /\ FirstBranchesOpen /\ ProgramFollowed => RetiredKnown
  BY RetiredHaveLed DEF ProgramFollowed, RetiredKnown
<1>8. IInv /\ RetiredLead /\ [PipelineNext]_pipelineVars /\ RetiredKnown' => RetiredLead'
  BY RetiredLeadKept DEF RetiredKnown
<1>9. FollowsThePath /\ OnlyTheProgramBranches => RetiresThePath
  BY PathRetired DEF FollowsThePath
<1>10. FollowsThePath /\ FirstBranchesOpen /\ RetiresThePath => RetiredInFull
  BY RetiredAreInFull
<1>11. /\ FollowsThePath /\ FirstBranchesOpen /\ FrontKept /\ Joint
       /\ ProgramFollowed /\ RetiredLead /\ RetiredInFull
       => FollowsTheProgram
  BY DEF FollowsTheProgram
<1>12. FollowsThePath => IInv
  BY DEF FollowsThePath
<1>13. QED
  BY <1>1, <1>2, <1>3, <1>4, <1>5, <1>6, <1>7, <1>8, <1>9, <1>10, <1>11, <1>12,
     BothEndsKept, PTL DEF PipelineSpec

(* The pipeline executes its program: what Writeback retires, fetched      *)
(* ahead along wrong paths, dropped by one stage or another and handed     *)
(* from Decode to Writeback by its number, is one instruction after the    *)
(* other, the first at the entry and each where the one before it has led. *)
(* That is for every program, buffer size and timing of the caches, while  *)
(* ORDER has a place for what Execute issues and no branch is executed in  *)
(* the shadow of another, where nothing faults in execution.               *)
THEOREM TheProgramIsExecuted ==
  ASSUME "execute" \notin Faults
  PROVE  PipelineSpec /\ []OrderHasRoom /\ []OnlyTheProgramBranches => ImplementsIsa
<1>1. PipelineInit => IsaImpl!Init
  BY EmptySeq DEF PipelineInit, Init, IsaImpl!Init
<1>2. FollowsTheProgram /\ FollowsTheProgram' /\ [PipelineNext]_pipelineVars =>
        [IsaImpl!Step]_<<Len(retired),
                         IF retired = <<>> THEN Entry
                         ELSE fetched[retired[Len(retired)]].pc,
                         IF retired = <<>> THEN Entry
                         ELSE NextPcOf(retired[Len(retired)])>>
  BY RetiresTheNext DEF FollowsTheProgram, IsaImpl!Step, LastPc, ProgramPc
<1>3. QED
  BY <1>1, <1>2, TheProgramIsFollowed, PTL DEF ImplementsIsa, IsaImpl!Spec, PipelineSpec

(* With an ORDER longer than the program it needs no such hypothesis.      *)
THEOREM LongOrdersExecute ==
  ASSUME "execute" \notin Faults, OrderSize > MaxInst
  PROVE  PipelineSpec /\ []OnlyTheProgramBranches => ImplementsIsa
<1>1. IInv => OrderHasRoom
  BY LongOrdersHaveRoom
<1>2. QED BY <1>1, BothEndsKept, TheProgramIsExecuted, PTL

=============================================================================
