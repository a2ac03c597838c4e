--------------------------- MODULE ResponderProofs ---------------------------
(***************************************************************************)
(* Responder: type correctness for every number of responses and timers,   *)
(* and, when one goroutine creates the responses or two take turns, that   *)
(* none is orphaned whatever the interrupt timers and Close take away      *)
(* meanwhile, and who is heard.                                            *)
(***************************************************************************)
EXTENDS MCResponder, SequenceTheorems, TLAPS

\* Every goroutine of the program is one of Procs, and the named ones are no timers.
LEMMA ProcFacts ==
  /\ {"handler", "ice", "closer"} \subseteq Procs /\ Timers \subseteq Procs
  /\ Creators \subseteq Procs /\ "closer" \notin Creators
  /\ "handler" \notin Timers /\ "ice" \notin Timers /\ "closer" \notin Timers
  /\ "nil" \notin Timers
BY CreatorsAssumption, TimersAssumption DEF Procs

\* The empty queue is a queue of anything.
LEMMA EmptyQueue == ASSUME NEW S PROVE <<>> \in Seq(S) /\ Len(<<>>) = 0
OBVIOUS

\* The first and the last element of a queue are elements, the rest is a queue.
LEMMA QueueFacts ==
  ASSUME NEW S, NEW q \in Seq(S)
  PROVE  /\ Len(q) \in Nat
         /\ q # <<>> => /\ Head(q) \in S /\ q[Len(q)] \in S
                        /\ Tail(q) \in Seq(S) /\ Len(Tail(q)) = Len(q) - 1
OBVIOUS

\* The last element of a queue is the one appended last, and stays when the first leaves.
LEMMA LastFacts ==
  ASSUME NEW S, NEW q \in Seq(S), NEW x \in S
  PROVE  /\ Append(q, x) # <<>> /\ Append(q, x)[Len(Append(q, x))] = x
         /\ Len(q) = 1 => Tail(q) = <<>> /\ Head(q) = q[Len(q)]
         /\ q # <<>> /\ Len(q) # 1 => Tail(q) # <<>> /\ Tail(q)[Len(Tail(q))] = q[Len(q)]
<1>1. Len(q) \in Nat /\ Len(<<>>) = 0 BY EmptySeq
<1>2. Append(q, x) # <<>> /\ Append(q, x)[Len(Append(q, x))] = x
  <2>1. /\ Append(q, x) \in Seq(S) /\ Len(Append(q, x)) = Len(q) + 1
        /\ Append(q, x)[Len(q) + 1] = x
    BY AppendProperties
  <2>2. Append(q, x) # <<>> BY <1>1, <2>1, EmptySeq
  <2> QED BY <2>1, <2>2
<1>3. ASSUME q # <<>>
      PROVE  /\ Len(Tail(q)) = Len(q) - 1 /\ Tail(q) \in Seq(S) /\ Head(q) = q[1]
             /\ \A i \in 1 .. Len(q) - 1 : Tail(q)[i] = q[i + 1]
  BY <1>3, HeadTailProperties
<1>4. ASSUME Len(q) = 1 PROVE Tail(q) = <<>> /\ Head(q) = q[Len(q)]
  <2>1. q # <<>> BY <1>1, <1>4
  <2>2. Len(Tail(q)) = 0 /\ Tail(q) \in Seq(S) /\ Head(q) = q[1] BY <1>3, <1>4, <2>1
  <2> QED BY <1>4, <2>2, EmptySeq
<1>5. ASSUME q # <<>>, Len(q) # 1
      PROVE  Tail(q) # <<>> /\ Tail(q)[Len(Tail(q))] = q[Len(q)]
  <2>1. Len(q) \in Nat \ {0} BY <1>5, EmptySeq
  <2>2. Len(Tail(q)) = Len(q) - 1 /\ Tail(q)[Len(q) - 1] = q[Len(q)]
    <3> \A n \in Nat \ {0} : n # 1 => n - 1 \in 1 .. n - 1 /\ (n - 1) + 1 = n OBVIOUS
    <3>1. Len(q) - 1 \in 1 .. Len(q) - 1 /\ (Len(q) - 1) + 1 = Len(q) BY <1>5, <2>1, Zenon
    <3>2. Tail(q)[Len(q) - 1] = q[(Len(q) - 1) + 1] BY <1>3, <1>5, <3>1
    <3> QED BY <1>3, <1>5, <3>1, <3>2
  <2>3. Tail(q) # <<>>
    <3>1. Len(Tail(q)) # 0 BY <1>5, <2>1, <2>2
    <3> QED BY <3>1, EmptySeq
  <2> QED BY <2>2, <2>3
<1> QED BY <1>2, <1>4, <1>5

\* The initial state is type correct.
LEMMA InitTypes == Init => TypeOK
<1> SUFFICES ASSUME Init PROVE TypeOK
  OBVIOUS
<1>1. ProcTypeOK BY BoundsAssumption DEF Init, ProcTypeOK, Locations
<1>2. StreamTypeOK BY BoundsAssumption DEF Init, StreamTypeOK
<1>3. MixerTypeOK /\ FlagTypeOK
  <2>1. <<>> \in Seq(0 .. MaxResponses) /\ Len(<<>>) = 0 BY EmptyQueue
  <2>2. MixerTypeOK BY <2>1, BoundsAssumption DEF Init, MixerTypeOK
  <2>3. FlagTypeOK BY DEF Init, FlagTypeOK
  <2> QED BY <2>2, <2>3
<1>4. CreationOK BY DEF Init, CreationOK
<1> QED BY <1>1, <1>2, <1>3, <1>4 DEF TypeOK

\* A stuttering step keeps the types.
LEMMA UnchangedTypes == TypeOK /\ UNCHANGED vars => TypeOK'
BY DEF vars, respVars, procVars, closeVars, streamVars, mixVars,
       TypeOK, ProcTypeOK, StreamTypeOK, MixerTypeOK, FlagTypeOK, CreationOK

\* Sending a command keeps the command channel within its capacity.
LEMMA SetSpeechSourceTypes ==
  ASSUME MixerTypeOK, NEW k \in 0 .. MaxResponses, SetSpeechSource(k)
  PROVE  cmdCh' \in Seq(0 .. MaxResponses) /\ Len(cmdCh') <= CmdCap
<1>1. CASE Len(cmdCh) < CmdCap /\ cmdCh' = Append(cmdCh, k)
  <2>1. cmdCh \in Seq(0 .. MaxResponses) BY DEF MixerTypeOK
  <2>2. Append(cmdCh, k) \in Seq(0 .. MaxResponses) /\ Len(Append(cmdCh, k)) = Len(cmdCh) + 1
    BY <2>1
  <2> QED BY <1>1, <2>1, <2>2, BoundsAssumption
<1>2. CASE mixClosed /\ UNCHANGED cmdCh BY <1>2 DEF MixerTypeOK
<1> QED BY <1>1, <1>2 DEF SetSpeechSource

\* The steps of CancelResponse keep the types.
LEMMA CancelTypes ==
  ASSUME TypeOK, NEW p \in Procs, CancelSteps(p)
  PROVE  TypeOK'
<1> USE DEF respVars, closeVars, streamVars, mixVars
<1>1. CASE TakeResponse(p)
  <2>1. ProcTypeOK'
    BY <1>1, ProcFacts, BoundsAssumption
    DEF TakeResponse, Goto, TypeOK, ProcTypeOK, Locations, Responses
  <2>2. StreamTypeOK'
    BY <1>1, BoundsAssumption DEF TakeResponse, TypeOK, ProcTypeOK, StreamTypeOK, Responses
  <2>3. MixerTypeOK' /\ FlagTypeOK' BY <1>1 DEF TakeResponse, TypeOK, MixerTypeOK, FlagTypeOK
  <2>4. CreationOK' BY <1>1 DEF TakeResponse, Goto, TypeOK, ProcTypeOK, CreationOK
  <2> QED BY <2>1, <2>2, <2>3, <2>4 DEF TypeOK
<1>2. CASE CancelContext(p)
  <2>1. ProcTypeOK'
    BY <1>2, ProcFacts, BoundsAssumption
    DEF CancelContext, Goto, TypeOK, ProcTypeOK, Locations, Responses
  <2>2. StreamTypeOK'
    BY <1>2, BoundsAssumption DEF CancelContext, TypeOK, ProcTypeOK, StreamTypeOK, Responses
  <2>3. MixerTypeOK' /\ FlagTypeOK' BY <1>2 DEF CancelContext, TypeOK, MixerTypeOK, FlagTypeOK
  <2>4. CreationOK' BY <1>2 DEF CancelContext, Goto, TypeOK, ProcTypeOK, CreationOK
  <2> QED BY <2>1, <2>2, <2>3, <2>4 DEF TypeOK
<1>3. CASE MuteMixer(p)
  <2>1. cmdCh' \in Seq(0 .. MaxResponses) /\ Len(cmdCh') <= CmdCap
    BY <1>3, SetSpeechSourceTypes, BoundsAssumption DEF MuteMixer, TypeOK
  <2> QED
    BY <1>3, <2>1 DEF MuteMixer, Goto, TypeOK, ProcTypeOK, StreamTypeOK, MixerTypeOK,
                      FlagTypeOK, CreationOK, Locations
<1>4. CASE AwaitResponse(p)
  <2>1. ProcTypeOK'
    BY <1>4, ProcFacts, BoundsAssumption
    DEF AwaitResponse, Goto, TypeOK, ProcTypeOK, Locations, Responses
  <2>2. StreamTypeOK'
    BY <1>4, BoundsAssumption DEF AwaitResponse, TypeOK, ProcTypeOK, StreamTypeOK, Responses
  <2>3. MixerTypeOK' /\ FlagTypeOK' BY <1>4 DEF AwaitResponse, TypeOK, MixerTypeOK, FlagTypeOK
  <2>4. CreationOK' BY <1>4 DEF AwaitResponse, Goto, TypeOK, ProcTypeOK, CreationOK
  <2> QED BY <2>1, <2>2, <2>3, <2>4 DEF TypeOK
<1> QED BY <1>1, <1>2, <1>3, <1>4 DEF CancelSteps

\* The steps of Respond and IceBreaking after CancelResponse keep the types.
LEMMA CreateTypes ==
  ASSUME TypeOK, NEW p \in Procs, CreateSteps(p)
  PROVE  TypeOK'
<1> USE DEF respVars, closeVars, streamVars, mixVars
<1>1. CASE CreateContext(p)
  BY <1>1 DEF CreateContext, Goto, TypeOK, ProcTypeOK, StreamTypeOK, MixerTypeOK, FlagTypeOK,
              CreationOK, Locations
<1>2. CASE SendPrompt(p)
  <2>1. ProcTypeOK'
    BY <1>2, ProcFacts, BoundsAssumption
    DEF SendPrompt, Goto, TypeOK, ProcTypeOK, Locations, Responses
  <2>2. StreamTypeOK'
    BY <1>2, BoundsAssumption DEF SendPrompt, TypeOK, ProcTypeOK, StreamTypeOK, Responses
  <2>3. MixerTypeOK' /\ FlagTypeOK' BY <1>2 DEF SendPrompt, TypeOK, MixerTypeOK, FlagTypeOK
  <2>4. CreationOK' BY <1>2 DEF SendPrompt, Goto, TypeOK, ProcTypeOK, CreationOK
  <2> QED BY <2>1, <2>2, <2>3, <2>4 DEF TypeOK
<1>3. CASE Generate(p)
  BY <1>3 DEF Generate, Goto, TypeOK, ProcTypeOK, StreamTypeOK, MixerTypeOK, FlagTypeOK,
              CreationOK, Locations
<1>4. CASE StoreWaitGroup(p)
  <2>1. ProcTypeOK'
    BY <1>4, ProcFacts, BoundsAssumption
    DEF StoreWaitGroup, Goto, TypeOK, ProcTypeOK, Locations, Responses
  <2>2. StreamTypeOK'
    BY <1>4, BoundsAssumption DEF StoreWaitGroup, TypeOK, ProcTypeOK, StreamTypeOK, Responses
  <2>3. MixerTypeOK' /\ FlagTypeOK' BY <1>4 DEF StoreWaitGroup, TypeOK, MixerTypeOK, FlagTypeOK
  <2>4. CreationOK' BY <1>4 DEF StoreWaitGroup, Goto, TypeOK, ProcTypeOK, CreationOK
  <2> QED BY <2>1, <2>2, <2>3, <2>4 DEF TypeOK
<1> QED BY <1>1, <1>2, <1>3, <1>4 DEF CreateSteps

\* What every callback of the recognition handler leaves alone keeps its type.
LEMMA CallbackFrame ==
  ASSUME TypeOK, CallbackUnchanged
  PROVE  StreamTypeOK' /\ MixerTypeOK' /\ FlagTypeOK'
BY DEF CallbackUnchanged, respVars, closeVars, streamVars, mixVars, TypeOK, ProcTypeOK,
       StreamTypeOK, MixerTypeOK, FlagTypeOK, CreationOK

\* The callbacks, the timers and IceBreaking keep the types.
LEMMA CallbackTypes ==
  ASSUME TypeOK, Callbacks \/ IceBreaking \/ \E t \in Timers : TimerFires(t)
  PROVE  TypeOK'
<1> USE ProcFacts DEF Goto, WithTimerStopped, Locations
<1>1. CASE OnSpeechStart
  <2>1. CallbackUnchanged BY <1>1 DEF OnSpeechStart
  <2>2. ProcTypeOK'
    BY <1>1, <2>1 DEF OnSpeechStart, CallbackUnchanged, respVars, TypeOK, ProcTypeOK
  <2>3. CreationOK'
    BY <1>1, <2>1 DEF OnSpeechStart, CallbackUnchanged, respVars, TypeOK, ProcTypeOK, CreationOK
  <2> QED BY <2>1, <2>2, <2>3, CallbackFrame DEF TypeOK
<1>2. CASE OnInterim
  <2>1. CallbackUnchanged BY <1>2 DEF OnInterim
  <2>2. ProcTypeOK'
    BY <1>2, <2>1 DEF OnInterim, CallbackUnchanged, respVars, TypeOK, ProcTypeOK
  <2>3. CreationOK'
    BY <1>2, <2>1 DEF OnInterim, CallbackUnchanged, respVars, TypeOK, ProcTypeOK, CreationOK
  <2> QED BY <2>1, <2>2, <2>3, CallbackFrame DEF TypeOK
<1>3. CASE OnSpeechEnd
  <2>1. CallbackUnchanged BY <1>3 DEF OnSpeechEnd
  <2>2. ProcTypeOK'
    BY <1>3, <2>1 DEF OnSpeechEnd, CallbackUnchanged, respVars, TypeOK, ProcTypeOK
  <2>3. CreationOK'
    BY <1>3, <2>1 DEF OnSpeechEnd, CallbackUnchanged, respVars, TypeOK, ProcTypeOK, CreationOK
  <2> QED BY <2>1, <2>2, <2>3, CallbackFrame DEF TypeOK
<1>4. CASE OnSpeechRecognized
  <2>1. CallbackUnchanged BY <1>4 DEF OnSpeechRecognized
  <2>2. ProcTypeOK'
      BY <1>4, <2>1, BoundsAssumption
      DEF OnSpeechRecognized, CallbackUnchanged, respVars, TypeOK, ProcTypeOK
  <2>3. CreationOK'
      BY <1>4, <2>1
      DEF OnSpeechRecognized, CallbackUnchanged, respVars, TypeOK, ProcTypeOK, CreationOK
  <2> QED BY <2>1, <2>2, <2>3, CallbackFrame DEF TypeOK
<1>5. CASE IceBreaking
  <2>1. CallbackUnchanged BY <1>5 DEF IceBreaking
  <2>2. ProcTypeOK'
      BY <1>5, <2>1, BoundsAssumption
      DEF IceBreaking, CallbackUnchanged, respVars, TypeOK, ProcTypeOK
  <2>3. CreationOK'
    BY <1>5, <2>1 DEF IceBreaking, CallbackUnchanged, respVars, TypeOK, ProcTypeOK, CreationOK
  <2> QED BY <2>1, <2>2, <2>3, CallbackFrame DEF TypeOK
<1>6. CASE \E t \in Timers : TimerFires(t)
  <2>1. CallbackUnchanged BY <1>6 DEF TimerFires
  <2>2. ProcTypeOK'
    BY <1>6, <2>1 DEF TimerFires, CallbackUnchanged, respVars, TypeOK, ProcTypeOK
  <2>3. CreationOK'
    BY <1>6, <2>1 DEF TimerFires, CallbackUnchanged, respVars, TypeOK, ProcTypeOK, CreationOK
  <2> QED BY <2>1, <2>2, <2>3, CallbackFrame DEF TypeOK
<1> QED BY <1>1, <1>2, <1>3, <1>4, <1>5, <1>6 DEF Callbacks

\* The goroutines of a response keep the types.
LEMMA ResponseTypes ==
  ASSUME TypeOK, NEW k \in Responses, ResponseSteps(k)
  PROVE  TypeOK'
<1> USE DEF StreamUnchanged, respVars, procVars, closeVars, mixVars, streamVars
<1>1. CASE SetInterruptible(k)
    BY <1>1
    DEF SetInterruptible, TypeOK, ProcTypeOK, StreamTypeOK, MixerTypeOK, FlagTypeOK, CreationOK
<1>2. CASE BrainReturns(k)
    BY <1>2
    DEF BrainReturns, TypeOK, ProcTypeOK, StreamTypeOK, MixerTypeOK, FlagTypeOK, CreationOK
<1>3. CASE SynthReturns(k)
    BY <1>3
    DEF SynthReturns, TypeOK, ProcTypeOK, StreamTypeOK, MixerTypeOK, FlagTypeOK, CreationOK
<1>4. CASE ForwardFrame(k)
    BY <1>4
    DEF ForwardFrame, TypeOK, ProcTypeOK, StreamTypeOK, MixerTypeOK, FlagTypeOK, CreationOK
<1>5. CASE ForwardAnnounce(k)
  <2>1. k \in 0 .. MaxResponses BY BoundsAssumption DEF Responses
  <2>2. cmdCh' \in Seq(0 .. MaxResponses) /\ Len(cmdCh') <= CmdCap
    BY <1>5, <2>1, SetSpeechSourceTypes DEF ForwardAnnounce, TypeOK
  <2> QED
      BY <1>5, <2>2
      DEF ForwardAnnounce, TypeOK, ProcTypeOK, StreamTypeOK, MixerTypeOK, FlagTypeOK, CreationOK
<1>6. CASE ForwardSend(k)
  <2>5. StreamUnchanged BY <1>6 DEF ForwardSend
  <2>1. ProcTypeOK' BY <2>5 DEF TypeOK, ProcTypeOK
  <2>6. inCh' \in [Responses -> 0 .. InCap]
    BY <1>6, BoundsAssumption DEF ForwardSend, TypeOK, StreamTypeOK
  <2>7. fwd' \in [Responses -> {"none", "receive", "announce", "send", "done"}]
    BY <1>6 DEF ForwardSend, TypeOK, StreamTypeOK
  <2>2. StreamTypeOK' BY <1>6, <2>6, <2>7 DEF ForwardSend, TypeOK, StreamTypeOK
  <2>3. MixerTypeOK' /\ FlagTypeOK' BY <1>6 DEF ForwardSend, TypeOK, MixerTypeOK, FlagTypeOK
  <2>4. CreationOK' BY <1>6 DEF ForwardSend, TypeOK, ProcTypeOK, CreationOK
  <2> QED BY <2>1, <2>2, <2>3, <2>4 DEF TypeOK
<1>7. CASE ForwardEnds(k)
  BY <1>7 DEF ForwardEnds, TypeOK, ProcTypeOK, StreamTypeOK, MixerTypeOK, FlagTypeOK, CreationOK
<1> QED BY <1>1, <1>2, <1>3, <1>4, <1>5, <1>6, <1>7 DEF ResponseSteps, ForwardSteps

\* The mixer, its consumer and its subscriber keep the types.
LEMMA MixerTypes ==
  ASSUME TypeOK, MixerSteps \/ ConsumerEnds \/ SubscriberReads
  PROVE  TypeOK'
<1> USE DEF MixerUnchanged, respVars, procVars, closeVars, mixVars, streamVars
<1>1. CASE MixerIdle
  <2>3. cmdCh \in Seq(0 .. MaxResponses) /\ cmdCh # <<>>
    BY <1>1 DEF MixerIdle, TypeOK, MixerTypeOK
  <2>1. Head(cmdCh) \in 0 .. MaxResponses /\ Tail(cmdCh) \in Seq(0 .. MaxResponses)
        /\ Len(Tail(cmdCh)) = Len(cmdCh) - 1 /\ Len(cmdCh) \in Nat
    BY <2>3, QueueFacts
  <2>2. Len(Tail(cmdCh)) <= CmdCap BY <2>1, BoundsAssumption DEF TypeOK, MixerTypeOK
  <2> QED
      BY <1>1, <2>1, <2>2
      DEF MixerIdle, TypeOK, ProcTypeOK, StreamTypeOK, MixerTypeOK, FlagTypeOK, CreationOK
<1>2. CASE MixerTick
  <2>5. cmdCh \in Seq(0 .. MaxResponses)
    BY DEF TypeOK, MixerTypeOK
  <2>1. cmdCh # <<>> => cmdCh[Len(cmdCh)] \in 0 .. MaxResponses
    BY <2>5, QueueFacts
  <2>2. source' \in 0 .. MaxResponses
    BY <1>2, <2>1, BoundsAssumption DEF MixerTick, TypeOK, MixerTypeOK
  <2>3. cmdCh' \in Seq(0 .. MaxResponses) /\ Len(cmdCh') <= CmdCap
    BY <1>2, BoundsAssumption DEF MixerTick
  <2>4. inCh' \in [Responses -> 0 .. InCap]
    BY <1>2, BoundsAssumption DEF MixerTick, TypeOK, StreamTypeOK
  <2> QED
    BY <1>2, <2>2, <2>3, <2>4
    DEF MixerTick, TypeOK, ProcTypeOK, StreamTypeOK, MixerTypeOK, FlagTypeOK, CreationOK
<1>3. CASE MixerSend
  BY <1>3, BoundsAssumption
  DEF MixerSend, TypeOK, ProcTypeOK, StreamTypeOK, MixerTypeOK, FlagTypeOK, CreationOK
<1>4. CASE MixerEnds
  BY <1>4 DEF MixerEnds, TypeOK, ProcTypeOK, StreamTypeOK, MixerTypeOK, FlagTypeOK, CreationOK
<1>5. CASE ConsumerEnds
    BY <1>5
    DEF ConsumerEnds, TypeOK, ProcTypeOK, StreamTypeOK, MixerTypeOK, FlagTypeOK, CreationOK
<1>6. CASE SubscriberReads
  BY <1>6, BoundsAssumption
  DEF SubscriberReads, TypeOK, ProcTypeOK, StreamTypeOK, MixerTypeOK, FlagTypeOK, CreationOK
<1> QED BY <1>1, <1>2, <1>3, <1>4, <1>5, <1>6 DEF MixerSteps

\* Close and its deadline keep the types.
LEMMA CloseTypes ==
  ASSUME TypeOK, Close \/ CloseSteps \/ DeadlinePasses
  PROVE  TypeOK'
<1> USE ProcFacts DEF Goto, respVars, procVars, closeVars, streamVars, mixVars, Locations
<1>1. CASE Close
  BY <1>1 DEF Close, TypeOK, ProcTypeOK, StreamTypeOK, MixerTypeOK, FlagTypeOK, CreationOK
<1>2. CASE CloseMixer
  BY <1>2 DEF CloseMixer, TypeOK, ProcTypeOK, StreamTypeOK, MixerTypeOK, FlagTypeOK, CreationOK
<1>3. CASE CloseWaits
  BY <1>3 DEF CloseWaits, TypeOK, ProcTypeOK, StreamTypeOK, MixerTypeOK, FlagTypeOK, CreationOK
<1>4. CASE DeadlinePasses
    BY <1>4
    DEF DeadlinePasses, TypeOK, ProcTypeOK, StreamTypeOK, MixerTypeOK, FlagTypeOK, CreationOK
<1> QED BY <1>1, <1>2, <1>3, <1>4 DEF CloseSteps

\* Type correctness: the channels never hold more than their capacities, and a
\* goroutine gets past CancelResponse only if it creates responses.
THEOREM TypeCorrect == Spec => []TypeOK
<1>1. TypeOK /\ [Next]_vars => TypeOK'
  <2> SUFFICES ASSUME TypeOK, Next PROVE TypeOK'
    BY UnchangedTypes
  <2> QED
    BY CancelTypes, CreateTypes, CallbackTypes, ResponseTypes, MixerTypes, CloseTypes DEF Next
<1> QED BY <1>1, InitTypes, PTL DEF Spec

\* No response is named 0, which is nil.
LEMMA NotNil == \A k \in Responses : k # 0
BY BoundsAssumption DEF Responses

\* What the ownership of responses depends on.
ownVars == <<cancelResp, respWg, pc, gotCancel, gotWg, next, begun, ctx, closeErr>>

\* Those that create responses are in CancelResponse or creating one at a time.
TakeTurns == \A p, q \in Creators : p = q \/ pc[p] = "idle" \/ pc[q] = "idle"

\* A single one does, and two that do not race.
LEMMA WhoTakesTurns == (OneCreator => TakeTurns) /\ (CreatorsAlternate => TakeTurns)
BY CreatorsAssumption DEF OneCreator, CreatorsAlternate, TakeTurns

\* While one of them does not rest, the others hold nothing and create nothing.
LEMMA Alone ==
  ASSUME TakeTurns, TypeOK, Ownership, NEW p \in Creators, pc[p] # "idle"
  PROVE  /\ \A q \in Creators : q # p => gotCancel[q] = 0 /\ gotWg[q] = 0
         /\ \A q \in Procs : q # p => next[q] = 0
<1>1. \A q \in Creators : q # p => pc[q] = "idle" /\ q \in Procs
  BY ProcFacts DEF TakeTurns
<1>2. \A q \in Procs : pc[q] = "idle" => gotCancel[q] = 0 /\ gotWg[q] = 0 /\ next[q] = 0
  BY DEF Ownership, HoldsWhileCancelling
<1> QED BY <1>1, <1>2 DEF TypeOK, CreationOK

\* Initially there is nothing to own.
LEMMA InitOwns == Init => Ownership
BY BoundsAssumption
DEF Init, Ownership, HoldsWhileCancelling, ContextsAreFresh, FieldsAreClear,
    NoOrphanedResponse, GoroutinesAwaited, AwaitedIsCancelled, Responses

\* Goroutines that only make progress towards their end change no ownership.
LEMMA ProgressOwns ==
  ASSUME Ownership, UNCHANGED ownVars,
         \A k \in Responses : /\ fwd[k] = "none" => fwd'[k] = "none"
                              /\ Finished(k) => Finished(k)'
  PROVE  Ownership'
<1> USE DEF ownVars, Ownership
<1>1. HoldsWhileCancelling' /\ FieldsAreClear' BY DEF HoldsWhileCancelling, FieldsAreClear
<1>2. ContextsAreFresh' BY DEF ContextsAreFresh
<1>3. NoOrphanedResponse' /\ AwaitedIsCancelled' BY DEF NoOrphanedResponse,
          AwaitedIsCancelled
<1>4. GoroutinesAwaited' BY DEF GoroutinesAwaited
<1> QED BY <1>1, <1>2, <1>3, <1>4

\* CancelResponse loses no response: what it takes it holds until it has called it and
\* waited for it.
LEMMA CancelOwns ==
  ASSUME TakeTurns, TypeOK, Ownership, NEW p \in Procs, CancelSteps(p)
  PROVE  Ownership'
<1> USE DEF Ownership, TypeOK, ProcTypeOK, StreamTypeOK, Goto, Responses, respVars,
            closeVars, streamVars, mixVars
<1>1. CASE TakeResponse(p)
  <2>1. HoldsWhileCancelling'
    BY <1>1, BoundsAssumption DEF TakeResponse, HoldsWhileCancelling
  <2>2. ContextsAreFresh'
    BY <1>1, BoundsAssumption DEF TakeResponse, HoldsWhileCancelling, ContextsAreFresh
  <2>3. FieldsAreClear'
      BY <1>1, BoundsAssumption
      DEF TakeResponse, HoldsWhileCancelling, FieldsAreClear, CreationOK, TakeTurns
  <2>4. NoOrphanedResponse'
      BY <1>1, BoundsAssumption
      DEF TakeResponse, HoldsWhileCancelling, ContextsAreFresh, FieldsAreClear, NoOrphanedResponse
  <2>5. GoroutinesAwaited'
    <3> SUFFICES ASSUME NEW k \in Responses, fwd[k] # "none", ~Finished(k)
                 PROVE  \/ respWg' = k \/ closeErr'
                        \/ \E q \in Procs : gotWg'[q] = k \/ (pc'[q] = "store" /\ next'[q] = k)
      BY <1>1 DEF TakeResponse, GoroutinesAwaited, Finished
    <3>1. CASE respWg = k BY <1>1, <3>1 DEF TakeResponse
    <3>2. CASE closeErr BY <1>1, <3>2 DEF TakeResponse
    <3>3. CASE \E q \in Procs : gotWg[q] = k \/ (pc[q] = "store" /\ next[q] = k)
      <4>1. PICK q \in Procs : gotWg[q] = k \/ (pc[q] = "store" /\ next[q] = k) BY <3>3
      <4>2. q # p BY <1>1, <4>1, NotNil DEF TakeResponse, HoldsWhileCancelling
      <4> QED BY <1>1, <4>1, <4>2 DEF TakeResponse
    <3> QED BY <3>1, <3>2, <3>3 DEF GoroutinesAwaited
  <2>6. AwaitedIsCancelled'
    <3>1. gotCancel[p] = 0 BY <1>1 DEF TakeResponse, HoldsWhileCancelling
    <3>2. ASSUME NEW k \in Responses, ctx[k] = "done" \/ \E r \in Procs : gotCancel[r] = k
          PROVE  ctx'[k] = "done" \/ \E r \in Procs : gotCancel'[r] = k
      BY <1>1, <3>1, <3>2 DEF TakeResponse
    <3> SUFFICES ASSUME NEW q \in Procs, gotWg'[q] # 0
                 PROVE  ctx'[gotWg'[q]] = "done" \/ \E r \in Procs : gotCancel'[r] = gotWg'[q]
      BY DEF AwaitedIsCancelled
    <3>3. CASE q = p
      <4>1. gotWg'[q] = respWg /\ respWg \in Responses
        BY <1>1, <3>3, BoundsAssumption DEF TakeResponse
      <4>2. ctx[respWg] = "live" \/ ctx[respWg] = "done" BY <4>1 DEF ContextsAreFresh
      <4>3. CASE cancelResp = respWg BY <1>1, <4>1, <4>3 DEF TakeResponse
      <4>4. CASE cancelResp # respWg BY <3>2, <4>1, <4>2, <4>4 DEF NoOrphanedResponse
      <4> QED BY <4>3, <4>4
    <3>4. CASE q # p
      <4>1. gotWg'[q] = gotWg[q] /\ gotWg[q] \in Responses
        BY <1>1, <3>4, BoundsAssumption DEF TakeResponse
      <4> QED BY <3>2, <4>1 DEF AwaitedIsCancelled
    <3> QED BY <3>3, <3>4
  <2> QED BY <2>1, <2>2, <2>3, <2>4, <2>5, <2>6
<1>2. CASE CancelContext(p)
  <2>1. HoldsWhileCancelling'
    BY <1>2, BoundsAssumption DEF CancelContext, HoldsWhileCancelling
  <2>2. ContextsAreFresh'
    <3>1. gotCancel[p] # 0 => gotCancel[p] \in Responses /\ ctx[gotCancel[p]] # "none"
      BY BoundsAssumption DEF ContextsAreFresh
    <3>2. \A k \in Responses : ctx'[k] # "none" <=> ctx[k] # "none"
      BY <1>2, <3>1 DEF CancelContext
    <3>3. \A k \in Responses, q \in Procs : gotCancel'[q] = k => gotCancel[q] = k
      BY <1>2 DEF CancelContext
    <3>4. \A q \in Procs : next[q] # 0 => next[q] \in Responses BY BoundsAssumption
    <3>5. \A q \in Procs : next[q] # 0 =>
            (pc'[q] \in {"prompt", "generate", "store"}
               <=> pc[q] \in {"prompt", "generate", "store"})
      BY <1>2 DEF CancelContext
    <3>6. UNCHANGED <<next, begun, cancelResp, respWg, gotWg>> BY <1>2 DEF CancelContext
    <3>7. /\ \A k \in Responses : ctx'[k] # "none" => k <= begun'
          /\ \A q \in Procs : next'[q] <= begun'
      BY <3>2, <3>6 DEF ContextsAreFresh
    <3>8. \A q \in Procs : next'[q] # 0 =>
            (ctx'[next'[q]] # "none" <=> pc'[q] \in {"prompt", "generate", "store"})
      BY <3>2, <3>4, <3>5, <3>6 DEF ContextsAreFresh
    <3>9. \A k \in Responses :
            cancelResp' = k \/ respWg' = k \/ (\E q \in Procs : gotCancel'[q] = k \/ gotWg'[q] = k)
              => ctx'[k] # "none"
      BY <3>2, <3>3, <3>6 DEF ContextsAreFresh
    <3> QED BY <3>7, <3>8, <3>9 DEF ContextsAreFresh
  <2>3. FieldsAreClear'
      BY <1>2, BoundsAssumption
      DEF CancelContext, HoldsWhileCancelling, FieldsAreClear, CreationOK, TakeTurns
  <2>4. NoOrphanedResponse'
      BY <1>2, BoundsAssumption
      DEF CancelContext, HoldsWhileCancelling, ContextsAreFresh, FieldsAreClear, NoOrphanedResponse
  <2>5. GoroutinesAwaited'
      BY <1>2, BoundsAssumption
      DEF CancelContext, HoldsWhileCancelling, FieldsAreClear, GoroutinesAwaited, Finished
  <2>6. AwaitedIsCancelled'
    <3>1. ASSUME NEW k \in Responses, ctx[k] = "done" \/ \E r \in Procs : gotCancel[r] = k
          PROVE  ctx'[k] = "done" \/ \E r \in Procs : gotCancel'[r] = k
      <4>1. CASE ctx[k] = "done" BY <1>2, <4>1 DEF CancelContext
      <4>2. CASE \E r \in Procs : gotCancel[r] = k
        <5>1. PICK r \in Procs : gotCancel[r] = k BY <4>2
        <5>2. CASE r = p BY <1>2, <5>1, <5>2 DEF CancelContext
        <5>3. CASE r # p BY <1>2, <5>1, <5>3 DEF CancelContext
        <5> QED BY <5>2, <5>3
      <4> QED BY <3>1, <4>1, <4>2
    <3>2. \A q \in Procs : gotWg'[q] = gotWg[q] /\ (gotWg[q] # 0 => gotWg[q] \in Responses)
      BY <1>2, BoundsAssumption DEF CancelContext
    <3> SUFFICES ASSUME NEW q \in Procs, gotWg'[q] # 0
                 PROVE  ctx'[gotWg'[q]] = "done" \/ \E r \in Procs : gotCancel'[r] = gotWg'[q]
      BY DEF AwaitedIsCancelled
    <3>3. gotWg'[q] \in Responses
          /\ (ctx[gotWg'[q]] = "done" \/ \E r \in Procs : gotCancel[r] = gotWg'[q])
      BY <3>2 DEF AwaitedIsCancelled
    <3> QED BY <3>1, <3>3
  <2> QED BY <2>1, <2>2, <2>3, <2>4, <2>5, <2>6
<1>3. CASE MuteMixer(p)
  <2>1. HoldsWhileCancelling'
    BY <1>3, BoundsAssumption DEF MuteMixer, HoldsWhileCancelling
  <2>2. ContextsAreFresh'
    BY <1>3, BoundsAssumption DEF MuteMixer, HoldsWhileCancelling, ContextsAreFresh
  <2>3. FieldsAreClear'
      BY <1>3, BoundsAssumption
      DEF MuteMixer, HoldsWhileCancelling, FieldsAreClear, CreationOK, TakeTurns
  <2>4. NoOrphanedResponse'
      BY <1>3, BoundsAssumption
      DEF MuteMixer, HoldsWhileCancelling, ContextsAreFresh, FieldsAreClear, NoOrphanedResponse
  <2>5. GoroutinesAwaited'
      BY <1>3, BoundsAssumption
      DEF MuteMixer, HoldsWhileCancelling, FieldsAreClear, GoroutinesAwaited, Finished
  <2>6. AwaitedIsCancelled'
      BY <1>3, BoundsAssumption
      DEF MuteMixer, HoldsWhileCancelling, ContextsAreFresh, NoOrphanedResponse,
          AwaitedIsCancelled
  <2> QED BY <2>1, <2>2, <2>3, <2>4, <2>5, <2>6
<1>4. CASE AwaitResponse(p)
  <2>1. HoldsWhileCancelling'
    BY <1>4, BoundsAssumption DEF AwaitResponse, HoldsWhileCancelling
  <2>2. ContextsAreFresh'
    BY <1>4, BoundsAssumption DEF AwaitResponse, HoldsWhileCancelling, ContextsAreFresh
  <2>3. FieldsAreClear'
      BY <1>4, BoundsAssumption
      DEF AwaitResponse, HoldsWhileCancelling, FieldsAreClear, CreationOK, TakeTurns
  <2>4. NoOrphanedResponse'
      BY <1>4, BoundsAssumption
      DEF AwaitResponse, HoldsWhileCancelling, ContextsAreFresh, FieldsAreClear, NoOrphanedResponse
  <2>5. GoroutinesAwaited'
      BY <1>4, BoundsAssumption
      DEF AwaitResponse, HoldsWhileCancelling, FieldsAreClear, GoroutinesAwaited, Finished
  <2>6. AwaitedIsCancelled'
      BY <1>4, BoundsAssumption
      DEF AwaitResponse, HoldsWhileCancelling, ContextsAreFresh, NoOrphanedResponse,
          AwaitedIsCancelled
  <2> QED BY <2>1, <2>2, <2>3, <2>4, <2>5, <2>6
<1> QED BY <1>1, <1>2, <1>3, <1>4 DEF CancelSteps

\* The creator overwrites no cancel function and no wait group.
LEMMA CreateOwns ==
  ASSUME TakeTurns, TypeOK, Ownership, NEW p \in Procs, CreateSteps(p)
  PROVE  Ownership'
<1> USE DEF Ownership, TypeOK, ProcTypeOK, StreamTypeOK, Goto, Responses, respVars,
            closeVars, streamVars, mixVars
<1>1. CASE CreateContext(p)
  <2>1. HoldsWhileCancelling'
    BY <1>1, BoundsAssumption DEF CreateContext, HoldsWhileCancelling
  <2>2. ContextsAreFresh'
    <3>1. /\ next[p] # 0 /\ next[p] \in Responses /\ ctx[next[p]] = "none"
          /\ cancelResp = 0 /\ next[p] <= begun /\ p \in Creators
      <4>1. next[p] # 0 /\ p \in Creators BY <1>1 DEF CreateContext, CreationOK
      <4>2. next[p] \in Responses BY <4>1, BoundsAssumption
      <4>3. ctx[next[p]] = "none" /\ next[p] <= begun
        BY <1>1, <4>1 DEF CreateContext, ContextsAreFresh
      <4>4. cancelResp = 0 BY <1>1, <4>1 DEF CreateContext, FieldsAreClear
      <4> QED BY <4>1, <4>2, <4>3, <4>4
    <3>2. \A k \in Responses : ctx'[k] = IF k = next[p] THEN "live" ELSE ctx[k]
      BY <1>1 DEF CreateContext
    <3>3. \A q \in Procs : q # p => next[q] = 0
      BY <1>1, <3>1, Alone DEF CreateContext
    <3>4. UNCHANGED <<next, begun, respWg, gotCancel, gotWg>> /\ cancelResp' = next[p]
      BY <1>1 DEF CreateContext
    <3>5. pc'[p] \in {"prompt", "generate"} BY <1>1 DEF CreateContext
    <3>6. \A k \in Responses : ctx'[k] # "none" => k <= begun'
      BY <3>1, <3>2, <3>4 DEF ContextsAreFresh
    <3>7. \A q \in Procs : next'[q] <= begun' BY <3>4 DEF ContextsAreFresh
    <3>8. \A q \in Procs : next'[q] # 0 =>
            (ctx'[next'[q]] # "none" <=> pc'[q] \in {"prompt", "generate", "store"})
      BY <3>1, <3>2, <3>3, <3>4, <3>5
    <3>9. \A k \in Responses :
            cancelResp' = k \/ respWg' = k \/ (\E q \in Procs : gotCancel'[q] = k \/ gotWg'[q] = k)
              => ctx'[k] # "none"
      BY <3>2, <3>4 DEF ContextsAreFresh
    <3> QED BY <3>6, <3>7, <3>8, <3>9 DEF ContextsAreFresh
  <2>3. FieldsAreClear'
      BY <1>1, BoundsAssumption
      DEF CreateContext, HoldsWhileCancelling, FieldsAreClear, CreationOK, TakeTurns
  <2>4. NoOrphanedResponse'
    <3>1. /\ next[p] # 0 /\ next[p] \in Responses /\ ctx[next[p]] = "none"
          /\ cancelResp = 0 /\ next[p] <= begun /\ p \in Creators
      <4>1. next[p] # 0 /\ p \in Creators BY <1>1 DEF CreateContext, CreationOK
      <4>2. next[p] \in Responses BY <4>1, BoundsAssumption
      <4>3. ctx[next[p]] = "none" /\ next[p] <= begun
        BY <1>1, <4>1 DEF CreateContext, ContextsAreFresh
      <4>4. cancelResp = 0 BY <1>1, <4>1 DEF CreateContext, FieldsAreClear
      <4> QED BY <4>1, <4>2, <4>3, <4>4
    <3>2. \A k \in Responses : ctx'[k] = IF k = next[p] THEN "live" ELSE ctx[k]
      BY <1>1 DEF CreateContext
    <3>3. UNCHANGED gotCancel /\ cancelResp' = next[p] BY <1>1 DEF CreateContext
    <3> QED BY <3>1, <3>2, <3>3 DEF NoOrphanedResponse
  <2>5. GoroutinesAwaited'
      BY <1>1, BoundsAssumption
      DEF CreateContext, HoldsWhileCancelling, FieldsAreClear, GoroutinesAwaited, Finished
  <2>6. AwaitedIsCancelled'
    <3>1. /\ next[p] # 0 /\ next[p] \in Responses /\ ctx[next[p]] = "none"
          /\ cancelResp = 0 /\ next[p] <= begun /\ p \in Creators
      <4>1. next[p] # 0 /\ p \in Creators BY <1>1 DEF CreateContext, CreationOK
      <4>2. next[p] \in Responses BY <4>1, BoundsAssumption
      <4>3. ctx[next[p]] = "none" /\ next[p] <= begun
        BY <1>1, <4>1 DEF CreateContext, ContextsAreFresh
      <4>4. cancelResp = 0 BY <1>1, <4>1 DEF CreateContext, FieldsAreClear
      <4> QED BY <4>1, <4>2, <4>3, <4>4
    <3>2. \A k \in Responses : ctx'[k] = IF k = next[p] THEN "live" ELSE ctx[k]
      BY <1>1 DEF CreateContext
    <3>3. UNCHANGED <<gotCancel, gotWg>> BY <1>1 DEF CreateContext
    <3>4. \A q \in Procs : gotWg[q] # 0 => gotWg[q] \in Responses /\ gotWg[q] # next[p]
      BY <3>1, BoundsAssumption DEF ContextsAreFresh
    <3> QED BY <3>2, <3>3, <3>4 DEF AwaitedIsCancelled
  <2> QED BY <2>1, <2>2, <2>3, <2>4, <2>5, <2>6
<1>2. CASE SendPrompt(p)
  <2>1. HoldsWhileCancelling'
    BY <1>2, BoundsAssumption DEF SendPrompt, HoldsWhileCancelling
  <2>2. ContextsAreFresh'
    <3>1. UNCHANGED <<cancelResp, respWg, gotCancel, gotWg, begun, ctx>> BY <1>2 DEF SendPrompt
    <3>2. \A q \in Procs : next'[q] = next[q] \/ next'[q] = 0 BY <1>2 DEF SendPrompt
    <3>3. \A q \in Procs : next'[q] # 0 =>
            (pc'[q] \in {"prompt", "generate", "store"}
               <=> pc[q] \in {"prompt", "generate", "store"})
      BY <1>2 DEF SendPrompt
    <3>4. begun \in Nat /\ 0 <= begun BY BoundsAssumption
    <3>5. \A k \in Responses : ctx'[k] # "none" => k <= begun' BY <3>1 DEF ContextsAreFresh
    <3>6. \A q \in Procs : next'[q] <= begun' BY <3>1, <3>2, <3>4 DEF ContextsAreFresh
    <3>7. \A q \in Procs : next'[q] # 0 =>
            (ctx'[next'[q]] # "none" <=> pc'[q] \in {"prompt", "generate", "store"})
      BY <3>1, <3>2, <3>3 DEF ContextsAreFresh
    <3>8. \A k \in Responses :
            cancelResp' = k \/ respWg' = k \/ (\E q \in Procs : gotCancel'[q] = k \/ gotWg'[q] = k)
              => ctx'[k] # "none"
      BY <3>1 DEF ContextsAreFresh
    <3> QED BY <3>5, <3>6, <3>7, <3>8 DEF ContextsAreFresh
  <2>3. FieldsAreClear'
    <3>1. UNCHANGED <<cancelResp, respWg>> BY <1>2 DEF SendPrompt
    <3>2. \A q \in Procs : next'[q] # 0 =>
            next[q] # 0 /\ (pc'[q] = pc[q] \/ (pc[q] = "prompt" /\ pc'[q] = "generate"))
      BY <1>2 DEF SendPrompt
    <3> QED BY <3>1, <3>2 DEF FieldsAreClear
  <2>4. NoOrphanedResponse'
      BY <1>2, BoundsAssumption
      DEF SendPrompt, HoldsWhileCancelling, ContextsAreFresh, FieldsAreClear, NoOrphanedResponse
  <2>5. GoroutinesAwaited'
      BY <1>2, BoundsAssumption
      DEF SendPrompt, HoldsWhileCancelling, FieldsAreClear, GoroutinesAwaited, Finished
  <2>6. AwaitedIsCancelled'
      BY <1>2, BoundsAssumption
      DEF SendPrompt, HoldsWhileCancelling, ContextsAreFresh, NoOrphanedResponse,
          AwaitedIsCancelled
  <2> QED BY <2>1, <2>2, <2>3, <2>4, <2>5, <2>6
<1>3. CASE Generate(p)
  <2>1. HoldsWhileCancelling'
    BY <1>3, BoundsAssumption DEF Generate, HoldsWhileCancelling
  <2>2. ContextsAreFresh'
    BY <1>3, BoundsAssumption DEF Generate, HoldsWhileCancelling, ContextsAreFresh
  <2>3. FieldsAreClear'
      BY <1>3, BoundsAssumption
      DEF Generate, HoldsWhileCancelling, FieldsAreClear, CreationOK, TakeTurns
  <2>4. NoOrphanedResponse'
      BY <1>3, BoundsAssumption
      DEF Generate, HoldsWhileCancelling, ContextsAreFresh, FieldsAreClear, NoOrphanedResponse
  <2>5. GoroutinesAwaited'
      BY <1>3, BoundsAssumption
      DEF Generate, HoldsWhileCancelling, FieldsAreClear, GoroutinesAwaited, Finished
  <2>6. AwaitedIsCancelled'
      BY <1>3, BoundsAssumption
      DEF Generate, HoldsWhileCancelling, ContextsAreFresh, NoOrphanedResponse,
          AwaitedIsCancelled
  <2> QED BY <2>1, <2>2, <2>3, <2>4, <2>5, <2>6
<1>4. CASE StoreWaitGroup(p)
  <2>1. HoldsWhileCancelling'
    BY <1>4, BoundsAssumption DEF StoreWaitGroup, HoldsWhileCancelling
  <2>2. ContextsAreFresh'
    <3>1. ctx' = ctx /\ begun' = begun /\ cancelResp' = cancelResp /\ gotCancel' = gotCancel
          /\ gotWg' = gotWg /\ respWg' = next[p] /\ pc[p] = "store"
      BY <1>4 DEF StoreWaitGroup
    <3>2. \A q \in Procs : next'[q] # 0 => next'[q] = next[q] /\ pc'[q] = pc[q]
      BY <1>4 DEF StoreWaitGroup
    <3>3. \A q \in Procs : next'[q] = 0 \/ next'[q] = next[q] BY <1>4 DEF StoreWaitGroup
    <3>4. next[p] # 0 /\ ctx[next[p]] # "none" BY <3>1 DEF CreationOK, ContextsAreFresh
    <3>5. /\ \A k \in Responses : ctx'[k] # "none" => k <= begun'
          /\ \A q \in Procs : next'[q] <= begun'
      <4>1. \A q \in Procs : next[q] <= begun BY DEF ContextsAreFresh
      <4>2. 0 <= begun BY BoundsAssumption
      <4>3. \A q \in Procs : next'[q] <= begun' BY <3>1, <3>3, <4>1, <4>2
      <4>4. \A k \in Responses : ctx'[k] # "none" => k <= begun' BY <3>1 DEF ContextsAreFresh
      <4> QED BY <4>3, <4>4
    <3>6. \A q \in Procs : next'[q] # 0 =>
            (ctx'[next'[q]] # "none" <=> pc'[q] \in {"prompt", "generate", "store"})
      BY <3>1, <3>2 DEF ContextsAreFresh
    <3>7. \A k \in Responses :
            cancelResp' = k \/ respWg' = k \/ (\E q \in Procs : gotCancel'[q] = k \/ gotWg'[q] = k)
              => ctx'[k] # "none"
      BY <3>1, <3>4 DEF ContextsAreFresh
    <3> QED BY <3>5, <3>6, <3>7 DEF ContextsAreFresh
  <2>3. FieldsAreClear'
    <3>1. p \in Creators /\ next'[p] = 0 BY <1>4 DEF StoreWaitGroup, CreationOK
    <3>2. \A q \in Procs : q # p => next[q] = 0 BY <1>4, <3>1, Alone DEF StoreWaitGroup
    <3>3. \A q \in Procs : next'[q] = 0 BY <1>4, <3>1, <3>2 DEF StoreWaitGroup
    <3> QED BY <3>3 DEF FieldsAreClear
  <2>4. NoOrphanedResponse'
      BY <1>4, BoundsAssumption
      DEF StoreWaitGroup, HoldsWhileCancelling, ContextsAreFresh, FieldsAreClear, NoOrphanedResponse
  <2>5. GoroutinesAwaited'
    <3>1. next[p] # 0 /\ respWg = 0
      BY <1>4 DEF StoreWaitGroup, FieldsAreClear, CreationOK
    <3> SUFFICES ASSUME NEW k \in Responses, fwd[k] # "none", ~Finished(k)
                 PROVE  \/ respWg' = k \/ closeErr'
                        \/ \E q \in Procs : gotWg'[q] = k \/ (pc'[q] = "store" /\ next'[q] = k)
      BY <1>4 DEF StoreWaitGroup, GoroutinesAwaited, Finished
    <3>2. CASE closeErr BY <1>4, <3>2 DEF StoreWaitGroup
    <3>3. CASE \E q \in Procs : gotWg[q] = k \/ (pc[q] = "store" /\ next[q] = k)
      <4>1. PICK q \in Procs : gotWg[q] = k \/ (pc[q] = "store" /\ next[q] = k) BY <3>3
      <4>2. CASE gotWg[q] = k BY <1>4, <4>2 DEF StoreWaitGroup
      <4>3. CASE pc[q] = "store" /\ next[q] = k
        <5>1. CASE q = p BY <1>4, <4>3, <5>1 DEF StoreWaitGroup
        <5>2. CASE q # p BY <1>4, <4>3, <5>2 DEF StoreWaitGroup
        <5> QED BY <5>1, <5>2
      <4> QED BY <4>1, <4>2, <4>3
    <3> QED BY <3>1, <3>2, <3>3, NotNil DEF GoroutinesAwaited
  <2>6. AwaitedIsCancelled'
      BY <1>4, BoundsAssumption
      DEF StoreWaitGroup, HoldsWhileCancelling, ContextsAreFresh, NoOrphanedResponse,
          AwaitedIsCancelled
  <2> QED BY <2>1, <2>2, <2>3, <2>4, <2>5, <2>6
<1> QED BY <1>1, <1>2, <1>3, <1>4 DEF CreateSteps

\* Beginning a cancellation or a response, arming and stopping a timer: what these steps
\* have in common is that they move goroutines that own nothing.
LEMMA BeginOwns ==
  ASSUME TypeOK, Ownership, CallbackUnchanged, begun' = begun \/ begun' = begun + 1,
         \A q \in Procs : \/ pc'[q] = pc[q]
                          \/ /\ pc[q] \in {"idle", "armed"}
                             /\ pc'[q] \in {"idle", "armed", "take"},
         \A q \in Procs : \/ next'[q] = next[q]
                          \/ /\ next'[q] = begun + 1 /\ begun' = begun + 1 /\ pc'[q] = "take"
                             /\ begun < MaxResponses
  PROVE  Ownership'
<1> USE DEF Ownership, CallbackUnchanged, respVars, closeVars, streamVars
<1>1. \A q \in Procs : pc'[q] # pc[q] => gotCancel[q] = 0 /\ gotWg[q] = 0 /\ next[q] = 0
  BY DEF HoldsWhileCancelling
<1>2. begun \in Nat /\ \A k \in Responses : k \in Nat
  BY BoundsAssumption DEF TypeOK, ProcTypeOK, Responses
<1>3. \A q \in Procs : next[q] \in Nat /\ (next[q] # 0 => next[q] \in Responses)
  BY BoundsAssumption DEF TypeOK, ProcTypeOK, Responses
<1>4. HoldsWhileCancelling' BY <1>1 DEF HoldsWhileCancelling
<1>5. ContextsAreFresh'
  <2>1. \A k \in Responses : ctx'[k] # "none" => k <= begun' BY <1>2 DEF ContextsAreFresh
  <2>2. \A q \in Procs : next'[q] <= begun' BY <1>2, <1>3 DEF ContextsAreFresh
  <2>3. ASSUME NEW q \in Procs, next'[q] # 0
        PROVE  ctx'[next'[q]] # "none" <=> pc'[q] \in {"prompt", "generate", "store"}
    <3>1. CASE next'[q] = next[q]
      <4>1. pc'[q] = pc[q] BY <1>1, <2>3, <3>1
      <4> QED BY <2>3, <3>1, <4>1 DEF ContextsAreFresh
    <3>2. CASE /\ next'[q] = begun + 1 /\ begun' = begun + 1 /\ pc'[q] = "take"
               /\ begun < MaxResponses
      <4>1. begun + 1 \in Responses BY <1>2, <3>2, BoundsAssumption DEF Responses
      <4>2. ctx[begun + 1] = "none" BY <1>2, <4>1 DEF ContextsAreFresh
      <4> QED BY <3>2, <4>2
    <3> QED BY <3>1, <3>2
  <2>4. \A k \in Responses :
          cancelResp' = k \/ respWg' = k \/ (\E q \in Procs : gotCancel'[q] = k \/ gotWg'[q] = k)
            => ctx'[k] # "none"
    BY DEF ContextsAreFresh
  <2> QED BY <2>1, <2>2, <2>3, <2>4 DEF ContextsAreFresh
<1>6. FieldsAreClear' BY <1>1 DEF FieldsAreClear
<1>7. NoOrphanedResponse' /\ AwaitedIsCancelled' BY DEF NoOrphanedResponse,
          AwaitedIsCancelled
<1>8. GoroutinesAwaited'
  <2>1. \A k \in Responses : fwd'[k] = fwd[k] /\ (Finished(k)' <=> Finished(k)) BY DEF Finished
  <2>2. \A q \in Procs, k \in Responses :
          pc[q] = "store" /\ next[q] = k => pc'[q] = "store" /\ next'[q] = k
    BY <1>1
  <2> QED BY <2>1, <2>2 DEF GoroutinesAwaited
<1> QED BY <1>4, <1>5, <1>6, <1>7, <1>8

\* The callbacks, the timers and IceBreaking are such steps.
LEMMA CallbackOwns ==
  ASSUME TypeOK, Ownership, Callbacks \/ IceBreaking \/ \E t \in Timers : TimerFires(t)
  PROVE  Ownership'
<1> USE ProcFacts DEF Goto, WithTimerStopped, TypeOK, ProcTypeOK
<1>1. CASE OnSpeechStart
  <2>1. CallbackUnchanged /\ (begun' = begun \/ begun' = begun + 1)
    BY <1>1 DEF OnSpeechStart
  <2>2. \A q \in Procs : \/ pc'[q] = pc[q]
                         \/ pc[q] \in {"idle", "armed"} /\ pc'[q] \in {"idle", "armed", "take"}
    BY <1>1 DEF OnSpeechStart
  <2>3. \A q \in Procs : \/ next'[q] = next[q]
                         \/ /\ next'[q] = begun + 1 /\ begun' = begun + 1 /\ pc'[q] = "take"
                            /\ begun < MaxResponses
    BY <1>1 DEF OnSpeechStart
  <2> QED BY <2>1, <2>2, <2>3, BeginOwns
<1>2. CASE OnInterim
  <2>1. CallbackUnchanged /\ (begun' = begun \/ begun' = begun + 1)
    BY <1>2 DEF OnInterim
  <2>2. \A q \in Procs : \/ pc'[q] = pc[q]
                         \/ pc[q] \in {"idle", "armed"} /\ pc'[q] \in {"idle", "armed", "take"}
    BY <1>2 DEF OnInterim
  <2>3. \A q \in Procs : \/ next'[q] = next[q]
                         \/ /\ next'[q] = begun + 1 /\ begun' = begun + 1 /\ pc'[q] = "take"
                            /\ begun < MaxResponses
    BY <1>2 DEF OnInterim
  <2> QED BY <2>1, <2>2, <2>3, BeginOwns
<1>3. CASE OnSpeechEnd
  <2>1. CallbackUnchanged /\ (begun' = begun \/ begun' = begun + 1)
    BY <1>3 DEF OnSpeechEnd
  <2>2. \A q \in Procs : \/ pc'[q] = pc[q]
                         \/ pc[q] \in {"idle", "armed"} /\ pc'[q] \in {"idle", "armed", "take"}
    BY <1>3 DEF OnSpeechEnd
  <2>3. \A q \in Procs : \/ next'[q] = next[q]
                         \/ /\ next'[q] = begun + 1 /\ begun' = begun + 1 /\ pc'[q] = "take"
                            /\ begun < MaxResponses
    BY <1>3 DEF OnSpeechEnd
  <2> QED BY <2>1, <2>2, <2>3, BeginOwns
<1>4. CASE OnSpeechRecognized
  <2>1. CallbackUnchanged /\ (begun' = begun \/ begun' = begun + 1)
    BY <1>4 DEF OnSpeechRecognized
  <2>2. \A q \in Procs : \/ pc'[q] = pc[q]
                         \/ pc[q] \in {"idle", "armed"} /\ pc'[q] \in {"idle", "armed", "take"}
    BY <1>4 DEF OnSpeechRecognized
  <2>3. \A q \in Procs : \/ next'[q] = next[q]
                         \/ /\ next'[q] = begun + 1 /\ begun' = begun + 1 /\ pc'[q] = "take"
                            /\ begun < MaxResponses
    BY <1>4 DEF OnSpeechRecognized
  <2> QED BY <2>1, <2>2, <2>3, BeginOwns
<1>5. CASE IceBreaking
  <2>1. CallbackUnchanged /\ (begun' = begun \/ begun' = begun + 1)
    BY <1>5 DEF IceBreaking
  <2>2. \A q \in Procs : \/ pc'[q] = pc[q]
                         \/ pc[q] \in {"idle", "armed"} /\ pc'[q] \in {"idle", "armed", "take"}
    BY <1>5 DEF IceBreaking
  <2>3. \A q \in Procs : \/ next'[q] = next[q]
                         \/ /\ next'[q] = begun + 1 /\ begun' = begun + 1 /\ pc'[q] = "take"
                            /\ begun < MaxResponses
    BY <1>5 DEF IceBreaking
  <2> QED BY <2>1, <2>2, <2>3, BeginOwns
<1>6. CASE \E t \in Timers : TimerFires(t)
  <2>1. CallbackUnchanged /\ (begun' = begun \/ begun' = begun + 1)
    BY <1>6 DEF TimerFires
  <2>2. \A q \in Procs : \/ pc'[q] = pc[q]
                         \/ pc[q] \in {"idle", "armed"} /\ pc'[q] \in {"idle", "armed", "take"}
    BY <1>6 DEF TimerFires
  <2>3. \A q \in Procs : \/ next'[q] = next[q]
                         \/ /\ next'[q] = begun + 1 /\ begun' = begun + 1 /\ pc'[q] = "take"
                            /\ begun < MaxResponses
    BY <1>6 DEF TimerFires
  <2> QED BY <2>1, <2>2, <2>3, BeginOwns
<1> QED BY <1>1, <1>2, <1>3, <1>4, <1>5, <1>6 DEF Callbacks

\* The goroutines of a response own nothing and only end.
LEMMA ResponseOwns ==
  ASSUME TypeOK, Ownership, NEW k \in Responses, ResponseSteps(k)
  PROVE  Ownership'
<1>1. UNCHANGED ownVars
    BY
    DEF ResponseSteps, ForwardSteps, SetInterruptible, BrainReturns, SynthReturns, ForwardFrame,
         ForwardAnnounce, ForwardSend, ForwardEnds, StreamUnchanged, ownVars, respVars, procVars,
         closeVars
<1>2. \A j \in Responses : fwd[j] = "none" => fwd'[j] = "none"
    BY
    DEF ResponseSteps, ForwardSteps, SetInterruptible, BrainReturns, SynthReturns, ForwardFrame,
         ForwardAnnounce, ForwardSend, ForwardEnds, streamVars, TypeOK, StreamTypeOK
<1>3. \A j \in Responses : Finished(j) => Finished(j)'
    BY
    DEF ResponseSteps, ForwardSteps, SetInterruptible, BrainReturns, SynthReturns, ForwardFrame,
         ForwardAnnounce, ForwardSend, ForwardEnds, streamVars, TypeOK, StreamTypeOK, Finished
<1> QED BY <1>1, <1>2, <1>3, ProgressOwns

\* Nor do the mixer, its consumer and the passing of the deadline.
LEMMA MixerOwns ==
  ASSUME Ownership, MixerSteps \/ ConsumerEnds \/ SubscriberReads \/ DeadlinePasses
  PROVE  Ownership'
<1>1. UNCHANGED <<ownVars, brain, synth, fwd>>
  BY DEF MixerSteps, MixerIdle, MixerTick, MixerSend, MixerEnds, ConsumerEnds, SubscriberReads,
         DeadlinePasses, MixerUnchanged, ownVars, respVars, procVars, closeVars, streamVars
<1> QED BY <1>1, ProgressOwns DEF Finished

\* Close begins like any other cancellation, and after it only gives up waiting.
LEMMA CloseOwns ==
  ASSUME TypeOK, Ownership, Close \/ CloseSteps
  PROVE  Ownership'
<1> USE ProcFacts DEF Goto, respVars, procVars, closeVars, streamVars, mixVars, TypeOK, ProcTypeOK
<1>1. UNCHANGED <<cancelResp, respWg, gotCancel, gotWg, next, begun, ctx, brain, synth, fwd>>
  BY DEF Close, CloseSteps, CloseMixer, CloseWaits
<1>2. closeErr => closeErr'
  BY DEF Close, CloseSteps, CloseMixer, CloseWaits
<1>3. /\ pc["closer"] \in {"idle", "closeMixer", "waitMixer", "waitAll"}
      /\ pc' = [pc EXCEPT !["closer"] = pc'["closer"]]
  BY DEF Close, CloseSteps, CloseMixer, CloseWaits
<1>4. next["closer"] = 0 /\ gotCancel["closer"] = 0 /\ gotWg["closer"] = 0
  BY <1>3 DEF Ownership, HoldsWhileCancelling
<1>5. \A q \in Procs : q # "closer" => pc'[q] = pc[q] BY <1>3
<1> USE DEF Ownership
<1>6. HoldsWhileCancelling' BY <1>1, <1>4, <1>5 DEF HoldsWhileCancelling
<1>7. ContextsAreFresh' BY <1>1, <1>4, <1>5 DEF ContextsAreFresh
<1>8. FieldsAreClear' BY <1>1, <1>4, <1>5 DEF FieldsAreClear
<1>9. NoOrphanedResponse' /\ AwaitedIsCancelled'
  BY <1>1 DEF NoOrphanedResponse,
          AwaitedIsCancelled
<1>10. GoroutinesAwaited' BY <1>1, <1>2, <1>4, <1>5, NotNil DEF GoroutinesAwaited, Finished
<1> QED BY <1>6, <1>7, <1>8, <1>9, <1>10

\* A stuttering step changes no ownership.
LEMMA UnchangedOwns == Ownership /\ UNCHANGED vars => Ownership'
BY ProgressOwns DEF vars, ownVars, respVars, procVars, closeVars, streamVars, Finished

\* A step of those that take turns keeps the ownership of responses.
LEMMA NextOwns == TakeTurns /\ TypeOK /\ Ownership /\ [Next]_vars => Ownership'
<1> SUFFICES ASSUME TakeTurns, TypeOK, Ownership, Next PROVE Ownership'
  BY UnchangedOwns
<1> QED BY CancelOwns, CreateOwns, CallbackOwns, ResponseOwns, MixerOwns, CloseOwns DEF Next

\* With one goroutine creating responses, the ownership of responses is an invariant.
THEOREM OwnershipHolds == OneCreator => (Spec => []Ownership)
<1> SUFFICES ASSUME OneCreator PROVE Spec => []Ownership
  OBVIOUS
<1>1. TakeTurns BY WhoTakesTurns
<1>2. TypeOK /\ Ownership /\ [Next]_vars => Ownership'
  BY <1>1, NextOwns
<1> QED BY <1>2, InitOwns, TypeCorrect, PTL DEF Spec

\* A response that was not cancelled can still be, whatever timers, callbacks and Close
\* have taken from the responder.
THEOREM NothingOrphaned == OneCreator => (Spec => []NoOrphanedResponse)
<1>1. Ownership => NoOrphanedResponse BY DEF Ownership
<1> QED BY <1>1, OwnershipHolds, PTL

\* The goroutines of every response are waited for, unless the deadline of Close passed.
THEOREM AllAwaited == OneCreator => (Spec => []GoroutinesAwaited)
<1>1. Ownership => GoroutinesAwaited BY DEF Ownership
<1> QED BY <1>1, OwnershipHolds, PTL

\* CancelResponse never waits for a response that nobody has cancelled or will cancel.
THEOREM WaitsForCancelled == OneCreator => (Spec => []AwaitedIsCancelled)
<1>1. Ownership => AwaitedIsCancelled BY DEF Ownership
<1> QED BY <1>1, OwnershipHolds, PTL

\* Initially no response has a context.
LEMMA InitLast == Init => LastIsAwaited
BY DEF Init, LastIsAwaited, Responses

\* A step that gives no response a context, begins none and hands out wait groups only
\* from respWg keeps it.
LEMMA QuietLast ==
  ASSUME TypeOK, LastIsAwaited, begun' = begun,
         \A p \in Procs : next'[p] # 0 => next'[p] = next[p],
         \A k \in Responses : ctx'[k] # "none" => ctx[k] # "none",
         respWg' \in {0, respWg},
         \A p \in Creators : gotWg'[p] \in {0, gotWg[p], respWg}
  PROVE  LastIsAwaited'
<1>1. \A p \in Procs : next'[p] # 0 => next'[p] = begun'
  BY DEF LastIsAwaited
<1>2. ASSUME NEW k \in Responses, ctx'[k] # "none", respWg' # 0 PROVE k <= respWg'
  BY <1>2 DEF LastIsAwaited
<1>3. ASSUME NEW k \in Responses, ctx'[k] # "none", NEW p \in Creators, gotWg'[p] # 0
      PROVE k <= gotWg'[p]
  BY <1>3 DEF LastIsAwaited
<1> QED BY <1>1, <1>2, <1>3 DEF LastIsAwaited

\* CancelResponse takes the wait group of the last response, or lets go of it.
LEMMA CancelLast ==
  ASSUME TypeOK, Ownership, LastIsAwaited, NEW p \in Procs, CancelSteps(p)
  PROVE  LastIsAwaited'
<1> USE DEF respVars, TypeOK, ProcTypeOK, StreamTypeOK
<1>1. CASE TakeResponse(p) BY <1>1, ProcFacts, QuietLast DEF TakeResponse
<1>2. CASE CancelContext(p)
  <2>1. gotCancel[p] # 0 => gotCancel[p] \in Responses /\ ctx[gotCancel[p]] # "none"
    BY BoundsAssumption DEF Ownership, ContextsAreFresh, Responses
  <2>2. \A k \in Responses : ctx'[k] # "none" => ctx[k] # "none"
    BY <1>2, <2>1 DEF CancelContext
  <2> QED BY <1>2, <2>2, ProcFacts, QuietLast DEF CancelContext
<1>3. CASE MuteMixer(p) BY <1>3, ProcFacts, QuietLast DEF MuteMixer
<1>4. CASE AwaitResponse(p) BY <1>4, ProcFacts, QuietLast DEF AwaitResponse
<1> QED BY <1>1, <1>2, <1>3, <1>4 DEF CancelSteps

\* The creator gives a context to the newest response when nothing is left to wait for.
LEMMA CreateLast ==
  ASSUME TakeTurns, TypeOK, Ownership, LastIsAwaited, NEW p \in Procs, CreateSteps(p)
  PROVE  LastIsAwaited'
<1> USE DEF respVars, TypeOK, ProcTypeOK, StreamTypeOK
<1>1. CASE CreateContext(p)
  <2>1. p \in Creators /\ next[p] # 0 /\ respWg = 0
    BY <1>1 DEF CreateContext, CreationOK, Ownership, FieldsAreClear
  <2>2. \A q \in Creators : gotWg[q] = 0
    <3>1. gotWg[p] = 0 BY <1>1 DEF CreateContext, Ownership, HoldsWhileCancelling
    <3> QED BY <1>1, <2>1, <3>1, Alone DEF CreateContext
  <2>3. UNCHANGED <<next, begun, respWg, gotWg>> BY <1>1 DEF CreateContext
  <2> QED BY <2>1, <2>2, <2>3 DEF LastIsAwaited
<1>2. CASE SendPrompt(p) BY <1>2, ProcFacts, QuietLast DEF SendPrompt
<1>3. CASE Generate(p) BY <1>3, ProcFacts, QuietLast DEF Generate
<1>4. CASE StoreWaitGroup(p)
  <2>1. next[p] # 0 /\ next[p] = begun
    BY <1>4 DEF StoreWaitGroup, CreationOK, LastIsAwaited
  <2>2. /\ respWg' = begun /\ UNCHANGED <<begun, ctx, gotWg>>
        /\ \A q \in Procs : next'[q] # 0 => next'[q] = next[q]
    BY <1>4, <2>1 DEF StoreWaitGroup
  <2>3. \A k \in Responses : ctx'[k] # "none" => k <= respWg'
    BY <2>2 DEF Ownership, ContextsAreFresh
  <2> QED BY <2>2, <2>3 DEF LastIsAwaited
<1> QED BY <1>1, <1>2, <1>3, <1>4 DEF CreateSteps

\* A response is begun by the only creator, when it is creating none.
LEMMA CallbackLast ==
  ASSUME TakeTurns', TypeOK, Ownership, LastIsAwaited,
         Callbacks \/ IceBreaking \/ \E t \in Timers : TimerFires(t)
  PROVE  LastIsAwaited'
<1> USE DEF CallbackUnchanged, respVars, TypeOK, ProcTypeOK
<1>1. UNCHANGED <<respWg, gotWg, ctx>>
  BY DEF Callbacks, OnSpeechStart, OnInterim, OnSpeechEnd, OnSpeechRecognized, IceBreaking,
         TimerFires
<1> DEFINE Begins(p) == /\ next' = [next EXCEPT ![p] = begun + 1] /\ begun' = begun + 1
                        /\ pc[p] = "idle" /\ pc'[p] = "take"
                        /\ \A q \in Creators : q # p => pc'[q] = pc[q]
<1>2. UNCHANGED <<next, begun>> \/ \E p \in Creators : Begins(p)
  <2>1. CASE OnSpeechRecognized
    <3>1. "handler" \in Creators BY <2>1 DEF OnSpeechRecognized
    <3>2. \A q \in Creators : q \in Procs /\ q # interruptTimer
      BY ProcFacts, CreatorsAssumption
    <3>3. /\ pc["handler"] = "idle" /\ pc'["handler"] = "take"
          /\ \A q \in Creators : q # "handler" => pc'[q] = pc[q]
      BY <2>1, <3>2, ProcFacts DEF OnSpeechRecognized, WithTimerStopped
    <3> QED BY <2>1, <3>1, <3>3 DEF OnSpeechRecognized
  <2>2. CASE IceBreaking
    <3>1. "ice" \in Creators BY <2>2 DEF IceBreaking
    <3>2. Begins("ice") BY <2>2, ProcFacts DEF IceBreaking, Goto
    <3> QED BY <3>1, <3>2
  <2> QED BY <2>1, <2>2 DEF Callbacks, OnSpeechStart, OnInterim, OnSpeechEnd, TimerFires
<1>3. \A q \in Procs : next'[q] # 0 => next'[q] = begun'
  <2>1. CASE UNCHANGED <<next, begun>> BY <2>1 DEF LastIsAwaited
  <2>2. CASE \E p \in Creators : Begins(p)
    <3>1. PICK p \in Creators : Begins(p) BY <2>2
    <3>2. \A q \in Creators : q # p => pc[q] = "idle" BY <3>1 DEF TakeTurns
    <3>3. \A q \in Procs : q # p => next[q] = 0
      BY <3>2, ProcFacts DEF CreationOK, Ownership, HoldsWhileCancelling
    <3> QED BY <3>1, <3>3, ProcFacts
  <2> QED BY <1>2, <2>1, <2>2
<1> QED BY <1>1, <1>3 DEF LastIsAwaited

\* The goroutines of a response, the mixer and Close wait for nothing of the responder's.
LEMMA OthersLast ==
  ASSUME TypeOK, LastIsAwaited,
         \/ \E k \in Responses : ResponseSteps(k)
         \/ MixerSteps \/ ConsumerEnds \/ SubscriberReads
         \/ Close \/ CloseSteps \/ DeadlinePasses \/ UNCHANGED vars
  PROVE  LastIsAwaited'
<1>1. UNCHANGED <<next, begun, ctx, respWg, gotWg>>
  BY DEF ResponseSteps, ForwardSteps, SetInterruptible, BrainReturns, SynthReturns, ForwardFrame,
         ForwardAnnounce, ForwardSend, ForwardEnds, StreamUnchanged, MixerSteps, MixerIdle,
         MixerTick, MixerSend, MixerEnds, ConsumerEnds, SubscriberReads, MixerUnchanged, Close,
         CloseSteps, CloseMixer, CloseWaits, DeadlinePasses, respVars, procVars, vars
<1> QED BY <1>1 DEF LastIsAwaited

\* A step of those that take turns keeps the last response awaited.
LEMMA NextLast ==
  TakeTurns /\ TakeTurns' /\ TypeOK /\ Ownership /\ LastIsAwaited /\ [Next]_vars
    => LastIsAwaited'
<1> SUFFICES ASSUME TakeTurns, TakeTurns', TypeOK, Ownership, LastIsAwaited, [Next]_vars
             PROVE  LastIsAwaited'
  OBVIOUS
<1> QED BY CancelLast, CreateLast, CallbackLast, OthersLast DEF Next

\* Who owns a response that goes on is not its successor.
LEMMA LastSpeaks == TypeOK /\ Ownership /\ LastIsAwaited => OneAtATime
<1> SUFFICES ASSUME TypeOK, Ownership, LastIsAwaited, NEW j \in Responses, NEW k \in Responses,
                    j < k, ctx[k] # "none", fwd[j] # "none", ~Finished(j), ~closeErr
             PROVE  \E p \in Procs \ Creators : gotWg[p] = j
  BY DEF OneAtATime
<1>1. respWg = j \/ \E p \in Procs : gotWg[p] = j \/ (pc[p] = "store" /\ next[p] = j)
  BY DEF Ownership, GoroutinesAwaited
<1>2. j # 0 /\ j \in Nat /\ k \in Nat /\ begun \in Nat
  BY BoundsAssumption DEF Responses, TypeOK, ProcTypeOK
<1>3. respWg # j BY <1>2 DEF LastIsAwaited
<1>4. \A p \in Procs : next[p] # j BY <1>2 DEF LastIsAwaited, Ownership, ContextsAreFresh
<1>5. \A p \in Creators : gotWg[p] # j BY <1>2 DEF LastIsAwaited
<1> QED BY <1>1, <1>3, <1>4, <1>5

\* With one goroutine creating responses they speak one at a time, except for those a timer
\* or Close has taken from the responder.
THEOREM OneSpeaks == OneCreator => (Spec => []OneAtATime)
<1> SUFFICES ASSUME OneCreator PROVE Spec => []OneAtATime
  OBVIOUS
<1>1. TakeTurns BY WhoTakesTurns
<1>2. TakeTurns' BY <1>1 DEF OneCreator, TakeTurns
<1>3. TypeOK /\ Ownership /\ LastIsAwaited /\ [Next]_vars => LastIsAwaited'
  BY <1>1, <1>2, NextLast
<1> QED BY <1>3, LastSpeaks, InitLast, TypeCorrect, OwnershipHolds, PTL DEF Spec

\* The agent listens again as soon as no synthesizer is running, unless a brain has asked for
\* silence after its own had returned, whoever creates, cancels and closes at the same time.
THEOREM ListensBetween == HistorySpec => []DeafOnlyWhileSpeaking
<1>1. Init => DeafOnlyWhileSpeaking BY DEF Init, DeafOnlyWhileSpeaking
<1>2. [Next /\ HistoryNext]_<<vars, history>> => [Next]_vars OBVIOUS
<1>3. ASSUME TypeOK, Next PROVE interruptible' \/ synth' = synth
  <2> USE DEF streamVars
  <2>1. CASE \E p \in Procs : CancelSteps(p) \/ CreateSteps(p)
    BY <2>1 DEF CancelSteps, TakeResponse, CancelContext, MuteMixer, AwaitResponse, CreateSteps,
                CreateContext, SendPrompt, Generate, StoreWaitGroup
  <2>2. CASE Callbacks \/ IceBreaking \/ \E t \in Timers : TimerFires(t)
    BY <2>2 DEF Callbacks, OnSpeechStart, OnInterim, OnSpeechEnd, OnSpeechRecognized,
                IceBreaking, TimerFires, CallbackUnchanged
  <2>3. CASE \E k \in Responses : ResponseSteps(k)
    BY <2>3 DEF ResponseSteps, SetInterruptible, SynthReturns, BrainReturns, ForwardSteps,
                ForwardFrame, ForwardAnnounce, ForwardSend, ForwardEnds
  <2>4. CASE \/ MixerSteps \/ ConsumerEnds \/ SubscriberReads
             \/ Close \/ CloseSteps \/ DeadlinePasses
    BY <2>4 DEF MixerSteps, MixerIdle, MixerTick, MixerSend, MixerEnds, ConsumerEnds,
                SubscriberReads, MixerUnchanged, Close, CloseSteps, CloseMixer, CloseWaits,
                DeadlinePasses
  <2> QED BY <1>3, <2>1, <2>2, <2>3, <2>4 DEF Next
<1>4. TypeOK /\ DeafOnlyWhileSpeaking /\ [Next /\ HistoryNext]_<<vars, history>>
        => DeafOnlyWhileSpeaking'
  <2> SUFFICES ASSUME TypeOK, DeafOnlyWhileSpeaking, [Next /\ HistoryNext]_<<vars, history>>
               PROVE  DeafOnlyWhileSpeaking'
    OBVIOUS
  <2>1. CASE UNCHANGED <<vars, history>>
    BY <2>1 DEF vars, streamVars, history, DeafOnlyWhileSpeaking
  <2>2. CASE Next /\ HistoryNext
    <3> SUFFICES ASSUME ~interruptible' PROVE late' \/ \E k \in Responses : synth'[k] = "run"
      BY DEF DeafOnlyWhileSpeaking
    <3>1. synth' = synth BY <1>3, <2>2
    <3>2. late \/ (interruptible /\ \A k \in Responses : brain[k] = "run" => synth[k] # "run")
            => late'
      BY <2>2, Zenon DEF HistoryNext, LateNext
    <3>3. CASE \E k \in Responses : synth[k] = "run" BY <3>1, <3>3
    <3>4. CASE interruptible /\ \A k \in Responses : synth[k] # "run" BY <3>2, <3>4
    <3>5. CASE late BY <3>2, <3>5
    <3> QED BY <3>3, <3>4, <3>5 DEF DeafOnlyWhileSpeaking
  <2> QED BY <2>1, <2>2
<1> QED BY <1>1, <1>2, <1>4, TypeCorrect, PTL DEF HistorySpec, HistoryInit, Spec

(***************************************************************************)
(* Two creators that do not race.  Until a timer fires or Close is called, *)
(* only the handler and IceBreaking cancel, one after the other, and what  *)
(* they remove from the mixer has been cancelled.                          *)
(***************************************************************************)
Users == {"handler", "ice"}

\* Nobody else has begun to cancel.
Bystanders ==
  /\ \A t \in Timers : pc[t] \in {"idle", "armed"}
  /\ pc["closer"] = "idle" /\ ~closeErr

\* After taking the fields, there is nothing more to take.
NothingToTake == \A p \in Users : pc[p] \in {"cancel", "mute"} => cancelResp = 0

\* What a user waits for is the last response.
UserAwaitsLast ==
  \A p \in Users, k \in Responses : gotWg[p] # 0 /\ ctx[k] # "none" => k <= gotWg[p]

\* The forwarder of a response starts after its context, and announces nothing before.
StreamsAreFresh ==
  \A k \in Responses : /\ ctx[k] = "none" => fwd[k] = "none"
                       /\ fwd[k] = "none" => ~announced[k]

\* Nor does it before the creator has come to that.
NotStarted ==
  \A p \in Procs : next[p] # 0 /\ pc[p] # "store" => fwd[next[p]] = "none"

Undisturbed == Bystanders /\ NothingToTake /\ UserAwaitsLast

HeardInv ==
  /\ CreatorsAlternate /\ LastIsAwaited /\ StreamsAreFresh /\ NotStarted
  /\ fired \/ rClosed \/ (Undisturbed /\ SpeakerIsHeard)

\* Initially nobody is at work and nothing is announced.
LEMMA InitHeard == Init => HeardInv
<1> SUFFICES ASSUME Init PROVE HeardInv
  OBVIOUS
<1>1. CreatorsAlternate BY ProcFacts DEF Init, CreatorsAlternate
<1>2. StreamsAreFresh /\ NotStarted BY DEF Init, StreamsAreFresh, NotStarted
<1>3. Undisturbed
  BY ProcFacts DEF Init, Undisturbed, Bystanders, NothingToTake, UserAwaitsLast, Users
<1>4. SpeakerIsHeard BY DEF Init, SpeakerIsHeard
<1> QED BY <1>1, <1>2, <1>3, <1>4, InitLast DEF HeardInv

\* Streams start with the Generate of their creator, which is alone.
LEMMA StreamsStayFresh ==
  ASSUME TakeTurns, TypeOK, Ownership, StreamsAreFresh, NotStarted, Next
  PROVE  StreamsAreFresh' /\ NotStarted'
<1> USE DEF TypeOK, StreamTypeOK, ProcTypeOK
<1>1. \A p \in Procs : next[p] # 0 => next[p] \in Responses BY BoundsAssumption DEF Responses
<1>2. CASE \E p \in Procs : CreateSteps(p)
  <2>1. PICK p \in Procs : CreateSteps(p) BY <1>2
  <2>2. next[p] # 0 /\ p \in Creators /\ pc[p] # "idle" /\ next[p] \in Responses
    BY <1>1, <2>1 DEF CreateSteps, CreateContext, SendPrompt, Generate, StoreWaitGroup, CreationOK
  <2>3. \A q \in Procs : q # p => next[q] = 0 BY <2>2, Alone
  <2>4. CASE CreateContext(p)
    <3>1. StreamsAreFresh'
      BY <2>4, <2>2 DEF CreateContext, StreamsAreFresh, streamVars
    <3>2. NotStarted' BY <2>4, <2>2 DEF CreateContext, NotStarted, streamVars, Goto
    <3> QED BY <3>1, <3>2
  <2>5. CASE SendPrompt(p)
    <3>1. UNCHANGED <<fwd, announced, ctx>> BY <2>5 DEF SendPrompt, streamVars
    <3>2. /\ next'[p] = 0 \/ (next'[p] = next[p] /\ pc[p] = "prompt")
          /\ \A q \in Procs : q # p => next'[q] = 0
      BY <2>5, <2>3 DEF SendPrompt
    <3>3. NotStarted' BY <3>1, <3>2 DEF NotStarted
    <3> QED BY <3>1, <3>3 DEF StreamsAreFresh
  <2>6. CASE Generate(p)
    <3>1. /\ fwd' = [fwd EXCEPT ![next[p]] = "receive"] /\ UNCHANGED <<next, announced, ctx>>
          /\ pc' = [pc EXCEPT ![p] = "store"] /\ pc[p] = "generate"
      BY <2>6 DEF Generate, Goto
    <3>2. ctx[next[p]] # "none" BY <2>2, <3>1 DEF Ownership, ContextsAreFresh
    <3>3. NotStarted' BY <2>3, <3>1 DEF NotStarted
    <3> QED BY <3>1, <3>2, <3>3 DEF StreamsAreFresh
  <2>7. CASE StoreWaitGroup(p)
    <3>1. UNCHANGED <<fwd, announced, ctx>> /\ \A q \in Procs : next'[q] = 0
      BY <2>7, <2>3 DEF StoreWaitGroup, streamVars
    <3> QED BY <3>1 DEF StreamsAreFresh, NotStarted
  <2> QED BY <2>1, <2>4, <2>5, <2>6, <2>7 DEF CreateSteps
<1>3. CASE \E p \in Procs : CancelSteps(p)
  <2>1. PICK p \in Procs : CancelSteps(p) BY <1>3
  <2>2. UNCHANGED <<fwd, announced, next>> /\ \A q \in Procs : pc'[q] = "store" <=> pc[q] = "store"
    BY <2>1 DEF CancelSteps, TakeResponse, CancelContext, MuteMixer, AwaitResponse, streamVars, Goto
  <2>3. \A k \in Responses : ctx'[k] = "none" => ctx[k] = "none"
    BY <2>1 DEF CancelSteps, TakeResponse, CancelContext, MuteMixer, AwaitResponse
  <2> QED BY <2>2, <2>3 DEF StreamsAreFresh, NotStarted
<1>4. CASE Callbacks \/ IceBreaking \/ \E t \in Timers : TimerFires(t)
  <2>1. UNCHANGED <<fwd, announced, ctx>>
    BY <1>4 DEF Callbacks, OnSpeechStart, OnInterim, OnSpeechEnd, OnSpeechRecognized, IceBreaking,
                TimerFires, CallbackUnchanged, streamVars
  <2>2. \A q \in Procs : next'[q] # 0 =>
          \/ next'[q] = next[q] /\ (pc[q] = "store" => pc'[q] = "store")
          \/ next'[q] = begun + 1 /\ begun < MaxResponses
    <3>1. CASE OnSpeechStart
      BY <1>4, <3>1, ProcFacts DEF OnSpeechStart, Goto, WithTimerStopped
    <3>2. CASE OnSpeechRecognized
      BY <1>4, <3>2, ProcFacts DEF OnSpeechRecognized, WithTimerStopped
    <3>3. CASE OnSpeechEnd BY <1>4, <3>3, ProcFacts DEF OnSpeechEnd, WithTimerStopped
    <3>4. CASE OnInterim \/ IceBreaking \/ \E t \in Timers : TimerFires(t)
      BY <1>4, <3>4, ProcFacts DEF OnInterim, IceBreaking, TimerFires, Goto
    <3> QED BY <1>4, <3>1, <3>2, <3>3, <3>4 DEF Callbacks
  <2>3. begun < MaxResponses => begun + 1 \in Responses /\ fwd[begun + 1] = "none"
    <3>1. ASSUME begun < MaxResponses PROVE begun + 1 \in Responses /\ ~(begun + 1 <= begun)
      BY <3>1, BoundsAssumption DEF Responses
    <3> QED BY <3>1 DEF Ownership, ContextsAreFresh, StreamsAreFresh
  <2>4. NotStarted' BY <2>1, <2>2, <2>3 DEF NotStarted
  <2> QED BY <2>1, <2>4 DEF StreamsAreFresh
<1>5. CASE \E k \in Responses : ResponseSteps(k)
  <2>1. UNCHANGED <<ctx, next, pc>>
    BY <1>5 DEF ResponseSteps, ForwardSteps, SetInterruptible, BrainReturns, SynthReturns,
                ForwardFrame, ForwardAnnounce, ForwardSend, ForwardEnds, StreamUnchanged, procVars
  <2>2. \A k \in Responses : /\ fwd'[k] = "none" <=> fwd[k] = "none"
                             /\ fwd[k] = "none" => announced'[k] = announced[k]
    BY <1>5 DEF ResponseSteps, ForwardSteps, SetInterruptible, BrainReturns, SynthReturns,
                ForwardFrame, ForwardAnnounce, ForwardSend, ForwardEnds, streamVars
  <2>3. NotStarted' BY <1>1, <2>1, <2>2 DEF NotStarted
  <2> QED BY <2>1, <2>2, <2>3 DEF StreamsAreFresh
<1>6. CASE \/ MixerSteps \/ ConsumerEnds \/ SubscriberReads
           \/ Close \/ CloseSteps \/ DeadlinePasses
  <2>1. /\ UNCHANGED <<ctx, fwd, announced, next>>
        /\ \A q \in Procs : pc[q] = "store" => pc'[q] = "store"
    BY <1>6, ProcFacts
    DEF MixerSteps, MixerIdle, MixerTick, MixerSend, MixerEnds, ConsumerEnds, SubscriberReads,
        MixerUnchanged, Close, CloseSteps, CloseMixer, CloseWaits, DeadlinePasses, procVars,
        streamVars, Goto
  <2> QED BY <2>1 DEF StreamsAreFresh, NotStarted
<1> QED BY <1>2, <1>3, <1>4, <1>5, <1>6 DEF Next

\* While a user is at work, nobody else holds anything.
LEMMA UserAlone ==
  ASSUME TypeOK, Ownership, Bystanders, CreatorsAlternate, NEW p \in Users, pc[p] # "idle"
  PROVE  \A q \in Procs : q # p => /\ pc[q] \in {"idle", "armed"}
                                   /\ gotCancel[q] = 0 /\ gotWg[q] = 0 /\ next[q] = 0
<1>1. \A q \in Procs : q # p => pc[q] \in {"idle", "armed"}
  BY ProcFacts DEF Bystanders, CreatorsAlternate, Users, Procs
<1> QED BY <1>1 DEF Ownership, HoldsWhileCancelling

\* Whoever cancels or creates is a user.
LEMMA OnlyUsers ==
  ASSUME Bystanders, NEW p \in Procs, CancelSteps(p) \/ CreateSteps(p)
  PROVE  p \in Users /\ pc[p] \notin {"idle", "armed"}
<1>1. pc[p] \notin {"idle", "armed"}
  BY DEF CancelSteps, TakeResponse, CancelContext, MuteMixer, AwaitResponse, CreateSteps,
         CreateContext, SendPrompt, Generate, StoreWaitGroup
<1> QED BY <1>1 DEF Bystanders, Users, Procs

\* The steps of a user disturb nothing.
LEMMA UserDisturbsNothing ==
  ASSUME TypeOK, Ownership, CreatorsAlternate, LastIsAwaited, Undisturbed,
         NEW p \in Procs, CancelSteps(p) \/ CreateSteps(p)
  PROVE  Undisturbed'
<1> USE DEF TypeOK, ProcTypeOK, StreamTypeOK
<1>1. Bystanders /\ NothingToTake /\ UserAwaitsLast BY DEF Undisturbed
<1>2. p \in Users /\ pc[p] # "idle" /\ p \notin Timers /\ p # "closer"
  BY <1>1, OnlyUsers, ProcFacts DEF Users
<1>3. \A q \in Procs : q # p => pc[q] \in {"idle", "armed"} /\ gotWg[q] = 0
  BY <1>1, <1>2, UserAlone
<1>4. \A q \in Procs : q # p => pc'[q] = pc[q]
  BY DEF CancelSteps, TakeResponse, CancelContext, MuteMixer, AwaitResponse, CreateSteps,
         CreateContext, SendPrompt, Generate, StoreWaitGroup, Goto
<1>5. UNCHANGED closeErr
  BY <1>2 DEF CancelSteps, TakeResponse, CancelContext, MuteMixer, AwaitResponse, CreateSteps,
              CreateContext, SendPrompt, Generate, StoreWaitGroup, closeVars
<1>6. Bystanders' BY <1>1, <1>2, <1>4, <1>5, ProcFacts DEF Bystanders
<1>7. NothingToTake'
  <2>1. pc'[p] \in {"cancel", "mute"} =>
          cancelResp' = 0 \/ (pc[p] \in {"cancel", "mute"} /\ cancelResp' = cancelResp)
    BY DEF CancelSteps, TakeResponse, CancelContext, MuteMixer, AwaitResponse, CreateSteps,
           CreateContext, SendPrompt, Generate, StoreWaitGroup, Goto, respVars
  <2>2. \A q \in Users : q # p => pc'[q] \in {"idle", "armed"}
    BY <1>3, <1>4, ProcFacts DEF Users
  <2> QED BY <1>1, <1>2, <2>1, <2>2 DEF NothingToTake
<1>8. UserAwaitsLast'
  <2>1. \A q \in Procs : q # p => gotWg'[q] = 0
    BY <1>3 DEF CancelSteps, TakeResponse, CancelContext, MuteMixer, AwaitResponse, CreateSteps,
                CreateContext, SendPrompt, Generate, StoreWaitGroup
  <2>2. gotWg'[p] # 0 => /\ gotWg'[p] \in {gotWg[p], respWg}
                         /\ \A k \in Responses : ctx'[k] # "none" => ctx[k] # "none"
    <3>1. CASE CancelContext(p)
      <4>1. gotCancel[p] # 0 => gotCancel[p] \in Responses /\ ctx[gotCancel[p]] # "none"
        BY BoundsAssumption DEF Ownership, ContextsAreFresh, Responses
      <4> QED BY <3>1, <4>1 DEF CancelContext
    <3>2. CASE CreateContext(p)
      <4>1. gotWg[p] = 0 BY <3>2 DEF CreateContext, Ownership, HoldsWhileCancelling
      <4> QED BY <3>2, <4>1 DEF CreateContext
    <3>3. CASE /\ UNCHANGED ctx
               /\ TakeResponse(p) \/ MuteMixer(p) \/ AwaitResponse(p) \/ SendPrompt(p)
                  \/ Generate(p) \/ StoreWaitGroup(p)
      BY <3>3 DEF TakeResponse, MuteMixer, AwaitResponse, SendPrompt, Generate, StoreWaitGroup
    <3> QED
      BY <3>1, <3>2, <3>3 DEF CancelSteps, CreateSteps, TakeResponse, MuteMixer, AwaitResponse,
                              SendPrompt, Generate, StoreWaitGroup
  <2>3. \A q \in Users : q \in Procs BY ProcFacts DEF Users
  <2>4. \A k \in Responses : gotWg'[p] # 0 /\ ctx'[k] # "none" => k <= gotWg'[p]
    BY <1>1, <1>2, <2>2 DEF UserAwaitsLast, LastIsAwaited
  <2> QED BY <2>1, <2>3, <2>4 DEF UserAwaitsLast
<1> QED BY <1>6, <1>7, <1>8 DEF Undisturbed

\* Nor does any step, unless a timer fires or Close is called.
LEMMA StaysUndisturbed ==
  ASSUME TypeOK, Ownership, CreatorsAlternate, LastIsAwaited, Undisturbed, Next, FiredNext,
         ~fired', ~rClosed'
  PROVE  Undisturbed'
<1> USE DEF TypeOK, ProcTypeOK
<1>1. Bystanders /\ NothingToTake /\ UserAwaitsLast BY DEF Undisturbed
<1>2. CASE \E p \in Procs : CancelSteps(p) \/ CreateSteps(p)
  BY <1>2, UserDisturbsNothing
<1>3. CASE Callbacks \/ IceBreaking \/ \E t \in Timers : TimerFires(t)
  <2>1. UNCHANGED <<cancelResp, gotWg, ctx, closeErr>>
    BY <1>3 DEF Callbacks, OnSpeechStart, OnInterim, OnSpeechEnd, OnSpeechRecognized, IceBreaking,
                TimerFires, CallbackUnchanged, respVars, closeVars
  <2>2. \A q \in Users : pc'[q] = pc[q] \/ pc'[q] = "take"
    BY <1>3, ProcFacts
    DEF Callbacks, OnSpeechStart, OnInterim, OnSpeechEnd, OnSpeechRecognized, IceBreaking,
        TimerFires, Goto, WithTimerStopped, Users
  <2>3. pc'["closer"] = pc["closer"]
    BY <1>3, ProcFacts
    DEF Callbacks, OnSpeechStart, OnInterim, OnSpeechEnd, OnSpeechRecognized, IceBreaking,
        TimerFires, Goto, WithTimerStopped
  <2>4. \A t \in Timers : pc'[t] \in {"idle", "armed"}
    <3>1. \A t \in Timers : pc[t] = "armed" => pc'[t] # "take" BY DEF FiredNext
    <3>2. \A t \in Timers : pc'[t] = pc[t] \/ pc'[t] \in {"idle", "armed"}
                            \/ (pc[t] = "armed" /\ pc'[t] = "take")
      BY <1>3, ProcFacts
      DEF Callbacks, OnSpeechStart, OnInterim, OnSpeechEnd, OnSpeechRecognized, IceBreaking,
          TimerFires, Goto, WithTimerStopped
    <3> QED BY <1>1, <3>1, <3>2 DEF Bystanders
  <2> QED
    BY <1>1, <2>1, <2>2, <2>3, <2>4 DEF Undisturbed, Bystanders, NothingToTake, UserAwaitsLast
<1>4. CASE (\E k \in Responses : ResponseSteps(k)) \/ MixerSteps \/ ConsumerEnds \/ SubscriberReads
  <2>1. UNCHANGED <<pc, cancelResp, gotWg, ctx, closeErr>>
    BY <1>4 DEF ResponseSteps, ForwardSteps, SetInterruptible, BrainReturns, SynthReturns,
                ForwardFrame, ForwardAnnounce, ForwardSend, ForwardEnds, StreamUnchanged,
                MixerSteps, MixerIdle, MixerTick, MixerSend, MixerEnds, ConsumerEnds,
                SubscriberReads, MixerUnchanged, respVars, procVars, closeVars
  <2> QED BY <1>1, <2>1 DEF Undisturbed, Bystanders, NothingToTake, UserAwaitsLast
<1>5. CASE Close \/ CloseSteps \/ DeadlinePasses
  BY <1>1, <1>5 DEF Close, CloseSteps, CloseMixer, CloseWaits, DeadlinePasses, Bystanders
<1> QED BY <1>2, <1>3, <1>4, <1>5 DEF Next

\* As long as one response goes on no later one has begun to be put out.
LEMMA OneForwards ==
  ASSUME TypeOK, Ownership, LastIsAwaited, StreamsAreFresh, Bystanders, UserAwaitsLast,
         NEW j \in Responses, NEW k \in Responses, j < k, fwd[j] \notin {"none", "done"}
  PROVE  fwd[k] = "none"
<1> SUFFICES ASSUME ctx[k] # "none" PROVE FALSE
  BY DEF StreamsAreFresh
<1>1. respWg = j \/ \E p \in Procs : gotWg[p] = j \/ (pc[p] = "store" /\ next[p] = j)
  BY DEF Ownership, GoroutinesAwaited, Finished, Bystanders
<1>2. j # 0 /\ j \in Nat /\ k \in Nat /\ begun \in Nat
  BY BoundsAssumption DEF Responses, TypeOK, ProcTypeOK
<1>3. respWg # j BY <1>2 DEF LastIsAwaited
<1>4. \A p \in Procs : next[p] # j BY <1>2 DEF LastIsAwaited, Ownership, ContextsAreFresh
<1>5. \A p \in Users : gotWg[p] # j BY <1>2 DEF UserAwaitsLast
<1>6. \A p \in Procs : p \notin Users => gotWg[p] = 0
  BY DEF Bystanders, Ownership, HoldsWhileCancelling, Procs, Users
<1> QED BY <1>1, <1>2, <1>3, <1>4, <1>5, <1>6

\* What leaves the commands alone and lets no response speak does not change who is heard.
LEMMA SilentStep ==
  ASSUME SpeakerIsHeard, UNCHANGED <<cmdCh, source>>, mixClosed => mixClosed',
         \A k \in Responses : ctx'[k] = "live" /\ announced'[k] /\ fwd'[k] # "done" =>
                                ctx[k] = "live" /\ announced[k] /\ fwd[k] # "done"
  PROVE  SpeakerIsHeard'
BY DEF SpeakerIsHeard, PendingSource

\* When a user mutes the mixer no response is live: it has taken and cancelled the last one.
LEMMA MutesTheDead ==
  ASSUME TypeOK, Ownership, CreatorsAlternate, Undisturbed, NEW p \in Users, pc[p] = "mute",
         NEW k \in Responses
  PROVE  ctx[k] # "live"
<1>1. cancelResp = 0 BY DEF Undisturbed, NothingToTake
<1>2. \A q \in Procs : q # p => gotCancel[q] = 0 BY UserAlone DEF Undisturbed
<1>3. gotCancel[p] = 0 BY ProcFacts DEF Ownership, HoldsWhileCancelling, Users
<1> QED BY <1>1, <1>2, <1>3, NotNil DEF Ownership, NoOrphanedResponse

\* Every step leaves the speaker heard, unless a timer has fired or Close was called.
LEMMA StaysHeard ==
  ASSUME TypeOK, TypeOK', Ownership, CreatorsAlternate, LastIsAwaited, StreamsAreFresh, NotStarted,
         Undisturbed, SpeakerIsHeard, Next
  PROVE  SpeakerIsHeard'
<1> USE DEF TypeOK, StreamTypeOK, ProcTypeOK
<1>1. CASE \E p \in Procs : CancelSteps(p)
  <2>1. PICK p \in Procs : CancelSteps(p) BY <1>1
  <2>2. CASE MuteMixer(p)
    <3>1. p \in Users BY <2>1, OnlyUsers DEF Undisturbed
    <3>2. \A k \in Responses : ctx[k] # "live" BY <2>2, <3>1, MutesTheDead DEF MuteMixer
    <3> QED BY <2>2, <3>2 DEF MuteMixer, SpeakerIsHeard
  <2>3. CASE TakeResponse(p) \/ CancelContext(p) \/ AwaitResponse(p)
    <3>1. UNCHANGED <<cmdCh, source, mixClosed, announced, fwd>>
      BY <2>3 DEF TakeResponse, CancelContext, AwaitResponse, streamVars, mixVars
    <3>2. \A k \in Responses : ctx'[k] = "live" => ctx[k] = "live"
      BY <2>3 DEF TakeResponse, CancelContext, AwaitResponse
    <3> QED BY <3>1, <3>2, SilentStep
  <2> QED BY <2>1, <2>2, <2>3 DEF CancelSteps
<1>2. CASE \E p \in Procs : CreateSteps(p)
  <2>1. PICK p \in Procs : CreateSteps(p) BY <1>2
  <2>2. next[p] # 0 /\ next[p] \in Responses
    BY <2>1, BoundsAssumption
    DEF CreateSteps, CreateContext, SendPrompt, Generate, StoreWaitGroup, CreationOK, Responses
  <2>3. UNCHANGED <<cmdCh, source, mixClosed, announced>>
    BY <2>1 DEF CreateSteps, CreateContext, SendPrompt, Generate, StoreWaitGroup, mixVars,
                streamVars
  <2>4. pc[p] # "store" => ~announced[next[p]]
    BY <2>2 DEF StreamsAreFresh, NotStarted
  <2>5. \A k \in Responses : \/ ctx'[k] = ctx[k] /\ fwd'[k] = fwd[k]
                             \/ k = next[p] /\ pc[p] # "store"
    BY <2>1 DEF CreateSteps, CreateContext, SendPrompt, Generate, StoreWaitGroup, streamVars
  <2> QED BY <2>3, <2>4, <2>5, SilentStep
<1>3. CASE Callbacks \/ IceBreaking \/ \E t \in Timers : TimerFires(t)
  <2>1. UNCHANGED <<cmdCh, source, mixClosed, announced, fwd, ctx>>
    BY <1>3 DEF Callbacks, OnSpeechStart, OnInterim, OnSpeechEnd, OnSpeechRecognized, IceBreaking,
                TimerFires, CallbackUnchanged, streamVars, mixVars
  <2> QED BY <2>1, SilentStep
<1>4. CASE \E j \in Responses : ResponseSteps(j)
  <2>1. PICK j \in Responses : ResponseSteps(j) BY <1>4
  <2>2. CASE ForwardAnnounce(j)
    <3>1. /\ fwd[j] = "announce" /\ UNCHANGED <<ctx, source, mixClosed>>
          /\ \A k \in Responses : k # j => fwd'[k] = fwd[k] /\ announced'[k] = announced[k]
          /\ SetSpeechSource(j)
      BY <2>2 DEF ForwardAnnounce, StreamUnchanged, mixVars
    <3>2. ASSUME NEW k \in Responses, k # j, announced[k], fwd[k] # "done" PROVE FALSE
      <4>1. fwd[k] \notin {"none", "done"} BY <3>2 DEF StreamsAreFresh
      <4>2. j < k \/ k < j BY <3>2, BoundsAssumption DEF Responses
      <4> QED BY <3>1, <4>1, <4>2, OneForwards DEF Undisturbed
    <3>3. ~mixClosed => PendingSource' = j
      <4>1. cmdCh \in Seq(0 .. MaxResponses) BY DEF MixerTypeOK
      <4>2. j \in 0 .. MaxResponses BY BoundsAssumption DEF Responses
      <4>3. ASSUME cmdCh' = Append(cmdCh, j) PROVE cmdCh' # <<>> /\ cmdCh'[Len(cmdCh')] = j
        BY <4>1, <4>2, <4>3, LastFacts
      <4> QED BY <3>1, <4>3 DEF SetSpeechSource, PendingSource
    <3> QED BY <3>1, <3>2, <3>3 DEF SpeakerIsHeard
  <2>3. CASE SetInterruptible(j) \/ BrainReturns(j) \/ SynthReturns(j) \/ ForwardFrame(j)
             \/ ForwardSend(j) \/ ForwardEnds(j)
    <3>1. UNCHANGED <<cmdCh, source, mixClosed, announced, ctx>>
      BY <2>3 DEF SetInterruptible, BrainReturns, SynthReturns, ForwardFrame, ForwardSend,
                  ForwardEnds, StreamUnchanged, streamVars, mixVars
    <3>2. \A k \in Responses : fwd'[k] # "done" => fwd[k] # "done"
      BY <2>3 DEF SetInterruptible, BrainReturns, SynthReturns, ForwardFrame, ForwardSend,
                  ForwardEnds, streamVars
    <3> QED BY <3>1, <3>2, SilentStep
  <2> QED BY <2>1, <2>2, <2>3 DEF ResponseSteps, ForwardSteps
<1>5. CASE MixerIdle \/ MixerTick
  <2>1. UNCHANGED <<ctx, announced, fwd, mixClosed>>
    BY <1>5 DEF MixerIdle, MixerTick, MixerUnchanged
  <2>2. cmdCh \in Seq(0 .. MaxResponses) BY DEF MixerTypeOK
  <2>3. cmdCh # <<>> => PendingSource' = PendingSource
    <3> SUFFICES ASSUME cmdCh # <<>> PROVE PendingSource' = PendingSource
      OBVIOUS
    <3>1. CASE MixerTick BY <3>1 DEF MixerTick, PendingSource
    <3>2. CASE MixerIdle
      <4>1. source' = Head(cmdCh) /\ cmdCh' = Tail(cmdCh) BY <3>2 DEF MixerIdle
      <4>2. CASE Len(cmdCh) = 1
        <5>1. Tail(cmdCh) = <<>> /\ Head(cmdCh) = cmdCh[Len(cmdCh)]
          BY <2>2, <4>2, LastFacts, source \in 0 .. MaxResponses DEF MixerTypeOK
        <5> QED BY <4>1, <5>1 DEF PendingSource
      <4>3. CASE Len(cmdCh) # 1
        <5>1. Tail(cmdCh) # <<>> /\ Tail(cmdCh)[Len(Tail(cmdCh))] = cmdCh[Len(cmdCh)]
          BY <2>2, <4>3, LastFacts, source \in 0 .. MaxResponses DEF MixerTypeOK
        <5> QED BY <4>1, <5>1 DEF PendingSource
      <4> QED BY <4>2, <4>3
    <3> QED BY <1>5, <3>1, <3>2
  <2>4. cmdCh = <<>> => \/ PendingSource' = PendingSource
                        \/ source # 0 /\ fwd[source] = "done"
    BY <1>5 DEF MixerIdle, MixerTick, PendingSource
  <2>5. CASE PendingSource' = PendingSource BY <2>1, <2>5 DEF SpeakerIsHeard
  <2>6. CASE cmdCh = <<>> /\ fwd[source] = "done"
    BY <2>1, <2>6 DEF SpeakerIsHeard, PendingSource
  <2> QED BY <2>3, <2>4, <2>5, <2>6
<1>6. CASE \/ MixerSend \/ MixerEnds \/ ConsumerEnds \/ SubscriberReads
           \/ Close \/ CloseSteps \/ DeadlinePasses
  <2>1. UNCHANGED <<cmdCh, source, announced, fwd, ctx>> /\ (mixClosed => mixClosed')
    BY <1>6 DEF MixerSend, MixerEnds, ConsumerEnds, SubscriberReads, MixerUnchanged, Close,
                CloseSteps, CloseMixer, CloseWaits, DeadlinePasses, streamVars, mixVars
  <2> QED BY <2>1, SilentStep
<1> QED BY <1>1, <1>2, <1>3, <1>4, <1>5, <1>6 DEF Next, MixerSteps

\* What has fired, or was closed, stays so.
LEMMA Disturbed == TypeOK /\ Next /\ FiredNext => (fired => fired') /\ (rClosed => rClosed')
<1> SUFFICES ASSUME TypeOK, Next, FiredNext PROVE (fired => fired') /\ (rClosed => rClosed')
  OBVIOUS
<1>1. rClosed => rClosed'
  BY DEF Next, CancelSteps, TakeResponse, CancelContext, MuteMixer, AwaitResponse, CreateSteps,
         CreateContext, SendPrompt, Generate, StoreWaitGroup, Callbacks, OnSpeechStart, OnInterim,
         OnSpeechEnd, OnSpeechRecognized, IceBreaking, TimerFires, CallbackUnchanged,
         ResponseSteps, ForwardSteps, SetInterruptible, BrainReturns, SynthReturns, ForwardFrame,
         ForwardAnnounce, ForwardSend, ForwardEnds, StreamUnchanged, MixerSteps, MixerIdle,
         MixerTick, MixerSend, MixerEnds, ConsumerEnds, SubscriberReads, MixerUnchanged, Close,
         CloseSteps, CloseMixer, CloseWaits, DeadlinePasses, respVars
<1>2. fired => fired' BY Zenon DEF FiredNext
<1> QED BY <1>1, <1>2

\* The ownership of responses and who is heard, step by step.
LEMMA NextHeard ==
  ASSUME TypeOK, TypeOK', Ownership, HeardInv, CreatorsAlternate',
         [AlternateNext]_<<vars, history>>
  PROVE  Ownership' /\ HeardInv'
<1> USE DEF HeardInv
<1>1. TakeTurns /\ TakeTurns'
  <2>1. TakeTurns BY WhoTakesTurns
  <2>2. TakeTurns' BY CreatorsAssumption DEF CreatorsAlternate, TakeTurns
  <2> QED BY <2>1, <2>2
<1>2. CASE Next /\ FiredNext
  <2>1. Ownership' /\ LastIsAwaited' BY <1>1, <1>2, NextOwns, NextLast
  <2>2. StreamsAreFresh' /\ NotStarted' BY <1>1, <1>2, StreamsStayFresh
  <2>3. fired' \/ rClosed' \/ (Undisturbed' /\ SpeakerIsHeard')
    BY <1>2, Disturbed, StaysUndisturbed, StaysHeard
  <2> QED BY <2>1, <2>2, <2>3
<1>3. CASE UNCHANGED <<vars, history>>
  <2>1. UNCHANGED vars /\ UNCHANGED fired BY <1>3 DEF history
  <2>2. Ownership' BY <2>1, UnchangedOwns
  <2>3. LastIsAwaited' BY <1>1, <2>1, NextLast
  <2>4. UNCHANGED <<ctx, fwd, announced, next, pc, gotWg, cancelResp, closeErr, rClosed, cmdCh,
                    source, mixClosed>>
    BY <2>1 DEF vars, respVars, procVars, closeVars, streamVars, mixVars
  <2>5. StreamsAreFresh' /\ NotStarted' BY <2>4 DEF StreamsAreFresh, NotStarted
  <2>6. Undisturbed => Undisturbed'
    BY <2>4 DEF Undisturbed, Bystanders, NothingToTake, UserAwaitsLast
  <2>7. SpeakerIsHeard => SpeakerIsHeard' BY <2>4 DEF SpeakerIsHeard, PendingSource
  <2> QED BY <2>1, <2>2, <2>3, <2>4, <2>5, <2>6, <2>7
<1> QED BY <1>2, <1>3 DEF AlternateNext, HistoryNext

\* If IceBreaking and Respond do not race, the channels keep within their capacities.
LEMMA AlternateTypes == AlternateSpec => []TypeOK
<1>1. TypeOK /\ [AlternateNext]_<<vars, history>> => TypeOK'
  <2> SUFFICES ASSUME TypeOK, [Next]_vars PROVE TypeOK'
    BY DEF AlternateNext, vars
  <2> QED
    BY UnchangedTypes, CancelTypes, CreateTypes, CallbackTypes, ResponseTypes, MixerTypes,
       CloseTypes DEF Next
<1> QED BY <1>1, InitTypes, PTL DEF AlternateSpec

\* The inductive invariant, if they do not race.
LEMMA AlternateInv == AlternateSpec => [](Ownership /\ HeardInv)
<1>1. Init => CreatorsAlternate /\ Ownership /\ HeardInv
  BY InitOwns, InitHeard DEF HeardInv
<1>2. TypeOK /\ TypeOK' /\ Ownership /\ HeardInv /\ [AlternateNext]_<<vars, history>>
        => Ownership' /\ HeardInv'
  <2> SUFFICES ASSUME TypeOK, TypeOK', Ownership, HeardInv, [AlternateNext]_<<vars, history>>
               PROVE  Ownership' /\ HeardInv'
    OBVIOUS
  <2>1. CreatorsAlternate'
    <3>1. CASE UNCHANGED <<vars, history>>
      <4>1. pc' = pc BY <3>1 DEF vars, procVars
      <4> QED BY <4>1 DEF HeardInv, CreatorsAlternate
    <3> QED BY <3>1 DEF AlternateNext
  <2> QED BY <2>1, NextHeard
<1> QED BY <1>1, <1>2, AlternateTypes, PTL DEF AlternateSpec

\* If the handler and IceBreaking do not race, they orphan no response and overwrite no
\* field of the responder, although both create responses and timers and Close take them.
THEOREM AlternateOwns == AlternateSpec => []Ownership
BY AlternateInv, PTL

\* If they do not race, two responses are not under way at once, except for those that a
\* timer or Close has taken.
THEOREM AlternateSpeaks == AlternateSpec => []OneAtATime
<1>1. TypeOK /\ Ownership /\ HeardInv => OneAtATime BY LastSpeaks DEF HeardInv
<1> QED BY <1>1, AlternateTypes, AlternateInv, PTL

\* If they do not race, then until a timer fires or Close is called what the mixer plays,
\* once it has read its commands, is the response that speaks: no late command of a
\* cancellation, and no late announcement, replaces it.
THEOREM SpeakerHeard == AlternateSpec => []HeardUnlessFired
<1>1. HeardInv => HeardUnlessFired BY DEF HeardInv, HeardUnlessFired
<1> QED BY <1>1, AlternateInv, PTL
=============================================================================
