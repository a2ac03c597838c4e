-------------------------- MODULE RecognizerProofs --------------------------
(***************************************************************************)
(* Proofs about Recognizer for every capacity, bound and flag.             *)
(***************************************************************************)
EXTENDS Recognizer, SequenceTheorems, TLAPS

\* The events built by the environment are events, and a final one is found again.
LEMMA EventTyping ==
  /\ Event("start", 0) \in Events /\ Event("end", 0) \in Events
  /\ Event("interim", 0) \in Events
  /\ \A n \in Nat : Final(n) \in Events /\ IsFinal(Final(n)) /\ Final(n).id = n
BY DEF Event, Events, Final, IsFinal

\* A step keeps the types of the variables it leaves alone.
LEMMA UnchangedTypes ==
  /\ EnvTypeOK /\ UNCHANGED envVars => EnvTypeOK'
  /\ PumpTypeOK /\ UNCHANGED <<phase, pumpVars>> => PumpTypeOK'
  /\ LoopTypeOK /\ UNCHANGED loopVars => LoopTypeOK'
  /\ ControlTypeOK /\ UNCHANGED <<phase, grpVars, stopVars>> => ControlTypeOK'
<1>1. EnvTypeOK /\ UNCHANGED envVars => EnvTypeOK'
  BY DEF EnvTypeOK, envVars
<1>2. PumpTypeOK /\ UNCHANGED <<phase, pumpVars>> => PumpTypeOK'
  BY DEF PumpTypeOK, pumpVars
<1>3. LoopTypeOK /\ UNCHANGED loopVars => LoopTypeOK'
  BY DEF LoopTypeOK, loopVars
<1>4. ControlTypeOK /\ UNCHANGED <<phase, grpVars, stopVars>> => ControlTypeOK'
  BY DEF ControlTypeOK, grpVars, stopVars
<1> QED
  BY <1>1, <1>2, <1>3, <1>4

\* The initial state has empty channels and no goroutine.
LEMMA InitTypes == Init => TypeOK
<1> SUFFICES ASSUME Init PROVE TypeOK
  OBVIOUS
<1>1. EnvTypeOK
  <2>1. vadOpen \in BOOLEAN /\ sttOpen \in BOOLEAN
        /\ vadSpeaking \in BOOLEAN /\ midUtterance \in BOOLEAN
    BY FlagsAssumption, Zenon DEF Init
  <2>2. turns \in Nat /\ produced \in Nat /\ interims \in Nat
    BY DEF Init
  <2>3. /\ vadCh \in Seq(Events) /\ Len(vadCh) <= ChanCap
        /\ sttCh \in Seq(Events) /\ Len(sttCh) <= ChanCap
    BY CapacityAssumption, EmptySeq DEF Init
  <2> QED
    BY <2>1, <2>2, <2>3 DEF EnvTypeOK
<1>2. PumpTypeOK
  BY DEF Init, PumpTypeOK
<1>3. LoopTypeOK
  BY EmptySeq DEF Init, LoopTypeOK
<1>4. ControlTypeOK
  <2>1. errCh \in Seq(Errors \cup {"nil"}) /\ Len(errCh) <= 1
    BY EmptySeq DEF Init
  <2>2. /\ phase \in {"new", "running", "vadFailed", "transcriberFailed"}
        /\ grpErr \in Errors \cup {"nil"} /\ stop \in {"idle", "vad", "stt", "wait", "done"}
        /\ stopErrs \in SUBSET Errors
    BY DEF Init
  <2>3. cancelled \in BOOLEAN
    BY Zenon DEF Init
  <2> QED
    BY <2>1, <2>2, <2>3 DEF ControlTypeOK
<1>5. bufferCh \in Seq(Events) /\ Len(bufferCh) <= BufferSize
  BY CapacityAssumption DEF Init
<1> QED
  BY <1>1, <1>2, <1>3, <1>4, <1>5 DEF TypeOK

\* Start makes the goroutines or leaves the state of a failed start.
LEMMA StartTypes == TypeOK /\ Start => TypeOK'
<1> SUFFICES ASSUME TypeOK, Start PROVE TypeOK'
  OBVIOUS
<1> USE DEF TypeOK, Start
<1>1. EnvTypeOK' /\ (bufferCh \in Seq(Events) /\ Len(bufferCh) <= BufferSize)'
  BY UnchangedTypes
<1>2. PumpTypeOK'
  BY DEF PumpTypeOK
<1>3. LoopTypeOK'
  <2>1. (isSpeaking \in BOOLEAN /\ isTranscribing \in BOOLEAN)'
    BY Zenon DEF LoopTypeOK
  <2> QED
    BY <2>1 DEF LoopTypeOK
<1>4. ControlTypeOK'
  <2>1. cancelled' \in BOOLEAN
    BY Zenon DEF ControlTypeOK, grpVars
  <2> QED
    BY <2>1 DEF ControlTypeOK, grpVars, stopVars
<1> QED
  BY <1>1, <1>2, <1>3, <1>4

\* The VAD and the transcriber send events, within the capacity of their channels.
LEMMA EnvironmentTypes == TypeOK /\ Environment => TypeOK'
<1> SUFFICES ASSUME TypeOK, Environment PROVE TypeOK'
  OBVIOUS
<1>1. /\ PumpTypeOK' /\ LoopTypeOK' /\ ControlTypeOK'
      /\ (bufferCh \in Seq(Events) /\ Len(bufferCh) <= BufferSize)'
  BY UnchangedTypes, Zenon DEF TypeOK, Environment, VADEmit, STTInterim, STTFinal, VADFails,
     STTFails, EnvUnchanged
<1>2. (vadOpen \in BOOLEAN /\ sttOpen \in BOOLEAN
       /\ vadSpeaking \in BOOLEAN /\ midUtterance \in BOOLEAN)'
  BY Zenon DEF TypeOK, EnvTypeOK, Environment, VADEmit, STTInterim, STTFinal, VADFails, STTFails
<1>3. (turns \in Nat /\ produced \in Nat /\ interims \in Nat)'
  BY DEF TypeOK, EnvTypeOK, Environment, VADEmit, STTInterim, STTFinal, VADFails, STTFails
<1>4. (/\ vadCh \in Seq(Events) /\ Len(vadCh) <= ChanCap
       /\ sttCh \in Seq(Events) /\ Len(sttCh) <= ChanCap)'
  <2> USE CapacityAssumption, EventTyping, AppendProperties DEF TypeOK, EnvTypeOK
  <2>1. CASE VADEmit
    BY <2>1 DEF VADEmit
  <2>2. CASE STTInterim
    BY <2>2 DEF STTInterim
  <2>3. CASE STTFinal
    BY <2>3 DEF STTFinal
  <2>4. CASE VADFails \/ STTFails
    BY <2>4 DEF VADFails, STTFails
  <2> QED
    BY <2>1, <2>2, <2>3, <2>4 DEF Environment
<1> QED
  BY <1>1, <1>2, <1>3, <1>4 DEF TypeOK, EnvTypeOK

\* The pump takes one event at a time, and sends it only when the buffer has room.
LEMMA PumpTypes == TypeOK /\ Pump => TypeOK'
<1> SUFFICES ASSUME TypeOK, Pump PROVE TypeOK'
  OBVIOUS
<1> USE CapacityAssumption DEF TypeOK
<1>1. LoopTypeOK'
  BY UnchangedTypes, Zenon DEF Pump, PumpVAD, PumpSTT, PumpSend, PumpClosed, PumpCtxDone
<1>2. CASE PumpVAD \/ PumpSTT
  <2>1. /\ vadCh # <<>> => Head(vadCh) \in Events /\ Tail(vadCh) \in Seq(Events)
                            /\ Len(Tail(vadCh)) <= ChanCap
        /\ sttCh # <<>> => Head(sttCh) \in Events /\ Tail(sttCh) \in Seq(Events)
                            /\ Len(Tail(sttCh)) <= ChanCap
    BY DEF EnvTypeOK
  <2>2. \A e \in Events : <<e>> \in Seq(Events) /\ Len(<<e>>) = 1 /\ <<e>> # << >>
    OBVIOUS
  <2>3. (vadOpen \in BOOLEAN /\ sttOpen \in BOOLEAN
         /\ vadSpeaking \in BOOLEAN /\ midUtterance \in BOOLEAN)'
    BY <1>2, Zenon DEF EnvTypeOK, PumpVAD, PumpSTT
  <2>4. EnvTypeOK'
    BY <1>2, <2>1, <2>3 DEF EnvTypeOK, PumpVAD, PumpSTT
  <2>5. PumpTypeOK'
    <3>1. held' \in Seq(Events) /\ Len(held') = 1 /\ held' # <<>>
      BY <1>2, <2>1, <2>2, Zenon DEF PumpVAD, PumpSTT
    <3>2. pump' = "send" /\ phase' # "new"
      BY <1>2 DEF PumpVAD, PumpSTT, PumpTypeOK
    <3> QED
      BY <3>1, <3>2 DEF PumpTypeOK
  <2>6. ControlTypeOK' /\ (bufferCh \in Seq(Events) /\ Len(bufferCh) <= BufferSize)'
    BY <1>2, UnchangedTypes, Zenon DEF PumpVAD, PumpSTT
  <2> QED
    BY <1>1, <2>4, <2>5, <2>6
<1>3. CASE PumpSend
  <2>1. EnvTypeOK' /\ ControlTypeOK'
    BY <1>3, UnchangedTypes, Zenon DEF PumpSend
  <2>2. PumpTypeOK' /\ (bufferCh \in Seq(Events) /\ Len(bufferCh) <= BufferSize)'
    BY <1>3 DEF PumpSend, PumpTypeOK
  <2> QED
    BY <1>1, <2>1, <2>2
<1>4. CASE PumpClosed \/ PumpCtxDone
  <2>1. EnvTypeOK' /\ (bufferCh \in Seq(Events) /\ Len(bufferCh) <= BufferSize)'
    BY <1>4, UnchangedTypes, Zenon DEF PumpClosed, PumpCtxDone
  <2>2. PumpTypeOK'
    BY <1>4 DEF PumpClosed, PumpCtxDone, PumpTypeOK
  <2>3. cancelled' \in BOOLEAN
    BY <1>4, Zenon DEF PumpClosed, PumpCtxDone, ControlTypeOK, grpVars
  <2>4. grpErr' \in Errors \cup {"nil"}
    BY <1>4 DEF PumpClosed, PumpCtxDone, ReturnError, Errors, ControlTypeOK, grpVars
  <2>5. ControlTypeOK'
    BY <1>4, <2>3, <2>4 DEF PumpClosed, PumpCtxDone, ControlTypeOK, grpVars, stopVars
  <2> QED
    BY <1>1, <2>1, <2>2, <2>5
<1> QED
  BY <1>2, <1>3, <1>4 DEF Pump

\* The event loop keeps and hands over positions of transcripts.
LEMMA LoopTypes == TypeOK /\ Loop => TypeOK'
<1> SUFFICES ASSUME TypeOK, Loop PROVE TypeOK'
  OBVIOUS
<1> USE DEF TypeOK
<1>1. EnvTypeOK' /\ PumpTypeOK' /\ ControlTypeOK'
    BY UnchangedTypes, Zenon
    DEF Loop, HandleStart, HandleEnd, HandleInterim, HandleFinal, Receiving,
     CallbackReturns, LoopCtxDone
<1>2. (bufferCh \in Seq(Events) /\ Len(bufferCh) <= BufferSize)'
  <2>1. bufferCh # <<>> => Tail(bufferCh) \in Seq(Events) /\ Len(Tail(bufferCh)) <= BufferSize
    BY CapacityAssumption
  <2> QED
    BY <2>1 DEF Loop, HandleStart, HandleEnd, HandleInterim, HandleFinal, Receiving,
       CallbackReturns, LoopCtxDone
<1>3. (isSpeaking \in BOOLEAN /\ isTranscribing \in BOOLEAN)'
  BY Zenon DEF Loop, HandleStart, HandleEnd, HandleInterim, HandleFinal, CallbackReturns,
     LoopCtxDone, LoopTypeOK
<1>4. loop' \in {"off", "receive", "done"}
  BY DEF Loop, HandleStart, HandleEnd, HandleInterim, HandleFinal, Receiving, CallbackReturns,
     LoopCtxDone, LoopTypeOK
<1>5. calling' \in Seq(Callbacks)
  <2>1. calling # <<>> => Tail(calling) \in Seq(Callbacks)
    BY DEF LoopTypeOK
  <2>2. /\ calling \in Seq(Callbacks)
        /\ << >> \in Seq(Callbacks) /\ <<"OnSpeechStart">> \in Seq(Callbacks)
        /\ <<"OnInterim">> \in Seq(Callbacks) /\ <<"OnSpeechEnd">> \in Seq(Callbacks)
        /\ <<"OnSpeechEnd", "OnSpeechRecognized">> \in Seq(Callbacks)
    BY DEF LoopTypeOK, Callbacks
  <2> QED
    BY <2>1, <2>2, Zenon DEF Loop, HandleStart, HandleEnd, HandleInterim, HandleFinal,
       CallbackReturns, LoopCtxDone
<1>6. (transcripts \in Seq(Nat) /\ delivered \in Seq(Nat))'
  <2>1. CASE HandleFinal
    <3>1. Head(bufferCh).id \in Nat
      <4>1. Head(bufferCh) \in Events
        BY <2>1 DEF HandleFinal, Receiving
      <4> QED
        BY <4>1 DEF Events
    <3>2. Append(transcripts, Head(bufferCh).id) \in Seq(Nat)
      BY <3>1 DEF LoopTypeOK
    <3> QED
      BY <2>1, <3>2 DEF HandleFinal, Receiving, LoopTypeOK
  <2>2. CASE HandleStart \/ HandleEnd \/ HandleInterim \/ LoopCtxDone
    BY <2>2 DEF HandleStart, HandleEnd, HandleInterim, Receiving, LoopCtxDone, LoopTypeOK
  <2>3. CASE CallbackReturns
    <3>1. /\ delivered \o transcripts \in Seq(Nat) /\ << >> \in Seq(Nat)
          /\ delivered \in Seq(Nat) /\ transcripts \in Seq(Nat)
      BY DEF LoopTypeOK
    <3> QED
      BY <2>3, <3>1, Zenon DEF CallbackReturns
  <2> QED
    BY <2>1, <2>2, <2>3 DEF Loop
<1> QED
  BY <1>1, <1>2, <1>3, <1>4, <1>5, <1>6 DEF LoopTypeOK

\* Stop and the report of the group's end.
LEMMA StopTypes == TypeOK /\ (Stop \/ ReportEnd) => TypeOK'
<1> SUFFICES ASSUME TypeOK, Stop \/ ReportEnd PROVE TypeOK'
  OBVIOUS
<1> USE DEF TypeOK, Stop, StopCancel, StopVAD, StopSTT, StopWaited, StopTimeout, StopUnchanged,
     ReportEnd
<1>1. /\ PumpTypeOK' /\ LoopTypeOK'
      /\ (bufferCh \in Seq(Events) /\ Len(bufferCh) <= BufferSize)'
  BY UnchangedTypes, Zenon
<1>2. EnvTypeOK'
  <2>1. (vadOpen \in BOOLEAN /\ sttOpen \in BOOLEAN
         /\ vadSpeaking \in BOOLEAN /\ midUtterance \in BOOLEAN)'
    BY Zenon DEF EnvTypeOK, envVars
  <2> QED
    BY <2>1 DEF EnvTypeOK, envVars
<1>3. ControlTypeOK'
  <2>1. cancelled' \in BOOLEAN
    BY Zenon DEF ControlTypeOK
  <2>2. errCh' \in Seq(Errors \cup {"nil"}) /\ Len(errCh') <= 1
    <3>1. <<grpErr>> \in Seq(Errors \cup {"nil"}) /\ Len(<<grpErr>>) <= 1
      BY DEF ControlTypeOK
    <3>2. errCh' = errCh \/ errCh' = <<grpErr>>
      BY Zenon DEF grpVars
    <3>3. errCh \in Seq(Errors \cup {"nil"}) /\ Len(errCh) <= 1
      BY DEF ControlTypeOK
    <3> QED
      BY <3>1, <3>2, <3>3, Zenon
  <2>3. (phase \in {"new", "running", "vadFailed", "transcriberFailed"}
         /\ grpErr \in Errors \cup {"nil"})'
    BY DEF ControlTypeOK
  <2>4. (stop \in {"idle", "vad", "stt", "wait", "done"} /\ stopErrs \in SUBSET Errors)'
    BY DEF ControlTypeOK, Errors, stopVars
  <2> QED
    BY <2>1, <2>2, <2>3, <2>4 DEF ControlTypeOK
<1> QED
  BY <1>1, <1>2, <1>3

\* Type correctness: the channels never exceed their capacities, the pump holds at
\* most one event, and control states and errors stay in their ranges.
THEOREM TypeCorrect == Spec => []TypeOK
<1>1. TypeOK /\ [Next]_vars => TypeOK'
  <2> SUFFICES ASSUME TypeOK, [Next]_vars PROVE TypeOK'
    OBVIOUS
  <2>1. CASE UNCHANGED vars \/ Terminated
    BY <2>1, UnchangedTypes, Zenon DEF TypeOK, Terminated, vars
  <2> QED
    BY <2>1, StartTypes, EnvironmentTypes, PumpTypes, LoopTypes, StopTypes DEF Next
<1> QED
  BY <1>1, InitTypes, PTL DEF Spec
(***************************************************************************)
(* No transcript is left behind                                            *)
(***************************************************************************)
\* No step of the system strands the kept transcripts: the strengthening of
\* NoStrandedTranscripts is inductive.
LEMMA ReleasePendingStep ==
  TypeOK /\ ReleasePending /\ [Next]_vars => ReleasePending'
<1> SUFFICES ASSUME TypeOK, ReleasePending, [Next]_vars PROVE ReleasePending'
  OBVIOUS
<1>1. CASE UNCHANGED <<isSpeaking, isTranscribing, transcripts, calling>>
  BY <1>1, Zenon DEF ReleasePending
<1>2. CASE HandleStart \/ HandleInterim
  BY <1>2, Zenon DEF ReleasePending, HandleStart, HandleInterim
<1>3. CASE HandleEnd
  <2>1. CASE transcripts = <<>> \/ isTranscribing
    BY <1>3, <2>1, Zenon DEF ReleasePending, HandleEnd
  <2>2. CASE transcripts # <<>> /\ ~isTranscribing
    <3>1. calling' = <<"OnSpeechEnd", "OnSpeechRecognized">>
      BY <1>3, <2>2 DEF HandleEnd
    <3> QED
      BY <3>1 DEF ReleasePending
  <2> QED
    BY <2>1, <2>2
<1>4. CASE HandleFinal
  <2>1. CASE isSpeaking
    BY <1>4, <2>1, Zenon DEF ReleasePending, HandleFinal
  <2>2. CASE ~isSpeaking
    <3>1. calling' = <<"OnSpeechEnd", "OnSpeechRecognized">>
      BY <1>4, <2>2, Zenon DEF HandleFinal
    <3> QED
      BY <3>1 DEF ReleasePending
  <2> QED
    BY <2>1, <2>2
<1>5. CASE CallbackReturns
  <2>1. CASE Head(calling) = "OnSpeechRecognized"
    BY <1>5, <2>1, Zenon DEF ReleasePending, CallbackReturns
  <2>2. CASE Head(calling) # "OnSpeechRecognized"
    <3>1. UNCHANGED <<isSpeaking, isTranscribing, transcripts>> /\ calling' = Tail(calling)
      BY <1>5, <2>2, Zenon DEF CallbackReturns
    <3>2. calling \in Seq(Callbacks) /\ calling # <<>>
      BY <1>5 DEF TypeOK, LoopTypeOK, CallbackReturns
    <3>3. ASSUME calling[Len(calling)] = "OnSpeechRecognized"
          PROVE  Tail(calling) # <<>> /\ Tail(calling)[Len(Tail(calling))] = "OnSpeechRecognized"
      <4>1. Len(calling) \in Nat \ {0} /\ Len(Tail(calling)) = Len(calling) - 1
            /\ Head(calling) = calling[1]
            /\ \A i \in 1 .. Len(calling) - 1 : Tail(calling)[i] = calling[i + 1]
        BY <3>2, HeadTailProperties
      <4>2. Len(calling) # 1
        BY <2>2, <3>3, <4>1
      <4>3. Len(Tail(calling)) \in 1 .. Len(calling) - 1
        BY <4>1, <4>2
      <4> QED
        BY <3>3, <4>1, <4>3
    <3> QED
      BY <3>1, <3>3, Zenon DEF ReleasePending
  <2> QED
    BY <2>1, <2>2
<1> QED
  BY <1>1, <1>2, <1>3, <1>4, <1>5, Zenon DEF Next, Start, Environment, VADEmit, STTInterim,
     STTFinal, VADFails, STTFails, EnvUnchanged, Pump, PumpVAD, PumpSTT, PumpSend, PumpClosed,
     PumpCtxDone, Loop, LoopCtxDone, ReportEnd, Stop, StopCancel, StopVAD, StopSTT, StopWaited,
     StopTimeout, StopUnchanged, Terminated, vars, loopVars

\* Between two events the loop keeps no transcript of a turn that is over: whichever
\* of the end of speech and the last final transcript comes second releases the batch.
THEOREM NothingStranded == Spec => []NoStrandedTranscripts
<1>1. Init => ReleasePending
  BY Zenon DEF Init, ReleasePending
<1>2. ReleasePending => NoStrandedTranscripts
  BY Zenon DEF ReleasePending, NoStrandedTranscripts
<1> QED
  BY <1>1, <1>2, ReleasePendingStep, TypeCorrect, PTL DEF Spec

(***************************************************************************)
(* Stop waits for the callbacks                                            *)
(***************************************************************************)
\* When Stop has returned without its deadline, both goroutines have returned and no
\* callback is running: what the callbacks use can be released.
THEOREM NoCallbackAfterStop == Spec => []QuietAfterStop
<1>1. Init => StopWaitsForGroup
  BY DEF Init, StopWaitsForGroup
<1>2. TypeOK /\ StopWaitsForGroup /\ [Next]_vars => StopWaitsForGroup'
  <2> SUFFICES ASSUME TypeOK, StopWaitsForGroup, [Next]_vars PROVE StopWaitsForGroup'
    OBVIOUS
  <2> USE DEF StopWaitsForGroup, GroupFinished
  <2>1. CASE UNCHANGED <<pump, loop, calling, stop, stopErrs>>
    BY <2>1, Zenon
  <2>2. CASE Start
    BY <2>2, Zenon DEF Start, TypeOK, PumpTypeOK, stopVars
  <2>3. CASE Pump
    BY <2>3 DEF Pump, PumpVAD, PumpSTT, PumpSend, PumpClosed, PumpCtxDone, loopVars, stopVars
  <2>4. CASE Loop
    BY <2>4 DEF Loop, HandleStart, HandleEnd, HandleInterim, HandleFinal, Receiving,
       CallbackReturns, LoopCtxDone, pumpVars, stopVars
  <2>5. CASE Stop
    BY <2>5 DEF Stop, StopCancel, StopVAD, StopSTT, StopWaited, StopTimeout, StopUnchanged,
       pumpVars, loopVars, TypeOK, ControlTypeOK
  <2> QED
    BY <2>1, <2>2, <2>3, <2>4, <2>5, Zenon DEF Next, Environment, VADEmit, STTInterim, STTFinal,
       VADFails, STTFails, EnvUnchanged, ReportEnd, Terminated, vars, pumpVars, loopVars, stopVars
<1>3. StopWaitsForGroup => QuietAfterStop
  BY DEF StopWaitsForGroup, QuietAfterStop, GroupFinished
<1> QED
  BY <1>1, <1>2, <1>3, TypeCorrect, PTL DEF Spec
(***************************************************************************)
(* Delivery: the recognizer implements UtteranceQueue                      *)
(***************************************************************************)
\* An event that is not final may be put anywhere in the pipeline.
LEMMA InsertNonFinal ==
  ASSUME NEW a \in Seq(Events), NEW c \in Seq(Events), NEW e \in Events, ~IsFinal(e),
         NEW lo \in Nat, NEW hi \in Nat, FinalsAre(a \o c, lo, hi)
  PROVE  FinalsAre((a \o <<e>>) \o c, lo, hi)
<1> DEFINE q == a \o c
           r == (a \o <<e>>) \o c
           at(i) == IF i <= Len(a) THEN i ELSE i - 1
           to(i) == IF i <= Len(a) THEN i ELSE i + 1
<1>1. /\ Len(q) = Len(a) + Len(c) /\ Len(r) = Len(a) + 1 + Len(c)
      /\ Len(a) \in Nat /\ Len(c) \in Nat
      /\ r[Len(a) + 1] = e
      /\ \A i \in 1 .. Len(r) : i # Len(a) + 1 => at(i) \in 1 .. Len(q) /\ r[i] = q[at(i)]
      /\ \A i \in 1 .. Len(q) : to(i) \in 1 .. Len(r) /\ r[to(i)] = q[i]
  OBVIOUS
<1> HIDE DEF q, r
<1>2. \A i \in 1 .. Len(r) : IsFinal(r[i]) => i # Len(a) + 1
  BY <1>1
<1>3. \A i, j \in 1 .. Len(r) : i < j /\ IsFinal(r[i]) /\ IsFinal(r[j]) => r[i].id < r[j].id
  <2> SUFFICES ASSUME NEW i \in 1 .. Len(r), NEW j \in 1 .. Len(r), i < j,
                      IsFinal(r[i]), IsFinal(r[j])
               PROVE  r[i].id < r[j].id
    OBVIOUS
  <2>1. r[i] = q[at(i)] /\ r[j] = q[at(j)] /\ at(i) \in 1 .. Len(q) /\ at(j) \in 1 .. Len(q)
        /\ i # Len(a) + 1 /\ j # Len(a) + 1
    BY <1>1, <1>2
  <2>2. at(i) < at(j)
    BY <1>1, <2>1
  <2> QED
    BY <2>1, <2>2 DEF FinalsAre, q
<1>4. \A i \in 1 .. Len(r) : IsFinal(r[i]) => r[i].id \in lo + 1 .. hi
  <2> SUFFICES ASSUME NEW i \in 1 .. Len(r), IsFinal(r[i])
               PROVE  r[i].id \in lo + 1 .. hi
    OBVIOUS
  <2>1. r[i] = q[at(i)] /\ at(i) \in 1 .. Len(q)
    BY <1>1, <1>2
  <2> QED
    BY <2>1 DEF FinalsAre, q
<1>5. \A n \in lo + 1 .. hi : \E i \in 1 .. Len(r) : r[i] = Final(n)
  <2> SUFFICES ASSUME NEW n \in lo + 1 .. hi PROVE \E i \in 1 .. Len(r) : r[i] = Final(n)
    OBVIOUS
  <2>1. PICK i \in 1 .. Len(q) : q[i] = Final(n)
    BY DEF FinalsAre, q
  <2> QED
    BY <1>1, <2>1
<1> QED
  BY <1>3, <1>4, <1>5 DEF FinalsAre, r

\* The next final transcript goes to the end of the pipeline.
LEMMA AppendFinal ==
  ASSUME NEW q \in Seq(Events), NEW lo \in Nat, NEW hi \in Nat, lo <= hi, FinalsAre(q, lo, hi)
  PROVE  FinalsAre(Append(q, Final(hi + 1)), lo, hi + 1)
<1> DEFINE r == Append(q, Final(hi + 1))
<1>1. Len(r) = Len(q) + 1 /\ Len(q) \in Nat /\ r[Len(q) + 1] = Final(hi + 1)
      /\ \A i \in 1 .. Len(q) : r[i] = q[i]
  OBVIOUS
<1>2. Final(hi + 1).id = hi + 1 /\ IsFinal(Final(hi + 1))
  BY EventTyping
<1> HIDE DEF r
<1>3. \A i \in 1 .. Len(r) : i \in 1 .. Len(q) \/ i = Len(q) + 1
  BY <1>1
<1>4. \A i \in 1 .. Len(q) : IsFinal(q[i]) => q[i].id \in lo + 1 .. hi
  BY DEF FinalsAre
<1>5. \A i, j \in 1 .. Len(r) : i < j /\ IsFinal(r[i]) /\ IsFinal(r[j]) => r[i].id < r[j].id
  <2> SUFFICES ASSUME NEW i \in 1 .. Len(r), NEW j \in 1 .. Len(r), i < j,
                      IsFinal(r[i]), IsFinal(r[j])
               PROVE  r[i].id < r[j].id
    OBVIOUS
  <2>1. i \in 1 .. Len(q) /\ r[i] = q[i]
    BY <1>1, <1>3
  <2>2. CASE j \in 1 .. Len(q)
    BY <1>1, <2>1, <2>2 DEF FinalsAre
  <2>3. CASE j = Len(q) + 1
    BY <1>1, <1>2, <1>4, <2>1, <2>3
  <2> QED
    BY <1>3, <2>2, <2>3
<1>6. \A i \in 1 .. Len(r) : IsFinal(r[i]) => r[i].id \in lo + 1 .. hi + 1
  BY <1>1, <1>2, <1>3, <1>4
<1>7. \A n \in lo + 1 .. hi + 1 : \E i \in 1 .. Len(r) : r[i] = Final(n)
  <2> SUFFICES ASSUME NEW n \in lo + 1 .. hi + 1 PROVE \E i \in 1 .. Len(r) : r[i] = Final(n)
    OBVIOUS
  <2>1. CASE n = hi + 1
    BY <1>1, <2>1
  <2>2. CASE n \in lo + 1 .. hi
    <3>1. PICK i \in 1 .. Len(q) : q[i] = Final(n)
      BY <2>2 DEF FinalsAre
    <3> QED
      BY <1>1, <3>1
  <2> QED
    BY <2>1, <2>2
<1> QED
  BY <1>5, <1>6, <1>7 DEF FinalsAre, r

\* Receiving an event that is not final leaves the final ones in place.
LEMMA ReceiveNonFinal ==
  ASSUME NEW q \in Seq(Events), q # <<>>, ~IsFinal(Head(q)),
         NEW lo \in Nat, NEW hi \in Nat, FinalsAre(q, lo, hi)
  PROVE  FinalsAre(Tail(q), lo, hi)
<1> DEFINE r == Tail(q)
<1>1. Len(r) = Len(q) - 1 /\ Len(q) \in Nat \ {0} /\ Head(q) = q[1]
      /\ \A i \in 1 .. Len(r) : r[i] = q[i + 1] /\ i + 1 \in 1 .. Len(q)
  OBVIOUS
<1> HIDE DEF r
<1>2. \A i, j \in 1 .. Len(r) : i < j /\ IsFinal(r[i]) /\ IsFinal(r[j]) => r[i].id < r[j].id
  <2> SUFFICES ASSUME NEW i \in 1 .. Len(r), NEW j \in 1 .. Len(r), i < j,
                      IsFinal(r[i]), IsFinal(r[j])
               PROVE  r[i].id < r[j].id
    OBVIOUS
  <2>1. r[i] = q[i + 1] /\ r[j] = q[j + 1] /\ i + 1 < j + 1
        /\ i + 1 \in 1 .. Len(q) /\ j + 1 \in 1 .. Len(q)
    BY <1>1
  <2> QED
    BY <2>1 DEF FinalsAre
<1>3. \A i \in 1 .. Len(r) : IsFinal(r[i]) => r[i].id \in lo + 1 .. hi
  BY <1>1 DEF FinalsAre
<1>4. \A n \in lo + 1 .. hi : \E i \in 1 .. Len(r) : r[i] = Final(n)
  <2> SUFFICES ASSUME NEW n \in lo + 1 .. hi PROVE \E i \in 1 .. Len(r) : r[i] = Final(n)
    OBVIOUS
  <2>1. PICK i \in 1 .. Len(q) : q[i] = Final(n)
    BY DEF FinalsAre
  <2>2. i # 1
    BY <1>1, <2>1, EventTyping
  <2>3. i - 1 \in 1 .. Len(r) /\ r[i - 1] = q[i]
    BY <1>1, <2>2
  <2> QED
    BY <2>1, <2>3
<1> QED
  BY <1>2, <1>3, <1>4 DEF FinalsAre, r

\* The first final event received is the next one to handle.
LEMMA ReceiveFinal ==
  ASSUME NEW q \in Seq(Events), q # <<>>, IsFinal(Head(q)),
         NEW lo \in Nat, NEW hi \in Nat, FinalsAre(q, lo, hi)
  PROVE  Head(q).id = lo + 1 /\ lo + 1 <= hi /\ FinalsAre(Tail(q), lo + 1, hi)
<1> DEFINE r == Tail(q)
<1>1. Len(r) = Len(q) - 1 /\ Len(q) \in Nat \ {0} /\ Head(q) = q[1] /\ 1 \in 1 .. Len(q)
      /\ \A i \in 1 .. Len(r) : r[i] = q[i + 1] /\ i + 1 \in 1 .. Len(q)
  OBVIOUS
<1> HIDE DEF r
<1>2. q[1].id \in lo + 1 .. hi
  BY <1>1 DEF FinalsAre
<1>3. PICK k \in 1 .. Len(q) : q[k] = Final(lo + 1)
  BY <1>2 DEF FinalsAre
<1>4. k = 1
  <2> SUFFICES ASSUME k # 1 PROVE FALSE
    OBVIOUS
  <2>1. 1 < k /\ IsFinal(q[1]) /\ IsFinal(q[k]) /\ q[k].id = lo + 1
    BY <1>1, <1>3, EventTyping
  <2>2. q[1].id < q[k].id
    BY <1>1, <2>1 DEF FinalsAre
  <2> QED
    BY <1>2, <2>1, <2>2
<1>5. Head(q).id = lo + 1 /\ lo + 1 <= hi
  BY <1>1, <1>2, <1>3, <1>4, EventTyping
<1>6. \A i, j \in 1 .. Len(r) : i < j /\ IsFinal(r[i]) /\ IsFinal(r[j]) => r[i].id < r[j].id
  <2> SUFFICES ASSUME NEW i \in 1 .. Len(r), NEW j \in 1 .. Len(r), i < j,
                      IsFinal(r[i]), IsFinal(r[j])
               PROVE  r[i].id < r[j].id
    OBVIOUS
  <2>1. r[i] = q[i + 1] /\ r[j] = q[j + 1] /\ i + 1 < j + 1
        /\ i + 1 \in 1 .. Len(q) /\ j + 1 \in 1 .. Len(q)
    BY <1>1
  <2> QED
    BY <2>1 DEF FinalsAre
<1>7. \A i \in 1 .. Len(r) : IsFinal(r[i]) => r[i].id \in (lo + 1) + 1 .. hi
  <2> SUFFICES ASSUME NEW i \in 1 .. Len(r), IsFinal(r[i])
               PROVE  r[i].id \in (lo + 1) + 1 .. hi
    OBVIOUS
  <2>1. r[i] = q[i + 1] /\ i + 1 \in 1 .. Len(q) /\ 1 < i + 1
    BY <1>1
  <2>2. q[1].id < q[i + 1].id /\ q[i + 1].id \in lo + 1 .. hi
    BY <1>1, <2>1 DEF FinalsAre
  <2> QED
    BY <1>1, <1>5, <2>1, <2>2
<1>8. \A n \in (lo + 1) + 1 .. hi : \E i \in 1 .. Len(r) : r[i] = Final(n)
  <2> SUFFICES ASSUME NEW n \in (lo + 1) + 1 .. hi PROVE \E i \in 1 .. Len(r) : r[i] = Final(n)
    OBVIOUS
  <2>1. PICK i \in 1 .. Len(q) : q[i] = Final(n)
    BY DEF FinalsAre
  <2>2. i # 1
    BY <1>1, <1>5, <2>1, EventTyping
  <2>3. i - 1 \in 1 .. Len(r) /\ r[i - 1] = q[i]
    BY <1>1, <2>2
  <2> QED
    BY <2>1, <2>3
<1> QED
  BY <1>5, <1>6, <1>7, <1>8 DEF FinalsAre, r

\* The pipeline is a sequence of events, the counts are numbers.
LEMMA PipelineTypes ==
  ASSUME TypeOK
  PROVE  /\ Pipeline \in Seq(Events) /\ Handled \in Nat /\ produced \in Nat
         /\ bufferCh \in Seq(Events) /\ held \in Seq(Events) /\ sttCh \in Seq(Events)
         /\ vadCh \in Seq(Events)
         /\ transcripts \in Seq(Nat) /\ delivered \in Seq(Nat)
BY DEF TypeOK, EnvTypeOK, PumpTypeOK, LoopTypeOK, Pipeline, Handled

\* Moving an event from one channel of the pipeline to the next changes nothing.
LEMMA PipelineMoves ==
  ASSUME NEW b \in Seq(Events), NEW s \in Seq(Events), NEW h \in Seq(Events)
  PROVE  /\ (b \o h) \o (<< >> \o s) = (b \o h) \o s
         /\ ((b \o h) \o << >>) \o s = (b \o h) \o s
         /\ (b \o << >>) \o s = b \o s
         /\ s # << >> => (b \o <<Head(s)>>) \o Tail(s) = b \o s
         /\ \A e \in Events : (b \o h) \o Append(s, e) = Append((b \o h) \o s, e)
<1> DEFINE p == (b \o h) \o s
<1>1. /\ (b \o h) \o (<< >> \o s) = p
      /\ ((b \o h) \o << >>) \o s = p
      /\ (b \o << >>) \o s = b \o s
  BY ConcatEmptySeq, ConcatProperties
<1>2. ASSUME s # << >> PROVE (b \o <<Head(s)>>) \o Tail(s) = b \o s
  <2>1. /\ (b \o <<Head(s)>>) \o Tail(s) \in Seq(Events) /\ b \o s \in Seq(Events)
        /\ Len((b \o <<Head(s)>>) \o Tail(s)) = Len(b \o s)
        /\ \A i \in 1 .. Len(b \o s) : ((b \o <<Head(s)>>) \o Tail(s))[i] = (b \o s)[i]
    BY <1>2
  <2> QED
    BY <2>1, SeqEqual
<1>3. ASSUME NEW e \in Events PROVE (b \o h) \o Append(s, e) = Append(p, e)
  <2>1. /\ (b \o h) \o Append(s, e) \in Seq(Events) /\ Append(p, e) \in Seq(Events)
        /\ Len((b \o h) \o Append(s, e)) = Len(Append(p, e))
        /\ \A i \in 1 .. Len(Append(p, e)) : ((b \o h) \o Append(s, e))[i] = Append(p, e)[i]
    OBVIOUS
  <2> QED
    BY <2>1, SeqEqual
<1> QED
  BY <1>1, <1>2, <1>3

\* Receiving from the buffer takes the head of the pipeline.
LEMMA PipelineReceive ==
  ASSUME NEW b \in Seq(Events), NEW h \in Seq(Events), NEW s \in Seq(Events), b # << >>
  PROVE  /\ (b \o h) \o s # << >> /\ Head((b \o h) \o s) = Head(b)
         /\ (Tail(b) \o h) \o s = Tail((b \o h) \o s)
<1> DEFINE p == (b \o h) \o s
<1>1. p # << >> /\ Head(p) = Head(b)
  OBVIOUS
<1>2. /\ (Tail(b) \o h) \o s \in Seq(Events) /\ Tail(p) \in Seq(Events)
      /\ Len((Tail(b) \o h) \o s) = Len(Tail(p))
      /\ \A i \in 1 .. Len(Tail(p)) : ((Tail(b) \o h) \o s)[i] = Tail(p)[i]
  OBVIOUS
<1>3. (Tail(b) \o h) \o s = Tail(p)
  BY <1>2, SeqEqual
<1> QED
  BY <1>1, <1>3

\* Every step keeps the final transcripts between the transcriber and the conversation
\* complete and in order.
LEMMA PipelineStep == TypeOK /\ PipelineInv /\ [Next]_vars => PipelineInv'
<1> SUFFICES ASSUME TypeOK, PipelineInv, [Next]_vars PROVE PipelineInv'
  OBVIOUS
<1>0. /\ Pipeline \in Seq(Events) /\ Handled \in Nat /\ produced \in Nat
      /\ bufferCh \in Seq(Events) /\ held \in Seq(Events) /\ sttCh \in Seq(Events)
      /\ vadCh \in Seq(Events) /\ transcripts \in Seq(Nat) /\ delivered \in Seq(Nat)
  BY PipelineTypes
<1>1. CASE UNCHANGED <<vadCh, sttCh, held, bufferCh, transcripts, delivered, produced>>
  BY <1>1, Zenon DEF PipelineInv, Pipeline, Handled
<1>2. CASE VADEmit
  <2>1. UNCHANGED <<Pipeline, Handled, produced, transcripts, delivered>>
    BY <1>2, Zenon DEF VADEmit, EnvUnchanged, Pipeline, Handled, pumpVars, loopVars
  <2>2. PICK k \in {"start", "end"} : vadCh' = Append(vadCh, Event(k, 0))
    BY <1>2 DEF VADEmit
  <2>3. \A i \in 1 .. Len(vadCh') : ~IsFinal(vadCh'[i])
    BY <1>0, <2>2 DEF PipelineInv, IsFinal, Event
  <2> QED
    BY <2>1, <2>3, Zenon DEF PipelineInv
<1>3. CASE STTInterim
  <2>1. UNCHANGED <<vadCh, Handled, produced, transcripts, delivered>>
    BY <1>3, Zenon DEF STTInterim, EnvUnchanged, Handled, loopVars
  <2>2. Pipeline' = Append(Pipeline, Event("interim", 0))
    BY <1>0, <1>3, PipelineMoves, EventTyping DEF STTInterim, EnvUnchanged, Pipeline, pumpVars
  <2>3. Pipeline' = (Pipeline \o <<Event("interim", 0)>>) \o << >>
    BY <1>0, <2>2, EventTyping, AppendIsConcat, ConcatEmptySeq, ConcatProperties
  <2>4. Pipeline \o << >> = Pipeline
    BY <1>0, ConcatEmptySeq
  <2>5. FinalsAre(Pipeline', Handled, produced)
    <3>1. Event("interim", 0) \in Events /\ ~IsFinal(Event("interim", 0)) /\ << >> \in Seq(Events)
      BY EventTyping DEF IsFinal, Event
    <3>2. FinalsAre(Pipeline \o << >>, Handled, produced)
      BY <2>4 DEF PipelineInv
    <3> QED
      BY <1>0, <2>3, <3>1, <3>2, InsertNonFinal
  <2> QED
    BY <2>1, <2>5, Zenon DEF PipelineInv
<1>4. CASE STTFinal
  <2>1. UNCHANGED <<vadCh, Handled, transcripts, delivered>> /\ produced' = produced + 1
    BY <1>4, Zenon DEF STTFinal, EnvUnchanged, Handled, loopVars
  <2>2. Pipeline' = Append(Pipeline, Final(produced + 1))
    BY <1>0, <1>4, PipelineMoves, EventTyping DEF STTFinal, EnvUnchanged, Pipeline, pumpVars
  <2>3. FinalsAre(Pipeline', Handled, produced')
    BY <1>0, <2>1, <2>2, AppendFinal DEF PipelineInv
  <2>4. Handled' <= produced'
    BY <1>0, <2>1 DEF PipelineInv
  <2> QED
    BY <2>1, <2>3, <2>4, Zenon DEF PipelineInv
<1>5. CASE PumpVAD
  <2>1. UNCHANGED <<Handled, produced, transcripts, delivered>>
    BY <1>5, Zenon DEF PumpVAD, Handled, loopVars
  <2>2. /\ held = << >> /\ Head(vadCh) \in Events /\ ~IsFinal(Head(vadCh))
        /\ \A i \in 1 .. Len(Tail(vadCh)) : ~IsFinal(Tail(vadCh)[i])
    BY <1>0, <1>5 DEF PumpVAD, TypeOK, PumpTypeOK, PipelineInv
  <2>3. Pipeline = bufferCh \o sttCh
    BY <1>0, <2>2, PipelineMoves DEF Pipeline
  <2>4. Pipeline' = (bufferCh \o <<Head(vadCh)>>) \o sttCh
    BY <1>5, Zenon DEF PumpVAD, Pipeline
  <2>5. FinalsAre(Pipeline', Handled, produced)
    BY <1>0, <2>2, <2>3, <2>4, InsertNonFinal DEF PipelineInv
  <2>6. vadCh' = Tail(vadCh)
    BY <1>5 DEF PumpVAD
  <2> QED
    BY <2>1, <2>2, <2>5, <2>6, Zenon DEF PipelineInv
<1>6. CASE PumpSTT
  <2>1. UNCHANGED <<vadCh, Handled, produced, transcripts, delivered>>
    BY <1>6, Zenon DEF PumpSTT, Handled, loopVars
  <2>2. held = << >>
    BY <1>6 DEF PumpSTT, TypeOK, PumpTypeOK
  <2>3. Pipeline = bufferCh \o sttCh /\ Pipeline' = (bufferCh \o <<Head(sttCh)>>) \o Tail(sttCh)
    BY <1>0, <1>6, <2>2, PipelineMoves, Zenon DEF PumpSTT, Pipeline
  <2>4. Pipeline' = Pipeline
    BY <1>0, <1>6, <2>3, PipelineMoves DEF PumpSTT
  <2> QED
    BY <2>1, <2>4, Zenon DEF PipelineInv
<1>7. CASE PumpSend
  <2>1. UNCHANGED <<vadCh, Handled, produced, transcripts, delivered>>
    BY <1>7, Zenon DEF PumpSend, Handled, envVars, loopVars
  <2>2. Pipeline' = ((bufferCh \o held) \o << >>) \o sttCh
    BY <1>7, Zenon DEF PumpSend, Pipeline, envVars
  <2>3. Pipeline' = Pipeline
    BY <1>0, <2>2, PipelineMoves DEF Pipeline
  <2> QED
    BY <2>1, <2>3, Zenon DEF PipelineInv
<1>8. CASE HandleStart \/ HandleEnd \/ HandleInterim
  <2>1. UNCHANGED <<vadCh, Handled, produced, transcripts, delivered>>
    BY <1>8, Zenon DEF HandleStart, HandleEnd, HandleInterim, Receiving, Handled, envVars
  <2>2. bufferCh # <<>> /\ ~IsFinal(Head(bufferCh))
    BY <1>8 DEF HandleStart, HandleEnd, HandleInterim, Receiving, IsFinal
  <2>3. Pipeline' = (Tail(bufferCh) \o held) \o sttCh
      BY <1>8, Zenon
      DEF HandleStart, HandleEnd, HandleInterim, Receiving, Pipeline, pumpVars, envVars
  <2>4. Pipeline # << >> /\ Head(Pipeline) = Head(bufferCh) /\ Pipeline' = Tail(Pipeline)
    <3>1. Pipeline = (bufferCh \o held) \o sttCh
      BY DEF Pipeline
    <3>2. /\ (bufferCh \o held) \o sttCh # << >>
          /\ Head((bufferCh \o held) \o sttCh) = Head(bufferCh)
          /\ (Tail(bufferCh) \o held) \o sttCh = Tail((bufferCh \o held) \o sttCh)
      BY <1>0, <2>2, PipelineReceive, ZenonT(30)
    <3> QED
      BY <2>3, <3>1, <3>2, Zenon
  <2>5. FinalsAre(Pipeline', Handled, produced)
    BY <1>0, <2>2, <2>4, ReceiveNonFinal DEF PipelineInv
  <2> QED
    BY <2>1, <2>5, Zenon DEF PipelineInv
<1>9. CASE HandleFinal
  <2>1. UNCHANGED <<vadCh, produced, delivered>>
        /\ transcripts' = Append(transcripts, Head(bufferCh).id)
    BY <1>9, Zenon DEF HandleFinal, Receiving, envVars
  <2>2. bufferCh # <<>> /\ IsFinal(Head(bufferCh)) /\ Head(bufferCh).id \in Nat
    <3>1. bufferCh # <<>> /\ Head(bufferCh) \in Events /\ IsFinal(Head(bufferCh))
      BY <1>0, <1>9 DEF HandleFinal, Receiving, IsFinal
    <3> QED
      BY <3>1 DEF Events
  <2>3. Pipeline' = (Tail(bufferCh) \o held) \o sttCh
    BY <1>9, Zenon DEF HandleFinal, Receiving, Pipeline, pumpVars, envVars
  <2>4. Pipeline # << >> /\ Head(Pipeline) = Head(bufferCh) /\ Pipeline' = Tail(Pipeline)
    <3>1. Pipeline = (bufferCh \o held) \o sttCh
      BY DEF Pipeline
    <3>2. /\ (bufferCh \o held) \o sttCh # << >>
          /\ Head((bufferCh \o held) \o sttCh) = Head(bufferCh)
          /\ (Tail(bufferCh) \o held) \o sttCh = Tail((bufferCh \o held) \o sttCh)
      BY <1>0, <2>2, PipelineReceive, ZenonT(30)
    <3> QED
      BY <2>3, <3>1, <3>2, Zenon
  <2>5. /\ Head(bufferCh).id = Handled + 1 /\ Handled + 1 <= produced
        /\ FinalsAre(Pipeline', Handled + 1, produced)
    BY <1>0, <2>2, <2>4, ReceiveFinal DEF PipelineInv
  <2>6. Handled' = Handled + 1
    BY <1>0, <2>1, <2>2 DEF Handled
  <2>7. \A i \in 1 .. Len(transcripts') : transcripts'[i] = Len(delivered) + i
    <3>1. /\ Len(transcripts') = Len(transcripts) + 1 /\ Len(transcripts) \in Nat
          /\ transcripts'[Len(transcripts) + 1] = Head(bufferCh).id
          /\ \A i \in 1 .. Len(transcripts) : transcripts'[i] = transcripts[i]
      BY <1>0, <2>1, <2>2, AppendProperties
    <3>2. \A i \in 1 .. Len(transcripts) : transcripts[i] = Len(delivered) + i
      BY DEF PipelineInv
    <3>3. Head(bufferCh).id = Len(delivered) + (Len(transcripts) + 1)
      BY <1>0, <2>5, <3>1 DEF Handled
    <3>4. \A i \in 1 .. Len(transcripts') : i \in 1 .. Len(transcripts) \/ i = Len(transcripts) + 1
      BY <3>1
    <3> QED
      BY <3>1, <3>2, <3>3, <3>4
  <2> QED
    BY <2>1, <2>5, <2>6, <2>7, Zenon DEF PipelineInv
<1>10. CASE CallbackReturns
  <2>1. UNCHANGED <<vadCh, Pipeline, produced>>
    BY <1>10, Zenon DEF CallbackReturns, Pipeline, envVars, pumpVars
  <2>2. CASE UNCHANGED <<delivered, transcripts>>
    BY <2>1, <2>2, Zenon DEF PipelineInv, Handled
  <2>3. CASE delivered' = delivered \o transcripts /\ transcripts' = <<>>
    <3>1. Handled' = Handled
      BY <1>0, <2>3 DEF Handled
    <3>2. \A i \in 1 .. Len(delivered') : delivered'[i] = i
      BY <1>0, <2>3 DEF PipelineInv
    <3>3. \A i \in 1 .. Len(transcripts') : transcripts'[i] = Len(delivered') + i
      BY <2>3
    <3> QED
      BY <2>1, <3>1, <3>2, <3>3, Zenon DEF PipelineInv
  <2> QED
    BY <1>10, <2>2, <2>3 DEF CallbackReturns
<1> QED
  BY <1>1, <1>2, <1>3, <1>4, <1>5, <1>6, <1>7, <1>8, <1>9, <1>10, Zenon DEF Next, Start,
     Environment, VADFails, STTFails, EnvUnchanged, Pump, PumpClosed, PumpCtxDone, Loop,
     LoopCtxDone, ReportEnd, Stop, StopCancel, StopVAD, StopSTT, StopWaited, StopTimeout,
     StopUnchanged, Terminated, vars, envVars, pumpVars, loopVars

\* Every final transcript is handed to the conversation at most once, in the order of
\* the transcriber, and none is skipped: the recognizer implements UtteranceQueue.
THEOREM DeliversInOrder == Spec => DeliversUtterances
<1>1. Init => Utterances!Init /\ PipelineInv
  <2> SUFFICES ASSUME Init PROVE Utterances!Init /\ PipelineInv
    OBVIOUS
  <2>1. Utterances!Init
    BY DEF Init, Utterances!Init
  <2>2. Pipeline = << >> /\ Handled = 0 /\ produced = 0 /\ delivered = <<>> /\ transcripts = <<>>
        /\ vadCh = <<>>
    BY DEF Init, Pipeline, Handled
  <2> QED
    BY <2>1, <2>2 DEF PipelineInv, FinalsAre
<1>2. TypeOK /\ PipelineInv /\ [Next]_vars => [Utterances!Next]_<<produced, delivered>>
  <2> SUFFICES ASSUME TypeOK, PipelineInv, [Next]_vars,
                      ~UNCHANGED <<produced, delivered>>
               PROVE  Utterances!Next
    OBVIOUS
  <2>1. CASE STTFinal
    BY <2>1 DEF STTFinal, EnvUnchanged, loopVars, Utterances!Next, Utterances!Produce
  <2>2. CASE CallbackReturns
    <3>1. produced' = produced /\ delivered' = delivered \o transcripts
      BY <2>2, Zenon DEF CallbackReturns, envVars
    <3>2. /\ Handled \in Nat /\ produced \in Nat /\ Handled <= produced
          /\ transcripts \in Seq(Nat) /\ delivered \in Seq(Nat)
      BY PipelineTypes DEF PipelineInv
    <3>3. transcripts # <<>>
      BY <2>2, <3>1, <3>2, ConcatEmptySeq
    <3>4. Handled \in Len(delivered) + 1 .. produced
      BY <3>2, <3>3 DEF Handled
    <3>5. delivered' = [i \in 1 .. Handled |-> i]
      <4>1. delivered' \in Seq(Nat) /\ Len(delivered') = Handled
        BY <3>1, <3>2 DEF Handled
      <4>2. \A i \in 1 .. Handled : delivered'[i] = i
        <5> SUFFICES ASSUME NEW i \in 1 .. Handled PROVE delivered'[i] = i
          OBVIOUS
        <5>1. CASE i <= Len(delivered)
          BY <3>1, <3>2, <5>1 DEF Handled, PipelineInv
        <5>2. CASE i > Len(delivered)
          <6>1. /\ i - Len(delivered) \in 1 .. Len(transcripts)
                /\ delivered'[i] = transcripts[i - Len(delivered)]
            BY <3>1, <3>2, <5>2 DEF Handled
          <6>2. transcripts[i - Len(delivered)] = Len(delivered) + (i - Len(delivered))
            BY <6>1 DEF PipelineInv
          <6> QED
            BY <3>2, <6>1, <6>2
        <5> QED
          BY <3>2, <5>1, <5>2
      <4>3. delivered' \in [1 .. Handled -> Nat]
        BY <4>1, LenProperties
      <4> QED
        BY <4>2, <4>3
    <3> QED
      BY <3>1, <3>4, <3>5 DEF Utterances!Next, Utterances!Deliver
  <2> QED
    BY <2>1, <2>2, Zenon DEF Next, Start, Environment, VADEmit, STTInterim, VADFails, STTFails,
       EnvUnchanged, Pump, PumpVAD, PumpSTT, PumpSend, PumpClosed, PumpCtxDone, Loop, HandleStart,
       HandleEnd, HandleInterim, HandleFinal, Receiving, LoopCtxDone, ReportEnd, Stop, StopCancel,
       StopVAD, StopSTT, StopWaited, StopTimeout, StopUnchanged, Terminated, vars, envVars, loopVars
<1> QED
  BY <1>1, <1>2, PipelineStep, TypeCorrect, PTL DEF Spec, DeliversUtterances, Utterances!Spec
=============================================================================
