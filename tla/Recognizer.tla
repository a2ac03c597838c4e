----------------------------- MODULE Recognizer -----------------------------
(***************************************************************************)
(* speech.Recognizer: two event streams, the VAD's speech events and the   *)
(* transcriber's transcripts, are merged by one goroutine (the pump) into  *)
(* a bounded buffer and consumed by another (the event loop), which keeps  *)
(* the final transcripts of a turn until the speaker has stopped and calls *)
(* the RecognitionHandler.  Stop cancels both and waits for them.          *)
(*                                                                         *)
(* The VAD and the transcriber are the environment: VADEmit, STTInterim,   *)
(* STTFinal and the two failures are what their channels may show.  A      *)
(* final transcript is named by its position in the transcriber's output.  *)
(***************************************************************************)
EXTENDS Naturals, Sequences, FiniteSets

CONSTANTS
  HasVAD,        \* BOOLEAN: a VAD is configured
  BufferSize,    \* capacity of bufferCh (8 in the code)
  ChanCap,       \* capacity of the VAD's and the transcriber's channel
  MaxTurns,      \* bound: how often the speaker starts to speak
  MaxFinals,     \* bound: final transcripts
  MaxInterims,   \* bound: interim transcripts
  MayFail        \* BOOLEAN: the VAD or the transcriber may end by itself

ASSUME FlagsAssumption == HasVAD \in BOOLEAN /\ MayFail \in BOOLEAN
ASSUME CapacityAssumption == BufferSize \in Nat \ {0} /\ ChanCap \in Nat \ {0}
ASSUME BoundsAssumption ==
  MaxTurns \in Nat /\ MaxFinals \in Nat /\ MaxInterims \in Nat

VARIABLES
  phase,         \* Start has not run, has succeeded, or which part of it failed
  \* the environment: the VAD, the transcriber and their channels
  vadCh, vadOpen, vadSpeaking, turns,
  sttCh, sttOpen, midUtterance, produced, interims,
  \* the pump: its control state and the event it has taken and not yet sent
  pump, held,
  bufferCh,      \* Recognizer.bufferCh
  \* handleEvent: its control state, its locals, the callbacks it has to make
  loop, isSpeaking, isTranscribing, transcripts, calling,
  delivered,     \* history: the transcripts OnSpeechRecognized has been given
  \* the errgroup: r.ctx cancelled, its first error, and Recognizer.errCh
  cancelled, grpErr, errCh,
  \* Stop: its control state and the errors it has joined
  stop, stopErrs

envVars  == <<vadCh, vadOpen, vadSpeaking, turns,
              sttCh, sttOpen, midUtterance, produced, interims>>
pumpVars == <<pump, held>>
loopVars == <<loop, isSpeaking, isTranscribing, transcripts, calling, delivered>>
grpVars  == <<cancelled, grpErr, errCh>>
stopVars == <<stop, stopErrs>>
vars == <<phase, envVars, pumpVars, bufferCh, loopVars, grpVars, stopVars>>

Event(kind, id) == [kind |-> kind, id |-> id]
Final(n) == Event("final", n)
Events == [kind : {"start", "end", "interim", "final"}, id : Nat]
IsFinal(e) == e.kind = "final"

Errors == {"VADStopped", "TranscriberStopped", "DeadlineExceeded"}
Callbacks == {"OnSpeechStart", "OnInterim", "OnSpeechEnd", "OnSpeechRecognized"}

\* The context both goroutines select on: derived from r.ctx by the errgroup,
\* which cancels it when a member returns an error.
GroupDone == cancelled \/ grpErr # "nil"

\* Both members of the errgroup have returned: Wait returns.
GroupFinished == pump = "done" /\ loop = "done"

Init ==
  /\ phase = "new"
  /\ vadCh = <<>> /\ vadOpen = HasVAD /\ vadSpeaking = FALSE /\ turns = 0
  /\ sttCh = <<>> /\ sttOpen = TRUE /\ midUtterance = FALSE
  /\ produced = 0 /\ interims = 0
  /\ pump = "off" /\ held = <<>> /\ bufferCh = <<>>
  /\ loop = "off" /\ isSpeaking = FALSE /\ isTranscribing = FALSE
  /\ transcripts = <<>> /\ calling = <<>> /\ delivered = <<>>
  /\ cancelled = FALSE /\ grpErr = "nil" /\ errCh = <<>>
  /\ stop = "idle" /\ stopErrs = {}

(***************************************************************************)
(* Start                                                                   *)
(***************************************************************************)
Start ==
  /\ phase = "new"
  /\ \/ phase' = "running" /\ pump' = "select" /\ loop' = "receive"
     \/ /\ phase' \in {"transcriberFailed"} \cup IF HasVAD THEN {"vadFailed"} ELSE {}
        /\ UNCHANGED <<pump, loop>>
  /\ UNCHANGED <<envVars, held, bufferCh, isSpeaking, isTranscribing,
                 transcripts, calling, delivered, grpVars, stopVars>>

(***************************************************************************)
(* The environment: what Feed makes the VAD and the transcriber emit       *)
(***************************************************************************)
EnvUnchanged == UNCHANGED <<phase, pumpVars, bufferCh, loopVars, grpVars, stopVars>>

\* The VAD alternates starts and ends and waits for room.  emit gives an event up only when the
\* context of Feed is done, which is left out: that is the context of Run's group, after whose
\* end nothing is fed and the agent is stopped.
VADEmit ==
  /\ phase = "running" /\ vadOpen /\ Len(vadCh) < ChanCap
  /\ ~vadSpeaking => turns < MaxTurns
  /\ vadCh' = Append(vadCh, Event(IF vadSpeaking THEN "end" ELSE "start", 0))
  /\ vadSpeaking' = ~vadSpeaking
  /\ turns' = IF vadSpeaking THEN turns ELSE turns + 1
  /\ UNCHANGED <<vadOpen, sttCh, sttOpen, midUtterance, produced, interims>>
  /\ EnvUnchanged

STTInterim ==
  /\ phase = "running" /\ sttOpen /\ Len(sttCh) < ChanCap
  /\ interims < MaxInterims
  /\ sttCh' = Append(sttCh, Event("interim", 0))
  /\ interims' = interims + 1
  /\ midUtterance' = TRUE
  /\ UNCHANGED <<vadCh, vadOpen, vadSpeaking, turns, sttOpen, produced>>
  /\ EnvUnchanged

STTFinal ==
  /\ phase = "running" /\ sttOpen /\ Len(sttCh) < ChanCap
  /\ produced < MaxFinals
  /\ sttCh' = Append(sttCh, Final(produced + 1))
  /\ produced' = produced + 1
  /\ midUtterance' = FALSE
  /\ UNCHANGED <<vadCh, vadOpen, vadSpeaking, turns, sttOpen, interims>>
  /\ EnvUnchanged

\* A stream that ends without Stop: the channel is closed from inside.
VADFails ==
  /\ MayFail /\ phase = "running" /\ stop = "idle"
  /\ vadOpen /\ vadOpen' = FALSE
  /\ UNCHANGED <<vadCh, vadSpeaking, turns, sttCh, sttOpen, midUtterance, produced, interims>>
  /\ EnvUnchanged

STTFails ==
  /\ MayFail /\ phase = "running" /\ stop = "idle"
  /\ sttOpen /\ sttOpen' = FALSE
  /\ UNCHANGED <<vadCh, vadOpen, vadSpeaking, turns, sttCh, midUtterance, produced, interims>>
  /\ EnvUnchanged

(***************************************************************************)
(* The pump goroutine.  A select with several ready cases takes any.       *)
(***************************************************************************)
\* The member returns err; the errgroup keeps the first error.
ReturnError(err) == grpErr' = IF grpErr = "nil" THEN err ELSE grpErr

PumpVAD ==
  /\ pump = "select" /\ HasVAD /\ vadCh # <<>>
  /\ held' = <<Head(vadCh)>> /\ vadCh' = Tail(vadCh)
  /\ pump' = "send"
  /\ UNCHANGED <<phase, vadOpen, vadSpeaking, turns, sttCh, sttOpen, midUtterance,
                 produced, interims, bufferCh, loopVars, grpVars, stopVars>>

PumpSTT ==
  /\ pump = "select" /\ sttCh # <<>>
  /\ held' = <<Head(sttCh)>> /\ sttCh' = Tail(sttCh)
  /\ pump' = "send"
  /\ UNCHANGED <<phase, vadCh, vadOpen, vadSpeaking, turns, sttOpen, midUtterance,
                 produced, interims, bufferCh, loopVars, grpVars, stopVars>>

\* Mutant: the buffer has no bound.
PumpSendUnbounded ==
  /\ pump = "send"
  /\ bufferCh' = bufferCh \o held /\ held' = <<>>
  /\ pump' = "select"
  /\ UNCHANGED <<phase, envVars, loopVars, grpVars, stopVars>>

PumpSend ==
  /\ pump = "send" /\ Len(bufferCh) < BufferSize
  /\ bufferCh' = bufferCh \o held /\ held' = <<>>
  /\ pump' = "select"
  /\ UNCHANGED <<phase, envVars, loopVars, grpVars, stopVars>>

\* Mutant: the end of the VAD's stream goes unnoticed.
PumpClosedMissesVAD ==
  /\ pump = "select"
  /\ ~sttOpen /\ sttCh = <<>> /\ ReturnError("TranscriberStopped")
  /\ pump' = "done"
  /\ UNCHANGED <<phase, envVars, held, bufferCh, loopVars, cancelled, errCh, stopVars>>

PumpClosed ==
  /\ pump = "select"
  /\ \/ HasVAD /\ ~vadOpen /\ vadCh = <<>> /\ ReturnError("VADStopped")
     \/ ~sttOpen /\ sttCh = <<>> /\ ReturnError("TranscriberStopped")
  /\ pump' = "done"
  /\ UNCHANGED <<phase, envVars, held, bufferCh, loopVars, cancelled, errCh, stopVars>>

\* Mutant: the send to bufferCh does not select on the context.
PumpCtxDoneSelecting ==
  /\ pump = "select" /\ GroupDone
  /\ pump' = "done"
  /\ UNCHANGED <<phase, envVars, held, bufferCh, loopVars, grpVars, stopVars>>

\* An event the pump still holds is lost with it.
PumpCtxDone ==
  /\ pump \in {"select", "send"} /\ GroupDone
  /\ pump' = "done"
  /\ UNCHANGED <<phase, envVars, held, bufferCh, loopVars, grpVars, stopVars>>

(***************************************************************************)
(* handleEvent.  A received event updates the locals and lists the         *)
(* callbacks it makes, in order; the loop receives again when they have    *)
(* all returned.                                                           *)
(***************************************************************************)
Receiving(kind) ==
  /\ loop = "receive" /\ calling = <<>>
  /\ bufferCh # <<>> /\ Head(bufferCh).kind = kind
  /\ bufferCh' = Tail(bufferCh)
  /\ UNCHANGED <<phase, envVars, pumpVars, loop, delivered, grpVars, stopVars>>

HandleStart ==
  /\ Receiving("start")
  /\ isSpeaking' = TRUE
  /\ calling' = <<"OnSpeechStart">>
  /\ UNCHANGED <<isTranscribing, transcripts>>

\* Mutant: the end of speech releases nothing.
HandleEndKeeps ==
  /\ Receiving("end")
  /\ isSpeaking' = FALSE
  /\ calling' = <<"OnSpeechEnd">>
  /\ UNCHANGED <<isTranscribing, transcripts>>

HandleEnd ==
  /\ Receiving("end")
  /\ isSpeaking' = FALSE
  /\ calling' = IF ~isTranscribing /\ transcripts # <<>>
                  THEN <<"OnSpeechEnd", "OnSpeechRecognized">>
                  ELSE <<"OnSpeechEnd">>
  /\ UNCHANGED <<isTranscribing, transcripts>>

HandleInterim ==
  /\ Receiving("interim")
  /\ isTranscribing' = TRUE
  /\ calling' = IF isTranscribing THEN <<>> ELSE <<"OnInterim">>
  /\ UNCHANGED <<isSpeaking, transcripts>>

HandleFinal ==
  /\ Receiving("final")
  /\ transcripts' = Append(transcripts, Head(bufferCh).id)
  /\ isTranscribing' = FALSE
  /\ calling' = IF ~HasVAD \/ ~isSpeaking
                  THEN <<"OnSpeechEnd", "OnSpeechRecognized">> ELSE <<>>
  /\ UNCHANGED isSpeaking

\* Mutant: the loop does not forget the transcripts it has handed over.
CallbackReturnsRepeats ==
  /\ loop = "receive" /\ calling # <<>>
  /\ calling' = Tail(calling)
  /\ delivered' = IF Head(calling) = "OnSpeechRecognized"
                    THEN delivered \o transcripts ELSE delivered
  /\ UNCHANGED <<phase, envVars, pumpVars, bufferCh, loop, isSpeaking,
                 isTranscribing, transcripts, grpVars, stopVars>>

\* The first pending callback returns; OnSpeechRecognized was given the kept
\* transcripts and the loop forgets them.
CallbackReturns ==
  /\ loop = "receive" /\ calling # <<>>
  /\ calling' = Tail(calling)
  /\ IF Head(calling) = "OnSpeechRecognized"
       THEN delivered' = delivered \o transcripts /\ transcripts' = <<>>
       ELSE UNCHANGED <<delivered, transcripts>>
  /\ UNCHANGED <<phase, envVars, pumpVars, bufferCh, loop, isSpeaking,
                 isTranscribing, grpVars, stopVars>>

LoopCtxDone ==
  /\ loop = "receive" /\ calling = <<>> /\ GroupDone
  /\ loop' = "done"
  /\ UNCHANGED <<phase, envVars, pumpVars, bufferCh, isSpeaking, isTranscribing,
                 transcripts, calling, delivered, grpVars, stopVars>>

\* The goroutine of Start that reports the end of the group.
ReportEnd ==
  /\ GroupFinished /\ errCh = <<>>
  /\ errCh' = <<grpErr>>
  /\ UNCHANGED <<phase, envVars, pumpVars, bufferCh, loopVars, cancelled, grpErr, stopVars>>

(***************************************************************************)
(* Stop                                                                    *)
(***************************************************************************)
StopUnchanged == UNCHANGED <<phase, pumpVars, bufferCh, loopVars, grpErr, errCh>>

StopCancel ==
  /\ phase = "running" /\ stop = "idle"
  /\ cancelled' = TRUE
  /\ stop' = IF HasVAD THEN "vad" ELSE "stt"
  /\ UNCHANGED <<envVars, stopErrs>> /\ StopUnchanged

\* vad.Stop closes the event channel.
StopVAD ==
  /\ stop = "vad" /\ vadOpen' = FALSE /\ stop' = "stt"
  /\ UNCHANGED <<vadCh, vadSpeaking, turns, sttCh, sttOpen, midUtterance, produced,
                 interims, cancelled, stopErrs>>
  /\ StopUnchanged

\* transcriber.Stop waits for its stream goroutine, which closes the channel.
StopSTT ==
  /\ stop = "stt" /\ sttOpen' = FALSE /\ stop' = "wait"
  /\ UNCHANGED <<vadCh, vadOpen, vadSpeaking, turns, sttCh, midUtterance, produced,
                 interims, cancelled, stopErrs>>
  /\ StopUnchanged

\* Mutant: Stop does not wait for the group.
StopWaitedForNothing ==
  /\ stop = "wait"
  /\ stopErrs' = stopErrs \cup ({grpErr} \ {"nil"})
  /\ stop' = "done"
  /\ UNCHANGED <<envVars, cancelled>> /\ StopUnchanged

StopWaited ==
  /\ stop = "wait" /\ GroupFinished
  /\ stopErrs' = stopErrs \cup ({grpErr} \ {"nil"})
  /\ stop' = "done"
  /\ UNCHANGED <<envVars, cancelled>> /\ StopUnchanged

\* The caller's context ends first.
StopTimeout ==
  /\ stop = "wait"
  /\ stopErrs' = stopErrs \cup {"DeadlineExceeded"}
  /\ stop' = "done"
  /\ UNCHANGED <<envVars, cancelled>> /\ StopUnchanged

Terminated ==
  /\ \/ phase \in {"vadFailed", "transcriberFailed"}
     \/ stop = "done" /\ errCh # <<>>
  /\ UNCHANGED vars

Environment == VADEmit \/ STTInterim \/ STTFinal \/ VADFails \/ STTFails
Pump == PumpVAD \/ PumpSTT \/ PumpSend \/ PumpClosed \/ PumpCtxDone
Loop == \/ HandleStart \/ HandleEnd \/ HandleInterim \/ HandleFinal
        \/ CallbackReturns \/ LoopCtxDone
Stop == StopCancel \/ StopVAD \/ StopSTT \/ StopWaited \/ StopTimeout

Next == Start \/ Environment \/ Pump \/ Loop \/ ReportEnd \/ Stop \/ Terminated

Spec == Init /\ [][Next]_vars

\* The scheduler runs every goroutine that can run, the callbacks return, and a
\* Stop that has begun goes on.  Nothing makes the speaker speak, a stream fail,
\* the caller call Stop, or a deadline expire.
Fairness ==
  /\ WF_vars(Pump) /\ WF_vars(Loop) /\ WF_vars(ReportEnd)
  /\ WF_vars(StopVAD \/ StopSTT \/ StopWaited)

FairSpec == Spec /\ Fairness

(***************************************************************************)
(* Properties                                                              *)
(***************************************************************************)
EnvTypeOK ==
  /\ vadCh \in Seq(Events) /\ Len(vadCh) <= ChanCap
  /\ sttCh \in Seq(Events) /\ Len(sttCh) <= ChanCap
  /\ vadOpen \in BOOLEAN /\ sttOpen \in BOOLEAN
  /\ vadSpeaking \in BOOLEAN /\ midUtterance \in BOOLEAN
  /\ turns \in Nat /\ produced \in Nat /\ interims \in Nat

PumpTypeOK ==
  /\ pump \in {"off", "select", "send", "done"}
  /\ held \in Seq(Events) /\ Len(held) <= 1
  /\ pump = "send" => held # <<>>
  /\ pump \in {"off", "select"} => held = <<>>
  /\ phase = "new" => pump = "off"

LoopTypeOK ==
  /\ loop \in {"off", "receive", "done"}
  /\ isSpeaking \in BOOLEAN /\ isTranscribing \in BOOLEAN
  /\ transcripts \in Seq(Nat) /\ delivered \in Seq(Nat)
  /\ calling \in Seq(Callbacks)

ControlTypeOK ==
  /\ phase \in {"new", "running", "vadFailed", "transcriberFailed"}
  /\ cancelled \in BOOLEAN /\ grpErr \in Errors \cup {"nil"}
  /\ errCh \in Seq(Errors \cup {"nil"}) /\ Len(errCh) <= 1
  /\ stop \in {"idle", "vad", "stt", "wait", "done"}
  /\ stopErrs \in SUBSET Errors

\* Type invariant of the recognizer's state, with the capacities of its channels.
TypeOK ==
  /\ EnvTypeOK /\ PumpTypeOK /\ LoopTypeOK /\ ControlTypeOK
  /\ bufferCh \in Seq(Events) /\ Len(bufferCh) <= BufferSize

\* Between two events the loop keeps transcripts back only while the speaker is
\* speaking or an utterance is still being transcribed: whichever of the two
\* ends last releases them, in whatever order select merged the streams.
NoStrandedTranscripts ==
  transcripts # <<>> => isSpeaking \/ isTranscribing \/ calling # <<>>

\* The inductive form: a batch about to be released is released by the last callback.
ReleasePending ==
  transcripts # <<>> =>
    \/ isSpeaking \/ isTranscribing
    \/ calling # <<>> /\ calling[Len(calling)] = "OnSpeechRecognized"

\* Once Stop has returned without its deadline, no callback is running and none
\* can start: the agent may release what its handler uses.
QuietAfterStop ==
  stop = "done" /\ "DeadlineExceeded" \notin stopErrs =>
    GroupFinished /\ calling = <<>>

\* Its inductive form: the loop ends between callbacks and stays ended.
StopWaitsForGroup ==
  /\ loop = "done" => calling = <<>>
  /\ stop = "done" /\ "DeadlineExceeded" \notin stopErrs => GroupFinished

\* The abstract queue: each final transcript is delivered once, in order.
Utterances == INSTANCE UtteranceQueue WITH produced <- produced, delivered <- delivered
DeliversUtterances == Utterances!Spec

\* The events between the transcriber and the loop, in the order the loop will
\* receive the final ones.  A pump that ended keeps the event it lost in held.
Pipeline == bufferCh \o held \o sttCh
Handled == Len(delivered) + Len(transcripts)

\* The final events of q are Final(lo + 1), ..., Final(hi), each once and in order.
FinalsAre(q, lo, hi) ==
  /\ \A i, j \in 1 .. Len(q) : i < j /\ IsFinal(q[i]) /\ IsFinal(q[j]) => q[i].id < q[j].id
  /\ \A i \in 1 .. Len(q) : IsFinal(q[i]) => q[i].id \in lo + 1 .. hi
  /\ \A n \in lo + 1 .. hi : \E i \in 1 .. Len(q) : q[i] = Final(n)

\* Why the queue is implemented: the final transcripts in the pipeline are exactly
\* those not handled yet, in order, and those handled are numbered consecutively.
PipelineInv ==
  /\ FinalsAre(Pipeline, Handled, produced)
  /\ Handled <= produced
  /\ \A i \in 1 .. Len(delivered) : delivered[i] = i
  /\ \A i \in 1 .. Len(transcripts) : transcripts[i] = Len(delivered) + i
  /\ \A i \in 1 .. Len(vadCh) : ~IsFinal(vadCh[i])

\* A final transcript is eventually handed over, unless the recognizer ends, the
\* speaker goes on speaking or the transcriber leaves an utterance unfinished.
EventuallyRecognized ==
  \A n \in 1 .. MaxFinals :
    produced >= n ~> Len(delivered) >= n \/ GroupDone \/ vadSpeaking \/ midUtterance

\* A stream that ends by itself reaches the owner through Err, so that the agent
\* does not go on deaf.
FailureReported ==
  (phase = "running" /\ stop = "idle" /\ (~sttOpen \/ (HasVAD /\ ~vadOpen))) ~> errCh # <<>>

\* Stop returns, whatever the pump and the loop were blocked on.
StopReturns == cancelled ~> stop = "done"
=============================================================================
