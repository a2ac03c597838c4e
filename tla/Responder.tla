------------------------------ MODULE Responder ------------------------------
(***************************************************************************)
(* dialog.Responder with the callbacks of voice.recognitionHandler that    *)
(* drive it: who may have a response created, cancelled and waited for.    *)
(*                                                                         *)
(* CancelResponse is run by several goroutines: the recognizer's event     *)
(* loop ("handler"), the AfterFunc goroutines of interrupt timers, the     *)
(* goroutine that calls IceBreaking ("ice") and the one in Close           *)
(* ("closer").  Each has its own program counter and its own copies of the *)
(* cancel function and wait group it took, between which the others run.   *)
(* A response is named by a number, and so are its context, its wait group *)
(* and its mixerIn channel; 0 is nil.                                      *)
(*                                                                         *)
(* Of the five goroutines of a response, the brain, the synthesizer and    *)
(* forwardSynthToMixer are here; the two that move tokens, which may block *)
(* on a subscriber and end with the context, count as the brain's.  Of the *)
(* mixer, the speech source, the command channel and the blocking send of  *)
(* a frame are here.                                                       *)
(***************************************************************************)
EXTENDS Naturals, Sequences

CONSTANTS
  Creators,            \* who creates responses: a subset of {"handler", "ice"}
  Timers,              \* interrupt timers alive at once; {}: no minInterruptDuration
  InterruptOnInterim,  \* BOOLEAN
  MayClose,            \* BOOLEAN: Close may be called
  MaxResponses,        \* bound: responses begun
  CmdCap, InCap, OutCap   \* capacities of cmdCh, mixerIn, and of mixerOut with
                       \* the frame consumeAudios holds

ASSUME CreatorsAssumption == Creators \subseteq {"handler", "ice"}
ASSUME TimersAssumption == Timers \cap {"handler", "ice", "closer", "nil"} = {}
ASSUME FlagsAssumption == InterruptOnInterim \in BOOLEAN /\ MayClose \in BOOLEAN
ASSUME BoundsAssumption ==
  /\ MaxResponses \in Nat /\ CmdCap \in Nat \ {0}
  /\ InCap \in Nat \ {0} /\ OutCap \in Nat \ {0}

Responses == 1 .. MaxResponses
Procs == {"handler", "ice", "closer"} \cup Timers

VARIABLES
  \* Responder
  cancelResp, respWg, interruptible,
  rClosed,       \* Responder.ctx is cancelled
  \* recognitionHandler.interruptTimer: "nil" or a timer
  interruptTimer,
  \* the goroutines in CancelResponse, Respond, IceBreaking and Close
  pc,
  gotCancel,     \* CancelResponse: its local cancel
  gotWg,         \* CancelResponse: its local wg
  next,          \* the response the goroutine is creating, 0 when only cancelling
  begun,         \* how many responses have been begun
  expired,       \* the deadline of Close has passed
  closeErr,      \* Close has a deadline error to return
  \* the responses
  ctx,           \* their contexts
  brain, synth, fwd,
  announced,     \* forwardSynthToMixer: ~first
  inCh,          \* frames in mixerIn
  \* the mixer and consumeAudios
  mixClosed, mix, cmdCh, source, out, consumer

respVars   == <<cancelResp, respWg, rClosed>>
procVars   == <<pc, gotCancel, gotWg, next, begun, interruptTimer>>
closeVars  == <<expired, closeErr>>
streamVars == <<brain, synth, fwd, announced, inCh>>
mixVars    == <<mixClosed, mix, source, out, consumer>>
vars == <<respVars, interruptible, procVars, closeVars, ctx, streamVars, cmdCh, mixVars>>

Init ==
  /\ cancelResp = 0 /\ respWg = 0 /\ interruptible = TRUE /\ rClosed = FALSE
  /\ interruptTimer = "nil"
  /\ pc = [p \in Procs |-> "idle"]
  /\ gotCancel = [p \in Procs |-> 0] /\ gotWg = [p \in Procs |-> 0]
  /\ next = [p \in Procs |-> 0] /\ begun = 0
  /\ expired = FALSE /\ closeErr = FALSE
  /\ ctx = [k \in Responses |-> "none"]
  /\ brain = [k \in Responses |-> "none"] /\ synth = [k \in Responses |-> "none"]
  /\ fwd = [k \in Responses |-> "none"]
  /\ announced = [k \in Responses |-> FALSE] /\ inCh = [k \in Responses |-> 0]
  /\ mixClosed = FALSE /\ mix = "loop" /\ cmdCh = <<>> /\ source = 0
  /\ out = 0 /\ consumer = "run"

\* The wait group of response k has reached zero.
Finished(k) == brain[k] = "done" /\ synth[k] = "done" /\ fwd[k] = "done"

Goto(p, l) == pc' = [pc EXCEPT ![p] = l]

\* Mutants: a command channel without a bound, and one without a buffer.
SetSpeechSourceUnbounded(k) == cmdCh' = Append(cmdCh, k)

SetSpeechSourceUnbuffered(k) ==
  \/ cmdCh = <<>> /\ cmdCh' = <<k>>
  \/ mixClosed /\ UNCHANGED cmdCh

\* mixer.SetSpeechSource: blocks while cmdCh is full and the mixer is not closed.
SetSpeechSource(k) ==
  \/ Len(cmdCh) < CmdCap /\ cmdCh' = Append(cmdCh, k)
  \/ mixClosed /\ UNCHANGED cmdCh

(***************************************************************************)
(* CancelResponse                                                          *)
(***************************************************************************)
\* Mutant: without a cancel function there is nothing to wait for.
TakeResponseEarlyReturn(p) ==
  /\ pc[p] = "take"
  /\ gotCancel' = [gotCancel EXCEPT ![p] = cancelResp]
  /\ gotWg' = [gotWg EXCEPT ![p] = IF cancelResp = 0 THEN 0 ELSE respWg]
  /\ cancelResp' = 0 /\ respWg' = 0
  /\ Goto(p, "cancel")
  /\ UNCHANGED <<rClosed, interruptible, next, begun, interruptTimer, closeVars, ctx,
                 streamVars, cmdCh, mixVars>>

\* The critical section: the fields are taken and cleared.
TakeResponse(p) ==
  /\ pc[p] = "take"
  /\ gotCancel' = [gotCancel EXCEPT ![p] = cancelResp]
  /\ gotWg' = [gotWg EXCEPT ![p] = respWg]
  /\ cancelResp' = 0 /\ respWg' = 0
  /\ Goto(p, "cancel")
  /\ UNCHANGED <<rClosed, interruptible, next, begun, interruptTimer, closeVars, ctx,
                 streamVars, cmdCh, mixVars>>

\* Mutant: a response whose wait group is not stored yet is not cancelled.
CancelContextNeedsWg(p) ==
  /\ pc[p] = "cancel"
  /\ IF gotCancel[p] = 0 \/ gotWg[p] = 0
       THEN Goto(p, "wait") /\ UNCHANGED ctx
       ELSE Goto(p, "mute") /\ ctx' = [ctx EXCEPT ![gotCancel[p]] = "done"]
  /\ gotCancel' = [gotCancel EXCEPT ![p] = 0]
  /\ UNCHANGED <<respVars, interruptible, gotWg, next, begun, interruptTimer, closeVars,
                 streamVars, cmdCh, mixVars>>

CancelContext(p) ==
  /\ pc[p] = "cancel"
  /\ IF gotCancel[p] = 0
       THEN Goto(p, "wait") /\ UNCHANGED ctx
       ELSE Goto(p, "mute") /\ ctx' = [ctx EXCEPT ![gotCancel[p]] = "done"]
  /\ gotCancel' = [gotCancel EXCEPT ![p] = 0]
  /\ UNCHANGED <<respVars, interruptible, gotWg, next, begun, interruptTimer, closeVars,
                 streamVars, cmdCh, mixVars>>

MuteMixer(p) ==
  /\ pc[p] = "mute"
  /\ SetSpeechSource(0)
  /\ Goto(p, "wait")
  /\ UNCHANGED <<respVars, interruptible, gotCancel, gotWg, next, begun, interruptTimer,
                 closeVars, ctx, streamVars, mixVars>>

\* Mutant: CancelResponse only cancels.
AwaitResponseNot(p) ==
  /\ pc[p] = "wait"
  /\ gotWg' = [gotWg EXCEPT ![p] = 0]
  /\ Goto(p, IF next[p] # 0 THEN "create" ELSE IF p = "closer" THEN "closeMixer" ELSE "idle")
  /\ UNCHANGED <<respVars, interruptible, gotCancel, next, begun, interruptTimer, closeVars,
                 ctx, streamVars, cmdCh, mixVars>>

\* Only Close gives CancelResponse a context that ends.
AwaitResponse(p) ==
  /\ pc[p] = "wait"
  /\ \/ (gotWg[p] # 0 => Finished(gotWg[p])) /\ UNCHANGED closeErr
     \/ p = "closer" /\ expired /\ gotWg[p] # 0 /\ closeErr' = TRUE
  /\ gotWg' = [gotWg EXCEPT ![p] = 0]
  /\ Goto(p, IF next[p] # 0 THEN "create" ELSE IF p = "closer" THEN "closeMixer" ELSE "idle")
  /\ UNCHANGED <<respVars, interruptible, gotCancel, next, begun, interruptTimer, expired,
                 ctx, streamVars, cmdCh, mixVars>>

(***************************************************************************)
(* Respond and IceBreaking, after their CancelResponse                     *)
(***************************************************************************)
CreateContext(p) ==
  /\ pc[p] = "create"
  /\ ctx' = [ctx EXCEPT ![next[p]] = "live"]
  /\ cancelResp' = next[p]
  /\ Goto(p, IF p = "handler" THEN "prompt" ELSE "generate")
  /\ UNCHANGED <<respWg, rClosed, interruptible, gotCancel, gotWg, next, begun,
                 interruptTimer, closeVars, streamVars, cmdCh, mixVars>>

\* Respond sends the prompt to its subscribers, and returns if the response is
\* cancelled meanwhile.
SendPrompt(p) ==
  /\ pc[p] = "prompt"
  /\ \/ Goto(p, "generate") /\ UNCHANGED next
     \/ ctx[next[p]] = "done" /\ Goto(p, "idle") /\ next' = [next EXCEPT ![p] = 0]
  /\ UNCHANGED <<respVars, interruptible, gotCancel, gotWg, begun, interruptTimer, closeVars,
                 ctx, streamVars, cmdCh, mixVars>>

Generate(p) ==
  /\ pc[p] = "generate"
  /\ interruptible' = TRUE
  /\ brain' = [brain EXCEPT ![next[p]] = "run"]
  /\ synth' = [synth EXCEPT ![next[p]] = "run"]
  /\ fwd' = [fwd EXCEPT ![next[p]] = "receive"]
  /\ Goto(p, "store")
  /\ UNCHANGED <<respVars, gotCancel, gotWg, next, begun, interruptTimer, closeVars, ctx,
                 announced, inCh, cmdCh, mixVars>>

StoreWaitGroup(p) ==
  /\ pc[p] = "store"
  /\ respWg' = next[p]
  /\ next' = [next EXCEPT ![p] = 0]
  /\ Goto(p, "idle")
  /\ UNCHANGED <<cancelResp, rClosed, interruptible, gotCancel, gotWg, begun, interruptTimer,
                 closeVars, ctx, streamVars, cmdCh, mixVars>>

(***************************************************************************)
(* The recognition handler's callbacks, all on the event loop's goroutine  *)
(***************************************************************************)
\* stopInterruptTimer, then pcs: a timer that has fired is not stopped.
WithTimerStopped(new) ==
  pc' = [p \in Procs |-> IF p \in DOMAIN new THEN new[p]
                         ELSE IF p = interruptTimer /\ pc[p] = "armed" THEN "idle" ELSE pc[p]]

CallbackUnchanged ==
  UNCHANGED <<respVars, interruptible, gotCancel, gotWg, closeVars, ctx, streamVars, cmdCh,
              mixVars>>

OnSpeechStart ==
  /\ pc["handler"] = "idle" /\ interruptible
  /\ IF Timers = {}
       THEN Goto("handler", "take") /\ UNCHANGED interruptTimer
       ELSE \E t \in Timers :
              /\ pc[t] = "idle" \/ (pc[t] = "armed" /\ t = interruptTimer)
              /\ interruptTimer' = t
              /\ WithTimerStopped([p \in {t} |-> "armed"])
  /\ UNCHANGED <<next, begun>>
  /\ CallbackUnchanged

OnInterim ==
  /\ pc["handler"] = "idle" /\ interruptible /\ InterruptOnInterim
  /\ Goto("handler", "take")
  /\ UNCHANGED <<next, begun, interruptTimer>>
  /\ CallbackUnchanged

OnSpeechEnd ==
  /\ pc["handler"] = "idle" /\ interruptTimer # "nil"
  /\ WithTimerStopped(<<>>)
  /\ interruptTimer' = "nil"
  /\ UNCHANGED <<next, begun>>
  /\ CallbackUnchanged

\* Respond with a prompt that is not blank.
OnSpeechRecognized ==
  /\ pc["handler"] = "idle" /\ interruptible /\ "handler" \in Creators
  /\ begun < MaxResponses
  /\ WithTimerStopped([p \in {"handler"} |-> "take"])
  /\ interruptTimer' = "nil"
  /\ next' = [next EXCEPT !["handler"] = begun + 1]
  /\ begun' = begun + 1
  /\ CallbackUnchanged

\* The AfterFunc goroutine of an interrupt timer starts.
TimerFires(t) ==
  /\ pc[t] = "armed"
  /\ Goto(t, "take")
  /\ UNCHANGED <<next, begun, interruptTimer>>
  /\ CallbackUnchanged

IceBreaking ==
  /\ pc["ice"] = "idle" /\ "ice" \in Creators
  /\ begun < MaxResponses
  /\ Goto("ice", "take")
  /\ next' = [next EXCEPT !["ice"] = begun + 1]
  /\ begun' = begun + 1
  /\ UNCHANGED interruptTimer
  /\ CallbackUnchanged

(***************************************************************************)
(* Close: cancel, CancelResponse, mixer.Close, synthesizer.Close, wait     *)
(***************************************************************************)
Close ==
  /\ MayClose /\ pc["closer"] = "idle"
  /\ rClosed' = TRUE
  /\ Goto("closer", "take")
  /\ UNCHANGED <<cancelResp, respWg, interruptible, gotCancel, gotWg, next, begun,
                 interruptTimer, closeVars, ctx, streamVars, cmdCh, mixVars>>

CloseMixer ==
  /\ pc["closer"] = "closeMixer"
  /\ mixClosed' = TRUE
  /\ Goto("closer", "waitMixer")
  /\ UNCHANGED <<respVars, interruptible, gotCancel, gotWg, next, begun, interruptTimer,
                 closeVars, ctx, streamVars, cmdCh, mix, source, out, consumer>>

\* mixer.Close waits for Run, Close for Run and consumeAudios.
CloseWaits ==
  /\ \/ /\ pc["closer"] = "waitMixer" /\ Goto("closer", "waitAll")
        /\ \/ mix = "done" /\ UNCHANGED closeErr
           \/ expired /\ closeErr' = TRUE
     \/ /\ pc["closer"] = "waitAll" /\ Goto("closer", "closed")
        /\ \/ mix = "done" /\ consumer = "done" /\ UNCHANGED closeErr
           \/ expired /\ closeErr' = TRUE
  /\ UNCHANGED <<respVars, interruptible, gotCancel, gotWg, next, begun, interruptTimer,
                 expired, ctx, streamVars, cmdCh, mixVars>>

DeadlinePasses ==
  /\ pc["closer"] \notin {"idle", "closed"}
  /\ ~expired /\ expired' = TRUE
  /\ UNCHANGED <<respVars, interruptible, procVars, closeErr, ctx, streamVars, cmdCh, mixVars>>

(***************************************************************************)
(* The goroutines of a response                                            *)
(***************************************************************************)
StreamUnchanged ==
  UNCHANGED <<respVars, procVars, closeVars, ctx, mixVars>>

\* Tools.SetInterruptible, called by a brain from Generate whenever it likes.
SetInterruptible(k) ==
  /\ brain[k] = "run"
  /\ interruptible' \in BOOLEAN
  /\ UNCHANGED <<streamVars, cmdCh>> /\ StreamUnchanged

BrainReturns(k) ==
  /\ brain[k] = "run"
  /\ brain' = [brain EXCEPT ![k] = "done"]
  /\ UNCHANGED <<interruptible, synth, fwd, announced, inCh, cmdCh>> /\ StreamUnchanged

\* Mutant: interruptible is not restored.
SynthReturnsDeaf(k) ==
  /\ synth[k] = "run"
  /\ synth' = [synth EXCEPT ![k] = "done"]
  /\ UNCHANGED <<interruptible, brain, fwd, announced, inCh, cmdCh>> /\ StreamUnchanged

\* Synthesize returns: the tokens have ended, it failed, or the context is done.
SynthReturns(k) ==
  /\ synth[k] = "run"
  /\ synth' = [synth EXCEPT ![k] = "done"]
  /\ interruptible' = TRUE
  /\ UNCHANGED <<brain, fwd, announced, inCh, cmdCh>> /\ StreamUnchanged

\* forwardSynthToMixer receives a frame, and announces its source with the first.
\* synthOut may still hold frames when Synthesize has returned.
ForwardFrame(k) ==
  /\ fwd[k] = "receive"
  /\ fwd' = [fwd EXCEPT ![k] = IF ctx[k] = "done" THEN "done"
                               ELSE IF announced[k] THEN "send" ELSE "announce"]
  /\ UNCHANGED <<interruptible, brain, synth, announced, inCh, cmdCh>> /\ StreamUnchanged

ForwardAnnounce(k) ==
  /\ fwd[k] = "announce"
  /\ SetSpeechSource(k)
  /\ announced' = [announced EXCEPT ![k] = TRUE]
  /\ fwd' = [fwd EXCEPT ![k] = "send"]
  /\ UNCHANGED <<interruptible, brain, synth, inCh>> /\ StreamUnchanged

ForwardSend(k) ==
  /\ fwd[k] = "send"
  /\ \/ /\ inCh[k] < InCap
        /\ inCh' = [inCh EXCEPT ![k] = @ + 1]
        /\ fwd' = [fwd EXCEPT ![k] = "receive"]
     \/ ctx[k] = "done" /\ fwd' = [fwd EXCEPT ![k] = "done"] /\ UNCHANGED inCh
  /\ UNCHANGED <<interruptible, brain, synth, announced, cmdCh>> /\ StreamUnchanged

\* synthOut is closed and drained.
ForwardEnds(k) ==
  /\ fwd[k] = "receive" /\ synth[k] = "done"
  /\ fwd' = [fwd EXCEPT ![k] = "done"]
  /\ UNCHANGED <<interruptible, brain, synth, announced, inCh, cmdCh>> /\ StreamUnchanged

(***************************************************************************)
(* The mixer and consumeAudios.  Samples left over from a source and       *)
(* background tracks let the mixer emit frames at any tick.                *)
(***************************************************************************)
MixerUnchanged ==
  UNCHANGED <<respVars, interruptible, procVars, closeVars, ctx, brain, synth, fwd, announced,
              mixClosed>>

MixerIdle ==
  /\ mix = "loop" /\ ~mixClosed /\ source = 0
  /\ cmdCh # <<>>
  /\ source' = Head(cmdCh) /\ cmdCh' = Tail(cmdCh)
  /\ UNCHANGED <<mix, out, consumer, inCh>>
  /\ MixerUnchanged

\* Mutants: the oldest command wins; a closed source is kept.
MixerTickOldest ==
  /\ mix = "loop" /\ ~mixClosed
  /\ inCh' = [k \in Responses |-> IF k = source THEN 0 ELSE inCh[k]]
  /\ IF cmdCh # <<>>
       THEN source' = cmdCh[1]
       ELSE source' = IF source # 0 /\ fwd[source] = "done" THEN 0 ELSE source
  /\ cmdCh' = <<>>
  /\ mix' = "send" \/ (source' = 0 /\ mix' = "loop")
  /\ UNCHANGED <<out, consumer>>
  /\ MixerUnchanged

MixerTickKeeps ==
  /\ mix = "loop" /\ ~mixClosed
  /\ inCh' = [k \in Responses |-> IF k = source THEN 0 ELSE inCh[k]]
  /\ source' = IF cmdCh # <<>> THEN cmdCh[Len(cmdCh)] ELSE source
  /\ cmdCh' = <<>>
  /\ mix' = "send" \/ (source' = 0 /\ mix' = "loop")
  /\ UNCHANGED <<out, consumer>>
  /\ MixerUnchanged

\* A tick: drain the source, then the commands, then emit a frame, if there are samples
\* left or a source or a track is playing.
MixerTick ==
  /\ mix = "loop" /\ ~mixClosed
  /\ inCh' = [k \in Responses |-> IF k = source THEN 0 ELSE inCh[k]]
  /\ IF cmdCh # <<>>
       THEN source' = cmdCh[Len(cmdCh)]
       ELSE source' = IF source # 0 /\ fwd[source] = "done" THEN 0 ELSE source
  /\ cmdCh' = <<>>
  /\ mix' = "send" \/ (source' = 0 /\ mix' = "loop")
  /\ UNCHANGED <<out, consumer>>
  /\ MixerUnchanged

MixerSend ==
  /\ mix = "send" /\ mix' = "loop"
  /\ \/ out < OutCap /\ out' = out + 1
     \/ mixClosed /\ UNCHANGED out
  /\ UNCHANGED <<source, consumer, inCh, cmdCh>>
  /\ MixerUnchanged

MixerEnds ==
  /\ mix = "loop" /\ mixClosed /\ mix' = "done"
  /\ UNCHANGED <<source, out, consumer, inCh, cmdCh>>
  /\ MixerUnchanged

\* consumeAudios ends: with a frame in hand when Responder.ctx is cancelled, or when
\* mixerOut is closed and drained.
ConsumerEnds ==
  /\ consumer = "run" /\ consumer' = "done"
  /\ (out > 0 /\ rClosed) \/ (out = 0 /\ mix = "done")
  /\ UNCHANGED <<mix, source, out, inCh, cmdCh>>
  /\ MixerUnchanged

\* An audio subscriber takes the next frame consumeAudios has for it.
SubscriberReads ==
  /\ consumer = "run" /\ out > 0 /\ out' = out - 1
  /\ UNCHANGED <<mix, source, consumer, inCh, cmdCh>>
  /\ MixerUnchanged

CancelSteps(p) == TakeResponse(p) \/ CancelContext(p) \/ MuteMixer(p) \/ AwaitResponse(p)
CreateSteps(p) == CreateContext(p) \/ SendPrompt(p) \/ Generate(p) \/ StoreWaitGroup(p)
Callbacks == OnSpeechStart \/ OnInterim \/ OnSpeechEnd \/ OnSpeechRecognized
ForwardSteps(k) == ForwardFrame(k) \/ ForwardAnnounce(k) \/ ForwardSend(k) \/ ForwardEnds(k)
ResponseSteps(k) == SetInterruptible(k) \/ BrainReturns(k) \/ SynthReturns(k) \/ ForwardSteps(k)
MixerSteps == MixerIdle \/ MixerTick \/ MixerSend \/ MixerEnds
CloseSteps == CloseMixer \/ CloseWaits

Next ==
  \/ \E p \in Procs : CancelSteps(p) \/ CreateSteps(p)
  \/ Callbacks \/ IceBreaking \/ \E t \in Timers : TimerFires(t)
  \/ \E k \in Responses : ResponseSteps(k)
  \/ MixerSteps \/ ConsumerEnds \/ SubscriberReads
  \/ Close \/ CloseSteps \/ DeadlinePasses

Spec == Init /\ [][Next]_vars

\* Every goroutine that can run does; a brain and a synthesizer return once their
\* context is done.  No other frame need come from a synthesizer, and the user, a timer,
\* Close and its deadline need not happen.
RunsFairly ==
  /\ \A p \in Procs : WF_vars(CancelSteps(p) \/ CreateSteps(p))
  /\ \A k \in Responses :
       /\ WF_vars(ctx[k] = "done" /\ (BrainReturns(k) \/ SynthReturns(k)))
       /\ WF_vars(ForwardAnnounce(k) \/ ForwardSend(k) \/ ForwardEnds(k))
  /\ WF_vars(MixerSteps) /\ WF_vars(ConsumerEnds) /\ WF_vars(CloseSteps)

\* The audio subscribers keep reading, and so do those of prompts (SendPrompt).
FairSpec == Spec /\ RunsFairly /\ WF_vars(SubscriberReads)

\* They may stop reading, but the deadline of a Close passes.
StalledSpec == Spec /\ RunsFairly /\ WF_vars(DeadlinePasses)

(***************************************************************************)
(* Properties                                                              *)
(***************************************************************************)
Locations == {"idle", "armed", "take", "cancel", "mute", "wait", "create", "prompt", "generate",
              "store", "closeMixer", "waitMixer", "waitAll", "closed"}

ProcTypeOK ==
  /\ cancelResp \in 0 .. MaxResponses /\ respWg \in 0 .. MaxResponses
  /\ interruptTimer \in Timers \cup {"nil"}
  /\ pc \in [Procs -> Locations]
  /\ gotCancel \in [Procs -> 0 .. MaxResponses] /\ gotWg \in [Procs -> 0 .. MaxResponses]
  /\ next \in [Procs -> 0 .. MaxResponses] /\ begun \in 0 .. MaxResponses

StreamTypeOK ==
  /\ ctx \in [Responses -> {"none", "live", "done"}]
  /\ brain \in [Responses -> {"none", "run", "done"}]
  /\ synth \in [Responses -> {"none", "run", "done"}]
  /\ fwd \in [Responses -> {"none", "receive", "announce", "send", "done"}]
  /\ announced \in [Responses -> BOOLEAN]
  /\ inCh \in [Responses -> 0 .. InCap]

MixerTypeOK ==
  /\ mix \in {"loop", "send", "done"} /\ consumer \in {"run", "done"}
  /\ cmdCh \in Seq(0 .. MaxResponses) /\ Len(cmdCh) <= CmdCap
  /\ source \in 0 .. MaxResponses /\ out \in 0 .. OutCap

FlagTypeOK ==
  /\ interruptible \in BOOLEAN /\ rClosed \in BOOLEAN
  /\ expired \in BOOLEAN /\ closeErr \in BOOLEAN
  /\ mixClosed \in BOOLEAN

\* Only the goroutines that create responses get past CancelResponse into creating one.
CreationOK ==
  \A p \in Procs :
    /\ pc[p] \in {"create", "prompt", "generate", "store"} => next[p] # 0
    /\ next[p] # 0 => p \in Creators

\* Type invariant, with the capacities of the channels.
TypeOK == ProcTypeOK /\ StreamTypeOK /\ MixerTypeOK /\ FlagTypeOK /\ CreationOK

\* The speech source the mixer will have when it has read its commands.
PendingSource == IF cmdCh = <<>> THEN source ELSE cmdCh[Len(cmdCh)]

\* A response that has not been cancelled can be: its cancel function is in
\* cancelResp, or a CancelResponse has taken it and is about to call it.
NoOrphanedResponse ==
  \A k \in Responses :
    ctx[k] = "live" => cancelResp = k \/ \E p \in Procs : gotCancel[p] = k

\* The goroutines of a response are waited for: its wait group is in respWg, or a
\* CancelResponse waits for it, or the goroutine that started them has still to
\* store it.  Only the deadline of Close abandons them.
GoroutinesAwaited ==
  \A k \in Responses :
    fwd[k] # "none" /\ ~Finished(k) =>
      \/ respWg = k \/ closeErr
      \/ \E p \in Procs : gotWg[p] = k \/ (pc[p] = "store" /\ next[p] = k)

\* Whatever a CancelResponse waits for has been cancelled, or is about to be by the
\* goroutine that took its cancel function: no wait depends on a response that would
\* have to end by itself.
AwaitedIsCancelled ==
  \A p \in Procs :
    gotWg[p] # 0 => ctx[gotWg[p]] = "done" \/ \E q \in Procs : gotCancel[q] = gotWg[p]

\* What makes these three inductive.  Only the goroutine that creates a response sets
\* cancelResp and respWg, and it begins by clearing both: if there is one such
\* goroutine, whatever the timers and Close do, it overwrites nothing.
OneCreator == \A p, q \in Creators : p = q

\* A goroutine holds what it took only inside CancelResponse, so taking loses nothing.
HoldsWhileCancelling ==
  \A p \in Procs :
    /\ gotCancel[p] # 0 => pc[p] = "cancel"
    /\ gotWg[p] # 0 => pc[p] \in {"cancel", "mute", "wait"}
    /\ next[p] # 0 => pc[p] \in {"take", "cancel", "mute", "wait", "create",
                                "prompt", "generate", "store"}

\* A response has a context from CreateContext on, and only then is it known to others.
ContextsAreFresh ==
  /\ \A k \in Responses : ctx[k] # "none" => k <= begun
  /\ \A p \in Procs : next[p] <= begun
  /\ \A p \in Procs : next[p] # 0 =>
       (ctx[next[p]] # "none" <=> pc[p] \in {"prompt", "generate", "store"})
  /\ \A k \in Responses :
       cancelResp = k \/ respWg = k \/ (\E p \in Procs : gotCancel[p] = k \/ gotWg[p] = k)
         => ctx[k] # "none"

\* Between clearing the fields and setting them the creator finds them cleared.
FieldsAreClear ==
  \A p \in Procs : next[p] # 0 =>
    /\ pc[p] \in {"cancel", "mute", "wait", "create"} => cancelResp = 0
    /\ pc[p] # "take" => respWg = 0

Ownership ==
  /\ HoldsWhileCancelling /\ ContextsAreFresh /\ FieldsAreClear
  /\ NoOrphanedResponse /\ GoroutinesAwaited /\ AwaitedIsCancelled

\* A response is created only when every goroutine of the earlier ones has returned: two
\* responses never speak, or use the synthesizer, at once.  The exceptions are a response
\* that a timer or Close has taken, which the next one does not wait for although the
\* taker still does, and one that Close has given up.
OneAtATime ==
  \A j, k \in Responses :
    j < k /\ ctx[k] # "none" =>
      \/ fwd[j] = "none" \/ Finished(j) \/ closeErr
      \/ \E p \in Procs \ Creators : gotWg[p] = j

\* What makes it inductive: what the responder, or its creator, has to wait for is the
\* last response that has a context.
LastIsAwaited ==
  /\ \A p \in Procs : next[p] # 0 => next[p] = begun
  /\ \A k \in Responses : ctx[k] # "none" =>
       /\ respWg # 0 => k <= respWg
       /\ \A p \in Creators : gotWg[p] # 0 => k <= gotWg[p]

\* A response that is speaking and was not cancelled is the one the mixer plays.
SpeakerIsHeard ==
  \A k \in Responses :
    ctx[k] = "live" /\ announced[k] /\ fwd[k] # "done" /\ ~mixClosed => PendingSource = k

\* CancelResponse, Respond and IceBreaking return, so that the event loop goes on
\* receiving speech events.
HandlerReturns == pc["handler"] # "idle" ~> pc["handler"] = "idle"

\* A cancelled response falls silent for good, although its forwarder may still put
\* its source back after CancelResponse has removed it.
CancelledFallsSilent ==
  \A k \in Responses : ctx[k] = "done" ~> [](PendingSource # k \/ mixClosed)

\* Close returns, even while the event loop goes on calling the handler.
CloseReturns == rClosed ~> pc["closer"] = "closed"

\* Every CancelResponse(context.Background()) returns, as responder_test.go expects.
CancelResponseReturns ==
  \A p \in {"handler", "ice"} : pc[p] = "wait" ~> pc[p] # "wait"
=============================================================================
