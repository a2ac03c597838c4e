---------------------------- MODULE SessionAgent ----------------------------
(***************************************************************************)
(* voice.SessionAgent and the voice.Agent it runs over a session: Run with *)
(* its error group, Close beside it, and Agent.Start and Stop under their  *)
(* lock.                                                                   *)
(*                                                                         *)
(* The session is what SessionPort promises (WebRTCSession implements it). *)
(* Of the recognizer and the responder there is what Run and Close wait    *)
(* for: whether the recognizer's event loop has ended, or is in a callback *)
(* that cancels the present response, which may take for ever, and then    *)
(* sends a prompt to promptCh, which it gives up only when the context of  *)
(* the new response is cancelled; and how far responder.Close has come.    *)
(* Modules Recognizer and Responder have the rest.                         *)
(***************************************************************************)
EXTENDS Naturals

CONSTANTS
  Senders,       \* the outbound loops: {"audio", "token", "prompt"} or a part
  PromptCap      \* promptBufferSize

ASSUME AgentAssumption ==
  /\ Senders \subseteq {"audio", "token", "prompt"}
  /\ PromptCap \in Nat \ {0}

Stoppers == {"run", "owner"}
Loops == {"session", "agent", "inbound"} \cup Senders
Nobody == "nobody"

VARIABLES
  \* the session
  connected, ready, done, audioOpen, messagesOpen,
  \* SessionAgent
  run,          \* where Run is
  close,        \* where SessionAgent.Close is
  loop,         \* the goroutines of the error group
  grpDone,      \* grpCtx is cancelled by a goroutine that returned an error
  expired,      \* whose context is done: Run's, Close's
  promptCh,     \* prompts in the buffer
  \* Agent
  lock, started,
  stopped,      \* the flag, and Agent.ctx, which is cancelled with it
  stopping,     \* where each of its callers is in Agent.Stop
  err,          \* the one value errCh gets: "none" yet, "error" or "nil"
  recognizer,   \* "none", "up", "stopping", "failed" or "down"
  responder,    \* "none", "up", "closed", or "leaked" by a failed Start
  respond,      \* the event loop in a callback: "no", "cancel" or "prompt"
  respDone      \* the context of the response whose prompt it sends is cancelled

sessionVars == <<connected, ready, done, audioOpen, messagesOpen>>
groupVars   == <<loop, grpDone>>
lockVars    == <<lock, started, stopped, stopping>>
handlerVars == <<respond, respDone>>
agentVars   == <<err, recognizer, responder, handlerVars>>
vars == <<sessionVars, run, close, groupVars, expired, promptCh, lockVars, agentVars>>

Session == INSTANCE SessionPort

Init ==
  /\ Session!Init
  /\ run = "idle" /\ close = "idle"
  /\ loop = [l \in Loops |-> "off"] /\ grpDone = FALSE
  /\ expired = [p \in Stoppers |-> FALSE] /\ promptCh = 0
  /\ lock = Nobody /\ started = FALSE /\ stopped = FALSE
  /\ stopping = [p \in Stoppers |-> "no"]
  /\ err = "none"
  /\ recognizer = "none" /\ responder = "none"
  /\ respond = "no" /\ respDone = FALSE

(***************************************************************************)
(* The session, and the contexts of the callers                            *)
(***************************************************************************)
\* The session connects, becomes ready or ends by itself.
SessionStep ==
  /\ Session!Connect \/ Session!MessageReady \/ Session!End
  /\ UNCHANGED <<run, close, groupVars, expired, promptCh, lockVars, agentVars>>

SessionCloses ==
  /\ Session!CloseAudio \/ Session!CloseMessages
  /\ UNCHANGED <<run, close, groupVars, expired, promptCh, lockVars, agentVars>>

\* A context ends while its owner waits.
Expires(p) ==
  /\ ~expired[p]
  /\ IF p = "run" THEN run \notin {"idle", "returned"} ELSE close \notin {"idle", "returned"}
  /\ expired' = [expired EXCEPT ![p] = TRUE]
  /\ UNCHANGED <<sessionVars, run, close, groupVars, promptCh, lockVars, agentVars>>

(***************************************************************************)
(* Agent.Stop                                                              *)
(***************************************************************************)
\* Mutant: Stop does not take the lock.
StopBeginsUnlocked(p) ==
  /\ stopping[p] = "called"
  /\ IF started /\ ~stopped
       THEN /\ lock' = p /\ stopped' = TRUE
            /\ stopping' = [stopping EXCEPT ![p] = "responder"]
       ELSE /\ stopping' = [stopping EXCEPT ![p] = IF started THEN "returned" ELSE "refused"]
            /\ UNCHANGED <<lock, stopped>>
  /\ UNCHANGED <<sessionVars, run, close, groupVars, expired, promptCh, started, err, recognizer,
                 responder, handlerVars>>

\* The lock is taken; an agent that is not started or already stopped is left alone.
StopBegins(p) ==
  /\ stopping[p] = "called" /\ lock = Nobody
  /\ IF started /\ ~stopped
       THEN /\ lock' = p /\ stopped' = TRUE
            /\ stopping' = [stopping EXCEPT ![p] = "responder"]
       ELSE /\ stopping' = [stopping EXCEPT ![p] = IF started THEN "returned" ELSE "refused"]
            /\ UNCHANGED <<lock, stopped>>
  /\ UNCHANGED <<sessionVars, run, close, groupVars, expired, promptCh, started, err, recognizer,
                 responder, handlerVars>>

\* responder.Close cancels the present response, if there is one, and no later one.
StopResponder(p) ==
  /\ stopping[p] = "responder"
  /\ respDone' = (respond = "prompt")
  /\ \E at \in {"muting", "awaiting"} : stopping' = [stopping EXCEPT ![p] = at]
  /\ UNCHANGED <<sessionVars, run, close, groupVars, expired, promptCh, lock, started, stopped,
                 err, recognizer, responder, respond>>

\* SetSpeechSource(nil), which knows no deadline, returns.
Muted(p) ==
  /\ stopping[p] = "muting"
  /\ stopping' = [stopping EXCEPT ![p] = "awaiting"]
  /\ UNCHANGED <<sessionVars, run, close, groupVars, expired, promptCh, lock, started, stopped,
                 agentVars>>

\* The rest of responder.Close, which its deadline ends: the waits for the response, the
\* mixer, the synthesizer and consumeAudios.
ResponderClosed(p) ==
  /\ stopping[p] = "awaiting"
  /\ responder' = "closed"
  /\ stopping' = [stopping EXCEPT ![p] = "recognizer"]
  /\ UNCHANGED <<sessionVars, run, close, groupVars, expired, promptCh, lock, started, stopped,
                 err, recognizer, handlerVars>>

\* recognizer.Stop: the context, the VAD and the transcriber.
StopRecognizer(p) ==
  /\ stopping[p] = "recognizer"
  /\ recognizer' = IF recognizer = "up" THEN "stopping" ELSE recognizer
  /\ stopping' = [stopping EXCEPT ![p] = "wait"]
  /\ UNCHANGED <<sessionVars, run, close, groupVars, expired, promptCh, lock, started, stopped,
                 err, responder, handlerVars>>

\* Mutant: the wait knows no deadline.
StopReturnsLate(p) ==
  /\ stopping[p] = "wait"
  /\ recognizer \in {"failed", "down"}
  /\ stopping' = [stopping EXCEPT ![p] = "returned"] /\ lock' = Nobody
  /\ UNCHANGED <<sessionVars, run, close, groupVars, expired, promptCh, started, stopped,
                 agentVars>>

\* Its wait ends with the event loop or with the context of the caller.
StopReturns(p) ==
  /\ stopping[p] = "wait"
  /\ recognizer \in {"failed", "down"} \/ expired[p]
  /\ stopping' = [stopping EXCEPT ![p] = "returned"] /\ lock' = Nobody
  /\ UNCHANGED <<sessionVars, run, close, groupVars, expired, promptCh, started, stopped,
                 agentVars>>

StopOver(p) == stopping[p] \in {"returned", "refused"}

Stop(p) ==
  \/ StopBegins(p) \/ StopResponder(p) \/ Muted(p) \/ ResponderClosed(p)
  \/ StopRecognizer(p) \/ StopReturns(p)

(***************************************************************************)
(* The recognizer, the callbacks on its event loop, and Agent.Err          *)
(***************************************************************************)
\* A stream of the recognizer fails, or Stop has cancelled it: its event loop ends.
RecognizerEnds ==
  /\ recognizer \in {"up", "stopping"} /\ respond = "no"
  /\ recognizer' = IF recognizer = "up" THEN "failed" ELSE "down"
  /\ UNCHANGED <<sessionVars, run, close, groupVars, expired, promptCh, lockVars, err,
                 responder, handlerVars>>

\* The goroutine of Agent.start hands on the end of the recognizer, which is nil if all its
\* goroutines noticed the cancellation first, or that of the agent.
ForwardErr ==
  /\ err = "none"
  /\ \/ recognizer = "failed" /\ err' = "error"
     \/ recognizer = "down" /\ err' \in {"nil", "error"}
     \/ stopped /\ err' = "error"
  /\ UNCHANGED <<sessionVars, run, close, groupVars, expired, promptCh, lockVars,
                 recognizer, responder, handlerVars>>

\* A callback that cancels the present response: it removes the speech source and waits.
Callback ==
  /\ recognizer \in {"up", "stopping"} /\ respond = "no"
  /\ respond' = "cancel"
  /\ UNCHANGED <<sessionVars, run, close, groupVars, expired, promptCh, lockVars, err,
                 recognizer, responder, respDone>>

\* CancelResponse(context.Background()) returns, and the callback with it, unless it is a
\* final transcript: then Respond makes a new context and begins to send the prompt.
Cancelled ==
  /\ respond = "cancel" /\ respond' \in {"no", "prompt"}
  /\ UNCHANGED <<sessionVars, run, close, groupVars, expired, promptCh, lockVars, err,
                 recognizer, responder, respDone>>

PromptSent ==
  /\ respond = "prompt" /\ promptCh < PromptCap
  /\ promptCh' = promptCh + 1 /\ respond' = "no" /\ respDone' = FALSE
  /\ UNCHANGED <<sessionVars, run, close, groupVars, expired, lockVars, err, recognizer,
                 responder>>

PromptGivenUp ==
  /\ respond = "prompt" /\ respDone
  /\ respond' = "no" /\ respDone' = FALSE
  /\ UNCHANGED <<sessionVars, run, close, groupVars, expired, promptCh, lockVars, err,
                 recognizer, responder>>

\* An interrupt timer that has fired late cancels the response.
TimerCancels ==
  /\ respond = "prompt" /\ ~respDone /\ respDone' = TRUE
  /\ UNCHANGED <<sessionVars, run, close, groupVars, expired, promptCh, lockVars, err,
                 recognizer, responder, respond>>

Handler == PromptSent \/ PromptGivenUp

(***************************************************************************)
(* Run                                                                     *)
(***************************************************************************)
RunCalled ==
  /\ run = "idle" /\ run' = "connecting"
  /\ UNCHANGED <<sessionVars, close, groupVars, expired, promptCh, lockVars, agentVars>>

\* The first select of Run.
Connecting ==
  /\ run = "connecting"
  /\ \/ connected /\ run' = "starting"
     \/ (done \/ expired["run"]) /\ run' = "returned"
  /\ UNCHANGED <<sessionVars, close, groupVars, expired, promptCh, lockVars, agentVars>>

\* agent.Start, under the lock; a recognizer that does not start leaves the responder behind.
StartAgent ==
  /\ run = "starting" /\ lock = Nobody
  /\ \/ /\ started' = TRUE /\ recognizer' = "up" /\ responder' = "up"
        /\ run' = "started"
     \/ /\ responder' = "leaked" /\ run' = "returned"
        /\ UNCHANGED <<started, recognizer>>
  /\ UNCHANGED <<sessionVars, close, groupVars, expired, promptCh, lock, stopped, stopping,
                 err, handlerVars>>

\* The goroutines of the group; IceBreaking is called if the options say so.
StartGroup ==
  /\ run = "started"
  /\ loop' = [l \in Loops |-> IF l \in Senders \ {"audio"} THEN "waiting" ELSE "select"]
  /\ run' \in {"iceBreaking", "group"}
  /\ UNCHANGED <<sessionVars, close, grpDone, expired, promptCh, lockVars, agentVars>>

\* IceBreaking returns; its CancelResponse may wait for a response like any other.
IceBroken ==
  /\ run = "iceBreaking" /\ run' = "group"
  /\ UNCHANGED <<sessionVars, close, groupVars, expired, promptCh, lockVars, agentVars>>

\* grp.Wait returns, and the deferred agent.Stop is called with Run's own context.
GroupWaited ==
  /\ run = "group" /\ \A l \in Loops : loop[l] = "done"
  /\ run' = "stopping" /\ stopping' = [stopping EXCEPT !["run"] = "called"]
  /\ UNCHANGED <<sessionVars, close, groupVars, expired, promptCh, lock, started, stopped,
                 agentVars>>

RunReturned ==
  /\ run = "stopping" /\ StopOver("run") /\ run' = "returned"
  /\ UNCHANGED <<sessionVars, close, groupVars, expired, promptCh, lockVars, agentVars>>

Run ==
  \/ Connecting \/ StartAgent \/ StartGroup \/ GroupWaited \/ RunReturned

(***************************************************************************)
(* The goroutines of the error group                                       *)
(***************************************************************************)
GrpCtxDone == grpDone \/ expired["run"]

\* A goroutine returns an error, which cancels grpCtx, or nil.
Returns(l, failed) ==
  /\ loop' = [loop EXCEPT ![l] = "done"]
  /\ grpDone' = (grpDone \/ failed)

GrpCtxEnds(l) ==
  /\ loop[l] \in {"waiting", "select"} /\ GrpCtxDone
  /\ Returns(l, TRUE)
  /\ UNCHANGED <<sessionVars, run, close, expired, promptCh, lockVars, agentVars>>

SessionDone ==
  /\ loop["session"] = "select" /\ done
  /\ Returns("session", TRUE)
  /\ UNCHANGED <<sessionVars, run, close, expired, promptCh, lockVars, agentVars>>

\* The goroutine returns what errCh has for it; nil leaves grpCtx alone.
AgentErr ==
  /\ loop["agent"] = "select" /\ err # "none"
  /\ Returns("agent", err = "error")
  /\ UNCHANGED <<sessionVars, run, close, expired, promptCh, lockVars, agentVars>>

\* Mutant: the loop waits for the end of the session only.
WaitForMessageReadyNot(l) ==
  /\ loop[l] = "waiting" /\ done /\ Returns(l, TRUE)
  /\ UNCHANGED <<sessionVars, run, close, expired, promptCh, lockVars, agentVars>>

\* waitForMessageReady
WaitForMessageReady(l) ==
  /\ loop[l] = "waiting"
  /\ \/ ready /\ loop' = [loop EXCEPT ![l] = "select"] /\ UNCHANGED grpDone
     \/ done /\ Returns(l, TRUE)
  /\ UNCHANGED <<sessionVars, run, close, expired, promptCh, lockVars, agentVars>>

\* inboundAudioLoop: the channel is closed, or a frame passes the checks of Agent.Feed.
InboundSelect ==
  /\ loop["inbound"] = "select"
  /\ \/ ~audioOpen /\ Returns("inbound", FALSE)
     \/ audioOpen /\ (stopped \/ ~started) /\ Returns("inbound", TRUE)
     \/ /\ audioOpen /\ started /\ ~stopped
        /\ loop' = [loop EXCEPT !["inbound"] = "feeding"] /\ UNCHANGED grpDone
  /\ UNCHANGED <<sessionVars, run, close, expired, promptCh, lockVars, agentVars>>

\* recognizer.Feed returns; its error is logged.  If the recognizer is stopped under it, it
\* returns an error, or loses the frame, or panics: the behaviours go on as if it had not.
FeedReturns ==
  /\ loop["inbound"] = "feeding"
  /\ loop' = [loop EXCEPT !["inbound"] = "select"]
  /\ UNCHANGED <<sessionVars, run, close, grpDone, expired, promptCh, lockVars, agentVars>>

\* The outbound loops send until the session refuses; any other error is logged.
\* Frames and tokens are there whenever the responder is, prompts are counted.
Outbound(l) ==
  /\ loop[l] = "select"
  /\ IF l = "prompt" THEN promptCh > 0 /\ promptCh' = promptCh - 1
                     ELSE responder # "none" /\ UNCHANGED promptCh
  /\ IF done THEN Returns(l, TRUE) ELSE UNCHANGED groupVars
  /\ UNCHANGED <<sessionVars, run, close, expired, lockVars, agentVars>>

Loop(l) ==
  \/ GrpCtxEnds(l)
  \/ l = "session" /\ SessionDone
  \/ l = "agent" /\ AgentErr
  \/ l \in Senders \ {"audio"} /\ WaitForMessageReady(l)
  \/ l = "inbound" /\ (InboundSelect \/ FeedReturns)
  \/ l \in Senders /\ Outbound(l)

(***************************************************************************)
(* SessionAgent.Close                                                      *)
(***************************************************************************)
CloseCalled ==
  /\ close = "idle" /\ close' = "agent"
  /\ stopping' = [stopping EXCEPT !["owner"] = "called"]
  /\ UNCHANGED <<sessionVars, run, groupVars, expired, promptCh, lock, started, stopped,
                 agentVars>>

\* What session.Close begins with; the rest follows in SessionCloses.
EndSession == done' = TRUE /\ UNCHANGED <<connected, ready, audioOpen, messagesOpen>>

\* Mutant: Close returns early when the agent reports an error.
CloseSessionEarly ==
  /\ close = "agent" /\ StopOver("owner")
  /\ IF started THEN EndSession /\ close' = "session"
                ELSE close' = "returned" /\ UNCHANGED sessionVars
  /\ UNCHANGED <<run, groupVars, expired, promptCh, lockVars, agentVars>>

\* session.Close, whatever agent.Stop returned.
CloseSession ==
  /\ close = "agent" /\ StopOver("owner")
  /\ EndSession /\ close' = "session"
  /\ UNCHANGED <<run, groupVars, expired, promptCh, lockVars, agentVars>>

CloseReturned ==
  /\ close = "session" /\ ~audioOpen /\ ~messagesOpen /\ close' = "returned"
  /\ UNCHANGED <<sessionVars, run, groupVars, expired, promptCh, lockVars, agentVars>>

Close == CloseSession \/ CloseReturned

Next ==
  \/ SessionStep \/ SessionCloses \/ \E p \in Stoppers : Expires(p) \/ Stop(p)
  \/ RecognizerEnds \/ ForwardErr \/ Callback \/ Cancelled \/ Handler \/ TimerCancels
  \/ RunCalled \/ Run \/ IceBroken \/ CloseCalled \/ Close
  \/ \E l \in Loops : Loop(l)

Spec == Init /\ [][Next]_vars

\* Steps that a goroutine takes when it can.  None of them occurs for ever, so that weak
\* fairness of all of them together is as good as of each.  Muted, IceBroken and Cancelled
\* are not among them, and ResponderClosed only once its deadline has passed.
Progress ==
  \/ SessionCloses \/ ForwardErr \/ Run \/ Close
  \/ \E p \in Stoppers :
       \/ StopBegins(p) \/ StopResponder(p) \/ StopRecognizer(p) \/ StopReturns(p)
       \/ expired[p] /\ ResponderClosed(p)
  \/ SessionDone \/ AgentErr
  \/ \E l \in Loops : GrpCtxEnds(l) \/ (l \in Senders \ {"audio"} /\ WaitForMessageReady(l))

\* A Feed that waits for a recognizer returns with its context, and a select does not pass
\* over its context for ever.
FairSpec ==
  /\ Spec
  /\ WF_vars(Progress) /\ WF_vars(Handler) /\ WF_vars(GrpCtxDone /\ FeedReturns)
  /\ \A l \in Senders : WF_vars(Outbound(l))
  /\ SF_vars(GrpCtxEnds("inbound"))
  /\ SF_vars(recognizer = "stopping" /\ RecognizerEnds)

(***************************************************************************)
(* Properties                                                              *)
(***************************************************************************)
SessionTypeOK ==
  /\ connected \in BOOLEAN /\ ready \in BOOLEAN /\ done \in BOOLEAN
  /\ audioOpen \in BOOLEAN /\ messagesOpen \in BOOLEAN

RunTypeOK ==
  /\ run \in {"idle", "connecting", "starting", "started", "iceBreaking", "group", "stopping",
             "returned"}
  /\ close \in {"idle", "agent", "session", "returned"}
  /\ loop \in [Loops -> {"off", "waiting", "select", "feeding", "done"}]
  /\ grpDone \in BOOLEAN /\ expired \in [Stoppers -> BOOLEAN]
  /\ promptCh \in 0 .. PromptCap

StopTypeOK ==
  /\ lock \in Stoppers \cup {Nobody} /\ started \in BOOLEAN /\ stopped \in BOOLEAN
  /\ stopping \in [Stoppers -> {"no", "called", "responder", "muting", "awaiting", "recognizer",
                                "wait", "returned", "refused"}]

AgentTypeOK ==
  /\ err \in {"none", "error", "nil"}
  /\ recognizer \in {"none", "up", "stopping", "failed", "down"}
  /\ responder \in {"none", "up", "closed", "leaked"}
  /\ respond \in {"no", "cancel", "prompt"} /\ respDone \in BOOLEAN

\* Type invariant, with the capacity of promptCh.
TypeOK == SessionTypeOK /\ RunTypeOK /\ StopTypeOK /\ AgentTypeOK

\* Whoever comes back from Agent.Stop, also the one who is told that it is stopped
\* already, finds the recognizer ended, unless a deadline has passed.
StoppedMeansEnded ==
  \A p \in Stoppers :
    stopping[p] = "returned" =>
      recognizer \in {"failed", "down"} \/ \E q \in Stoppers : expired[q]

RecognizerOver == recognizer \in {"failed", "down"} \/ \E p \in Stoppers : expired[p]

\* When Run has returned, by whichever way, its goroutines have ended, and an agent it has
\* started is stopped, whoever stopped it: the responder is closed and the recognizer has
\* ended, unless a deadline has passed.  When Close has returned as well, the session is
\* done and its audio closed, although Agent.Stop may have refused Close.
NothingRunsOn ==
  run = "returned" =>
    /\ \A l \in Loops : loop[l] \in {"off", "done"}
    /\ started => stopped /\ responder = "closed" /\ RecognizerOver
    /\ close = "returned" => done /\ ~audioOpen

\* The recognizer has been stopped between the checks of Feed and the end of its use: the
\* VAD may panic on its channel or its detector.
FeedMayPanic ==
  loop["inbound"] = "feeding" /\ \E p \in Stoppers : stopping[p] \in {"wait", "returned"}

\* Only Close can bring that about; Run waits for the inbound loop before it stops the agent.
FedUntilStopped == FeedMayPanic => close # "idle"

\* The safety of every state: the types, and when a recognizer is stopped.
Inv == TypeOK /\ StoppedMeansEnded /\ FedUntilStopped

\* What may hold Run up: SetSpeechSource in responder.Close, the waits of responder.Close
\* and of recognizer.Stop for as long as the caller has no deadline (the latter for an event
\* loop in CancelResponse, or with a prompt that nobody takes and that responder.Close came
\* too early to cancel), and IceBreaking.
Obstacles == {"mute", "await", "eventLoop", "iceBreaking"}

HeldUp(by) ==
  CASE by = "mute"        -> \E p \in Stoppers : stopping[p] = "muting"
    [] by = "await"       -> \E p \in Stoppers : stopping[p] = "awaiting" /\ ~expired[p]
    [] by = "eventLoop"   -> /\ respond # "no"
                             /\ \E p \in Stoppers : stopping[p] = "wait" /\ ~expired[p]
    [] by = "iceBreaking" -> run = "iceBreaking"

\* Once the session is done or the agent has ended, with an error or without, Run returns,
\* unless one of these holds it up for ever.  Whoever holds the lock in Agent.Stop lets go of
\* it when its deadline has passed, except in SetSpeechSource.
RunReturns ==
  \/ (run \in {"connecting", "iceBreaking", "group"} /\ (done \/ err # "none"))
       ~> run = "returned"
  \/ \E by \in Obstacles : <>[]HeldUp(by)

\* A prompt is accepted, and the event loop with it freed, if the session has a message
\* channel that becomes ready, for as long as the prompt loop runs.
PromptsAreTaken ==
  (respond = "prompt" /\ ready) ~> (respond # "prompt" \/ loop["prompt"] \in {"off", "done"})
=============================================================================
