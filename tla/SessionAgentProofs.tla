------------------------- MODULE SessionAgentProofs -------------------------
(***************************************************************************)
(* SessionAgent, for every set of outbound loops, every size of the prompt *)
(* buffer and every session that keeps SessionPort: type correctness, what *)
(* the end of Agent.Stop means to each of its callers, and that Run and    *)
(* Close together leave nothing behind.                                    *)
(***************************************************************************)
EXTENDS SessionAgent, TLAPS

\* What the steps of the session are made of.
USE DEF sessionVars, groupVars, lockVars, handlerVars, agentVars

\* The initial state is type correct.
LEMMA InitTypes == Init => TypeOK
<1> SUFFICES ASSUME Init PROVE TypeOK OBVIOUS
<1> USE DEF Init
<1>1. SessionTypeOK BY DEF Session!Init, SessionTypeOK
<1>2. RunTypeOK
  <2>1. promptCh \in 0 .. PromptCap BY AgentAssumption
  <2>2. expired \in [Stoppers -> BOOLEAN] OBVIOUS
  <2> QED BY <2>1, <2>2 DEF RunTypeOK
<1>3. StopTypeOK BY DEF StopTypeOK
<1>4. AgentTypeOK BY DEF AgentTypeOK
<1> QED BY <1>1, <1>2, <1>3, <1>4 DEF TypeOK

\* A stuttering step keeps the types.
LEMMA UnchangedTypes == TypeOK /\ UNCHANGED vars => TypeOK'
BY DEF vars, TypeOK, SessionTypeOK, RunTypeOK, StopTypeOK, AgentTypeOK

\* The session, the contexts and the recognizer keep the types.
LEMMA OutsideTypes ==
  ASSUME TypeOK,
         \/ SessionStep \/ SessionCloses \/ \E p \in Stoppers : Expires(p)
         \/ RecognizerEnds \/ ForwardErr \/ Callback \/ Cancelled \/ Handler \/ TimerCancels
  PROVE  TypeOK'
<1> USE DEF TypeOK
<1>1. CASE SessionStep \/ SessionCloses
  <2> USE DEF SessionStep, SessionCloses, Session!Connect, Session!MessageReady, Session!End,
          Session!CloseAudio, Session!CloseMessages, Session!latches
  <2>1. SessionTypeOK' BY <1>1 DEF SessionTypeOK
  <2>2. RunTypeOK' BY <1>1 DEF RunTypeOK
  <2>3. StopTypeOK' BY <1>1 DEF StopTypeOK
  <2>4. AgentTypeOK' BY <1>1 DEF AgentTypeOK
  <2> QED BY <2>1, <2>2, <2>3, <2>4
<1>2. CASE \E p \in Stoppers : Expires(p)
  <2> USE DEF Expires
  <2>1. SessionTypeOK' BY <1>2 DEF SessionTypeOK
  <2>2. RunTypeOK' BY <1>2 DEF RunTypeOK
  <2>3. StopTypeOK' BY <1>2 DEF StopTypeOK
  <2>4. AgentTypeOK' BY <1>2 DEF AgentTypeOK
  <2> QED BY <2>1, <2>2, <2>3, <2>4
<1>3. CASE RecognizerEnds \/ ForwardErr \/ Callback \/ Cancelled \/ Handler \/ TimerCancels
  <2> USE DEF RecognizerEnds, ForwardErr, Callback, Cancelled, Handler, PromptSent, PromptGivenUp,
          TimerCancels
  <2>1. SessionTypeOK' BY <1>3 DEF SessionTypeOK
  <2>2. RunTypeOK' BY <1>3, AgentAssumption DEF RunTypeOK
  <2>3. StopTypeOK' BY <1>3 DEF StopTypeOK
  <2>4. AgentTypeOK' BY <1>3 DEF AgentTypeOK
  <2> QED BY <2>1, <2>2, <2>3, <2>4
<1> QED BY <1>1, <1>2, <1>3

\* So do Agent.Stop, and Run and Close around it.
LEMMA CallerTypes ==
  ASSUME TypeOK,
         (\E p \in Stoppers : Stop(p)) \/ RunCalled \/ Run \/ IceBroken \/ CloseCalled \/ Close
  PROVE  TypeOK'
<1> USE DEF TypeOK
<1>1. CASE \E p \in Stoppers : Stop(p)
  <2> USE DEF Stop, StopBegins, StopResponder, Muted, ResponderClosed, StopRecognizer, StopReturns
  <2>1. SessionTypeOK' BY <1>1 DEF SessionTypeOK
  <2>2. RunTypeOK' BY <1>1 DEF RunTypeOK
  <2>3. StopTypeOK' BY <1>1 DEF StopTypeOK
  <2>4. AgentTypeOK' BY <1>1 DEF AgentTypeOK, RunTypeOK
  <2> QED BY <2>1, <2>2, <2>3, <2>4
<1>2. CASE RunCalled \/ Run \/ IceBroken
  <2> USE DEF RunCalled, Run, Connecting, StartAgent, StartGroup, IceBroken, GroupWaited,
          RunReturned
  <2>1. SessionTypeOK' BY <1>2 DEF SessionTypeOK
  <2>2. RunTypeOK' BY <1>2 DEF RunTypeOK
  <2>3. StopTypeOK' BY <1>2 DEF StopTypeOK
  <2>4. AgentTypeOK' BY <1>2 DEF AgentTypeOK
  <2> QED BY <2>1, <2>2, <2>3, <2>4
<1>3. CASE CloseCalled \/ Close
  <2> USE DEF CloseCalled, Close, CloseSession, CloseReturned, EndSession
  <2>1. SessionTypeOK' BY <1>3 DEF SessionTypeOK
  <2>2. RunTypeOK' BY <1>3 DEF RunTypeOK
  <2>3. StopTypeOK' BY <1>3 DEF StopTypeOK
  <2>4. AgentTypeOK' BY <1>3 DEF AgentTypeOK
  <2> QED BY <2>1, <2>2, <2>3, <2>4
<1> QED BY <1>1, <1>2, <1>3

\* A step of a goroutine of the group changes no more than this.
LEMMA LoopStep ==
  ASSUME TypeOK, NEW l \in Loops, Loop(l)
  PROVE  /\ UNCHANGED <<sessionVars, run, close, expired, lockVars, agentVars>>
         /\ \E at \in {"select", "feeding",
             "done"} : loop' = [loop EXCEPT ![l] = at] \/ UNCHANGED loop
         /\ loop[l] \notin {"off", "done"}
         /\ grpDone' \in BOOLEAN
         /\ promptCh' \in 0 .. PromptCap
<1> USE DEF TypeOK, RunTypeOK, Returns
<1>1. CASE GrpCtxEnds(l) BY <1>1 DEF GrpCtxEnds
<1>2. CASE l = "session" /\ SessionDone BY <1>2 DEF SessionDone
<1>3. CASE l = "agent" /\ AgentErr BY <1>3 DEF AgentErr
<1>4. CASE WaitForMessageReady(l) BY <1>4 DEF WaitForMessageReady
<1>5. CASE l = "inbound" /\ InboundSelect BY <1>5 DEF InboundSelect
<1>6. CASE l = "inbound" /\ FeedReturns BY <1>6 DEF FeedReturns
<1>7. CASE Outbound(l)
  <2>1. promptCh' \in 0 .. PromptCap
    BY <1>7, AgentAssumption DEF Outbound
  <2>2. CASE done BY <1>7, <2>1, <2>2 DEF Outbound
  <2>3. CASE ~done BY <1>7, <2>1, <2>3 DEF Outbound
  <2> QED BY <2>2, <2>3
<1> QED BY <1>1, <1>2, <1>3, <1>4, <1>5, <1>6, <1>7 DEF Loop

\* The goroutines of the group keep the types.
LEMMA LoopTypes ==
  ASSUME TypeOK, NEW l \in Loops, Loop(l)
  PROVE  TypeOK'
<1> USE LoopStep DEF TypeOK
<1>1. SessionTypeOK' BY DEF SessionTypeOK
<1>2. RunTypeOK' BY DEF RunTypeOK
<1>3. StopTypeOK' BY DEF StopTypeOK
<1>4. AgentTypeOK' BY DEF AgentTypeOK
<1> QED BY <1>1, <1>2, <1>3, <1>4

\* Type correctness: promptCh never holds more than its buffer.
THEOREM TypeCorrect == Spec => []TypeOK
<1>1. TypeOK /\ [Next]_vars => TypeOK'
  BY UnchangedTypes, OutsideTypes, CallerTypes, LoopTypes DEF Next
<1> QED BY <1>1, InitTypes, PTL DEF Spec

(***************************************************************************)
(* The inductive invariant                                                 *)
(***************************************************************************)
Inside == {"responder", "muting", "awaiting", "recognizer", "wait"}

\* Run goes one way, and calls Agent.Stop once, after its goroutines have ended.
RunInOrder ==
  /\ run \in {"idle", "connecting", "starting"} => ~started
  /\ run \in {"started", "iceBreaking", "group", "stopping"} => started
  /\ run \in {"idle", "connecting", "starting", "started"} => \A l \in Loops : loop[l] = "off"
  /\ run \in {"stopping", "returned"} => \A l \in Loops : loop[l] \in {"off", "done"}
  /\ stopping["run"] # "no" => run \in {"stopping", "returned"} /\ started
  /\ stopping["run"] # "refused"
  /\ run = "returned" /\ started => stopping["run"] = "returned"

\* So does Close.
CloseInOrder ==
  /\ stopping["owner"] # "no" => close # "idle"
  /\ close \in {"session", "returned"} => StopOver("owner") /\ done
  /\ close = "returned" => ~audioOpen

\* The lock is held by the one that is inside Agent.Stop, and nobody is once it has returned.
LockIsHeld ==
  /\ \A p \in Stoppers : stopping[p] \in Inside => lock = p
  /\ lock \in Stoppers => stopping[lock] \in Inside
  /\ \A p, q \in Stoppers : stopping[p] = "returned" => stopping[q] \notin Inside

\* What a stopped agent has given up, as far as the one inside Agent.Stop has come.
StoppedInOrder ==
  /\ \A p \in Stoppers : stopping[p] \in Inside \cup {"returned"} => stopped
  /\ stopped => started
  /\ stopped => \/ responder = "closed"
                \/ \E p \in Stoppers : stopping[p] \in {"responder", "muting", "awaiting"}
  /\ stopped => \/ recognizer \notin {"none", "up"}
                \/ \E p \in Stoppers : stopping[p] \in Inside \ {"wait"}
  /\ stopped => \/ recognizer \in {"failed", "down"} \/ \E q \in Stoppers : expired[q]
                \/ \E p \in Stoppers : stopping[p] \in Inside
  /\ started <=> recognizer # "none"

Stopping == RunInOrder /\ CloseInOrder /\ LockIsHeld /\ StoppedInOrder /\ StoppedMeansEnded

\* Initially nothing has been called.
LEMMA InitStopping == Init => Stopping
BY DEF Init, Stopping, RunInOrder, CloseInOrder, LockIsHeld, StoppedInOrder, StoppedMeansEnded,
       Inside, Stoppers, Nobody

\* A step that leaves the callers, the lock and the group alone.
LEMMA QuietStopping ==
  ASSUME TypeOK, Stopping,
         UNCHANGED <<run, close, loop, lockVars, responder>>,
         done => done', ~audioOpen => ~audioOpen',
         \A q \in Stoppers : expired[q] => expired'[q],
         recognizer' = recognizer
           \/ (recognizer \in {"up", "stopping"} /\ recognizer' \in {"failed", "down"})
  PROVE  Stopping'
<1> USE DEF Stopping
<1>1. RunInOrder' BY DEF RunInOrder
<1>2. CloseInOrder' BY DEF CloseInOrder, StopOver
<1>3. LockIsHeld' BY DEF LockIsHeld
<1>4. StoppedInOrder' BY DEF StoppedInOrder
<1>5. StoppedMeansEnded' BY DEF StoppedMeansEnded
<1> QED BY <1>1, <1>2, <1>3, <1>4, <1>5

\* The session, the contexts and the recognizer.
LEMMA OutsideStopping ==
  ASSUME TypeOK, Stopping,
         \/ SessionStep \/ SessionCloses \/ \E p \in Stoppers : Expires(p)
         \/ RecognizerEnds \/ ForwardErr \/ Callback \/ Cancelled \/ Handler \/ TimerCancels
         \/ UNCHANGED vars
  PROVE  Stopping'
<1>1. CASE SessionStep \/ SessionCloses
  <2> USE DEF SessionStep, SessionCloses, Session!Connect, Session!MessageReady, Session!End,
          Session!CloseAudio, Session!CloseMessages, Session!latches
  <2>1. done => done' BY <1>1
  <2>2. ~audioOpen => ~audioOpen' BY <1>1
  <2>3. UNCHANGED <<run, close, loop, lockVars, responder, expired, recognizer>>
    BY <1>1
  <2> HIDE DEF SessionStep, SessionCloses
  <2> QED BY <2>1, <2>2, <2>3, QuietStopping
<1>2. CASE \E p \in Stoppers : Expires(p)
  <2>1. \A q \in Stoppers : expired[q] => expired'[q]
    BY <1>2 DEF Expires, TypeOK, RunTypeOK
  <2> QED BY <1>2, <2>1, QuietStopping DEF Expires
<1>3. CASE RecognizerEnds
  BY <1>3, QuietStopping DEF RecognizerEnds
<1>4. CASE ForwardErr \/ Callback \/ Cancelled \/ Handler \/ TimerCancels \/ UNCHANGED vars
  BY <1>4, QuietStopping
  DEF ForwardErr, Callback, Cancelled, Handler, PromptSent, PromptGivenUp, TimerCancels, vars
<1> QED BY <1>1, <1>2, <1>3, <1>4

\* The goroutines of the group: none of them begins again.
LEMMA LoopStopping ==
  ASSUME TypeOK, Stopping, NEW l \in Loops, Loop(l)
  PROVE  Stopping'
<1> USE LoopStep DEF Stopping
<1>1. RunInOrder' BY DEF RunInOrder, TypeOK, RunTypeOK
<1>2. CloseInOrder' BY DEF CloseInOrder, StopOver
<1>3. LockIsHeld' BY DEF LockIsHeld
<1>4. StoppedInOrder' BY DEF StoppedInOrder
<1>5. StoppedMeansEnded' BY DEF StoppedMeansEnded
<1> QED BY <1>1, <1>2, <1>3, <1>4, <1>5

\* Agent.Stop: the lock passes from one caller to the next only when the recognizer has
\* ended or a deadline has passed.
LEMMA StopStopping ==
  ASSUME TypeOK, Stopping, NEW p \in Stoppers, Stop(p)
  PROVE  Stopping'
<1> USE DEF Stopping, TypeOK, StopTypeOK, RunTypeOK, AgentTypeOK, Inside
<1>1. "run" \in Stoppers /\ "owner" \in Stoppers /\ Nobody \notin Stoppers BY DEF Stoppers, Nobody
<1>2. CASE StopBegins(p)
  <2>1. RunInOrder' BY <1>1, <1>2 DEF StopBegins, RunInOrder
  <2>2. CloseInOrder' BY <1>1, <1>2 DEF StopBegins, CloseInOrder, StopOver
  <2>3. LockIsHeld' BY <1>1, <1>2 DEF StopBegins, LockIsHeld, StoppedInOrder
  <2>4. StoppedInOrder' BY <1>1, <1>2 DEF StopBegins, StoppedInOrder, LockIsHeld
  <2>5. StoppedMeansEnded'
    BY <1>1, <1>2 DEF StopBegins, StoppedMeansEnded, StoppedInOrder, LockIsHeld
  <2> QED BY <2>1, <2>2, <2>3, <2>4, <2>5
<1>3. CASE StopResponder(p)
  <2>1. RunInOrder' BY <1>1, <1>3 DEF StopResponder, RunInOrder
  <2>2. CloseInOrder' BY <1>1, <1>3 DEF StopResponder, CloseInOrder, StopOver
  <2>3. LockIsHeld' BY <1>1, <1>3 DEF StopResponder, LockIsHeld, StoppedInOrder
  <2>4. StoppedInOrder' BY <1>1, <1>3 DEF StopResponder, StoppedInOrder, LockIsHeld
  <2>5. StoppedMeansEnded' BY <1>1, <1>3 DEF StopResponder, StoppedMeansEnded
  <2> QED BY <2>1, <2>2, <2>3, <2>4, <2>5
<1>4. CASE Muted(p)
  <2>1. RunInOrder' BY <1>1, <1>4 DEF Muted, RunInOrder
  <2>2. CloseInOrder' BY <1>1, <1>4 DEF Muted, CloseInOrder, StopOver
  <2>3. LockIsHeld' BY <1>1, <1>4 DEF Muted, LockIsHeld, StoppedInOrder
  <2>4. StoppedInOrder' BY <1>1, <1>4 DEF Muted, StoppedInOrder, LockIsHeld
  <2>5. StoppedMeansEnded' BY <1>1, <1>4 DEF Muted, StoppedMeansEnded
  <2> QED BY <2>1, <2>2, <2>3, <2>4, <2>5
<1>5. CASE ResponderClosed(p)
  <2>1. RunInOrder' BY <1>1, <1>5 DEF ResponderClosed, RunInOrder
  <2>2. CloseInOrder' BY <1>1, <1>5 DEF ResponderClosed, CloseInOrder, StopOver
  <2>3. LockIsHeld' BY <1>1, <1>5 DEF ResponderClosed, LockIsHeld, StoppedInOrder
  <2>4. StoppedInOrder' BY <1>1, <1>5 DEF ResponderClosed, StoppedInOrder, LockIsHeld
  <2>5. StoppedMeansEnded' BY <1>1, <1>5 DEF ResponderClosed, StoppedMeansEnded
  <2> QED BY <2>1, <2>2, <2>3, <2>4, <2>5
<1>6. CASE StopRecognizer(p)
  <2>1. RunInOrder' BY <1>1, <1>6 DEF StopRecognizer, RunInOrder
  <2>2. CloseInOrder' BY <1>1, <1>6 DEF StopRecognizer, CloseInOrder, StopOver
  <2>3. LockIsHeld' BY <1>1, <1>6 DEF StopRecognizer, LockIsHeld, StoppedInOrder
  <2>4. StoppedInOrder' BY <1>1, <1>6 DEF StopRecognizer, StoppedInOrder, LockIsHeld
  <2>5. StoppedMeansEnded' BY <1>1, <1>6 DEF StopRecognizer, StoppedMeansEnded
  <2> QED BY <2>1, <2>2, <2>3, <2>4, <2>5
<1>7. CASE StopReturns(p)
  <2>1. RunInOrder' BY <1>1, <1>7 DEF StopReturns, RunInOrder
  <2>2. CloseInOrder' BY <1>1, <1>7 DEF StopReturns, CloseInOrder, StopOver
  <2>3. LockIsHeld' BY <1>1, <1>7 DEF StopReturns, LockIsHeld, StoppedInOrder
  <2>4. StoppedInOrder' BY <1>1, <1>7 DEF StopReturns, StoppedInOrder, LockIsHeld
  <2>5. StoppedMeansEnded' BY <1>1, <1>7 DEF StopReturns, StoppedMeansEnded
  <2> QED BY <2>1, <2>2, <2>3, <2>4, <2>5
<1> QED BY <1>2, <1>3, <1>4, <1>5, <1>6, <1>7 DEF Stop

\* Run: an agent is started only before anybody can have stopped it.
LEMMA RunStopping ==
  ASSUME TypeOK, Stopping, RunCalled \/ Run \/ IceBroken
  PROVE  Stopping'
<1> USE DEF Stopping, TypeOK, StopTypeOK, RunTypeOK, AgentTypeOK, Inside
<1>1. "run" \in Stoppers /\ "owner" \in Stoppers /\ Nobody \notin Stoppers BY DEF Stoppers, Nobody
<1>2. CASE RunCalled \/ Connecting
  <2>1. RunInOrder' BY <1>2 DEF RunCalled, Connecting, RunInOrder
  <2>2. CloseInOrder' BY <1>2 DEF RunCalled, Connecting, CloseInOrder, StopOver
  <2>3. LockIsHeld' BY <1>2 DEF RunCalled, Connecting, LockIsHeld
  <2>4. StoppedInOrder' BY <1>2 DEF RunCalled, Connecting, StoppedInOrder
  <2>5. StoppedMeansEnded' BY <1>2 DEF RunCalled, Connecting, StoppedMeansEnded
  <2> QED BY <2>1, <2>2, <2>3, <2>4, <2>5
<1>3. CASE StartAgent
  <2>1. RunInOrder' BY <1>1, <1>3 DEF StartAgent, RunInOrder
  <2>2. CloseInOrder' BY <1>3 DEF StartAgent, CloseInOrder, StopOver
  <2>3. LockIsHeld' BY <1>3 DEF StartAgent, LockIsHeld
  <2>4. ~started /\ ~stopped /\ recognizer = "none"
    BY <1>3 DEF StartAgent, RunInOrder, StoppedInOrder
  <2>5. StoppedInOrder' BY <1>3, <2>4 DEF StartAgent, StoppedInOrder
  <2>6. StoppedMeansEnded' BY <1>3, <2>4 DEF StartAgent, StoppedMeansEnded, StoppedInOrder
  <2> QED BY <2>1, <2>2, <2>3, <2>5, <2>6
<1>4. CASE StartGroup
  <2>1. RunInOrder' BY <1>1, <1>4 DEF StartGroup, RunInOrder
  <2>2. CloseInOrder' BY <1>4 DEF StartGroup, CloseInOrder, StopOver
  <2>3. LockIsHeld' BY <1>4 DEF StartGroup, LockIsHeld
  <2>4. StoppedInOrder' BY <1>4 DEF StartGroup, StoppedInOrder
  <2>5. StoppedMeansEnded' BY <1>4 DEF StartGroup, StoppedMeansEnded
  <2> QED BY <2>1, <2>2, <2>3, <2>4, <2>5
<1>5. CASE GroupWaited
  <2>0. stopping["run"] = "no" BY <1>5 DEF GroupWaited, RunInOrder
  <2>1. RunInOrder' BY <1>1, <1>5 DEF GroupWaited, RunInOrder
  <2>2. CloseInOrder'
    BY <1>1, <1>5 DEF GroupWaited, CloseInOrder, StopOver
  <2>3. LockIsHeld' BY <1>1, <1>5, <2>0 DEF GroupWaited, LockIsHeld
  <2>4. StoppedInOrder' BY <1>1, <1>5, <2>0 DEF GroupWaited, StoppedInOrder
  <2>5. StoppedMeansEnded' BY <1>1, <1>5 DEF GroupWaited, StoppedMeansEnded
  <2> QED BY <2>1, <2>2, <2>3, <2>4, <2>5
<1>6. CASE RunReturned
  <2>1. RunInOrder' BY <1>1, <1>6 DEF RunReturned, RunInOrder, StopOver
  <2>2. CloseInOrder' BY <1>6 DEF RunReturned, CloseInOrder, StopOver
  <2>3. LockIsHeld' BY <1>6 DEF RunReturned, LockIsHeld
  <2>4. StoppedInOrder' BY <1>6 DEF RunReturned, StoppedInOrder
  <2>5. StoppedMeansEnded' BY <1>6 DEF RunReturned, StoppedMeansEnded
  <2> QED BY <2>1, <2>2, <2>3, <2>4, <2>5
<1>7. CASE IceBroken
  <2>1. RunInOrder' BY <1>1, <1>7 DEF IceBroken, RunInOrder
  <2>2. CloseInOrder' BY <1>7 DEF IceBroken, CloseInOrder, StopOver
  <2>3. LockIsHeld' BY <1>7 DEF IceBroken, LockIsHeld
  <2>4. StoppedInOrder' BY <1>7 DEF IceBroken, StoppedInOrder
  <2>5. StoppedMeansEnded' BY <1>7 DEF IceBroken, StoppedMeansEnded
  <2> QED BY <2>1, <2>2, <2>3, <2>4, <2>5
<1> QED BY <1>2, <1>3, <1>4, <1>5, <1>6, <1>7 DEF Run

\* Close: the session is closed whatever Agent.Stop has returned.
LEMMA CloseStopping ==
  ASSUME TypeOK, Stopping, CloseCalled \/ Close
  PROVE  Stopping'
<1> USE DEF Stopping, TypeOK, StopTypeOK, RunTypeOK, AgentTypeOK, Inside
<1>1. "run" \in Stoppers /\ "owner" \in Stoppers /\ Nobody \notin Stoppers BY DEF Stoppers, Nobody
<1>2. CASE CloseCalled
  <2>0. stopping["owner"] = "no" BY <1>2 DEF CloseCalled, CloseInOrder
  <2>1. RunInOrder' BY <1>1, <1>2 DEF CloseCalled, RunInOrder
  <2>2. CloseInOrder' BY <1>1, <1>2 DEF CloseCalled, CloseInOrder
  <2>3. LockIsHeld' BY <1>1, <1>2, <2>0 DEF CloseCalled, LockIsHeld
  <2>4. StoppedInOrder' BY <1>1, <1>2, <2>0 DEF CloseCalled, StoppedInOrder
  <2>5. StoppedMeansEnded' BY <1>1, <1>2 DEF CloseCalled, StoppedMeansEnded
  <2> QED BY <2>1, <2>2, <2>3, <2>4, <2>5
<1>3. CASE CloseSession \/ CloseReturned
  <2> USE DEF CloseSession, CloseReturned, EndSession
  <2>1. RunInOrder' BY <1>3 DEF RunInOrder
  <2>2. CloseInOrder' BY <1>3 DEF CloseInOrder, StopOver
  <2>3. LockIsHeld' BY <1>3 DEF LockIsHeld
  <2>4. StoppedInOrder' BY <1>3 DEF StoppedInOrder
  <2>5. StoppedMeansEnded' BY <1>3 DEF StoppedMeansEnded
  <2> QED BY <2>1, <2>2, <2>3, <2>4, <2>5
<1> QED BY <1>2, <1>3 DEF Close

\* The order in which Run, Close and Agent.Stop go on is an invariant.
THEOREM StoppingHolds == Spec => []Stopping
<1>1. TypeOK /\ Stopping /\ [Next]_vars => Stopping'
  BY OutsideStopping, LoopStopping, StopStopping, RunStopping, CloseStopping DEF Next
<1> QED BY <1>1, InitStopping, TypeCorrect, PTL DEF Spec

\* Whoever comes back from Agent.Stop finds the recognizer ended, unless a deadline has
\* passed, and only Close stops it while it is being fed.
THEOREM StopEnds == Spec => []Inv
<1>1. TypeOK /\ Stopping => FedUntilStopped
  <2> SUFFICES ASSUME TypeOK, Stopping, FeedMayPanic PROVE close # "idle"
    BY DEF FedUntilStopped
  <2>1. PICK p \in Stoppers : stopping[p] \in {"wait", "returned"} BY DEF FeedMayPanic
  <2>2. "inbound" \in Loops /\ loop["inbound"] = "feeding" BY DEF FeedMayPanic, Loops
  <2>3. p # "run" BY <2>1, <2>2 DEF Stopping, RunInOrder
  <2> QED BY <2>1, <2>3 DEF Stopping, CloseInOrder, Stoppers
<1>2. TypeOK /\ Stopping => Inv BY <1>1 DEF Stopping, Inv
<1> QED BY <1>2, StoppingHolds, TypeCorrect, PTL

\* When Run has returned, its goroutines have ended and an agent it has started is stopped to
\* the end, up to a deadline that has passed; when Close has returned too, the session is done.
THEOREM NothingLeft == Spec => []NothingRunsOn
<1>1. TypeOK /\ Stopping => NothingRunsOn
  <2> SUFFICES ASSUME TypeOK, Stopping, run = "returned"
               PROVE  /\ \A l \in Loops : loop[l] \in {"off", "done"}
                      /\ started => stopped /\ responder = "closed" /\ RecognizerOver
                      /\ close = "returned" => done /\ ~audioOpen
    BY DEF NothingRunsOn
  <2> USE DEF Stopping
  <2>1. \A l \in Loops : loop[l] \in {"off", "done"} BY DEF RunInOrder
  <2>2. close = "returned" => done /\ ~audioOpen BY DEF CloseInOrder
  <2>3. ASSUME started PROVE stopped /\ responder = "closed" /\ RecognizerOver
    <3>1. "run" \in Stoppers /\ stopping["run"] = "returned"
      BY <2>3 DEF RunInOrder, Stoppers
    <3>2. \A p \in Stoppers : stopping[p] \notin Inside BY <3>1 DEF LockIsHeld
    <3>3. stopped BY <3>1 DEF StoppedInOrder
    <3>4. responder = "closed" BY <3>2, <3>3 DEF StoppedInOrder, Inside
    <3>5. RecognizerOver BY <3>2, <3>3 DEF StoppedInOrder, RecognizerOver
    <3> QED BY <3>3, <3>4, <3>5
  <2> QED BY <2>1, <2>2, <2>3
<1> QED BY <1>1, StoppingHolds, TypeCorrect, PTL
=============================================================================
