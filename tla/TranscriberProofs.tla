-------------------------- MODULE TranscriberProofs --------------------------
(***************************************************************************)
(* Transcriber, for any set of providers, every capacity and every number  *)
(* of sessions, transcripts, failures and attempts: type correctness, that *)
(* no loop sends on the closed channel, that no connection and no          *)
(* transcript of a session outlives it, and that Execute gives up.         *)
(***************************************************************************)
EXTENDS Transcriber, TLAPS

USE DEF ownerVars, loopVars, grpVars

\* The initial state is type correct.
LEMMA InitTypes == Init => TypeOK
<1> SUFFICES ASSUME Init PROVE TypeOK OBVIOUS
<1> USE ProvidersAssumption, BoundsAssumption DEF Init
<1>1. OwnerTypeOK BY DEF OwnerTypeOK
<1>2. LoopTypeOK BY DEF LoopTypeOK
<1>3. FlagTypeOK BY DEF FlagTypeOK
<1>4. DataTypeOK BY DEF DataTypeOK
<1> QED BY <1>1, <1>2, <1>3, <1>4 DEF TypeOK

\* A stuttering step keeps the types.
LEMMA UnchangedTypes == TypeOK /\ UNCHANGED vars => TypeOK'
BY DEF vars, TypeOK, OwnerTypeOK, LoopTypeOK, FlagTypeOK, DataTypeOK

\* What Head and Tail return.
LEMMA TailType ==
  ASSUME NEW S, NEW s \in Seq(S), s # <<>>
  PROVE  Head(s) \in S /\ Tail(s) \in Seq(S) /\ Len(Tail(s)) = Len(s) - 1
OBVIOUS

\* Start keeps the types.
LEMMA StartTypes ==
  ASSUME TypeOK, Start
  PROVE  TypeOK'
<1> USE BoundsAssumption DEF TypeOK, Start, StreamBegins
<1>1. OwnerTypeOK' BY DEF OwnerTypeOK
<1>2. LoopTypeOK' BY DEF LoopTypeOK, Reasons
<1>3. FlagTypeOK' BY DEF FlagTypeOK
<1>4. DataTypeOK' BY DEF DataTypeOK, OwnerTypeOK
<1> QED BY <1>1, <1>2, <1>3, <1>4

\* Stop keeps the types.
LEMMA StopTypes ==
  ASSUME TypeOK, StopCancel \/ StopWaited
  PROVE  TypeOK'
<1> USE BoundsAssumption DEF TypeOK, StopCancel, StopWaited
<1>1. OwnerTypeOK' BY DEF OwnerTypeOK
<1>2. LoopTypeOK' BY DEF LoopTypeOK, Reasons
<1>3. FlagTypeOK' BY DEF FlagTypeOK
<1>4. DataTypeOK' BY DEF DataTypeOK, OwnerTypeOK
<1> QED BY <1>1, <1>2, <1>3, <1>4

\* Feed and the reader of the transcripts keep the types.
LEMMA FeedReadTypes ==
  ASSUME TypeOK, Feed \/ Read
  PROVE  TypeOK'
<1> USE BoundsAssumption DEF TypeOK, Feed, Read
<1>1. OwnerTypeOK' BY DEF OwnerTypeOK
<1>2. LoopTypeOK' BY DEF LoopTypeOK, Reasons
<1>3. FlagTypeOK' BY DEF FlagTypeOK
<1>4. DataTypeOK'
  <2>1. CASE Feed BY <2>1 DEF DataTypeOK
  <2>2. CASE Read
    <3>1. Tail(transcriptCh) \in Seq(Transcripts) /\ Len(Tail(transcriptCh)) <= Cap
      BY <2>2, TailType DEF DataTypeOK
    <3> QED BY <2>2, <3>1 DEF DataTypeOK
  <2> QED BY <2>1, <2>2
<1> QED BY <1>1, <1>2, <1>3, <1>4

\* The service and the network keep the types.
LEMMA NetTypes ==
  ASSUME TypeOK, Say \/ ConnBreaks
  PROVE  TypeOK'
<1> USE BoundsAssumption DEF TypeOK, Say, ConnBreaks, Fault
<1>1. OwnerTypeOK' BY DEF OwnerTypeOK
<1>2. LoopTypeOK' BY DEF LoopTypeOK, Reasons
<1>3. FlagTypeOK' BY DEF FlagTypeOK
<1>4. DataTypeOK'
  <2>1. CASE Say
    <3>1. said' \in 1 .. MaxSaid BY <2>1 DEF OwnerTypeOK
    <3>2. inbox' \in Seq(1 .. MaxSaid) BY <2>1, <3>1 DEF DataTypeOK
    <3> QED BY <2>1, <3>2 DEF DataTypeOK
  <2>2. CASE ConnBreaks BY <2>2 DEF DataTypeOK
  <2> QED BY <2>1, <2>2
<1> QED BY <1>1, <1>2, <1>3, <1>4

\* So do the steps of Execute:
LEMMA OpenTypes ==
  ASSUME TypeOK, OpenConnection \/ BackoffOver
  PROVE  TypeOK'
<1> USE BoundsAssumption DEF TypeOK, OpenConnection, BackoffOver, End
<1>1. OwnerTypeOK' BY DEF OwnerTypeOK
<1>2. LoopTypeOK' BY DEF LoopTypeOK, Reasons
<1>3. FlagTypeOK' BY DEF FlagTypeOK
<1>4. DataTypeOK'
  <2>1. CASE OpenConnection BY <2>1 DEF DataTypeOK
  <2>2. CASE BackoffOver BY <2>2 DEF DataTypeOK
  <2> QED BY <2>1, <2>2
<1> QED BY <1>1, <1>2, <1>3, <1>4

\* an attempt that fails at once,
LEMMA OpenFailsTypes ==
  ASSUME TypeOK, OpenFails
  PROVE  TypeOK'
<1> USE BoundsAssumption DEF TypeOK, OpenFails, AttemptEnds, End, Continue, Fault
<1>1. OwnerTypeOK' BY DEF OwnerTypeOK
<1>2. LoopTypeOK' BY DEF LoopTypeOK, Reasons
<1>3. FlagTypeOK' BY DEF FlagTypeOK
<1>4. DataTypeOK' BY DEF DataTypeOK, OwnerTypeOK
<1> QED BY <1>1, <1>2, <1>3, <1>4

\* and one whose loops have returned.
LEMMA GroupTypes ==
  ASSUME TypeOK, GroupDone
  PROVE  TypeOK'
<1> USE BoundsAssumption DEF TypeOK, GroupDone, AttemptEnds, End, Continue
<1>1. OwnerTypeOK' BY DEF OwnerTypeOK
<1>2. LoopTypeOK' BY DEF LoopTypeOK, Reasons
<1>3. FlagTypeOK' BY DEF FlagTypeOK
<1>4. DataTypeOK' BY DEF DataTypeOK, OwnerTypeOK
<1> QED BY <1>1, <1>2, <1>3, <1>4

\* sendLoop keeps the types when it writes,
LEMMA SendTypes ==
  ASSUME TypeOK, SendAudio
  PROVE  TypeOK'
<1> USE BoundsAssumption DEF TypeOK, SendAudio, HangUp, First
<1>1. OwnerTypeOK' BY DEF OwnerTypeOK
<1>2. LoopTypeOK' BY DEF LoopTypeOK, Reasons
<1>3. FlagTypeOK' BY DEF FlagTypeOK
<1>4. DataTypeOK' BY DEF DataTypeOK, OwnerTypeOK
<1> QED BY <1>1, <1>2, <1>3, <1>4

\* when its context is done,
LEMMA SendCtxTypes ==
  ASSUME TypeOK, SendCtxDone
  PROVE  TypeOK'
<1> USE BoundsAssumption DEF TypeOK, SendCtxDone, HangUp, End
<1>1. OwnerTypeOK' BY DEF OwnerTypeOK
<1>2. LoopTypeOK' BY DEF LoopTypeOK, Reasons
<1>3. FlagTypeOK' BY DEF FlagTypeOK
<1>4. DataTypeOK' BY DEF DataTypeOK, OwnerTypeOK
<1> QED BY <1>1, <1>2, <1>3, <1>4

\* and when Deepgram's reconnects.
LEMMA ReconnectTypes ==
  ASSUME TypeOK, Reconnect
  PROVE  TypeOK'
<1> USE BoundsAssumption DEF TypeOK, Reconnect, End, Fault
<1>1. OwnerTypeOK' BY DEF OwnerTypeOK
<1>2. LoopTypeOK' BY DEF LoopTypeOK, Reasons
<1>3. FlagTypeOK' BY DEF FlagTypeOK
<1>4. DataTypeOK'
  <2>1. CASE inbox' = inbox BY <2>1 DEF DataTypeOK
  <2>2. CASE inbox' = <<>> BY <2>2 DEF DataTypeOK
  <2> QED BY <2>1, <2>2
<1> QED BY <1>1, <1>2, <1>3, <1>4

\* A transcript is offered only where there is room.
LEMMA OfferTypes ==
  ASSUME TypeOK, NEW transcript \in Transcripts, Offer(transcript)
  PROVE  /\ transcriptCh' \in Seq(Transcripts) /\ Len(transcriptCh') <= Cap
         /\ crashed' \in BOOLEAN
<1> USE BoundsAssumption DEF TypeOK, Offer
<1>1. crashed' \in BOOLEAN BY DEF FlagTypeOK
<1>2. CASE ~closed /\ Len(transcriptCh) < Cap
  <2>1. transcriptCh' = Append(transcriptCh, transcript) BY <1>2
  <2> QED BY <1>1, <1>2, <2>1 DEF DataTypeOK
<1>3. CASE ~(~closed /\ Len(transcriptCh) < Cap) BY <1>1, <1>3 DEF DataTypeOK
<1> QED BY <1>2, <1>3

\* Reading a message hands on what the service has said, in the session it is read in.
LEMMA InboxTypes ==
  ASSUME TypeOK, inbox # <<>>
  PROVE  <<gen, Head(inbox)>> \in Transcripts /\ Tail(inbox) \in Seq(1 .. MaxSaid)
<1>1. Head(inbox) \in 1 .. MaxSaid /\ Tail(inbox) \in Seq(1 .. MaxSaid)
  BY TailType DEF TypeOK, DataTypeOK
<1>2. gen \in 0 .. MaxStarts BY DEF TypeOK, OwnerTypeOK
<1> QED BY <1>1, <1>2 DEF Transcripts

\* receiveLoop keeps the types.
LEMMA ReceiveTypes ==
  ASSUME TypeOK, ReceiveLoop
  PROVE  TypeOK'
<1> USE DEF TypeOK, ReceiveLoop, ReadMessage, SendTranscript, ReadFails, ServerError, First, Fault
<1>1. OwnerTypeOK' BY BoundsAssumption DEF OwnerTypeOK
<1>2. LoopTypeOK' BY DEF LoopTypeOK, Reasons
<1>3. FlagTypeOK' BY DEF FlagTypeOK, Offer
<1>4. DataTypeOK'
  <2>1. CASE ReadMessage
    <3> USE <2>1, InboxTypes DEF Readable
    <3>1. CASE provider = "openai" BY <3>1, OfferTypes DEF DataTypeOK
    <3>2. CASE provider # "openai" BY <3>2 DEF DataTypeOK
    <3> QED BY <3>1, <3>2
  <2>2. CASE SendTranscript
    <3>1. held \in Transcripts BY <2>2 DEF DataTypeOK
    <3>2. CASE Offer(held) BY <2>2, <3>1, <3>2, OfferTypes DEF DataTypeOK
    <3>3. CASE UNCHANGED transcriptCh BY <2>2, <3>3 DEF DataTypeOK
    <3> QED BY <2>2, <3>2, <3>3
  <2>3. CASE ReadFails \/ ServerError BY <2>3 DEF DataTypeOK
  <2> QED BY <2>1, <2>2, <2>3
<1> QED BY <1>1, <1>2, <1>3, <1>4

\* Deepgram's callback keeps the types.
LEMMA CallbackTypes ==
  ASSUME TypeOK, Callback
  PROVE  TypeOK'
<1> USE DEF TypeOK, Callback, CallbackBegins, CallbackSends, Message
<1>1. OwnerTypeOK' BY BoundsAssumption DEF OwnerTypeOK
<1>2. LoopTypeOK' BY DEF LoopTypeOK
<1>3. FlagTypeOK' BY DEF FlagTypeOK, Offer
<1>4. DataTypeOK'
  <2>1. CASE CallbackBegins BY <2>1, InboxTypes DEF DataTypeOK, Readable
  <2>2. CASE CallbackSends
    <3>1. callback \in Transcripts BY <2>2 DEF DataTypeOK
    <3>2. CASE Offer(callback) BY <2>2, <3>1, <3>2, OfferTypes DEF DataTypeOK
    <3>3. CASE UNCHANGED transcriptCh BY <2>2, <3>3 DEF DataTypeOK
    <3> QED BY <2>2, <3>2, <3>3
  <2> QED BY <2>1, <2>2
<1> QED BY <1>1, <1>2, <1>3, <1>4

\* Type correctness: the channels never hold more than their capacities.
THEOREM TypeCorrect == Spec => []TypeOK
<1>1. TypeOK /\ [Next]_vars => TypeOK'
  <2> SUFFICES ASSUME TypeOK, [Next]_vars PROVE TypeOK' OBVIOUS
  <2>1. CASE Owner BY <2>1, StartTypes, StopTypes, FeedReadTypes DEF Owner
  <2>2. CASE Say \/ ConnBreaks BY <2>2, NetTypes
  <2>3. CASE StreamLoop BY <2>3, OpenTypes, OpenFailsTypes, GroupTypes DEF StreamLoop
  <2>4. CASE SendLoop BY <2>4, SendTypes, SendCtxTypes, ReconnectTypes DEF SendLoop
  <2>5. CASE ReceiveLoop \/ Callback BY <2>5, ReceiveTypes, CallbackTypes
  <2>6. CASE UNCHANGED vars BY <2>6, UnchangedTypes
  <2> QED BY <2>1, <2>2, <2>3, <2>4, <2>5, <2>6 DEF Next
<1> QED BY <1>1, InitTypes, PTL DEF Spec

(***************************************************************************)
(* The invariant of a session.                                             *)
(***************************************************************************)
\* The channel is closed by the end of streamLoop only, and the loops run under it.
LoopsInOrder ==
  /\ closed => loop = "done"
  /\ snd # "done" \/ rcv # "done" => loop = "run"
  /\ owner = "idle" => loop = "done"
  /\ provider = "deepgram" => rcv = "done" /\ loop \in {"run", "done"}
  /\ snd = "reconnect" => provider = "deepgram"
  /\ callback # <<>> => provider = "deepgram"

\* OpenAI's connection does not outlive sendLoop; Google's has died, or its context is
\* done, when receiveLoop ends or the group has an error.
ConnectionEnds ==
  /\ provider = "openai" /\ snd = "done" => conn # "open"
  /\ provider = "google" /\ (rcv = "done" \/ grpErr # "none") => conn # "open" \/ ctxDone
  /\ provider # "deepgram" /\ owner = "idle" => conn # "open"

\* What receiveLoop holds is of the session that runs.
HeldIsOwn == rcv = "send" => held[1] = gen

\* sendLoop ends only with the group, so that an attempt never ends without an error; and
\* every connection that brought nothing has been counted.
FailuresCounted ==
  /\ provider # "deepgram" /\ loop = "run" /\ snd = "done" => GrpDone
  /\ loop # "done" => barren <= failures
  /\ barren <= failures + 1
  /\ MaxAttempts > 0 => failures < MaxAttempts

SessionInv ==
  /\ LoopsInOrder /\ NoSendOnClosed /\ ConnectionEnds
  /\ HeldIsOwn /\ OwnTranscripts /\ FailuresCounted

\* No session has begun.
LEMMA InitSession == Init => SessionInv
BY DEF Init, SessionInv, LoopsInOrder, NoSendOnClosed, ConnectionEnds, HeldIsOwn, OwnTranscripts,
       FailuresCounted

\* The loops end before streamLoop does.
LEMMA LoopsStayInOrder ==
  ASSUME TypeOK, SessionInv, [Next]_vars
  PROVE  LoopsInOrder'
<1> USE DEF SessionInv, LoopsInOrder
<1>1. CASE Owner
  BY <1>1 DEF Owner, Start, StreamBegins, StopCancel, StopWaited, LoopsEnded, Feed, Read
<1>2. CASE Say \/ ConnBreaks
  BY <1>2 DEF Say, ConnBreaks
<1>3. CASE StreamLoop
  <2>1. CASE OpenConnection BY <2>1 DEF OpenConnection
  <2>2. CASE OpenFails BY <2>2 DEF OpenFails, AttemptEnds, End, Continue
  <2>3. CASE GroupDone BY <2>3 DEF GroupDone, GroupReturns, AttemptEnds, End, Continue
  <2>4. CASE BackoffOver BY <2>4 DEF BackoffOver, End
  <2> QED BY <1>3, <2>1, <2>2, <2>3, <2>4 DEF StreamLoop
<1>4. CASE SendLoop
  <2>1. CASE SendAudio BY <2>1 DEF SendAudio, HangUp, First
  <2>2. CASE SendCtxDone BY <2>2 DEF SendCtxDone, HangUp, End, SendCancelled
  <2>3. CASE Reconnect BY <2>3 DEF Reconnect, End
  <2> QED BY <1>4, <2>1, <2>2, <2>3 DEF SendLoop
<1>5. CASE ReceiveLoop
  BY <1>5 DEF ReceiveLoop, ReadMessage, SendTranscript, ReadFails, ServerError, First
<1>6. CASE Callback
  BY <1>6 DEF Callback, CallbackBegins, CallbackSends, Message
<1>7. CASE UNCHANGED vars
  BY <1>7 DEF vars
<1> QED BY <1>1, <1>2, <1>3, <1>4, <1>5, <1>6, <1>7 DEF Next

\* A connection ends with its loops.
LEMMA ConnectionsEnd ==
  ASSUME TypeOK, SessionInv, [Next]_vars
  PROVE  ConnectionEnds'
<1> USE DEF SessionInv, TypeOK, LoopTypeOK, LoopsInOrder, ConnectionEnds, Dead, Reasons, GrpDone
<1>1. CASE Owner
  BY <1>1 DEF Owner, Start, StreamBegins, StopCancel, StopWaited, LoopsEnded, Feed, Read
<1>2. CASE Say \/ ConnBreaks
  BY <1>2 DEF Say, ConnBreaks
<1>3. CASE StreamLoop
  BY <1>3 DEF StreamLoop, OpenConnection, OpenFails, GroupDone, GroupReturns, BackoffOver,
     AttemptEnds, End, Continue
<1>4. CASE SendLoop
  <2>1. CASE SendAudio BY <2>1 DEF SendAudio, HangUp, First
  <2>2. CASE SendCtxDone BY <2>2 DEF SendCtxDone, HangUp, End, SendCancelled
  <2>3. CASE Reconnect BY <2>3 DEF Reconnect, End
  <2> QED BY <1>4, <2>1, <2>2, <2>3 DEF SendLoop
<1>5. CASE ReceiveLoop
  <2>1. CASE ReadMessage BY <2>1 DEF ReadMessage
  <2>2. CASE SendTranscript BY <2>2 DEF SendTranscript, GiveUpSend, First
  <2>3. CASE ReadFails BY <2>3 DEF ReadFails, First
  <2>4. CASE ServerError BY <2>4 DEF ServerError, First
  <2> QED BY <1>5, <2>1, <2>2, <2>3, <2>4 DEF ReceiveLoop
<1>6. CASE Callback
  BY <1>6 DEF Callback, CallbackBegins, CallbackSends, Message
<1>7. CASE UNCHANGED vars
  BY <1>7 DEF vars
<1> QED BY <1>1, <1>2, <1>3, <1>4, <1>5, <1>6, <1>7 DEF Next

\* Nobody sends on the closed channel.
LEMMA StaysOpenToSenders ==
  ASSUME TypeOK, SessionInv, [Next]_vars
  PROVE  NoSendOnClosed'
<1> USE DEF SessionInv, LoopsInOrder, NoSendOnClosed, Offer
<1>1. CASE Owner
  BY <1>1 DEF Owner, Start, StreamBegins, StopCancel, StopWaited, LoopsEnded, Feed, Read
<1>2. CASE Say \/ ConnBreaks
  BY <1>2 DEF Say, ConnBreaks
<1>3. CASE StreamLoop
  BY <1>3 DEF StreamLoop, OpenConnection, OpenFails, GroupDone, GroupReturns, BackoffOver,
     AttemptEnds, End, Continue
<1>4. CASE SendLoop
  BY <1>4 DEF SendLoop, SendAudio, SendCtxDone, Reconnect, HangUp, First, End
<1>5. CASE ReceiveLoop
  BY <1>5 DEF ReceiveLoop, ReadMessage, SendTranscript, ReadFails, ServerError, First
<1>6. CASE Callback
  BY <1>6 DEF Callback, CallbackBegins, CallbackSends, Message
<1>7. CASE UNCHANGED vars
  BY <1>7 DEF vars
<1> QED BY <1>1, <1>2, <1>3, <1>4, <1>5, <1>6, <1>7 DEF Next

\* receiveLoop takes up transcripts of its session.
LEMMA HoldsOwn ==
  ASSUME TypeOK, SessionInv, [Next]_vars
  PROVE  HeldIsOwn'
<1> USE DEF SessionInv, LoopsInOrder, HeldIsOwn
<1>1. CASE Owner
  BY <1>1 DEF Owner, Start, StreamBegins, StopCancel, StopWaited, LoopsEnded, Feed, Read
<1>2. CASE Say \/ ConnBreaks
  BY <1>2 DEF Say, ConnBreaks
<1>3. CASE StreamLoop
  BY <1>3 DEF StreamLoop, OpenConnection, OpenFails, GroupDone, GroupReturns, BackoffOver,
     AttemptEnds, End, Continue
<1>4. CASE SendLoop
  BY <1>4 DEF SendLoop, SendAudio, SendCtxDone, Reconnect, HangUp, First, End
<1>5. CASE ReceiveLoop
  BY <1>5 DEF ReceiveLoop, ReadMessage, SendTranscript, ReadFails, ServerError, First
<1>6. CASE Callback
  BY <1>6 DEF Callback, CallbackBegins, CallbackSends, Message
<1>7. CASE UNCHANGED vars
  BY <1>7 DEF vars
<1> QED BY <1>1, <1>2, <1>3, <1>4, <1>5, <1>6, <1>7 DEF Next

\* And sends them on the channel of its session.
LEMMA SendsOwn ==
  ASSUME TypeOK, SessionInv, [Next]_vars
  PROVE  OwnTranscripts'
<1> USE DEF SessionInv, LoopsInOrder, HeldIsOwn, OwnTranscripts, Offer
<1>1. CASE Owner
  BY <1>1 DEF Owner, Start, StreamBegins, StopCancel, StopWaited, LoopsEnded, Feed, Read
<1>2. CASE Say \/ ConnBreaks
  BY <1>2 DEF Say, ConnBreaks
<1>3. CASE StreamLoop
  BY <1>3 DEF StreamLoop, OpenConnection, OpenFails, GroupDone, GroupReturns, BackoffOver,
     AttemptEnds, End, Continue
<1>4. CASE SendLoop
  BY <1>4 DEF SendLoop, SendAudio, SendCtxDone, Reconnect, HangUp, First, End
<1>5. CASE ReceiveLoop
  BY <1>5 DEF ReceiveLoop, ReadMessage, SendTranscript, ReadFails, ServerError, First
<1>6. CASE Callback
  BY <1>6 DEF Callback, CallbackBegins, CallbackSends, Message
<1>7. CASE UNCHANGED vars
  BY <1>7 DEF vars
<1> QED BY <1>1, <1>2, <1>3, <1>4, <1>5, <1>6, <1>7 DEF Next

\* No connection that brings nothing goes uncounted.
LEMMA CountsFailures ==
  ASSUME TypeOK, SessionInv, [Next]_vars
  PROVE  FailuresCounted'
<1> USE DEF SessionInv, TypeOK, LoopTypeOK, Reasons, LoopsInOrder, FailuresCounted, GrpDone, First
<1>1. CASE Owner
  BY <1>1 DEF Owner, Start, StreamBegins, StopCancel, StopWaited, LoopsEnded, Feed, Read
<1>2. CASE Say \/ ConnBreaks
  BY <1>2 DEF Say, ConnBreaks
<1>3. CASE StreamLoop
  <2>1. CASE OpenConnection BY BoundsAssumption, <2>1 DEF OpenConnection
  <2>2. CASE OpenFails BY BoundsAssumption, <2>2 DEF OpenFails, AttemptEnds, End, Continue
  <2>3. CASE GroupDone BY BoundsAssumption, <2>3 DEF GroupDone, GroupReturns, AttemptEnds, End,
                          Continue
  <2>4. CASE BackoffOver BY BoundsAssumption, <2>4 DEF BackoffOver, End
  <2> QED BY <1>3, <2>1, <2>2, <2>3, <2>4 DEF StreamLoop
<1>4. CASE SendLoop
  <2>1. CASE SendAudio BY <2>1 DEF SendAudio, HangUp, First
  <2>2. CASE SendCtxDone BY <2>2 DEF SendCtxDone, HangUp, End, SendCancelled
  <2>3. CASE Reconnect BY <2>3 DEF Reconnect, End
  <2> QED BY <1>4, <2>1, <2>2, <2>3 DEF SendLoop
<1>5. CASE ReceiveLoop
  BY <1>5 DEF ReceiveLoop, ReadMessage, SendTranscript, ReadFails, ServerError, First
<1>6. CASE Callback
  BY <1>6 DEF Callback, CallbackBegins, CallbackSends, Message
<1>7. CASE UNCHANGED vars
  BY <1>7 DEF vars
<1> QED BY <1>1, <1>2, <1>3, <1>4, <1>5, <1>6, <1>7 DEF Next

\* The invariant of a session.
THEOREM SessionHolds == Spec => []SessionInv
<1>1. TypeOK /\ SessionInv /\ [Next]_vars => SessionInv'
  BY LoopsStayInOrder, ConnectionsEnd, StaysOpenToSenders, HoldsOwn, SendsOwn, CountsFailures
  DEF SessionInv
<1> QED BY <1>1, InitSession, TypeCorrect, PTL DEF Spec

\* streamLoop and receiveLoop never send a transcript on the channel that has been closed.
THEOREM SendsAreSafe == Spec => []Inv
<1>1. TypeOK /\ SessionInv => Inv BY DEF SessionInv, Inv
<1> QED BY <1>1, TypeCorrect, SessionHolds, PTL

\* A connection is closed or dead once its loops are no more, however they ended.
THEOREM ConnectionsDoNotStay == Spec => []NoConnectionLeft
<1>1. TypeOK /\ SessionInv => NoConnectionLeft
  <2> SUFFICES ASSUME TypeOK, SessionInv, provider # "deepgram", loop # "run"
               PROVE  conn # "open" \/ (provider = "google" /\ ctxDone)
    BY DEF NoConnectionLeft
  <2>1. provider \in {"openai", "google"} BY ProvidersAssumption DEF TypeOK, OwnerTypeOK
  <2>2. snd = "done" /\ rcv = "done" BY DEF SessionInv, LoopsInOrder
  <2> QED BY <2>1, <2>2 DEF SessionInv, ConnectionEnds
<1> QED BY <1>1, TypeCorrect, SessionHolds, PTL

\* No transcript of an earlier session arrives in this one's channel.
THEOREM TranscriptsAreOwn == Spec => []OwnTranscripts
<1>1. SessionInv => OwnTranscripts BY DEF SessionInv
<1> QED BY <1>1, SessionHolds, PTL

\* Connections in a row that bring nothing are no more than the attempts allowed.
THEOREM GivesUp == Spec => []UselessAttemptsEnd
<1>1. TypeOK /\ SessionInv => UselessAttemptsEnd
  BY BoundsAssumption DEF TypeOK, LoopTypeOK, SessionInv, FailuresCounted, UselessAttemptsEnd
<1> QED BY <1>1, TypeCorrect, SessionHolds, PTL
=============================================================================
