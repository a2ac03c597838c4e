------------------------- MODULE WebRTCSessionProofs -------------------------
(***************************************************************************)
(* WebRTCSession, for any number of remote tracks and every buffer size,   *)
(* with or without messages and a timeout: type correctness, what a caller *)
(* of Close finds, who may meet the closed audioIn, and that the session   *)
(* implements the safety part of SessionPort.                              *)
(***************************************************************************)
EXTENDS WebRTCSession, TLAPS

\* The initial state is type correct.
LEMMA InitTypes == Init => TypeOK
<1> SUFFICES ASSUME Init PROVE TypeOK OBVIOUS
<1> USE DEF Init
<1>1. CloseTypeOK BY DEF CloseTypeOK, Closers, Nobody
<1>2. AudioTypeOK BY SessionAssumption DEF AudioTypeOK
<1>3. PeerTypeOK BY DEF PeerTypeOK
<1>4. FlagTypeOK BY DEF FlagTypeOK
<1> QED BY <1>1, <1>2, <1>3, <1>4 DEF TypeOK

\* A stuttering step keeps the types.
LEMMA UnchangedTypes == TypeOK /\ UNCHANGED vars => TypeOK'
BY DEF vars, portVars, closeVars, audioVars, dcVars, TypeOK, CloseTypeOK, AudioTypeOK,
       PeerTypeOK, FlagTypeOK

\* The Manager and the callers of Close keep the types.
LEMMA CloseTypes ==
  ASSUME TypeOK, Manager \/ OwnerCloses \/ OwnerExpires \/ \E c \in Closers : Close(c)
  PROVE  TypeOK'
<1> USE DEF TypeOK, portVars, closeVars, audioVars, dcVars
<1>1. CASE Manager \/ OwnerCloses \/ OwnerExpires
  <2> USE DEF Manager, NewSession, Negotiated, NegotiationFails, OwnerCloses, OwnerExpires, Call
  <2>1. CloseTypeOK' BY <1>1 DEF CloseTypeOK, Closers
  <2>2. AudioTypeOK' BY <1>1 DEF AudioTypeOK
  <2>3. PeerTypeOK' BY <1>1 DEF PeerTypeOK
  <2>4. FlagTypeOK' BY <1>1 DEF FlagTypeOK
  <2> QED BY <2>1, <2>2, <2>3, <2>4
<1>2. CASE \E c \in Closers : Close(c)
  <2> USE DEF Close, Once, ClosePeer, WaitReaders, CloseAudio, CloseMessages
  <2>1. CloseTypeOK' BY <1>2 DEF CloseTypeOK
  <2>2. AudioTypeOK' BY <1>2 DEF AudioTypeOK
  <2>3. PeerTypeOK' BY <1>2 DEF PeerTypeOK
  <2>4. FlagTypeOK' BY <1>2 DEF FlagTypeOK
  <2> QED BY <2>1, <2>2, <2>3, <2>4
<1> QED BY <1>1, <1>2

\* So do the timer, the peer connection, the readers and the data channel.
LEMMA CallbackTypes ==
  ASSUME TypeOK,
         \/ TimeoutLoopEnds \/ TimerFires \/ IceConnected \/ IceBroken
         \/ \E t \in RemoteTracks : TrackArrives(t) \/ Reader(t)
         \/ TakeFrame \/ DataChannel
  PROVE  TypeOK'
<1> USE DEF TypeOK, portVars, closeVars, audioVars, dcVars
<1>1. CASE TimeoutLoopEnds \/ TimerFires \/ IceConnected \/ IceBroken
  <2> USE DEF TimeoutLoopEnds, TimerFires, IceConnected, IceBroken, Call
  <2>1. CloseTypeOK' BY <1>1 DEF CloseTypeOK, Closers
  <2>2. AudioTypeOK' BY <1>1 DEF AudioTypeOK
  <2>3. PeerTypeOK' BY <1>1 DEF PeerTypeOK
  <2>4. FlagTypeOK' BY <1>1 DEF FlagTypeOK
  <2> QED BY <2>1, <2>2, <2>3, <2>4
<1>2. CASE \E t \in RemoteTracks : TrackArrives(t) \/ Reader(t)
  <2> USE DEF TrackArrives, Reader, OnTrack, ReadRTP, ReadFails, SendFrame, SendFrameClosed
  <2>1. CloseTypeOK' BY <1>2 DEF CloseTypeOK
  <2>2. AudioTypeOK' BY <1>2, SessionAssumption DEF AudioTypeOK
  <2>3. PeerTypeOK' BY <1>2 DEF PeerTypeOK
  <2>4. FlagTypeOK' BY <1>2 DEF FlagTypeOK
  <2> QED BY <2>1, <2>2, <2>3, <2>4
<1>3. CASE TakeFrame \/ DataChannel
  <2> USE DEF TakeFrame, DataChannel, OnOpen, OnClose, OnMessage, SendMessageIn
  <2>1. CloseTypeOK' BY <1>3 DEF CloseTypeOK
  <2>2. AudioTypeOK' BY <1>3, SessionAssumption DEF AudioTypeOK
  <2>3. PeerTypeOK' BY <1>3 DEF PeerTypeOK
  <2>4. FlagTypeOK' BY <1>3 DEF FlagTypeOK
  <2> QED BY <2>1, <2>2, <2>3, <2>4
<1> QED BY <1>1, <1>2, <1>3

\* Type correctness: audioIn never holds more than its buffer.
THEOREM TypeCorrect == Spec => []TypeOK
<1>1. TypeOK /\ [Next]_vars => TypeOK'
  BY UnchangedTypes, CloseTypes, CallbackTypes DEF Next
<1> QED BY <1>1, InitTypes, PTL DEF Spec

\* One goroutine at a time is inside once.Do, and what it has done so far holds.
ClosingInOrder ==
  \A c \in Closers :
    /\ at[c] \in {"peer", "wait", "audio", "messages"} => once = c /\ done
    /\ at[c] \in {"wait", "audio", "messages"} => peer = "closed"
    /\ at[c] \in {"peer", "wait"} => waited = "pending"
    /\ at[c] \in {"audio", "messages"} => waited # "pending"
    /\ at[c] = "messages" => ~audioOpen /\ Messaging
    /\ at[c] = "returned" => once = "over"

\* What holds before the first call of Close and after its return.
ClosedAtEnd ==
  /\ once = Nobody => waited = "pending"
  /\ once = "over" => done /\ peer = "closed" /\ ~audioOpen /\ (Messaging => ~messagesOpen)
  /\ ~audioOpen => waited # "pending"

\* After a complete wait a reader is at work only if OnTrack came later.
NoneLeftReading ==
  /\ waited = "all" => late \/ \A t \in RemoteTracks : track[t] \in {"none", "announced", "done"}
  /\ ReadersAreAwaited

Closing == ClosingInOrder /\ ClosedAtEnd /\ NoneLeftReading

\* Initially nobody is closing and nobody reads.
LEMMA InitClosing == Init => Closing
BY DEF Init, Closing, ClosingInOrder, ClosedAtEnd, NoneLeftReading, ReadersAreAwaited, Closers,
       Nobody

\* A step that leaves Close and the readers alone, or only has a goroutine call Close.
LEMMA QuietClosing ==
  ASSUME TypeOK, Closing,
         UNCHANGED <<done, once, waited, audioOpen, messagesOpen, track, late>>,
         \A c \in Closers : at'[c] = at[c] \/ (at[c] = "idle" /\ at'[c] = "called"),
         peer = "closed" => peer' = "closed",
         "audio" \in crashed' => "audio" \in crashed
  PROVE  Closing'
<1> USE DEF Closing
<1>1. ClosingInOrder' BY DEF ClosingInOrder
<1>2. ClosedAtEnd' BY DEF ClosedAtEnd
<1>3. NoneLeftReading' BY DEF NoneLeftReading, ReadersAreAwaited
<1> QED BY <1>1, <1>2, <1>3

\* The five steps of Close: the goroutine in once.Do is alone there.
LEMMA CloseClosing ==
  ASSUME TypeOK, Closing, NEW c \in Closers, Close(c)
  PROVE  Closing'
<1> USE DEF Closing, TypeOK, CloseTypeOK, AudioTypeOK, PeerTypeOK, FlagTypeOK, portVars,
            closeVars, audioVars, dcVars
<1>1. Nobody \notin Closers /\ "over" \notin Closers /\ Nobody # "over" BY DEF Closers, Nobody
<1>2. CASE Once(c)
  <2>1. ClosingInOrder' BY <1>1, <1>2 DEF Once, ClosingInOrder, ClosedAtEnd
  <2>2. ClosedAtEnd' BY <1>1, <1>2 DEF Once, ClosedAtEnd
  <2>3. NoneLeftReading' BY <1>2 DEF Once, NoneLeftReading, ReadersAreAwaited
  <2> QED BY <2>1, <2>2, <2>3
<1>3. CASE ClosePeer(c)
  <2>1. ClosingInOrder' BY <1>1, <1>3 DEF ClosePeer, ClosingInOrder
  <2>2. ClosedAtEnd' BY <1>3 DEF ClosePeer, ClosedAtEnd
  <2>3. NoneLeftReading' BY <1>3 DEF ClosePeer, NoneLeftReading, ReadersAreAwaited
  <2> QED BY <2>1, <2>2, <2>3
<1>4. CASE WaitReaders(c)
  <2>1. ClosingInOrder' BY <1>1, <1>4 DEF WaitReaders, ClosingInOrder
  <2>2. ClosedAtEnd' BY <1>1, <1>4 DEF WaitReaders, ClosingInOrder, ClosedAtEnd
  <2>3. NoneLeftReading'
    <3>1. waited = "pending" BY <1>4 DEF WaitReaders, ClosingInOrder
    <3>2. waited' = "all" => NoReader BY <1>4 DEF WaitReaders
    <3> QED BY <1>4, <3>1, <3>2 DEF WaitReaders, NoReader, NoneLeftReading, ReadersAreAwaited
  <2> QED BY <2>1, <2>2, <2>3
<1>5. CASE CloseAudio(c)
  <2>1. ClosingInOrder' BY <1>1, <1>5 DEF CloseAudio, ClosingInOrder
  <2>2. ClosedAtEnd' BY <1>1, <1>5 DEF CloseAudio, ClosingInOrder, ClosedAtEnd
  <2>3. NoneLeftReading' BY <1>5 DEF CloseAudio, NoneLeftReading, ReadersAreAwaited
  <2> QED BY <2>1, <2>2, <2>3
<1>6. CASE CloseMessages(c)
  <2>1. ClosingInOrder' BY <1>1, <1>6 DEF CloseMessages, ClosingInOrder
  <2>2. ClosedAtEnd' BY <1>1, <1>6 DEF CloseMessages, ClosingInOrder, ClosedAtEnd
  <2>3. NoneLeftReading' BY <1>6 DEF CloseMessages, NoneLeftReading, ReadersAreAwaited
  <2> QED BY <2>1, <2>2, <2>3
<1> QED BY <1>2, <1>3, <1>4, <1>5, <1>6 DEF Close

\* The readers: one that begins after the wait is recorded, and only such a one, or one that
\* Close gave up waiting for, reaches the closed channel.
LEMMA ReaderClosing ==
  ASSUME TypeOK, Closing, NEW t \in RemoteTracks, TrackArrives(t) \/ Reader(t)
  PROVE  Closing'
<1> USE DEF Closing, TypeOK, CloseTypeOK, AudioTypeOK, PeerTypeOK, FlagTypeOK, portVars,
            closeVars, audioVars, dcVars
<1>1. UNCHANGED <<done, once, at, waited, audioOpen, messagesOpen, peer>>
  BY DEF TrackArrives, Reader, OnTrack, ReadRTP, ReadFails, SendFrame, SendFrameClosed
<1>2. ClosingInOrder' BY <1>1 DEF ClosingInOrder
<1>3. ClosedAtEnd' BY <1>1 DEF ClosedAtEnd
<1>4. NoneLeftReading'
  <2>1. CASE TrackArrives(t)
    BY <2>1 DEF TrackArrives, NoneLeftReading, ReadersAreAwaited
  <2>2. CASE OnTrack(t) BY <2>2 DEF OnTrack, NoneLeftReading, ReadersAreAwaited
  <2>3. CASE ReadRTP(t) \/ ReadFails(t)
    BY <2>3 DEF ReadRTP, ReadFails, NoneLeftReading, ReadersAreAwaited
  <2>4. CASE SendFrame(t) BY <2>4 DEF SendFrame, NoneLeftReading, ReadersAreAwaited
  <2>5. CASE SendFrameClosed(t)
    <3>1. waited = "abandoned" \/ late
      BY <2>5 DEF SendFrameClosed, ClosedAtEnd, NoneLeftReading
    <3> QED BY <2>5, <3>1 DEF SendFrameClosed, NoneLeftReading, ReadersAreAwaited
  <2> QED BY <2>1, <2>2, <2>3, <2>4, <2>5 DEF Reader
<1> QED BY <1>2, <1>3, <1>4

\* Everything else leaves Close and the readers alone.
LEMMA OtherClosing ==
  ASSUME TypeOK, Closing,
         \/ Manager \/ OwnerCloses \/ OwnerExpires
         \/ TimeoutLoopEnds \/ TimerFires \/ IceConnected \/ IceBroken
         \/ TakeFrame \/ DataChannel \/ UNCHANGED vars
  PROVE  Closing'
<1>1. UNCHANGED <<done, once, waited, audioOpen, messagesOpen, track, late>>
  BY DEF Manager, NewSession, Negotiated, NegotiationFails, OwnerCloses, OwnerExpires,
         TimeoutLoopEnds, TimerFires, IceConnected, IceBroken, TakeFrame, DataChannel, OnOpen,
         OnClose, OnMessage, SendMessageIn, vars, portVars, closeVars, audioVars, dcVars
<1>2. \A c \in Closers : at'[c] = at[c] \/ (at[c] = "idle" /\ at'[c] = "called")
  BY DEF Manager, NewSession, Negotiated, NegotiationFails, OwnerCloses, OwnerExpires, Call,
         TimeoutLoopEnds, TimerFires, IceConnected, IceBroken, TakeFrame, DataChannel, OnOpen,
         OnClose, OnMessage, SendMessageIn, vars, closeVars, TypeOK, CloseTypeOK
<1>3. peer = "closed" => peer' = "closed"
  BY DEF Manager, NewSession, Negotiated, NegotiationFails, OwnerCloses, OwnerExpires,
         TimeoutLoopEnds, TimerFires, IceConnected, IceBroken, TakeFrame, DataChannel, OnOpen,
         OnClose, OnMessage, SendMessageIn, vars
<1>4. "audio" \in crashed' => "audio" \in crashed
  BY DEF Manager, NewSession, Negotiated, NegotiationFails, OwnerCloses, OwnerExpires,
         TimeoutLoopEnds, TimerFires, IceConnected, IceBroken, TakeFrame, DataChannel, OnOpen,
         OnClose, OnMessage, SendMessageIn, vars
<1> QED BY <1>1, <1>2, <1>3, <1>4, QuietClosing

\* The order of Close is an invariant.
THEOREM ClosingHolds == Spec => []Closing
<1>1. TypeOK /\ Closing /\ [Next]_vars => Closing'
  BY CloseClosing, ReaderClosing, OtherClosing DEF Next
<1> QED BY <1>1, InitClosing, TypeCorrect, PTL DEF Spec

\* Whoever returns from Close, the first caller or a later one, finds the session closed.
THEOREM ReturnedIsClosed == Spec => []ReturnedMeansClosed
<1>1. Closing => ReturnedMeansClosed
  BY DEF Closing, ClosingInOrder, ClosedAtEnd, ReturnedMeansClosed
<1> QED BY <1>1, ClosingHolds, PTL

\* A reader meets the closed audioIn only if Close gave up at a deadline or OnTrack was late.
THEOREM ReadersWaitedFor == Spec => []ReadersAreAwaited
<1>1. Closing => ReadersAreAwaited BY DEF Closing, NoneLeftReading
<1> QED BY <1>1, ClosingHolds, PTL

\* The refinement: each step of the session is one of the port or none.
LEMMA PortStep ==
  ASSUME TypeOK, Closing, [Next]_vars
  PROVE  [Port!Next]_(Port!port)
<1> USE DEF Port!port, Port!latches, portVars, closeVars, audioVars, dcVars
<1>1. CASE UNCHANGED vars BY <1>1 DEF vars
<1>2. CASE \/ Manager \/ OwnerCloses \/ OwnerExpires \/ TimeoutLoopEnds \/ TimerFires \/ IceBroken
           \/ \E t \in RemoteTracks : TrackArrives(t) \/ Reader(t)
           \/ TakeFrame
  BY <1>2 DEF Manager, NewSession, Negotiated, NegotiationFails, OwnerCloses, OwnerExpires,
              TimeoutLoopEnds, TimerFires, IceBroken, TrackArrives, Reader, OnTrack, ReadRTP,
              ReadFails, SendFrame, SendFrameClosed, TakeFrame
<1>3. CASE IceConnected
  BY <1>3 DEF IceConnected, Port!Next, Port!Connect, TypeOK, FlagTypeOK
<1>4. CASE DataChannel
  <2>1. CASE OnOpen BY <2>1 DEF OnOpen, Port!Next, Port!MessageReady, TypeOK, FlagTypeOK
  <2>2. CASE OnClose \/ OnMessage \/ SendMessageIn
    BY <2>2 DEF OnClose, OnMessage, SendMessageIn
  <2> QED BY <1>4, <2>1, <2>2 DEF DataChannel
<1>5. CASE \E c \in Closers : Close(c)
  <2>1. PICK c \in Closers : Close(c) BY <1>5
  <2>2. CASE Once(c) BY <2>2 DEF Once, Port!Next, Port!End, TypeOK, FlagTypeOK
  <2>3. CASE ClosePeer(c) \/ WaitReaders(c) BY <2>3 DEF ClosePeer, WaitReaders
  <2>4. CASE CloseAudio(c)
    <3>1. done BY <2>4 DEF CloseAudio, Closing, ClosingInOrder
    <3> QED BY <2>4, <3>1 DEF CloseAudio, Port!Next, Port!CloseAudio, TypeOK, FlagTypeOK
  <2>5. CASE CloseMessages(c)
    <3>1. ~audioOpen /\ Messaging BY <2>5 DEF CloseMessages, Closing, ClosingInOrder
    <3> QED BY <2>5, <3>1 DEF CloseMessages, Port!Next, Port!CloseMessages, TypeOK, FlagTypeOK
  <2> QED BY <2>1, <2>2, <2>3, <2>4, <2>5 DEF Close
<1> QED BY <1>1, <1>2, <1>3, <1>4, <1>5 DEF Next

\* The session implements SessionPort, without its liveness: whatever the peer, the timeout and
\* the callers of Close do, its channels close once, audio before messages, and only when
\* it is done.
THEOREM ImplementsPort == Spec => Port!Safety
<1>1. Init => Port!Init BY DEF Init, Port!Init
<1> QED BY <1>1, PortStep, TypeCorrect, ClosingHolds, PTL DEF Spec, Port!Safety
=============================================================================
