------------------------- MODULE SynthesizersProofs -------------------------
(***************************************************************************)
(* The synthesizers, for every bound.  Deepgram's: whose audio a response  *)
(* may be given, that a response which nothing disturbed is spoken to the  *)
(* end, and when the process may crash.  The invariant has a part about    *)
(* every state and a part that holds while no connection has ended, an     *)
(* account of the sentences and the acknowledgements under way.  Google's  *)
(* is proved in GoogleSynthesizerProofs, and the specification that is     *)
(* either of them implements both.                                         *)
(***************************************************************************)
EXTENDS MCSynthesizers, SequenceTheorems, TLAPS

(***************************************************************************)
(* Deepgram's synthesizer: the invariant                                   *)
(***************************************************************************)
\* The responses whose audio is in a queue of a connection.
Frames(q) == {q[i] : i \in 1 .. Len(q)} \ {0}

\* Response k has not set the session of a connection.
Unbegun(k) == cur < k \/ (k = cur /\ at \in {"connect", "session", "fail"})

\* Synthesize has set the session of its connection.
Speaking ==
  at \in {"loop", "speak", "reconnect", "write", "flush", "count", "wait", "await", "end",
          "clearSession"}

\* What Synthesize speaks to and waits for: the connection is in the response's session.
SpokenTo ==
  /\ at = "await" => pendingFlushes[conn] > 0 /\ callback \in {0, conn}
  /\ Speaking /\ callback # 0 => session[callback] = cur
  /\ at \in {"write", "flush"} => session[conn] = cur

\* The client and the callback are of one connection, if they are not nil, and what is not
\* open yet is as new.
Connections ==
  /\ client # 0 => client = callback
  /\ callback <= conns
  /\ \A c \in Conns : conns < c => ~up[c] /\ wire[c] = <<>> /\ inFlight[c] = <<>>
  /\ SpokenTo

\* The contexts of response k, which ends before the next one begins.
ContextOf(k) ==
  /\ interrupted[k] => cancelled[k]
  /\ cancelled[k] => k <= cur
  /\ k = cur /\ cancelled[k] /\ at \notin {"clearSession", "idle", "panic"} => interrupted[k]
  /\ returned[k] => k < cur \/ (k = cur /\ at \in {"idle", "panic"})

\* Nothing is of response k.
Untouched(k) ==
  /\ spoken[k] = 0 /\ heard[k] = <<>>
  /\ \A c \in Conns :
       /\ session[c] # k /\ k \notin Frames(wire[c])
       /\ inFlight[c] # <<>> => inFlight[c][2] # k

LifeOf(k) == ContextOf(k) /\ (Unbegun(k) => Untouched(k))

Lives == \A k \in Responses : LifeOf(k)

\* Response k may be given audio of response j: its own, or that of an earlier one which
\* was not interrupted.
MayHear(k, j, stopped) == j # k => j < k /\ ~stopped[j]

\* The audio on connection c may be given to the response in its session.
Deliverable(c) ==
  /\ session[c] # 0 => \A j \in Frames(wire[c]) : MayHear(session[c], j, interrupted)
  /\ inFlight[c] # <<>> => MayHear(inFlight[c][2], inFlight[c][1], interrupted)

\* Response j is not one that the next response must not hear.
Leaves(j) ==
  /\ j <= cur
  /\ j < cur \/ at \in {"clearSession", "idle"} => ~interrupted[j]

\* The audio on a connection that the next response will find may be given to that one.
Inheritable(c) == \A j \in Frames(wire[c]) : Leaves(j)

Given ==
  /\ \A c \in Conns : Deliverable(c)
  /\ \A k \in Responses : \A i \in 1 .. Len(heard[k]) : MayHear(k, heard[k][i], interrupted)
  /\ callback # 0 => Inheritable(callback)

(***************************************************************************)
(* While no connection has ended and Close was not called                  *)
(***************************************************************************)
\* Nothing is on its way on connection c.
Clean(c) == wire[c] = <<>> /\ inFlight[c] = <<>>

\* Every frame on a connection, and every frame given to a response, is of the response
\* whose it should be.
OwnFrames ==
  /\ \A c \in Conns :
       /\ Frames(wire[c]) \subseteq {session[c]}
       /\ inFlight[c] # <<>> => inFlight[c] = <<session[c], session[c]>>
  /\ \A k \in Responses : \A i \in 1 .. Len(heard[k]) : heard[k][i] = k

\* The connection is there when it is needed, and clean between two responses.
Attached ==
  /\ at \notin {"reconnect", "resession"}
  /\ callback # 0 => client = callback /\ up[callback]
  /\ at \in {"session", "loop", "speak", "write", "flush", "count", "wait", "await", "end"} =>
       callback # 0
  /\ at \in {"write", "flush", "await"} => conn = callback

CleanBetween ==
  /\ callback # 0
  /\ at \in {"idle", "connect", "session", "fail", "clearSession"}
  => Clean(callback)

CleanAtEnd == at = "end" /\ ~cancelled[cur] => Clean(callback)

Connected == Attached /\ CleanBetween /\ CleanAtEnd

Bit(b) == IF b THEN 1 ELSE 0

\* What the connection will deliver, with the flush that is still to follow a sentence.
Queue == IF at = "flush" THEN Append(wire[callback], 0) ELSE wire[callback]

\* The flush of the frame that the callback has or had is next.
AckNext(q) == q # <<>> /\ q[1] = 0

\* Frames and acknowledgements alternate, and an acknowledgement is last.
Alternates(q) ==
  /\ \A i \in 1 .. Len(q) - 1 : (q[i] = 0) <=> (q[i + 1] # 0)
  /\ q # <<>> => q[Len(q)] = 0

\* The account of a response with queue q: there are at least as many flushes to wait for
\* as acknowledgements have come and will, and each sentence that was said is on its way,
\* in the callback's hands or given to the response.
Account(q, busy, acks, flushes, given, said) ==
  /\ Alternates(q)
  /\ busy => AckNext(q)
  /\ 2 * acks + Len(q) + Bit(AckNext(q)) <= 2 * flushes
  /\ 2 * given + 2 * Bit(busy) + Len(q) = 2 * said + Bit(AckNext(q))

\* The flushes that Synthesize has counted, or is about to count.
Flushes == pendingFlushes[callback] + Bit(at \in {"flush", "count"})

\* Synthesize is between the session and the end of the response.
Owing == at \in {"loop", "speak", "write", "flush", "count", "wait", "await", "end"}

AccountHolds ==
  Account(Queue, inFlight[callback] # <<>>, flushedCh[callback], Flushes, Len(heard[cur]),
          spoken[cur])

Counted == Owing /\ ~cancelled[cur] => AccountHolds

\* An uninterrupted response that has ended has heard all that was spoken, and no
\* connection is in its session.
Ended ==
  /\ at = "clearSession" /\ ~interrupted[cur] => Len(heard[cur]) = spoken[cur]
  /\ cur # 0 /\ ~interrupted[cur] => \A c \in Conns : c # callback => session[c] # cur
  /\ \A k \in Responses :
       returned[k] /\ ~interrupted[k] =>
         Len(heard[k]) = spoken[k] /\ \A c \in Conns : session[c] # k

Calm ==
  /\ OwnFrames /\ Ended
  /\ at # "panic" => Connected /\ Counted
  /\ at = "panic" => \E k \in Responses : interrupted[k]

DeepgramInv ==
  /\ TypeOK /\ Connections /\ Lives /\ Given
  /\ faults = 0 => Calm

(***************************************************************************)
(* Queues                                                                  *)
(***************************************************************************)
\* What is delivered is no longer on the way, and nothing new is.
LEMMA FramesOfTail ==
  ASSUME NEW q \in Seq(0 .. MaxResponses), q # <<>>
  PROVE  /\ Frames(Tail(q)) \subseteq Frames(q)
         /\ Head(q) # 0 => Head(q) \in Frames(q)
         /\ Head(q) \in 0 .. MaxResponses /\ Tail(q) \in Seq(0 .. MaxResponses)
<1>1. /\ Tail(q) \in Seq(0 .. MaxResponses) /\ Len(Tail(q)) = Len(q) - 1
      /\ \A i \in 1 .. Len(Tail(q)) : Tail(q)[i] = q[i + 1]
  BY HeadTailProperties
<1>2. Len(q) \in Nat \ {0} BY LenProperties, EmptySeq
<1>3. \A i \in 1 .. Len(Tail(q)) : i + 1 \in 1 .. Len(q) BY <1>1, <1>2
<1>4. Frames(Tail(q)) \subseteq Frames(q) BY <1>1, <1>3 DEF Frames
<1>5. Head(q) = q[1] /\ 1 \in 1 .. Len(q) BY <1>2, HeadTailProperties
<1>6. q[1] \in 0 .. MaxResponses BY <1>5, ElementOfSeq
<1> QED BY <1>1, <1>4, <1>5, <1>6 DEF Frames

\* A sentence that is written is on the way, an acknowledgement is no audio.
LEMMA FramesOfAppend ==
  ASSUME NEW q \in Seq(0 .. MaxResponses), NEW k \in 0 .. MaxResponses
  PROVE  /\ Append(q, k) \in Seq(0 .. MaxResponses)
         /\ Frames(Append(q, k)) = Frames(q) \cup ({k} \ {0})
<1>1. /\ Append(q, k) \in Seq(0 .. MaxResponses) /\ Len(Append(q, k)) = Len(q) + 1
      /\ \A i \in 1 .. Len(q) : Append(q, k)[i] = q[i]
      /\ Append(q, k)[Len(q) + 1] = k
  BY AppendProperties
<1>2. Len(q) \in Nat BY LenProperties
<1>3. 1 .. Len(q) + 1 = 1 .. Len(q) \cup {Len(q) + 1} BY <1>2
<1> QED BY <1>1, <1>2, <1>3 DEF Frames

\* A connection that breaks loses the end of what was on the way.
LEMMA FramesOfBeginning ==
  ASSUME NEW q \in Seq(0 .. MaxResponses), NEW n \in 0 .. Len(q)
  PROVE  /\ SubSeq(q, 1, n) \in Seq(0 .. MaxResponses)
         /\ Frames(SubSeq(q, 1, n)) \subseteq Frames(q)
<1>1. Len(q) \in Nat BY LenProperties
<1>2. 1 \in Int /\ n \in Int BY <1>1
<1>3. 1 .. n \subseteq 1 .. Len(q) BY <1>1
<1>4. \A i \in 1 .. n : q[i] \in 0 .. MaxResponses BY <1>3, ElementOfSeq
<1>5. /\ SubSeq(q, 1, n) \in Seq(0 .. MaxResponses)
      /\ Len(SubSeq(q, 1, n)) = IF 1 <= n THEN n - 1 + 1 ELSE 0
      /\ \A i \in 1 .. n - 1 + 1 : SubSeq(q, 1, n)[i] = q[1 + i - 1]
  BY <1>2, <1>4, SubSeqProperties
<1>6. Len(SubSeq(q, 1, n)) = n /\ \A i \in 1 .. n : SubSeq(q, 1, n)[i] = q[i]
  BY <1>1, <1>2, <1>5
<1> QED BY <1>3, <1>5, <1>6 DEF Frames

\* Nothing is on an empty connection.
LEMMA FramesOfEmpty == Frames(<<>>) = {}
<1>1. Len(<<>>) = 0 OBVIOUS
<1> QED BY <1>1 DEF Frames

(***************************************************************************)
(* The types and the connections                                           *)
(***************************************************************************)
USE DEF Responses, Conns, synthVars, ctxVars, connVars, ackVars, wireVars

\* The bounds are numbers.
LEMMA Numbers ==
  /\ MaxResponses \in Nat /\ MaxConns \in Nat /\ MaxFaults \in Nat
  /\ FlushCap \in Nat /\ FlushCap > 0
BY BoundsAssumption

\* The actions of the specification.
LEMMA Steps ==
  ASSUME [Next]_vars
  PROVE  \/ Begin \/ Connect \/ SetSession \/ NextSentence \/ TokensEnd \/ LoopCtxDone
         \/ Speak \/ Write \/ Flush \/ CountFlush \/ WaitForFlushed \/ AwaitFlushed
         \/ ClearClient \/ Return
         \/ CancelResponse \/ Close \/ UNCHANGED vars
         \/ \E c \in Conns :
              Binary(c) \/ BinarySend(c) \/ Flushed(c) \/ ConnClosed(c) \/ ConnBreaks(c)
<1>1. Terminated => UNCHANGED vars BY DEF Terminated
<1> QED BY <1>1 DEF Next, Synthesize, Reader

LEMMA InitTypes == Init => TypeOK /\ Connections
<1> SUFFICES ASSUME Init PROVE TypeOK /\ Connections OBVIOUS
<1>1. retried \in BOOLEAN /\ final \in BOOLEAN BY Zenon DEF Init
<1>2. ControlTypeOK
  <2>1. /\ at = "idle" /\ cur = 0 /\ conn = 0 /\ faults = 0
        /\ client = 0 /\ callback = 0 /\ conns = 0
    BY DEF Init
  <2> QED BY <1>1, <2>1, Numbers DEF ControlTypeOK
<1>3. ConnTypeOK BY Numbers DEF Init, ConnTypeOK
<1>4. TypeOK BY <1>2, <1>3 DEF Init, TypeOK
<1>5. Connections BY Numbers DEF Init, Connections, SpokenTo, Speaking
<1> QED BY <1>4, <1>5

\* The flags of speakAndFlush and of the tokens.
LEMMA Booleans ==
  ASSUME retried \in BOOLEAN, final \in BOOLEAN, [Next]_vars
  PROVE  retried' \in BOOLEAN /\ final' \in BOOLEAN
<1> USE DEF SynthUnchanged, ReaderUnchanged
<1>1. CASE Begin BY <1>1 DEF Begin
<1>2. CASE Connect BY <1>2 DEF Connect, EnsureConnected, AfterSpeaking, Looping
<1>3. CASE SetSession BY <1>3 DEF SetSession, AfterSpeaking, Looping
<1>4. CASE NextSentence BY <1>4 DEF NextSentence
<1>5. CASE TokensEnd BY <1>5 DEF TokensEnd
<1>6. CASE LoopCtxDone BY <1>6 DEF LoopCtxDone
<1>7. CASE Speak BY <1>7 DEF Speak
<1>8. CASE Write BY <1>8 DEF Write, AfterSpeaking, Looping
<1>9. CASE Flush BY <1>9 DEF Flush, AfterSpeaking, Looping
<1>10. CASE CountFlush BY <1>10 DEF CountFlush, AfterSpeaking, Looping
<1>11. CASE WaitForFlushed BY <1>11 DEF WaitForFlushed
<1>12. CASE AwaitFlushed BY <1>12 DEF AwaitFlushed
<1>13. CASE ClearClient BY <1>13 DEF ClearClient
<1>14. CASE Return BY <1>14 DEF Return
<1>15. CASE CancelResponse BY <1>15 DEF CancelResponse
<1>16. CASE Close BY <1>16 DEF Close
<1>17. CASE UNCHANGED vars BY <1>17 DEF vars
<1>18. ASSUME NEW c \in Conns, Binary(c) PROVE retried' \in BOOLEAN /\ final' \in BOOLEAN
  BY <1>18 DEF Binary
<1>19. ASSUME NEW c \in Conns, BinarySend(c) PROVE retried' \in BOOLEAN /\ final' \in BOOLEAN
  BY <1>19 DEF BinarySend
<1>20. ASSUME NEW c \in Conns, Flushed(c) PROVE retried' \in BOOLEAN /\ final' \in BOOLEAN
  BY <1>20 DEF Flushed
<1>21. ASSUME NEW c \in Conns, ConnClosed(c) PROVE retried' \in BOOLEAN /\ final' \in BOOLEAN
  BY <1>21 DEF ConnClosed
<1>22. ASSUME NEW c \in Conns, ConnBreaks(c) PROVE retried' \in BOOLEAN /\ final' \in BOOLEAN
  BY <1>22 DEF ConnBreaks
<1> QED
  BY Steps, <1>1, <1>2, <1>3, <1>4, <1>5, <1>6, <1>7, <1>8, <1>9, <1>10, <1>11, <1>12, <1>13, <1>14,
     <1>15, <1>16, <1>17, <1>18, <1>19, <1>20, <1>21, <1>22

\* What the types say of one connection and one response.
LEMMA OfConn ==
  ASSUME ConnTypeOK, NEW c \in Conns
  PROVE  /\ up[c] \in BOOLEAN /\ wire[c] \in Seq(0 .. MaxResponses)
         /\ session[c] \in 0 .. MaxResponses /\ flushedCh[c] \in 0 .. FlushCap
         /\ pendingFlushes[c] \in Nat
         /\ inFlight[c] \in {<<>>} \cup (Responses \X Responses)
         /\ inFlight[c] # <<>> =>
              /\ inFlight[c][1] \in Responses /\ inFlight[c][2] \in Responses
              /\ inFlight[c] = <<inFlight[c][1], inFlight[c][2]>>
BY DEF ConnTypeOK

LEMMA OfResponse ==
  ASSUME TypeOK, Lives, NEW k \in Responses
  PROVE  /\ spoken[k] \in Nat /\ heard[k] \in Seq(Responses)
         /\ returned[k] => k <= cur
<1>1. spoken[k] \in Nat /\ heard[k] \in Seq(Responses) BY DEF TypeOK
<1>2. cur \in Nat /\ LifeOf(k) BY Numbers DEF TypeOK, ControlTypeOK, Lives
<1>3. returned[k] => k <= cur BY <1>2 DEF LifeOf, ContextOf
<1> QED BY <1>1, <1>3

\* The control state and the numbers.
LEMMA ControlTypes ==
  ASSUME TypeOK, Connections, Lives, [Next]_vars
  PROVE  ControlTypeOK'
<1> USE Numbers DEF ControlTypeOK, Connections, SynthUnchanged, ReaderUnchanged
<1> ControlTypeOK BY DEF TypeOK
<1> retried' \in BOOLEAN /\ final' \in BOOLEAN BY Booleans
<1>0. /\ \A k \in Responses : returned[k] => cur # 0
      /\ \A c \in Conns : inFlight[c] # <<>> => inFlight[c][2] \in Responses
  <2>1. \A k \in Responses : returned[k] => k <= cur BY DEF Lives, LifeOf, ContextOf
  <2>2. ConnTypeOK BY DEF TypeOK
  <2> QED BY <2>1, <2>2, OfConn
<1>1. CASE Begin BY <1>1 DEF Begin
<1>2. CASE Connect BY <1>2 DEF Connect, EnsureConnected, AfterSpeaking, Looping
<1>3. CASE SetSession BY <1>3 DEF SetSession, AfterSpeaking, Looping
<1>4. CASE NextSentence BY <1>4 DEF NextSentence
<1>5. CASE TokensEnd BY <1>5 DEF TokensEnd
<1>6. CASE LoopCtxDone BY <1>6 DEF LoopCtxDone
<1>7. CASE Speak BY <1>7 DEF Speak
<1>8. CASE Write BY <1>8 DEF Write, AfterSpeaking, Looping
<1>9. CASE Flush BY <1>9 DEF Flush, AfterSpeaking, Looping
<1>10. CASE CountFlush BY <1>10 DEF CountFlush, AfterSpeaking, Looping
<1>11. CASE WaitForFlushed BY <1>11 DEF WaitForFlushed
<1>12. CASE AwaitFlushed BY <1>12 DEF AwaitFlushed
<1>13. CASE ClearClient BY <1>13 DEF ClearClient
<1>14. CASE Return BY <1>14 DEF Return
<1>15. CASE CancelResponse BY <1>15 DEF CancelResponse
<1>16. CASE Close BY <1>16 DEF Close
<1>17. CASE UNCHANGED vars BY <1>17 DEF vars
<1>18. ASSUME NEW c \in Conns, Binary(c) PROVE ControlTypeOK'
  BY <1>18 DEF Binary
<1>19. ASSUME NEW c \in Conns, BinarySend(c) PROVE ControlTypeOK'
  BY <1>19, <1>0 DEF BinarySend
<1>20. ASSUME NEW c \in Conns, Flushed(c) PROVE ControlTypeOK'
  BY <1>20 DEF Flushed
<1>21. ASSUME NEW c \in Conns, ConnClosed(c) PROVE ControlTypeOK'
  BY <1>21 DEF ConnClosed
<1>22. ASSUME NEW c \in Conns, ConnBreaks(c) PROVE ControlTypeOK'
  BY <1>22 DEF ConnBreaks
<1> QED
  BY Steps, <1>1, <1>2, <1>3, <1>4, <1>5, <1>6, <1>7, <1>8, <1>9, <1>10, <1>11, <1>12, <1>13, <1>14,
     <1>15, <1>16, <1>17, <1>18, <1>19, <1>20, <1>21, <1>22

\* Which actions change what.
LEMMA Changes ==
  ASSUME [Next]_vars
  PROVE  /\ UNCHANGED up \/ Connect \/ ClearClient \/ Close \/ \E c \in Conns : ConnBreaks(c)
         /\ \/ UNCHANGED wire \/ Write \/ Flush
            \/ \E c \in Conns : Binary(c) \/ Flushed(c) \/ ConnClosed(c) \/ ConnBreaks(c)
         /\ UNCHANGED session \/ SetSession \/ Return
         /\ UNCHANGED flushedCh \/ SetSession \/ AwaitFlushed \/ \E c \in Conns : Flushed(c)
         /\ UNCHANGED pendingFlushes \/ SetSession \/ CountFlush \/ AwaitFlushed
         /\ UNCHANGED inFlight \/ \E c \in Conns : Binary(c) \/ BinarySend(c)
         /\ UNCHANGED <<cancelled, interrupted>> \/ CancelResponse
         /\ UNCHANGED returned \/ Return
         /\ UNCHANGED spoken \/ Write
         /\ UNCHANGED heard \/ \E c \in Conns : BinarySend(c)
         /\ UNCHANGED cur \/ Begin
         /\ UNCHANGED conns \/ Connect
         /\ UNCHANGED faults \/ Close \/ \E c \in Conns : ConnBreaks(c)
         /\ \/ UNCHANGED <<client, callback>> \/ Connect \/ ClearClient \/ Close
            \/ \E c \in Conns : ConnClosed(c)
<1> USE Steps
    DEF Begin, Connect, EnsureConnected, SetSession, NextSentence, TokensEnd, LoopCtxDone, Speak,
        Write, Flush, CountFlush, WaitForFlushed, AwaitFlushed, ClearClient, Return,
        CancelResponse, Close,
        Binary, BinarySend, Flushed, ConnClosed, ConnBreaks, vars, SynthUnchanged, ReaderUnchanged
<1>1. UNCHANGED up \/ Connect \/ ClearClient \/ Close \/ \E c \in Conns : ConnBreaks(c)
  OBVIOUS
<1>2. \/ UNCHANGED wire \/ Write \/ Flush
      \/ \E c \in Conns : Binary(c) \/ Flushed(c) \/ ConnClosed(c) \/ ConnBreaks(c)
  OBVIOUS
<1>3. UNCHANGED session \/ SetSession \/ Return
  OBVIOUS
<1>4. UNCHANGED flushedCh \/ SetSession \/ AwaitFlushed \/ \E c \in Conns : Flushed(c)
  OBVIOUS
<1>5. UNCHANGED pendingFlushes \/ SetSession \/ CountFlush \/ AwaitFlushed
  OBVIOUS
<1>6. UNCHANGED inFlight \/ \E c \in Conns : Binary(c) \/ BinarySend(c)
  OBVIOUS
<1>7. UNCHANGED <<cancelled, interrupted>> \/ CancelResponse
  OBVIOUS
<1>8. UNCHANGED returned \/ Return
  OBVIOUS
<1>9. UNCHANGED spoken \/ Write
  OBVIOUS
<1>10. UNCHANGED heard \/ \E c \in Conns : BinarySend(c)
  OBVIOUS
<1>11. UNCHANGED cur \/ Begin
  OBVIOUS
<1>12. UNCHANGED conns \/ Connect
  OBVIOUS
<1>13. UNCHANGED faults \/ Close \/ \E c \in Conns : ConnBreaks(c)
  OBVIOUS
<1>14. \/ UNCHANGED <<client, callback>> \/ Connect \/ ClearClient \/ Close
       \/ \E c \in Conns : ConnClosed(c)
  OBVIOUS
<1> HIDE DEF Begin, Connect, EnsureConnected, SetSession, NextSentence, TokensEnd, LoopCtxDone,
        Speak, Write, Flush, CountFlush, WaitForFlushed, AwaitFlushed, ClearClient, Return,
        CancelResponse, Close,
        Binary, BinarySend, Flushed, ConnClosed, ConnBreaks, vars, SynthUnchanged, ReaderUnchanged
<1> QED
  BY <1>1, <1>2, <1>3, <1>4, <1>5, <1>6, <1>7, <1>8, <1>9, <1>10, <1>11, <1>12, <1>13, <1>14

LEMMA ConnTypes ==
  ASSUME TypeOK, Connections, Lives, [Next]_vars
  PROVE  ConnTypeOK'
<1> ConnTypeOK /\ ControlTypeOK BY DEF TypeOK
<1> USE Numbers
<1>1. up' \in [Conns -> BOOLEAN]
  <2> up \in [Conns -> BOOLEAN] BY DEF ConnTypeOK
  <2>1. CASE Connect BY <2>1 DEF Connect, EnsureConnected
  <2>2. CASE ClearClient BY <2>2 DEF ClearClient
  <2>3. CASE Close BY <2>3 DEF Close
  <2>4. ASSUME NEW c \in Conns, ConnBreaks(c) PROVE up' \in [Conns -> BOOLEAN]
    BY <2>4 DEF ConnBreaks
  <2> QED BY Changes, <2>1, <2>2, <2>3, <2>4
<1>2. wire' \in [Conns -> Seq(0 .. MaxResponses)]
  <2> /\ wire \in [Conns -> Seq(0 .. MaxResponses)]
      /\ cur \in 0 .. MaxResponses
      /\ at \in {"write", "flush"} => conn \in Conns
    BY DEF ConnTypeOK, ControlTypeOK
  <2> DEFINE Good == wire' \in [Conns -> Seq(0 .. MaxResponses)]
  <2>0. \A k \in 0 .. MaxResponses : at \in {"write", "flush"} =>
          Append(wire[conn], k) \in Seq(0 .. MaxResponses)
    BY FramesOfAppend
  <2>1. CASE Write BY <2>1, <2>0 DEF Write
  <2>2. CASE Flush
    <3>1. 0 \in 0 .. MaxResponses OBVIOUS
    <3> QED BY <2>2, <2>0, <3>1 DEF Flush
  <2>3. ASSUME NEW c \in Conns, Binary(c) PROVE Good BY <2>3, FramesOfTail DEF Binary
  <2>4. ASSUME NEW c \in Conns, Flushed(c) PROVE Good BY <2>4, FramesOfTail DEF Flushed
  <2>5. ASSUME NEW c \in Conns, ConnClosed(c) PROVE Good BY <2>5 DEF ConnClosed
  <2>6. ASSUME NEW c \in Conns, ConnBreaks(c) PROVE Good
    BY <2>6, FramesOfBeginning DEF ConnBreaks
  <2> QED BY Changes, <2>1, <2>2, <2>3, <2>4, <2>5, <2>6
<1>3. session' \in [Conns -> 0 .. MaxResponses]
  <2> session \in [Conns -> 0 .. MaxResponses] BY DEF ConnTypeOK
  <2>1. CASE SetSession BY <2>1 DEF SetSession, ControlTypeOK
  <2>2. CASE Return BY <2>2 DEF Return
  <2> QED BY Changes, <2>1, <2>2
<1>4. flushedCh' \in [Conns -> 0 .. FlushCap]
  <2> flushedCh \in [Conns -> 0 .. FlushCap] BY DEF ConnTypeOK
  <2>1. CASE SetSession BY <2>1 DEF SetSession
  <2>2. CASE AwaitFlushed BY <2>2 DEF AwaitFlushed, ControlTypeOK
  <2>3. ASSUME NEW c \in Conns, Flushed(c) PROVE flushedCh' \in [Conns -> 0 .. FlushCap]
    BY <2>3 DEF Flushed
  <2> QED BY Changes, <2>1, <2>2, <2>3
<1>5. pendingFlushes' \in [Conns -> Nat]
  <2> pendingFlushes \in [Conns -> Nat] BY DEF ConnTypeOK
  <2>1. CASE SetSession BY <2>1 DEF SetSession
  <2>2. CASE CountFlush BY <2>2 DEF CountFlush
  <2>3. CASE AwaitFlushed
    <3>1. pendingFlushes[conn] > 0 /\ callback \in {0, conn}
      BY <2>3 DEF AwaitFlushed, Connections, SpokenTo
    <3> QED BY <2>3, <3>1 DEF AwaitFlushed
  <2> QED BY Changes, <2>1, <2>2, <2>3
<1>6. inFlight' \in [Conns -> {<<>>} \cup (Responses \X Responses)]
  <2> DEFINE Good == inFlight' \in [Conns -> {<<>>} \cup (Responses \X Responses)]
  <2> inFlight \in [Conns -> {<<>>} \cup (Responses \X Responses)] BY DEF ConnTypeOK
  <2>1. ASSUME NEW c \in Conns, Binary(c) PROVE Good
    <3>1. wire[c] \in Seq(0 .. MaxResponses) /\ session[c] \in 0 .. MaxResponses BY OfConn
    <3>2. wire[c] # <<>> /\ Head(wire[c]) # 0 BY <2>1 DEF Binary
    <3>3. Head(wire[c]) \in Responses BY <3>1, <3>2, FramesOfTail
    <3> QED BY <2>1, <3>1, <3>3 DEF Binary
  <2>2. ASSUME NEW c \in Conns, BinarySend(c) PROVE Good BY <2>2 DEF BinarySend
  <2> QED BY Changes, <2>1, <2>2
<1> QED BY <1>1, <1>2, <1>3, <1>4, <1>5, <1>6 DEF ConnTypeOK

LEMMA Types ==
  ASSUME TypeOK, Connections, Lives, [Next]_vars
  PROVE  TypeOK'
<1>1. ControlTypeOK' BY ControlTypes
<1>2. ConnTypeOK' BY ConnTypes
<1> USE DEF TypeOK
<1>3. /\ cancelled' \in [Responses -> BOOLEAN] /\ interrupted' \in [Responses -> BOOLEAN]
  BY Changes DEF CancelResponse
<1>4. returned' \in [Responses -> BOOLEAN] BY Changes DEF Return
<1>5. spoken' \in [Responses -> Nat]
  <2>1. spoken \in [Responses -> Nat] OBVIOUS
  <2>2. CASE Write BY <2>1, <2>2 DEF Write
  <2> QED BY <2>1, <2>2, Changes
<1>6. heard' \in [Responses -> Seq(Responses)]
  <2>1. ASSUME NEW c \in Conns, BinarySend(c) PROVE heard' \in [Responses -> Seq(Responses)]
    <3>1. inFlight[c] # <<>> BY <2>1 DEF BinarySend
    <3>2. inFlight[c][1] \in Responses /\ inFlight[c][2] \in Responses BY <3>1, OfConn
    <3>3. heard \in [Responses -> Seq(Responses)] OBVIOUS
    <3>4. Append(heard[inFlight[c][2]], inFlight[c][1]) \in Seq(Responses)
      BY <3>2, <3>3, AppendProperties
    <3> QED BY <2>1, <3>2, <3>3, <3>4 DEF BinarySend
  <2> QED BY Changes, <2>1
<1> QED BY <1>1, <1>2, <1>3, <1>4, <1>5, <1>6

\* What is not open yet stays as new.
LEMMA Fresh ==
  ASSUME TypeOK, Connections, [Next]_vars, NEW c \in Conns, conns' < c
  PROVE  ~up'[c] /\ wire'[c] = <<>> /\ inFlight'[c] = <<>>
<1> USE Numbers DEF Connections
<1>1. ConnTypeOK /\ ControlTypeOK BY DEF TypeOK
<1>2. /\ conns \in Nat /\ client \in Nat /\ callback \in Nat
      /\ at \in {"write", "flush"} => conn \in Conns
  BY <1>1 DEF ControlTypeOK
<1>3. conns <= conns' /\ conns' \in Nat
  <2>1. CASE Connect BY <1>2, <2>1 DEF Connect, EnsureConnected
  <2> QED BY <1>2, <2>1, Changes
<1>4. conns < c BY <1>1, <1>2, <1>3 DEF ControlTypeOK
<1>5. ~up[c] /\ wire[c] = <<>> /\ inFlight[c] = <<>> BY <1>4
<1>6. ~up'[c]
  <2>0. up \in [Conns -> BOOLEAN] BY <1>1 DEF ConnTypeOK
  <2>1. CASE Connect
    BY <1>2, <1>3, <1>5, <2>0, <2>1 DEF Connect, EnsureConnected
  <2>2. CASE ClearClient BY <1>5, <2>0, <2>2 DEF ClearClient
  <2>3. CASE Close BY <1>5, <2>0, <2>3 DEF Close
  <2>4. ASSUME NEW d \in Conns, ConnBreaks(d) PROVE ~up'[c]
    BY <1>5, <2>0, <2>4 DEF ConnBreaks
  <2> QED BY <1>5, <2>1, <2>2, <2>3, <2>4, Changes
<1>7. wire'[c] = <<>>
  <2>0. wire \in [Conns -> Seq(0 .. MaxResponses)] BY <1>1 DEF ConnTypeOK
  <2>1. CASE Write BY <1>2, <1>5, <2>0, <2>1 DEF Write
  <2>2. CASE Flush BY <1>2, <1>5, <2>0, <2>2 DEF Flush
  <2>3. ASSUME NEW d \in Conns, Binary(d) PROVE wire'[c] = <<>>
    BY <1>5, <2>0, <2>3 DEF Binary
  <2>4. ASSUME NEW d \in Conns, Flushed(d) PROVE wire'[c] = <<>>
    BY <1>5, <2>0, <2>4 DEF Flushed
  <2>5. ASSUME NEW d \in Conns, ConnClosed(d) PROVE wire'[c] = <<>>
    BY <1>5, <2>0, <2>5 DEF ConnClosed
  <2>6. ASSUME NEW d \in Conns, ConnBreaks(d) PROVE wire'[c] = <<>>
    <3>1. CASE c # d BY <1>5, <2>0, <2>6, <3>1 DEF ConnBreaks
    <3>2. CASE c = d BY <1>5, <2>6, <3>2 DEF ConnBreaks
    <3> QED BY <3>1, <3>2
  <2> QED BY <1>5, <2>1, <2>2, <2>3, <2>4, <2>5, <2>6, Changes
<1>8. inFlight'[c] = <<>>
  <2>0. inFlight \in [Conns -> {<<>>} \cup (Responses \X Responses)] BY <1>1 DEF ConnTypeOK
  <2>1. ASSUME NEW d \in Conns, Binary(d) PROVE inFlight'[c] = <<>>
    BY <1>5, <2>0, <2>1 DEF Binary
  <2>2. ASSUME NEW d \in Conns, BinarySend(d) PROVE inFlight'[c] = <<>>
    BY <1>5, <2>0, <2>2 DEF BinarySend
  <2> QED BY <1>5, <2>1, <2>2, Changes
<1> QED BY <1>6, <1>7, <1>8

\* The client and the callback are of one connection.
LEMMA Callback ==
  ASSUME TypeOK, Connections, [Next]_vars
  PROVE  /\ client' # 0 => client' = callback'
         /\ callback' <= conns'
<1> USE Numbers
<1>1. /\ conns \in Nat /\ client \in Nat /\ callback \in Nat
      /\ client # 0 => client = callback
      /\ callback <= conns
  BY DEF TypeOK, ControlTypeOK, Connections
<1>2. CASE Connect BY <1>1, <1>2 DEF Connect, EnsureConnected
<1>3. CASE ClearClient BY <1>1, <1>3 DEF ClearClient
<1>4. CASE Close BY <1>1, <1>4 DEF Close
<1>5. ASSUME NEW c \in Conns, ConnClosed(c)
      PROVE  client' = 0 /\ callback' = 0 /\ UNCHANGED conns
  BY <1>5 DEF ConnClosed, ReaderUnchanged
<1>6. CASE UNCHANGED <<client, callback>> /\ UNCHANGED conns BY <1>1, <1>6
<1> QED BY <1>1, <1>2, <1>3, <1>4, <1>5, <1>6, Changes

\* The connection that is spoken to stays in the session of the response.
LEMMA SpokenToKept ==
  ASSUME TypeOK, Connections, [Next]_vars
  PROVE  SpokenTo'
<1> USE Numbers DEF SpokenTo, Speaking, SynthUnchanged, ReaderUnchanged
<1> /\ SpokenTo
    /\ client # 0 => client = callback
    /\ client \in 0 .. MaxConns /\ callback \in 0 .. MaxConns
    /\ session \in [Conns -> 0 .. MaxResponses] /\ pendingFlushes \in [Conns -> Nat]
    /\ cur \in 0 .. MaxResponses /\ conn \in 0 .. MaxConns
    /\ at \in {"write", "flush", "await"} => conn # 0
  BY DEF TypeOK, ControlTypeOK, ConnTypeOK, Connections
<1>1. CASE Begin BY <1>1 DEF Begin
<1>2. CASE Connect BY <1>2 DEF Connect, EnsureConnected, AfterSpeaking, Looping
<1>3. CASE SetSession BY <1>3 DEF SetSession, AfterSpeaking, Looping
<1>4. CASE NextSentence BY <1>4 DEF NextSentence
<1>5. CASE TokensEnd BY <1>5 DEF TokensEnd
<1>6. CASE LoopCtxDone BY <1>6 DEF LoopCtxDone
<1>7. CASE Speak BY <1>7 DEF Speak
<1>8. CASE Write BY <1>8 DEF Write, AfterSpeaking, Looping
<1>9. CASE Flush BY <1>9 DEF Flush, AfterSpeaking, Looping
<1>10. CASE CountFlush BY <1>10 DEF CountFlush, AfterSpeaking, Looping
<1>11. CASE WaitForFlushed BY <1>11 DEF WaitForFlushed
<1>12. CASE AwaitFlushed BY <1>12 DEF AwaitFlushed
<1>13. CASE ClearClient BY <1>13 DEF ClearClient
<1>14. CASE Return BY <1>14 DEF Return
<1>15. CASE CancelResponse BY <1>15 DEF CancelResponse
<1>16. CASE Close BY <1>16 DEF Close
<1>17. CASE UNCHANGED vars BY <1>17 DEF vars
<1>18. ASSUME NEW c \in Conns, Binary(c) PROVE SpokenTo'
  BY <1>18 DEF Binary
<1>19. ASSUME NEW c \in Conns, BinarySend(c) PROVE SpokenTo'
  BY <1>19 DEF BinarySend
<1>20. ASSUME NEW c \in Conns, Flushed(c) PROVE SpokenTo'
  BY <1>20 DEF Flushed
<1>21. ASSUME NEW c \in Conns, ConnClosed(c) PROVE SpokenTo'
  BY <1>21 DEF ConnClosed
<1>22. ASSUME NEW c \in Conns, ConnBreaks(c) PROVE SpokenTo'
  BY <1>22 DEF ConnBreaks
<1> QED
  BY Steps, <1>1, <1>2, <1>3, <1>4, <1>5, <1>6, <1>7, <1>8, <1>9, <1>10, <1>11, <1>12, <1>13, <1>14,
     <1>15, <1>16, <1>17, <1>18, <1>19, <1>20, <1>21, <1>22

LEMMA ConnectionsKept ==
  ASSUME TypeOK, Connections, [Next]_vars
  PROVE  Connections'
<1>1. \A c \in Conns : conns' < c => ~up'[c] /\ wire'[c] = <<>> /\ inFlight'[c] = <<>>
  BY Fresh
<1> QED BY <1>1, Callback, SpokenToKept DEF Connections

(***************************************************************************)
(* The lives of the responses                                              *)
(***************************************************************************)
\* What is on a connection after a step was on it, or is the sentence that was written.
LEMMA WireFrames ==
  ASSUME TypeOK, [Next]_vars, NEW c \in Conns
  PROVE  \/ Frames(wire'[c]) \subseteq Frames(wire[c])
         \/ Write /\ c = conn /\ Frames(wire'[c]) \subseteq Frames(wire[c]) \cup {cur}
<1>1. /\ wire \in [Conns -> Seq(0 .. MaxResponses)] /\ cur \in 0 .. MaxResponses
      /\ wire[c] \in Seq(0 .. MaxResponses)
  BY DEF TypeOK, ConnTypeOK, ControlTypeOK
<1> DEFINE Less == Frames(wire'[c]) \subseteq Frames(wire[c])
<1>2. CASE Write
  <2>1. wire'[c] = wire[c] \/ (c = conn /\ wire'[c] = Append(wire[c], cur))
    BY <1>1, <1>2 DEF Write
  <2> QED BY <1>1, <1>2, <2>1, FramesOfAppend
<1>3. CASE Flush
  <2>1. wire'[c] = wire[c] \/ wire'[c] = Append(wire[c], 0) BY <1>1, <1>3 DEF Flush
  <2>2. 0 \in 0 .. MaxResponses BY Numbers
  <2> QED BY <1>1, <2>1, <2>2, FramesOfAppend
<1>4. ASSUME NEW d \in Conns, Binary(d) \/ Flushed(d) PROVE Less
  <2>1. wire'[c] = wire[c] \/ (wire[c] # <<>> /\ wire'[c] = Tail(wire[c]))
    BY <1>1, <1>4 DEF Binary, Flushed
  <2> QED BY <1>1, <2>1, FramesOfTail
<1>5. ASSUME NEW d \in Conns, ConnClosed(d) PROVE Less
  <2>1. wire'[c] = wire[c] \/ wire'[c] = <<>> BY <1>1, <1>5 DEF ConnClosed
  <2> QED BY <2>1, FramesOfEmpty
<1>6. ASSUME NEW d \in Conns, ConnBreaks(d) PROVE Less
  <2>1. PICK n \in 0 .. Len(wire[d]) : wire' = [wire EXCEPT ![d] = SubSeq(@, 1, n)]
    BY <1>6 DEF ConnBreaks
  <2>2. CASE c = d
    <3>1. wire'[c] = SubSeq(wire[c], 1, n) /\ n \in 0 .. Len(wire[c]) BY <1>1, <2>1, <2>2
    <3> QED BY <1>1, <3>1, FramesOfBeginning
  <2>3. CASE c # d BY <1>1, <2>1, <2>3
  <2> QED BY <2>2, <2>3
<1> QED BY <1>2, <1>3, <1>4, <1>5, <1>6, Changes

\* A callback holds after a step what it held before, nothing, or what it has just got.
LEMMA InFlightStep ==
  ASSUME TypeOK, [Next]_vars, NEW c \in Conns
  PROVE  \/ inFlight'[c] \in {inFlight[c], <<>>}
         \/ /\ Binary(c) /\ session[c] # 0 /\ ~cancelled[session[c]]
            /\ Head(wire[c]) \in Frames(wire[c])
            /\ inFlight'[c] = <<Head(wire[c]), session[c]>>
            /\ UNCHANGED <<session, heard, interrupted>>
<1>1. inFlight \in [Conns -> {<<>>} \cup (Responses \X Responses)]
  BY DEF TypeOK, ConnTypeOK
<1>2. wire[c] \in Seq(0 .. MaxResponses) BY DEF TypeOK, ConnTypeOK
<1>3. ASSUME NEW d \in Conns, Binary(d), c # d PROVE inFlight'[c] = inFlight[c]
  BY <1>1, <1>3 DEF Binary
<1>4. CASE Binary(c)
  <2>1. wire[c] # <<>> /\ Head(wire[c]) # 0 BY <1>4 DEF Binary
  <2>2. Head(wire[c]) \in Frames(wire[c]) BY <1>2, <2>1, FramesOfTail
  <2> QED BY <1>1, <1>4, <2>2 DEF Binary, ReaderUnchanged
<1>5. ASSUME NEW d \in Conns, BinarySend(d) PROVE inFlight'[c] \in {inFlight[c], <<>>}
  BY <1>1, <1>5 DEF BinarySend
<1> QED BY <1>3, <1>4, <1>5, Changes

\* A response is given the frame that a callback holds for it.
LEMMA HeardStep ==
  ASSUME TypeOK, [Next]_vars, NEW k \in Responses
  PROVE  \/ heard'[k] = heard[k]
         \/ \E c \in Conns :
              /\ BinarySend(c) /\ inFlight[c] # <<>> /\ inFlight[c][2] = k /\ ~returned[k]
              /\ heard'[k] = Append(heard[k], inFlight[c][1])
<1>1. heard \in [Responses -> Seq(Responses)] BY DEF TypeOK
<1>2. ASSUME NEW c \in Conns, BinarySend(c), heard'[k] # heard[k]
      PROVE  /\ inFlight[c] # <<>> /\ inFlight[c][2] = k /\ ~returned[k]
             /\ heard'[k] = Append(heard[k], inFlight[c][1])
  BY <1>1, <1>2 DEF BinarySend
<1> QED BY <1>2, Changes

\* The session of a callback after a step.
LEMMA SessionStep ==
  ASSUME TypeOK, [Next]_vars, NEW c \in Conns
  PROVE  \/ session'[c] = session[c]
         \/ SetSession /\ c = callback /\ session'[c] = cur
         \/ Return /\ at = "clearSession" /\ c = callback /\ session'[c] = 0
<1>1. session \in [Conns -> 0 .. MaxResponses] BY DEF TypeOK, ConnTypeOK
<1>2. CASE SetSession BY <1>1, <1>2 DEF SetSession
<1>3. CASE Return BY <1>1, <1>3 DEF Return
<1> QED BY <1>2, <1>3, Changes

\* The contexts of one response.
LEMMA ContextKept ==
  ASSUME TypeOK, NEW k \in Responses, ContextOf(k), [Next]_vars
  PROVE  ContextOf(k)'
<1> USE Numbers DEF ContextOf, SynthUnchanged, ReaderUnchanged
<1> /\ cancelled \in [Responses -> BOOLEAN] /\ returned \in [Responses -> BOOLEAN]
    /\ interrupted \in [Responses -> BOOLEAN]
    /\ cur \in Nat /\ k \in Nat /\ k # 0 /\ (at # "idle" => cur # 0)
  BY DEF TypeOK, ControlTypeOK
<1>1. CASE Begin BY <1>1 DEF Begin
<1>2. CASE Connect BY <1>2 DEF Connect, EnsureConnected, AfterSpeaking, Looping
<1>3. CASE SetSession BY <1>3 DEF SetSession, AfterSpeaking, Looping
<1>4. CASE NextSentence BY <1>4 DEF NextSentence
<1>5. CASE TokensEnd BY <1>5 DEF TokensEnd
<1>6. CASE LoopCtxDone BY <1>6 DEF LoopCtxDone
<1>7. CASE Speak BY <1>7 DEF Speak
<1>8. CASE Write BY <1>8 DEF Write, AfterSpeaking, Looping
<1>9. CASE Flush BY <1>9 DEF Flush, AfterSpeaking, Looping
<1>10. CASE CountFlush BY <1>10 DEF CountFlush, AfterSpeaking, Looping
<1>11. CASE WaitForFlushed BY <1>11 DEF WaitForFlushed
<1>12. CASE AwaitFlushed BY <1>12 DEF AwaitFlushed
<1>13. CASE ClearClient BY <1>13 DEF ClearClient
<1>14. CASE Return BY <1>14 DEF Return
<1>15. CASE CancelResponse
  <2>1. CASE k = cur
    <3>1. /\ cancelled'[k] /\ (interrupted'[k] <=> at \notin {"clearSession", "idle"})
          /\ UNCHANGED <<cur, at, returned>>
      BY <1>15, <2>1 DEF CancelResponse
    <3> QED BY <2>1, <3>1
  <2>2. CASE k # cur
    <3>1. /\ (cancelled'[k] <=> cancelled[k]) /\ (interrupted'[k] <=> interrupted[k])
          /\ UNCHANGED <<cur, at, returned>>
      BY <1>15, <2>2 DEF CancelResponse
    <3> QED BY <2>2, <3>1
  <2> QED BY <2>1, <2>2
<1>16. CASE Close BY <1>16 DEF Close
<1>17. CASE UNCHANGED vars BY <1>17 DEF vars
<1>18. ASSUME NEW c \in Conns, Binary(c) PROVE ContextOf(k)'
  BY <1>18 DEF Binary
<1>19. ASSUME NEW c \in Conns, BinarySend(c) PROVE ContextOf(k)'
  BY <1>19 DEF BinarySend
<1>20. ASSUME NEW c \in Conns, Flushed(c) PROVE ContextOf(k)'
  BY <1>20 DEF Flushed
<1>21. ASSUME NEW c \in Conns, ConnClosed(c) PROVE ContextOf(k)'
  BY <1>21 DEF ConnClosed
<1>22. ASSUME NEW c \in Conns, ConnBreaks(c) PROVE ContextOf(k)'
  BY <1>22 DEF ConnBreaks
<1> QED
  BY Steps, <1>1, <1>2, <1>3, <1>4, <1>5, <1>6, <1>7, <1>8, <1>9, <1>10, <1>11, <1>12, <1>13, <1>14,
     <1>15, <1>16, <1>17, <1>18, <1>19, <1>20, <1>21, <1>22

\* A response that has not set its session had not.
LEMMA UnbegunBefore ==
  ASSUME TypeOK, NEW k \in Responses, Unbegun(k)', [Next]_vars
  PROVE  Unbegun(k)
<1> USE Numbers DEF Unbegun, SynthUnchanged, ReaderUnchanged
<1> /\ cur \in Nat /\ k \in Nat BY DEF TypeOK, ControlTypeOK
<1>1. CASE Begin BY <1>1 DEF Begin
<1>2. CASE Connect BY <1>2 DEF Connect, EnsureConnected, AfterSpeaking, Looping
<1>3. CASE SetSession BY <1>3 DEF SetSession, AfterSpeaking, Looping
<1>4. CASE NextSentence BY <1>4 DEF NextSentence
<1>5. CASE TokensEnd BY <1>5 DEF TokensEnd
<1>6. CASE LoopCtxDone BY <1>6 DEF LoopCtxDone
<1>7. CASE Speak BY <1>7 DEF Speak
<1>8. CASE Write BY <1>8 DEF Write, AfterSpeaking, Looping
<1>9. CASE Flush BY <1>9 DEF Flush, AfterSpeaking, Looping
<1>10. CASE CountFlush BY <1>10 DEF CountFlush, AfterSpeaking, Looping
<1>11. CASE WaitForFlushed BY <1>11 DEF WaitForFlushed
<1>12. CASE AwaitFlushed BY <1>12 DEF AwaitFlushed
<1>13. CASE ClearClient BY <1>13 DEF ClearClient
<1>14. CASE Return BY <1>14 DEF Return
<1>15. CASE CancelResponse BY <1>15 DEF CancelResponse
<1>16. CASE Close BY <1>16 DEF Close
<1>17. CASE UNCHANGED vars BY <1>17 DEF vars
<1>18. ASSUME NEW c \in Conns, Binary(c) PROVE Unbegun(k)
  BY <1>18 DEF Binary
<1>19. ASSUME NEW c \in Conns, BinarySend(c) PROVE Unbegun(k)
  BY <1>19 DEF BinarySend
<1>20. ASSUME NEW c \in Conns, Flushed(c) PROVE Unbegun(k)
  BY <1>20 DEF Flushed
<1>21. ASSUME NEW c \in Conns, ConnClosed(c) PROVE Unbegun(k)
  BY <1>21 DEF ConnClosed
<1>22. ASSUME NEW c \in Conns, ConnBreaks(c) PROVE Unbegun(k)
  BY <1>22 DEF ConnBreaks
<1> QED
  BY Steps, <1>1, <1>2, <1>3, <1>4, <1>5, <1>6, <1>7, <1>8, <1>9, <1>10, <1>11, <1>12, <1>13, <1>14,
     <1>15, <1>16, <1>17, <1>18, <1>19, <1>20, <1>21, <1>22

LEMMA UntouchedKept ==
  ASSUME TypeOK, NEW k \in Responses, Unbegun(k), Unbegun(k)', Untouched(k), [Next]_vars
  PROVE  Untouched(k)'
<1>1. cur \in Nat /\ k \in Nat /\ k # 0 BY Numbers DEF TypeOK, ControlTypeOK
<1>2. Write \/ SetSession => cur < k
  <2>1. CASE Write BY <1>1, <2>1 DEF Write, Unbegun
  <2>2. CASE SetSession
    <3>1. at' \notin {"connect", "session", "fail"} /\ cur' = cur
      BY <2>2 DEF SetSession, Looping, AfterSpeaking
    <3> QED BY <1>1, <3>1 DEF Unbegun
  <2> QED BY <2>1, <2>2
<1>3. spoken'[k] = 0
  <2>1. spoken \in [Responses -> Nat] /\ spoken[k] = 0 BY DEF TypeOK, Untouched
  <2>2. CASE Write
    <3>1. cur # k BY <1>1, <1>2, <2>2
    <3> QED BY <2>1, <2>2, <3>1 DEF Write
  <2> QED BY <2>1, <2>2, Changes
<1>4. heard'[k] = <<>> BY HeardStep DEF Untouched
<1>5. ASSUME NEW c \in Conns
      PROVE  /\ session'[c] # k /\ k \notin Frames(wire'[c])
             /\ inFlight'[c] # <<>> => inFlight'[c][2] # k
  <2>1. /\ session[c] # k /\ k \notin Frames(wire[c])
        /\ inFlight[c] # <<>> => inFlight[c][2] # k
    BY DEF Untouched
  <2>2. session'[c] # k BY <1>1, <1>2, <2>1, SessionStep
  <2>3. k \notin Frames(wire'[c]) BY <1>1, <1>2, <2>1, WireFrames
  <2>4. inFlight'[c] # <<>> => inFlight'[c][2] # k BY <2>1, InFlightStep
  <2> QED BY <2>2, <2>3, <2>4
<1>6. Untouched(k)' <=> /\ spoken'[k] = 0 /\ heard'[k] = <<>>
                        /\ \A c \in Conns :
                             /\ session'[c] # k /\ k \notin Frames(wire'[c])
                             /\ inFlight'[c] # <<>> => inFlight'[c][2] # k
  BY DEF Untouched, Frames
<1> QED BY <1>3, <1>4, <1>5, <1>6

LEMMA LivesKept ==
  ASSUME TypeOK, Lives, [Next]_vars
  PROVE  Lives'
<1> SUFFICES ASSUME NEW k \in Responses PROVE LifeOf(k)' BY DEF Lives
<1>1. ContextOf(k) /\ (Unbegun(k) => Untouched(k)) BY DEF Lives, LifeOf
<1>2. ContextOf(k)' BY <1>1, ContextKept
<1>3. Unbegun(k)' => Untouched(k)' BY <1>1, UnbegunBefore, UntouchedKept
<1> QED BY <1>2, <1>3 DEF LifeOf

LEMMA InitLives == Init => Lives
<1> SUFFICES ASSUME Init, NEW k \in Responses PROVE LifeOf(k) BY DEF Lives
<1>1. /\ ~interrupted[k] /\ ~cancelled[k] /\ ~returned[k] BY DEF Init
<1>2. k # 0 BY Numbers
<1>3. \A c \in Conns : session[c] = 0 /\ wire[c] = <<>> /\ inFlight[c] = <<>> BY DEF Init
<1>4. Untouched(k) BY <1>2, <1>3, FramesOfEmpty DEF Init, Untouched
<1> QED BY <1>1, <1>4 DEF LifeOf, ContextOf

(***************************************************************************)
(* Whose audio a response is given                                         *)
(***************************************************************************)
\* Audio is of responses.
LEMMA FramesAre ==
  ASSUME TypeOK, NEW c \in Conns
  PROVE  Frames(wire[c]) \subseteq Responses
<1>1. wire[c] \in Seq(0 .. MaxResponses) BY DEF TypeOK, ConnTypeOK
<1>2. \A i \in 1 .. Len(wire[c]) : wire[c][i] \in 0 .. MaxResponses BY <1>1, ElementOfSeq
<1> QED BY <1>2, Numbers DEF Frames

\* What has been given to a response, or may be, it may have after it was cancelled.
LEMMA MayHearKept ==
  ASSUME TypeOK, [Next]_vars, NEW k \in Responses, NEW j \in Responses, k <= cur,
         MayHear(k, j, interrupted)
  PROVE  MayHear(k, j, interrupted')
<1>1. /\ interrupted \in [Responses -> BOOLEAN] /\ cur \in Nat /\ k \in Nat /\ j \in Nat
  BY Numbers DEF TypeOK, ControlTypeOK
<1>2. CASE CancelResponse BY <1>1, <1>2 DEF CancelResponse, MayHear
<1>3. CASE UNCHANGED interrupted BY <1>3 DEF MayHear
<1> QED BY <1>2, <1>3, Changes

\* What is in the session of a connection has begun, and so has what was heard.
LEMMA Begun ==
  ASSUME TypeOK, Lives, NEW k \in Responses
  PROVE  /\ heard[k] # <<>> => k <= cur
         /\ \A c \in Conns :
              /\ session[c] = k => k <= cur
              /\ inFlight[c] # <<>> /\ inFlight[c][2] = k => k <= cur
<1>1. cur \in Nat /\ k \in Nat BY Numbers DEF TypeOK, ControlTypeOK
<1>2. Unbegun(k) => Untouched(k) BY DEF Lives, LifeOf
<1>3. cur < k => Untouched(k) BY <1>2 DEF Unbegun
<1> QED BY <1>1, <1>3 DEF Untouched

LEMMA DeliverableKept ==
  ASSUME TypeOK, Connections, Lives, Given, [Next]_vars, NEW c \in Conns
  PROVE  Deliverable(c)'
<1>1. Deliverable(c) BY DEF Given
<1>2. session[c] \in 0 .. MaxResponses /\ cur \in 0 .. MaxResponses
  BY DEF TypeOK, ConnTypeOK, ControlTypeOK
<1>3. ASSUME session'[c] # 0, NEW j \in Frames(wire'[c])
      PROVE  MayHear(session'[c], j, interrupted')
  <2>1. CASE SetSession /\ c = callback /\ session'[c] = cur
    <3>1. UNCHANGED <<wire, interrupted>> BY <2>1 DEF SetSession, SynthUnchanged
    <3>2. Inheritable(c) BY <1>2, <1>3, <2>1, Numbers DEF Given
    <3>3. j \in Frames(wire[c]) BY <3>1
    <3>4. j \in Responses BY <3>3, FramesAre
    <3>5. Leaves(j) BY <3>2, <3>3 DEF Inheritable
    <3> QED BY <1>2, <2>1, <3>1, <3>4, <3>5, Numbers DEF Leaves, MayHear
  <2>2. CASE session'[c] = session[c]
    <3>1. session[c] \in Responses /\ session[c] <= cur BY <1>2, <1>3, <2>2, Begun
    <3>2. CASE j \in Frames(wire[c])
      <4>1. MayHear(session[c], j, interrupted) BY <1>1, <3>1, <3>2 DEF Deliverable
      <4>2. j \in Responses BY <3>2, FramesAre
      <4>3. MayHear(session[c], j, interrupted') BY <3>1, <4>1, <4>2, MayHearKept DEF MayHear
      <4> QED BY <2>2, <4>3 DEF MayHear
    <3>3. CASE Write /\ c = conn /\ j = cur
      <4>1. at = "write" BY <3>3 DEF Write
      <4>2. session[c] = cur BY <3>3, <4>1 DEF Connections, SpokenTo
      <4> QED BY <2>2, <3>3, <4>2 DEF MayHear
    <3> QED BY <3>2, <3>3, WireFrames
  <2> QED BY <1>3, <2>1, <2>2, SessionStep
<1>4. ASSUME inFlight'[c] # <<>>
      PROVE  MayHear(inFlight'[c][2], inFlight'[c][1], interrupted')
  <2>1. CASE inFlight'[c] = inFlight[c]
    <3>1. inFlight[c] # <<>> BY <1>4, <2>1
    <3>2. inFlight[c][1] \in Responses /\ inFlight[c][2] \in Responses
      BY <3>1, OfConn DEF TypeOK
    <3>3. inFlight[c][2] <= cur BY <3>1, <3>2, Begun
    <3>4. MayHear(inFlight[c][2], inFlight[c][1], interrupted) BY <1>1, <3>1 DEF Deliverable
    <3>5. MayHear(inFlight[c][2], inFlight[c][1], interrupted')
      BY <3>2, <3>3, <3>4, MayHearKept DEF MayHear
    <3> QED BY <2>1, <3>5 DEF MayHear
  <2>2. CASE /\ session[c] # 0 /\ Head(wire[c]) \in Frames(wire[c])
             /\ inFlight'[c] = <<Head(wire[c]), session[c]>>
             /\ UNCHANGED interrupted
    <3>1. MayHear(session[c], Head(wire[c]), interrupted) BY <1>1, <2>2 DEF Deliverable
    <3> QED BY <2>2, <3>1 DEF MayHear
  <2> QED BY <1>4, <2>1, <2>2, InFlightStep
<1>5. Deliverable(c)' <=>
        /\ session'[c] # 0 => \A j \in Frames(wire'[c]) : MayHear(session'[c], j, interrupted')
        /\ inFlight'[c] # <<>> => MayHear(inFlight'[c][2], inFlight'[c][1], interrupted')
  BY DEF Deliverable, MayHear, Frames
<1> QED BY <1>3, <1>4, <1>5

LEMMA HeardKept ==
  ASSUME TypeOK, Connections, Lives, Given, [Next]_vars,
         NEW k \in Responses, NEW i \in 1 .. Len(heard'[k])
  PROVE  MayHear(k, heard'[k][i], interrupted')
<1>1. heard[k] \in Seq(Responses) BY DEF TypeOK
<1>2. \A j \in 1 .. Len(heard[k]) : MayHear(k, heard[k][j], interrupted) BY DEF Given
<1>3. heard[k] # <<>> => k <= cur BY Begun
<1>4. ASSUME NEW j \in 1 .. Len(heard[k]) PROVE MayHear(k, heard[k][j], interrupted')
  <2>1. heard[k] # <<>>
    <3>1. Len(heard[k]) # 0 BY <1>1, LenProperties
    <3> QED BY <3>1
  <2>3. heard[k][j] \in Responses BY <1>1, ElementOfSeq
  <2>2. MayHear(k, heard[k][j], interrupted') BY <1>2, <1>3, <2>1, <2>3, MayHearKept DEF MayHear
  <2> QED BY <2>2
<1>5. CASE heard'[k] = heard[k] BY <1>4, <1>5 DEF MayHear
<1>6. ASSUME NEW c \in Conns, BinarySend(c), inFlight[c] # <<>>, inFlight[c][2] = k,
             heard'[k] = Append(heard[k], inFlight[c][1])
      PROVE  MayHear(k, heard'[k][i], interrupted')
  <2>1. inFlight[c][1] \in Responses BY <1>6, OfConn DEF TypeOK
  <2>2. /\ Len(heard'[k]) = Len(heard[k]) + 1
        /\ \A j \in 1 .. Len(heard[k]) : heard'[k][j] = heard[k][j]
        /\ heard'[k][Len(heard[k]) + 1] = inFlight[c][1]
    BY <1>1, <1>6, <2>1, AppendProperties
  <2>3. Len(heard[k]) \in Nat BY <1>1, LenProperties
  <2>4. CASE i \in 1 .. Len(heard[k]) BY <1>4, <2>2, <2>4 DEF MayHear
  <2>5. CASE i = Len(heard[k]) + 1
    <3>1. MayHear(k, inFlight[c][1], interrupted) BY <1>6 DEF Given, Deliverable
    <3>2. UNCHANGED interrupted BY <1>6 DEF BinarySend, ReaderUnchanged
    <3> QED BY <2>2, <2>5, <3>1, <3>2 DEF MayHear
  <2> QED BY <2>2, <2>3, <2>4, <2>5
<1> QED BY <1>5, <1>6, HeardStep

\* What the next response may hear of the callback's connection.
LEMMA LeavesKept ==
  ASSUME TypeOK, NEW j \in Responses, ContextOf(j), Leaves(j), callback' # 0,
         at = "fail" => j # cur, [Next]_vars
  PROVE  Leaves(j)'
<1> USE Numbers DEF Leaves, ContextOf, SynthUnchanged, ReaderUnchanged
<1> /\ interrupted \in [Responses -> BOOLEAN] /\ cancelled \in [Responses -> BOOLEAN]
    /\ cur \in Nat /\ j \in Nat
  BY DEF TypeOK, ControlTypeOK
<1>1. CASE Begin BY <1>1 DEF Begin
<1>2. CASE Connect BY <1>2 DEF Connect, EnsureConnected, AfterSpeaking, Looping
<1>3. CASE SetSession BY <1>3 DEF SetSession, AfterSpeaking, Looping
<1>4. CASE NextSentence BY <1>4 DEF NextSentence
<1>5. CASE TokensEnd BY <1>5 DEF TokensEnd
<1>6. CASE LoopCtxDone BY <1>6 DEF LoopCtxDone
<1>7. CASE Speak BY <1>7 DEF Speak
<1>8. CASE Write BY <1>8 DEF Write, AfterSpeaking, Looping
<1>9. CASE Flush BY <1>9 DEF Flush, AfterSpeaking, Looping
<1>10. CASE CountFlush BY <1>10 DEF CountFlush, AfterSpeaking, Looping
<1>11. CASE WaitForFlushed BY <1>11 DEF WaitForFlushed
<1>12. CASE AwaitFlushed BY <1>12 DEF AwaitFlushed
<1>13. CASE ClearClient BY <1>13 DEF ClearClient
<1>14. CASE Return BY <1>14 DEF Return
<1>15. CASE CancelResponse BY <1>15 DEF CancelResponse
<1>16. CASE Close BY <1>16 DEF Close
<1>17. CASE UNCHANGED vars BY <1>17 DEF vars
<1>18. ASSUME NEW c \in Conns, Binary(c) PROVE Leaves(j)'
  BY <1>18 DEF Binary
<1>19. ASSUME NEW c \in Conns, BinarySend(c) PROVE Leaves(j)'
  BY <1>19 DEF BinarySend
<1>20. ASSUME NEW c \in Conns, Flushed(c) PROVE Leaves(j)'
  BY <1>20 DEF Flushed
<1>21. ASSUME NEW c \in Conns, ConnClosed(c) PROVE Leaves(j)'
  BY <1>21 DEF ConnClosed
<1>22. ASSUME NEW c \in Conns, ConnBreaks(c) PROVE Leaves(j)'
  BY <1>22 DEF ConnBreaks
<1> QED
  BY Steps, <1>1, <1>2, <1>3, <1>4, <1>5, <1>6, <1>7, <1>8, <1>9, <1>10, <1>11, <1>12, <1>13, <1>14,
     <1>15, <1>16, <1>17, <1>18, <1>19, <1>20, <1>21, <1>22

LEMMA CallbackStep ==
  ASSUME TypeOK, Connections, [Next]_vars
  PROVE  \/ callback' \in {0, callback}
         \/ /\ Connect /\ client = 0 /\ callback' = conns + 1 /\ callback' \in Conns
            /\ wire[callback'] = <<>> /\ inFlight[callback'] = <<>>
            /\ client' = callback' /\ up'[callback'] /\ UNCHANGED <<wire, inFlight, session>>
<1>1. /\ conns \in Nat /\ MaxConns \in Nat /\ up \in [Conns -> BOOLEAN]
  BY Numbers DEF TypeOK, ControlTypeOK, ConnTypeOK
<1>2. CASE Connect
  <2>1. CASE callback' = conns + 1 /\ conns < MaxConns /\ client = 0
    <3>1. callback' \in Conns /\ conns < callback' BY <1>1, <2>1
    <3>2. callback' # callback BY <1>1, <2>1 DEF Connections, TypeOK, ControlTypeOK
    <3>3. client' = callback' /\ up'[callback'] /\ UNCHANGED <<wire, inFlight, session>>
      BY <1>1, <1>2, <2>1, <3>1, <3>2 DEF Connect, EnsureConnected
    <3> QED BY <1>2, <2>1, <3>1, <3>3 DEF Connections
  <2> QED BY <1>2, <2>1 DEF Connect, EnsureConnected
<1>3. CASE ClearClient BY <1>3 DEF ClearClient
<1>4. CASE Close BY <1>4 DEF Close
<1>5. ASSUME NEW c \in Conns, ConnClosed(c) PROVE callback' = 0 BY <1>5 DEF ConnClosed
<1> QED BY <1>2, <1>3, <1>4, <1>5, Changes

LEMMA InheritableKept ==
  ASSUME TypeOK, Connections, Lives, Given, [Next]_vars, callback' # 0
  PROVE  Inheritable(callback)'
<1>1. callback \in 0 .. MaxConns /\ cur \in 0 .. MaxResponses
  BY DEF TypeOK, ControlTypeOK
<1>2. CASE callback' = callback
  <2>1. callback \in Conns /\ Inheritable(callback) BY <1>1, <1>2, Numbers DEF Given
  <2>2. SUFFICES ASSUME NEW j \in Frames(wire'[callback]) PROVE Leaves(j)'
    BY <1>2 DEF Inheritable, Frames, Leaves
  <2>3. CASE j \in Frames(wire[callback])
    <3>1. j \in Responses /\ Leaves(j) BY <2>1, <2>3, FramesAre DEF Inheritable
    <3>2. ContextOf(j) /\ (Unbegun(j) => Untouched(j)) BY <3>1 DEF Lives, LifeOf
    <3>3. at = "fail" => j # cur BY <2>1, <2>3, <3>2 DEF Unbegun, Untouched
    <3> QED BY <3>1, <3>2, <3>3, LeavesKept
  <2>4. CASE Write /\ j = cur
    <3>1. at' \notin {"clearSession", "idle"} /\ cur' = cur /\ cur \in Nat
      BY <1>1, <2>4, Numbers DEF Write, AfterSpeaking, Looping
    <3> QED BY <2>4, <3>1 DEF Leaves
  <2> QED BY <2>1, <2>3, <2>4, WireFrames
<1>3. CASE callback' \in Conns /\ wire[callback'] = <<>> /\ UNCHANGED wire
  <2>1. Frames(wire'[callback']) = {} BY <1>3, FramesOfEmpty
  <2> QED BY <2>1 DEF Inheritable, Frames
<1> QED BY <1>2, <1>3, CallbackStep

LEMMA GivenKept ==
  ASSUME TypeOK, Connections, Lives, Given, [Next]_vars
  PROVE  Given'
<1>1. \A c \in Conns : Deliverable(c)' BY DeliverableKept
<1>2. \A k \in Responses : \A i \in 1 .. Len(heard'[k]) : MayHear(k, heard'[k][i], interrupted')
  BY HeardKept
<1>3. callback' # 0 => Inheritable(callback)' BY InheritableKept
<1> QED BY <1>1, <1>2, <1>3 DEF Given, MayHear

LEMMA InitGiven == Init => Given
<1> SUFFICES ASSUME Init PROVE Given OBVIOUS
<1>1. \A c \in Conns : session[c] = 0 /\ inFlight[c] = <<>> BY DEF Init
<1>2. \A k \in Responses : heard[k] = <<>> BY DEF Init
<1>3. callback = 0 BY DEF Init
<1>4. Len(<<>>) = 0 OBVIOUS
<1> QED BY <1>1, <1>2, <1>3, <1>4 DEF Given, Deliverable

(***************************************************************************)
(* While no connection has ended and Close was not called: the connection  *)
(***************************************************************************)
\* No connection ends and none is closed.
LEMMA NoFault ==
  ASSUME TypeOK, Calm, faults = 0, faults' = 0, [Next]_vars
  PROVE  /\ ~Close
         /\ \A c \in Conns : ~ConnBreaks(c) /\ ~ConnClosed(c)
<1>1. ~Close BY DEF Close
<1>2. ASSUME NEW c \in Conns PROVE ~ConnBreaks(c) BY DEF ConnBreaks
<1>3. ASSUME NEW c \in Conns PROVE ~ConnClosed(c)
  <2>1. c # 0 BY Numbers
  <2> QED BY <2>1 DEF ConnClosed, Calm, Connected, Attached
<1> QED BY <1>1, <1>2, <1>3

\* An interruption is never taken back.
LEMMA StaysInterrupted ==
  ASSUME TypeOK, Lives, [Next]_vars, NEW k \in Responses, interrupted[k]
  PROVE  interrupted'[k]
<1>1. interrupted \in [Responses -> BOOLEAN] /\ cancelled[k]
  BY DEF TypeOK, Lives, LifeOf, ContextOf
<1>2. CASE CancelResponse BY <1>1, <1>2 DEF CancelResponse
<1> QED BY <1>2, Changes

\* Nothing is on the connection that is put in another session.
LEMMA SessionOfClean ==
  ASSUME TypeOK, Calm, at # "panic", [Next]_vars, NEW c \in Conns, session'[c] # session[c]
  PROVE  /\ SetSession \/ Return
         /\ wire[c] = <<>> /\ inFlight[c] = <<>> /\ UNCHANGED <<wire, inFlight>>
<1>1. c # 0 /\ Connected BY Numbers DEF Calm
<1>2. CASE SetSession /\ c = callback
  <2>1. at = "session" /\ UNCHANGED <<wire, inFlight>>
    BY <1>1, <1>2 DEF SetSession, SynthUnchanged, Connected, Attached
  <2> QED BY <1>1, <1>2, <2>1 DEF Connected, Attached, CleanBetween, Clean
<1>3. CASE Return /\ at = "clearSession" /\ c = callback
  <2>1. UNCHANGED <<wire, inFlight>> BY <1>3 DEF Return
  <2> QED BY <1>1, <1>3, <2>1 DEF Connected, Attached, CleanBetween, Clean
<1> QED BY <1>2, <1>3, SessionStep

LEMMA OwnFramesKept ==
  ASSUME TypeOK, Connections, Calm, at # "panic", [Next]_vars
  PROVE  OwnFrames'
<1>1. ASSUME NEW c \in Conns PROVE Frames(wire'[c]) \subseteq {session'[c]}
  <2>1. Frames(wire[c]) \subseteq {session[c]} BY DEF Calm, OwnFrames
  <2>2. CASE session'[c] # session[c]
    <3>1. wire'[c] = <<>> BY <2>2, SessionOfClean
    <3> QED BY <3>1, FramesOfEmpty
  <2>3. CASE session'[c] = session[c]
    <3>1. Write /\ c = conn => session[c] = cur BY DEF Write, Connections, SpokenTo
    <3> QED BY <2>1, <2>3, <3>1, WireFrames
  <2> QED BY <2>2, <2>3
<1>2. ASSUME NEW c \in Conns, inFlight'[c] # <<>>
      PROVE  inFlight'[c] = <<session'[c], session'[c]>>
  <2>1. CASE inFlight'[c] = inFlight[c]
    <3>1. inFlight[c] = <<session[c], session[c]>> BY <1>2, <2>1 DEF Calm, OwnFrames
    <3>2. session'[c] = session[c] BY <1>2, <2>1, SessionOfClean
    <3> QED BY <2>1, <3>1, <3>2
  <2>2. CASE /\ Head(wire[c]) \in Frames(wire[c])
             /\ inFlight'[c] = <<Head(wire[c]), session[c]>>
             /\ UNCHANGED session
    <3>1. Head(wire[c]) = session[c] BY <2>2 DEF Calm, OwnFrames
    <3> QED BY <2>2, <3>1
  <2> QED BY <1>2, <2>1, <2>2, InFlightStep
<1>3. ASSUME NEW k \in Responses, NEW i \in 1 .. Len(heard'[k]) PROVE heard'[k][i] = k
  <2>1. heard[k] \in Seq(Responses) BY DEF TypeOK
  <2>2. \A j \in 1 .. Len(heard[k]) : heard[k][j] = k BY DEF Calm, OwnFrames
  <2>3. CASE heard'[k] = heard[k] BY <1>3, <2>2, <2>3
  <2>4. ASSUME NEW c \in Conns, inFlight[c] # <<>>, inFlight[c][2] = k,
               heard'[k] = Append(heard[k], inFlight[c][1])
        PROVE  heard'[k][i] = k
    <3>1. inFlight[c][1] = k BY <2>4 DEF Calm, OwnFrames
    <3>2. /\ Len(heard'[k]) = Len(heard[k]) + 1
          /\ \A j \in 1 .. Len(heard[k]) : heard'[k][j] = heard[k][j]
          /\ heard'[k][Len(heard[k]) + 1] = k
      BY <2>1, <2>4, <3>1, AppendProperties
    <3>3. Len(heard[k]) \in Nat BY <2>1, LenProperties
    <3>4. i \in 1 .. Len(heard[k]) \/ i = Len(heard[k]) + 1 BY <3>2, <3>3
    <3> QED BY <2>2, <3>2, <3>4
  <2> QED BY <2>3, <2>4, HeardStep
<1> QED BY <1>1, <1>2, <1>3 DEF OwnFrames, Frames

\* Which steps lead to the deferred clearSession or leave it.
LEMMA ComesToClearing ==
  ASSUME TypeOK, at # "panic", at' = "clearSession", [Next]_vars
  PROVE  \/ at = "end" /\ ClearClient
         \/ at = "clearSession"
<1> USE DEF SynthUnchanged, ReaderUnchanged, TypeOK, ControlTypeOK
<1>1. CASE Begin BY <1>1 DEF Begin
<1>2. CASE Connect BY <1>2 DEF Connect, EnsureConnected, AfterSpeaking, Looping
<1>3. CASE SetSession BY <1>3 DEF SetSession, AfterSpeaking, Looping
<1>4. CASE NextSentence BY <1>4 DEF NextSentence
<1>5. CASE TokensEnd BY <1>5 DEF TokensEnd
<1>6. CASE LoopCtxDone BY <1>6 DEF LoopCtxDone
<1>7. CASE Speak BY <1>7 DEF Speak
<1>8. CASE Write BY <1>8 DEF Write, AfterSpeaking, Looping
<1>9. CASE Flush BY <1>9 DEF Flush, AfterSpeaking, Looping
<1>10. CASE CountFlush BY <1>10 DEF CountFlush, AfterSpeaking, Looping
<1>11. CASE WaitForFlushed BY <1>11 DEF WaitForFlushed
<1>12. CASE AwaitFlushed BY <1>12 DEF AwaitFlushed
<1>13. CASE ClearClient BY <1>13 DEF ClearClient
<1>14. CASE Return BY <1>14 DEF Return
<1>15. CASE CancelResponse BY <1>15 DEF CancelResponse
<1>16. CASE Close BY <1>16 DEF Close
<1>17. CASE UNCHANGED vars BY <1>17 DEF vars
<1>18. ASSUME NEW c \in Conns, Binary(c) PROVE at = "clearSession"
  BY <1>18 DEF Binary
<1>19. ASSUME NEW c \in Conns, BinarySend(c) PROVE at = "clearSession"
  BY <1>19 DEF BinarySend
<1>20. ASSUME NEW c \in Conns, Flushed(c) PROVE at = "clearSession"
  BY <1>20 DEF Flushed
<1>21. ASSUME NEW c \in Conns, ConnClosed(c) PROVE at = "clearSession"
  BY <1>21 DEF ConnClosed
<1>22. ASSUME NEW c \in Conns, ConnBreaks(c) PROVE at = "clearSession"
  BY <1>22 DEF ConnBreaks
<1> QED BY Steps, <1>1, <1>2, <1>3, <1>4, <1>5, <1>6, <1>7, <1>8, <1>9, <1>10, <1>11, <1>12,
    <1>13, <1>14, <1>15, <1>16, <1>17, <1>18, <1>19, <1>20, <1>21, <1>22

LEMMA EndedNow ==
  ASSUME TypeOK, Connections, Lives, Calm, faults = 0, faults' = 0, at # "panic", [Next]_vars,
         at' = "clearSession", ~interrupted'[cur]
  PROVE  Len(heard'[cur]) = spoken'[cur]
<1>1. at = "clearSession" \/ (at = "end" /\ ClearClient) BY ComesToClearing
<1>2. cur \in Responses BY <1>1, Numbers DEF TypeOK, ControlTypeOK
<1>3. ~interrupted[cur] BY <1>2, StaysInterrupted
<1>4. spoken'[cur] = spoken[cur] BY <1>1, Changes DEF Write
<1>5. CASE at = "end" /\ ClearClient
  <2>1. ~cancelled[cur] BY <1>2, <1>3, <1>5 DEF Lives, LifeOf, ContextOf
  <2>2. callback # 0 /\ Clean(callback)
    BY <1>5, <2>1 DEF Calm, Connected, Attached, CleanAtEnd
  <2>3. Account(Queue, inFlight[callback] # <<>>, flushedCh[callback], Flushes, Len(heard[cur]),
                spoken[cur])
    BY <1>5, <2>1 DEF Calm, Counted, Owing, AccountHolds
  <2>4. Queue = <<>> /\ Len(<<>>) = 0 BY <1>5, <2>2 DEF Queue, Clean
  <2>5. 2 * Len(heard[cur]) = 2 * spoken[cur]
    <3>1. inFlight[callback] = <<>> BY <2>2 DEF Clean
    <3>2. Len(heard[cur]) \in Nat /\ spoken[cur] \in Nat
      BY <1>2, OfResponse, LenProperties
    <3> QED BY <2>3, <2>4, <3>1, <3>2 DEF Account, AckNext, Bit
  <2>6. Len(heard[cur]) \in Nat /\ spoken[cur] \in Nat BY <1>2, OfResponse, LenProperties
  <2>7. UNCHANGED heard BY <1>5 DEF ClearClient
  <2> QED BY <1>4, <2>5, <2>6, <2>7
<1>6. CASE at = "clearSession"
  <2>1. Len(heard[cur]) = spoken[cur] BY <1>3, <1>6 DEF Calm, Ended
  <2>2. heard'[cur] = heard[cur]
    <3>1. SUFFICES ASSUME NEW c \in Conns, inFlight[c] # <<>>, inFlight[c][2] = cur PROVE FALSE
      BY <1>2, HeardStep
    <3>2. session[c] = cur BY <3>1 DEF Calm, OwnFrames
    <3>3. c = callback BY <1>2, <1>3, <3>2, Numbers DEF Calm, Ended
    <3>4. callback # 0 BY <3>3, Numbers
    <3> QED BY <1>6, <3>1, <3>3, <3>4 DEF Calm, Connected, Attached, CleanBetween, CleanAtEnd, Clean
  <2> QED BY <1>4, <2>1, <2>2
<1> QED BY <1>1, <1>5, <1>6

\* No connection but the callback's is in the session of an uninterrupted response.
LEMMA SessionNow ==
  ASSUME TypeOK, Connections, Lives, Calm, faults = 0, faults' = 0, at # "panic", [Next]_vars,
         cur' # 0, ~interrupted'[cur'], NEW c \in Conns, c # callback'
  PROVE  session'[c] # cur'
<1>1. cur' \in Responses
  BY Types, Numbers DEF TypeOK, ControlTypeOK
<1>2. ~interrupted[cur'] BY <1>1, StaysInterrupted
<1>3. cur \in Nat /\ c # 0 BY Numbers DEF TypeOK, ControlTypeOK
<1>4. CASE Begin
  <2>1. cur' = cur + 1 /\ UNCHANGED session BY <1>4 DEF Begin
  <2>2. Untouched(cur') BY <1>1, <1>3, <2>1 DEF Lives, LifeOf, Unbegun
  <2> QED BY <2>1, <2>2 DEF Untouched
<1>5. CASE cur' = cur
  <2>1. \A d \in Conns : d # callback => session[d] # cur
    BY <1>1, <1>2, <1>5 DEF Calm, Ended
  <2>2. CASE callback' = callback BY <1>1, <1>3, <1>5, <2>1, <2>2, Numbers, SessionStep
  <2>3. CASE callback' = 0 /\ callback # 0
    <3>1. ClearClient /\ cancelled[cur]
      BY <2>3, NoFault, Changes, <1>3
      DEF ClearClient, Connect, EnsureConnected, Calm, Connected, Attached
    <3>2. at = "end" BY <3>1 DEF ClearClient
    <3>3. interrupted[cur] BY <1>1, <1>5, <3>1, <3>2 DEF Lives, LifeOf, ContextOf
    <3> QED BY <1>2, <1>5, <3>3
  <2>4. CASE Connect /\ UNCHANGED session
    <3>1. at = "connect" BY <2>4 DEF Connect, Calm, Connected, Attached
    <3>2. Untouched(cur) BY <1>1, <1>5, <3>1 DEF Lives, LifeOf, Unbegun
    <3> QED BY <1>5, <2>4, <3>2 DEF Untouched
  <2> QED BY <2>2, <2>3, <2>4, CallbackStep
<1> QED BY <1>4, <1>5, Changes

\* What a response that has returned has heard.
LEMMA ReturnedNow ==
  ASSUME TypeOK, Connections, Lives, Calm, faults = 0, faults' = 0, at # "panic", [Next]_vars,
         NEW k \in Responses, returned'[k], ~interrupted'[k]
  PROVE  Len(heard'[k]) = spoken'[k] /\ \A c \in Conns : session'[c] # k
<1>1. ~interrupted[k] BY StaysInterrupted
<1>2. cur \in Nat /\ k \in Nat /\ k # 0 BY Numbers DEF TypeOK, ControlTypeOK
<1>3. CASE returned[k]
  <2>1. Len(heard[k]) = spoken[k] /\ \A c \in Conns : session[c] # k
    BY <1>1, <1>3 DEF Calm, Ended
  <2>2. at # "idle" => k # cur BY <1>2, <1>3 DEF Lives, LifeOf, ContextOf
  <2>3. spoken'[k] = spoken[k]
    <3>1. CASE Write
      <4>1. k # cur /\ spoken \in [Responses -> Nat] BY <2>2, <3>1 DEF Write, TypeOK
      <4> QED BY <3>1, <4>1 DEF Write
    <3> QED BY <3>1, Changes
  <2>4. heard'[k] = heard[k] BY <1>3, HeardStep
  <2>5. ASSUME NEW c \in Conns PROVE session'[c] # k
    <3>1. SetSession => cur # k BY <2>2 DEF SetSession
    <3> QED BY <1>2, <2>1, <3>1, SessionStep
  <2> QED BY <2>1, <2>3, <2>4, <2>5
<1>4. CASE ~returned[k]
  <2>1. Return /\ k = cur
    <3>1. returned \in [Responses -> BOOLEAN] BY DEF TypeOK
    <3> QED BY <1>4, <3>1, Changes DEF Return
  <2>2. UNCHANGED <<heard, spoken, callback>> /\ at \in {"clearSession", "fail"}
    BY <2>1 DEF Return
  <2>3. CASE at = "fail"
    <3>1. Untouched(k) BY <2>1, <2>3 DEF Lives, LifeOf, Unbegun
    <3>2. Len(heard[k]) = spoken[k] BY <3>1 DEF Untouched
    <3>3. \A c \in Conns : session[c] # k BY <3>1 DEF Untouched
    <3>4. \A c \in Conns : session'[c] # k BY <2>1, <2>3, <3>3, SessionStep DEF Return, SetSession
    <3> QED BY <2>2, <3>2, <3>4
  <2>4. CASE at = "clearSession"
    <3>1. Len(heard[k]) = spoken[k] BY <1>1, <2>1, <2>4 DEF Calm, Ended
    <3>2. ASSUME NEW c \in Conns PROVE session'[c] # k
      <4>1. session \in [Conns -> 0 .. MaxResponses] BY DEF TypeOK, ConnTypeOK
      <4>2. c # callback => session[c] # k BY <1>1, <1>2, <2>1 DEF Calm, Ended
      <4>3. session'[c] = IF c = callback THEN 0 ELSE session[c]
        BY <2>1, <2>4, <4>1 DEF Return
      <4> QED BY <1>2, <4>2, <4>3
    <3> QED BY <2>2, <3>1, <3>2
  <2> QED BY <2>2, <2>3, <2>4
<1> QED BY <1>3, <1>4

LEMMA EndedKept ==
  ASSUME TypeOK, Connections, Lives, Calm, faults = 0, faults' = 0, at # "panic", [Next]_vars
  PROVE  Ended'
<1>1. ASSUME at' = "clearSession", ~interrupted'[cur'] PROVE Len(heard'[cur']) = spoken'[cur']
  <2>1. cur' = cur BY <1>1, Changes DEF Begin
  <2> QED BY <1>1, <2>1, EndedNow
<1>2. ASSUME cur' # 0, ~interrupted'[cur']
      PROVE  \A c \in Conns : c # callback' => session'[c] # cur'
  BY <1>2, SessionNow
<1>3. \A k \in Responses :
        returned'[k] /\ ~interrupted'[k] =>
          Len(heard'[k]) = spoken'[k] /\ \A c \in Conns : session'[c] # k
  BY ReturnedNow
<1> QED BY <1>1, <1>2, <1>3 DEF Ended

\* The process crashes by a send on the channel of an interrupted response.
LEMMA PanicNow ==
  ASSUME TypeOK, Connections, Lives, Calm, faults = 0, faults' = 0, at # "panic", at' = "panic",
         [Next]_vars
  PROVE  \E k \in Responses : interrupted'[k]
<1> USE DEF SynthUnchanged, ReaderUnchanged, Looping, AfterSpeaking
<1> Connected /\ 0 \notin Conns BY Numbers DEF Calm
<1> USE DEF Connected, Attached
<1>1. CASE Begin BY <1>1 DEF Begin
<1>2. CASE Connect BY <1>2 DEF Connect, EnsureConnected, AfterSpeaking, Looping
<1>3. CASE SetSession BY <1>3 DEF SetSession, AfterSpeaking, Looping
<1>4. CASE NextSentence BY <1>4 DEF NextSentence
<1>5. CASE TokensEnd BY <1>5 DEF TokensEnd
<1>6. CASE LoopCtxDone BY <1>6 DEF LoopCtxDone
<1>7. CASE Speak BY <1>7 DEF Speak
<1>8. CASE Write BY <1>8 DEF Write, AfterSpeaking, Looping
<1>9. CASE Flush BY <1>9 DEF Flush, AfterSpeaking, Looping
<1>10. CASE CountFlush BY <1>10 DEF CountFlush, AfterSpeaking, Looping
<1>11. CASE WaitForFlushed BY <1>11 DEF WaitForFlushed
<1>12. CASE AwaitFlushed BY <1>12 DEF AwaitFlushed
<1>13. CASE ClearClient BY <1>13 DEF ClearClient
<1>14. CASE Return BY <1>14 DEF Return
<1>15. CASE CancelResponse BY <1>15 DEF CancelResponse
<1>16. CASE Close BY <1>16 DEF Close
<1>17. CASE UNCHANGED vars BY <1>17 DEF vars
<1>18. ASSUME NEW c \in Conns, Binary(c) PROVE \E k \in Responses : interrupted'[k]
  BY <1>18 DEF Binary
<1>19. ASSUME NEW c \in Conns, BinarySend(c) PROVE \E k \in Responses : interrupted'[k]
  <2> DEFINE k == inFlight[c][2]
  <2>1. inFlight[c] # <<>> /\ returned[k] /\ UNCHANGED interrupted
    BY <1>19 DEF BinarySend
  <2>2. k \in Responses BY <2>1, OfConn DEF TypeOK
  <2>3. session[c] = k BY <2>1 DEF Calm, OwnFrames
  <2>4. interrupted[k] BY <2>1, <2>2, <2>3 DEF Calm, Ended
  <2> QED BY <2>1, <2>2, <2>4
<1>20. ASSUME NEW c \in Conns, Flushed(c) PROVE \E k \in Responses : interrupted'[k]
  BY <1>20 DEF Flushed
<1>21. ASSUME NEW c \in Conns, ConnClosed(c) PROVE \E k \in Responses : interrupted'[k]
  BY <1>21 DEF ConnClosed
<1>22. ASSUME NEW c \in Conns, ConnBreaks(c) PROVE \E k \in Responses : interrupted'[k]
  BY <1>22 DEF ConnBreaks
<1> QED BY Steps, <1>1, <1>2, <1>3, <1>4, <1>5, <1>6, <1>7, <1>8, <1>9, <1>10, <1>11, <1>12,
    <1>13, <1>14, <1>15, <1>16, <1>17, <1>18, <1>19, <1>20, <1>21, <1>22

\* The connection is there after the step.
LEMMA AttachedKept ==
  ASSUME TypeOK, Connections, Calm, faults = 0, faults' = 0, at # "panic", at' # "panic",
         [Next]_vars
  PROVE  Attached'
<1> USE DEF Attached, SynthUnchanged, ReaderUnchanged, Looping, AfterSpeaking
<1> /\ Attached /\ 0 \notin Conns /\ conns + 1 # 0
    /\ client \in 0 .. MaxConns /\ callback \in 0 .. MaxConns /\ MaxConns \in Nat
    /\ conns \in 0 .. MaxConns
    /\ client # 0 => client = callback
    /\ callback <= conns
    /\ up \in [Conns -> BOOLEAN]
  BY Numbers DEF Calm, Connected, TypeOK, ControlTypeOK, ConnTypeOK, Connections
<1>1. CASE Begin BY <1>1 DEF Begin
<1>2. CASE Connect BY <1>2, CallbackStep DEF Connect, EnsureConnected
<1>3. CASE SetSession BY <1>3 DEF SetSession, AfterSpeaking, Looping
<1>4. CASE NextSentence BY <1>4 DEF NextSentence
<1>5. CASE TokensEnd BY <1>5 DEF TokensEnd
<1>6. CASE LoopCtxDone BY <1>6 DEF LoopCtxDone
<1>7. CASE Speak BY <1>7 DEF Speak
<1>8. CASE Write BY <1>8 DEF Write, AfterSpeaking, Looping
<1>9. CASE Flush BY <1>9 DEF Flush, AfterSpeaking, Looping
<1>10. CASE CountFlush BY <1>10 DEF CountFlush, AfterSpeaking, Looping
<1>11. CASE WaitForFlushed BY <1>11 DEF WaitForFlushed
<1>12. CASE AwaitFlushed BY <1>12 DEF AwaitFlushed
<1>13. CASE ClearClient BY <1>13 DEF ClearClient
<1>14. CASE Return BY <1>14 DEF Return
<1>15. CASE CancelResponse BY <1>15 DEF CancelResponse
<1>16. CASE Close BY <1>16 DEF Close
<1>17. CASE UNCHANGED vars BY <1>17 DEF vars
<1>18. ASSUME NEW c \in Conns, Binary(c) PROVE Attached'
  BY <1>18 DEF Binary
<1>19. ASSUME NEW c \in Conns, BinarySend(c) PROVE Attached'
  BY <1>19 DEF BinarySend
<1>20. ASSUME NEW c \in Conns, Flushed(c) PROVE Attached'
  BY <1>20 DEF Flushed
<1>21. ASSUME NEW c \in Conns, ConnClosed(c) PROVE Attached'
  BY <1>21 DEF ConnClosed
<1>22. ASSUME NEW c \in Conns, ConnBreaks(c) PROVE Attached'
  BY <1>22 DEF ConnBreaks
<1> QED BY Steps, <1>1, <1>2, <1>3, <1>4, <1>5, <1>6, <1>7, <1>8, <1>9, <1>10, <1>11, <1>12,
    <1>13, <1>14, <1>15, <1>16, <1>17, <1>18, <1>19, <1>20, <1>21, <1>22

\* Nothing is on its way when all flushes are acknowledged.
LEMMA PaidOff ==
  ASSUME TypeOK, Calm, at = "wait", ~cancelled[cur], callback # 0, pendingFlushes[callback] = 0
  PROVE  Clean(callback)
<1>1. Account(Queue, inFlight[callback] # <<>>, flushedCh[callback], Flushes, Len(heard[cur]),
              spoken[cur])
  BY DEF Calm, Counted, Owing, AccountHolds
<1>2. Queue = wire[callback] BY DEF Queue
<1>3. /\ wire[callback] \in Seq(0 .. MaxResponses) /\ flushedCh[callback] \in Nat
  BY Numbers DEF TypeOK, ControlTypeOK, ConnTypeOK
<1>4. Len(wire[callback]) \in Nat BY <1>3, LenProperties
<1>5. Len(wire[callback]) = 0 BY <1>1, <1>2, <1>3, <1>4 DEF Account, Flushes, Bit
<1>6. wire[callback] = <<>> BY <1>3, <1>5, EmptySeq
<1>7. inFlight[callback] = <<>> BY <1>1, <1>2, <1>6 DEF Account, AckNext
<1> QED BY <1>6, <1>7 DEF Clean

\* The connection is clean between two responses, and when a response has heard all.
LEMMA CleanNow ==
  ASSUME TypeOK, Connections, Calm, faults = 0, faults' = 0, at # "panic", at' # "panic",
         [Next]_vars
  PROVE  CleanBetween' /\ CleanAtEnd'
<1> USE DEF SynthUnchanged, ReaderUnchanged, Looping, AfterSpeaking, Clean
<1> /\ Connected /\ 0 \notin Conns
    /\ client \in 0 .. MaxConns /\ callback \in 0 .. MaxConns /\ MaxConns \in Nat
    /\ conns \in 0 .. MaxConns
    /\ client # 0 => client = callback
    /\ wire \in [Conns -> Seq(0 .. MaxResponses)]
    /\ inFlight \in [Conns -> {<<>>} \cup (Responses \X Responses)]
    /\ cancelled \in [Responses -> BOOLEAN] /\ (cur # 0 => cur \in Responses)
  BY Numbers DEF Calm, TypeOK, ControlTypeOK, ConnTypeOK, Connections
<1> USE DEF Connected, Attached, CleanBetween, CleanAtEnd
<1>1. CASE Begin BY <1>1 DEF Begin
<1>2. CASE Connect BY <1>2, CallbackStep DEF Connect, EnsureConnected
<1>3. CASE SetSession BY <1>3 DEF SetSession, AfterSpeaking, Looping
<1>4. CASE NextSentence BY <1>4 DEF NextSentence
<1>5. CASE TokensEnd BY <1>5 DEF TokensEnd
<1>6. CASE LoopCtxDone BY <1>6 DEF LoopCtxDone
<1>7. CASE Speak BY <1>7 DEF Speak
<1>8. CASE Write BY <1>8 DEF Write, AfterSpeaking, Looping
<1>9. CASE Flush BY <1>9 DEF Flush, AfterSpeaking, Looping
<1>10. CASE CountFlush BY <1>10 DEF CountFlush, AfterSpeaking, Looping
<1>11. CASE WaitForFlushed BY <1>11, PaidOff DEF WaitForFlushed
<1>12. CASE AwaitFlushed BY <1>12 DEF AwaitFlushed
<1>13. CASE ClearClient BY <1>13 DEF ClearClient
<1>14. CASE Return BY <1>14 DEF Return
<1>15. CASE CancelResponse BY <1>15 DEF CancelResponse
<1>16. CASE Close BY <1>16 DEF Close
<1>17. CASE UNCHANGED vars BY <1>17 DEF vars
<1>18. ASSUME NEW c \in Conns, Binary(c) PROVE CleanBetween' /\ CleanAtEnd'
  <2>1. UNCHANGED <<at, callback, cancelled, cur>> BY <1>18 DEF Binary
  <2>2. callback # 0 /\ Clean(callback) => callback # c BY <1>18 DEF Binary
  <2>3. callback # 0 /\ Clean(callback) =>
          wire'[callback] = wire[callback] /\ inFlight'[callback] = inFlight[callback]
    BY <1>18, <2>2 DEF Binary
  <2> QED BY <2>1, <2>3
<1>19. ASSUME NEW c \in Conns, BinarySend(c) PROVE CleanBetween' /\ CleanAtEnd'
  BY <1>19 DEF BinarySend
<1>20. ASSUME NEW c \in Conns, Flushed(c) PROVE CleanBetween' /\ CleanAtEnd'
  <2>1. UNCHANGED <<at, callback, cancelled, cur>> BY <1>20 DEF Flushed
  <2>2. callback # 0 /\ Clean(callback) => callback # c BY <1>20 DEF Flushed
  <2>3. callback # 0 /\ Clean(callback) =>
          wire'[callback] = wire[callback] /\ inFlight'[callback] = inFlight[callback]
    BY <1>20, <2>2 DEF Flushed
  <2> QED BY <2>1, <2>3
<1>21. ASSUME NEW c \in Conns, ConnClosed(c) PROVE CleanBetween' /\ CleanAtEnd'
  BY <1>21 DEF ConnClosed
<1>22. ASSUME NEW c \in Conns, ConnBreaks(c) PROVE CleanBetween' /\ CleanAtEnd'
  BY <1>22 DEF ConnBreaks
<1> QED BY Steps, <1>1, <1>2, <1>3, <1>4, <1>5, <1>6, <1>7, <1>8, <1>9, <1>10, <1>11, <1>12,
    <1>13, <1>14, <1>15, <1>16, <1>17, <1>18, <1>19, <1>20, <1>21, <1>22

(***************************************************************************)
(* While no connection has ended and Close was not called: the account     *)
(***************************************************************************)
\* A sentence and its flush are appended to a queue.
LEMMA SentenceAppended ==
  ASSUME NEW q \in Seq(0 .. MaxResponses), Alternates(q), NEW k \in Responses
  PROVE  LET r == Append(Append(q, k), 0) IN
           Alternates(r) /\ (AckNext(r) <=> AckNext(q)) /\ Len(r) = Len(q) + 2
<1> DEFINE s == Append(q, k)
           r == Append(s, 0)
<1>1. k \in 0 .. MaxResponses /\ 0 \in 0 .. MaxResponses /\ k # 0 BY Numbers
<1>2. /\ s \in Seq(0 .. MaxResponses) /\ Len(s) = Len(q) + 1
      /\ \A i \in 1 .. Len(q) : s[i] = q[i]
      /\ s[Len(q) + 1] = k
  BY <1>1, AppendProperties
<1>3. /\ r \in Seq(0 .. MaxResponses) /\ Len(r) = Len(s) + 1
      /\ \A i \in 1 .. Len(s) : r[i] = s[i]
      /\ r[Len(s) + 1] = 0
  BY <1>1, <1>2, AppendProperties
<1>4. Len(q) \in Nat /\ (q # <<>> <=> Len(q) # 0) BY LenProperties, EmptySeq
<1> HIDE DEF r, s
<1>5. /\ Len(r) = Len(q) + 2 /\ r[Len(q) + 1] = k /\ r[Len(q) + 2] = 0
      /\ \A i \in 1 .. Len(q) : r[i] = q[i]
  BY <1>2, <1>3, <1>4
<1>6. r # <<>>
  <2>1. Len(<<>>) = 0 OBVIOUS
  <2> QED BY <1>4, <1>5, <2>1
<1>7. ASSUME NEW i \in 1 .. Len(r) - 1 PROVE (r[i] = 0) <=> (r[i + 1] # 0)
  <2>1. CASE i < Len(q)
    <3>1. i \in 1 .. Len(q) - 1 /\ i \in 1 .. Len(q) /\ i + 1 \in 1 .. Len(q) BY <1>4, <1>5, <2>1
    <3>2. r[i] = q[i] /\ r[i + 1] = q[i + 1] BY <1>5, <3>1
    <3>3. (q[i] = 0) <=> (q[i + 1] # 0) BY <3>1 DEF Alternates
    <3> QED BY <3>2, <3>3
  <2>2. CASE i = Len(q)
    <3>1. q # <<>> /\ r[i] = q[Len(q)] /\ r[i + 1] = k BY <1>4, <1>5, <2>2
    <3> QED BY <1>1, <3>1 DEF Alternates
  <2>3. CASE i = Len(q) + 1
    <3>1. r[i] = k /\ r[i + 1] = 0 BY <1>4, <1>5, <2>3
    <3> QED BY <1>1, <3>1
  <2> QED BY <1>4, <1>5, <2>1, <2>2, <2>3
<1>8. Alternates(r) BY <1>5, <1>6, <1>7 DEF Alternates
<1>9. AckNext(r) <=> AckNext(q)
  <2>1. CASE q = <<>>
    <3>1. r[1] = k BY <1>4, <1>5, <2>1
    <3> QED BY <1>1, <2>1, <3>1 DEF AckNext
  <2>2. CASE q # <<>>
    <3>1. r[1] = q[1] BY <1>4, <1>5, <2>2
    <3> QED BY <1>6, <2>2, <3>1 DEF AckNext
  <2> QED BY <2>1, <2>2
<1> QED BY <1>5, <1>8, <1>9 DEF r, s

\* The first of a queue is delivered.
LEMMA FirstDelivered ==
  ASSUME NEW q \in Seq(0 .. MaxResponses), Alternates(q), q # <<>>
  PROVE  /\ Alternates(Tail(q)) /\ Len(Tail(q)) = Len(q) - 1 /\ Len(q) \in Nat \ {0}
         /\ AckNext(q) <=> Head(q) = 0
         /\ AckNext(Tail(q)) <=> Head(q) # 0
<1>1. /\ Tail(q) \in Seq(0 .. MaxResponses) /\ Len(Tail(q)) = Len(q) - 1
      /\ \A i \in 1 .. Len(Tail(q)) : Tail(q)[i] = q[i + 1]
      /\ Head(q) = q[1]
  BY HeadTailProperties
<1>2. Len(q) \in Nat \ {0} BY LenProperties, EmptySeq
<1>3. Tail(q) # <<>> <=> Len(q) # 1
  <2>1. Len(<<>>) = 0 OBVIOUS
  <2>2. Len(Tail(q)) = 0 => Tail(q) = <<>> BY <1>1, EmptySeq
  <2>3. Len(Tail(q)) = 0 <=> Len(q) = 1 BY <1>1, <1>2
  <2>4. Tail(q) = <<>> => Len(Tail(q)) = 0 BY Zenon, <2>1
  <2> QED BY <2>2, <2>3, <2>4
<1> DEFINE t == Tail(q)
<1> HIDE DEF t
<1>4. Alternates(t)
  <2>1. ASSUME NEW i \in 1 .. Len(t) - 1 PROVE (t[i] = 0) <=> (t[i + 1] # 0)
    <3>1. /\ i \in 1 .. Len(t) /\ i + 1 \in 1 .. Len(t) /\ i + 1 \in 1 .. Len(q) - 1
      BY <1>1, <1>2 DEF t
    <3>2. t[i] = q[i + 1] /\ t[i + 1] = q[i + 1 + 1] BY <1>1, <3>1 DEF t
    <3>3. (q[i + 1] = 0) <=> (q[i + 1 + 1] # 0) BY <3>1 DEF Alternates
    <3> QED BY <3>2, <3>3
  <2>2. ASSUME t # <<>> PROVE t[Len(t)] = 0
    <3>1. Len(t) \in 1 .. Len(t) /\ Len(t) + 1 = Len(q) BY <1>1, <1>2, <1>3, <2>2 DEF t
    <3>2. t[Len(t)] = q[Len(q)] BY <1>1, <3>1 DEF t
    <3> QED BY <3>2 DEF Alternates
  <2> QED BY <2>1, <2>2 DEF Alternates
<1>5. AckNext(q) <=> Head(q) = 0 BY <1>1 DEF AckNext
<1>6. AckNext(t) <=> Head(q) # 0
  <2>1. CASE Len(q) = 1
    <3>1. t = <<>> /\ q[1] = 0 BY <1>3, <2>1 DEF t, Alternates
    <3> QED BY <1>1, <3>1 DEF AckNext
  <2>2. CASE Len(q) # 1
    <3>1. 1 \in 1 .. Len(q) - 1 /\ 1 \in 1 .. Len(t) BY <1>1, <1>2, <2>2 DEF t
    <3>2. t # <<>> /\ t[1] = q[2] BY <1>1, <1>3, <2>2, <3>1 DEF t
    <3>3. (q[1] = 0) <=> (q[2] # 0) BY <3>1 DEF Alternates
    <3> QED BY <1>1, <3>2, <3>3 DEF AckNext
  <2> QED BY <2>1, <2>2
<1> QED BY <1>1, <1>2, <1>4, <1>5, <1>6 DEF t

\* Appending and delivering are independent of one another.
LEMMA TailOfAppend ==
  ASSUME NEW w \in Seq(0 .. MaxResponses), w # <<>>
  PROVE  /\ Append(w, 0) \in Seq(0 .. MaxResponses) /\ Append(w, 0) # <<>>
         /\ Head(Append(w, 0)) = Head(w)
         /\ Tail(Append(w, 0)) = Append(Tail(w), 0)
<1>1. 0 \in 0 .. MaxResponses BY Numbers
<1>2. Append(w, 0) \in Seq(0 .. MaxResponses) BY <1>1, AppendProperties
<1> QED BY <1>2

\* The account is settled when nothing has been said.
LEMMA NothingSaid == Account(<<>>, FALSE, 0, 0, 0, 0)
<1>1. Len(<<>>) = 0 OBVIOUS
<1> QED BY <1>1 DEF Account, Alternates, AckNext, Bit

\* A sentence is said, and a flush will be counted.
LEMMA SentenceSaid ==
  ASSUME NEW q \in Seq(0 .. MaxResponses), NEW busy \in BOOLEAN, NEW acks \in Nat,
         NEW flushes \in Nat, NEW given \in Nat, NEW said \in Nat, NEW k \in Responses,
         Account(q, busy, acks, flushes, given, said)
  PROVE  Account(Append(Append(q, k), 0), busy, acks, flushes + 1, given, said + 1)
<1> DEFINE r == Append(Append(q, k), 0)
<1>1. Alternates(r) /\ (AckNext(r) <=> AckNext(q)) /\ Len(r) = Len(q) + 2
  BY SentenceAppended DEF Account
<1>2. Len(q) \in Nat BY LenProperties
<1> HIDE DEF r
<1>3. Account(r, busy, acks, flushes + 1, given, said + 1) BY <1>1, <1>2 DEF Account, Bit
<1> QED BY <1>3 DEF r

\* The callback takes a frame.
LEMMA FrameTaken ==
  ASSUME NEW q \in Seq(0 .. MaxResponses), NEW acks \in Nat,
         NEW flushes \in Nat, NEW given \in Nat, NEW said \in Nat,
         Account(q, FALSE, acks, flushes, given, said), q # <<>>, Head(q) # 0
  PROVE  Account(Tail(q), TRUE, acks, flushes, given, said)
<1> DEFINE t == Tail(q)
<1>1. /\ Alternates(t) /\ Len(t) = Len(q) - 1 /\ Len(q) \in Nat
      /\ ~AckNext(q) /\ AckNext(t)
  BY FirstDelivered DEF Account
<1> HIDE DEF t
<1>2. Account(t, TRUE, acks, flushes, given, said) BY <1>1 DEF Account, Bit
<1> QED BY <1>2 DEF t

\* It gives the frame to the response.
LEMMA FrameGiven ==
  ASSUME NEW q \in Seq(0 .. MaxResponses), NEW acks \in Nat,
         NEW flushes \in Nat, NEW given \in Nat, NEW said \in Nat,
         Account(q, TRUE, acks, flushes, given, said)
  PROVE  Account(q, FALSE, acks, flushes, given + 1, said)
<1>1. Len(q) \in Nat BY LenProperties
<1> QED BY <1>1 DEF Account, Bit

\* An acknowledgement comes, and may be dropped.
LEMMA AckTaken ==
  ASSUME NEW q \in Seq(0 .. MaxResponses), NEW acks \in Nat, NEW more \in Nat,
         NEW flushes \in Nat, NEW given \in Nat, NEW said \in Nat, more <= acks + 1,
         Account(q, FALSE, acks, flushes, given, said), q # <<>>, Head(q) = 0
  PROVE  Account(Tail(q), FALSE, more, flushes, given, said)
<1> DEFINE t == Tail(q)
<1>1. /\ Alternates(t) /\ Len(t) = Len(q) - 1 /\ Len(q) \in Nat
      /\ AckNext(q) /\ ~AckNext(t)
  BY FirstDelivered DEF Account
<1> HIDE DEF t
<1>2. Account(t, FALSE, more, flushes, given, said) BY <1>1 DEF Account, Bit
<1> QED BY <1>2 DEF t

\* An acknowledgement and a flush are set off against each other.
LEMMA FlushDone ==
  ASSUME NEW q \in Seq(0 .. MaxResponses), NEW busy \in BOOLEAN, NEW acks \in Nat \ {0},
         NEW flushes \in Nat, NEW given \in Nat, NEW said \in Nat,
         Account(q, busy, acks, flushes, given, said)
  PROVE  Account(q, busy, acks - 1, flushes - 1, given, said)
<1>1. Len(q) \in Nat BY LenProperties
<1> QED BY <1>1 DEF Account, Bit

\* A response that owes audio did so before the step, or has just set its session.
LEMMA OwingBefore ==
  ASSUME TypeOK, Calm, at # "panic", Owing', [Next]_vars
  PROVE  cur' = cur /\ (Owing \/ (SetSession /\ at = "session"))
<1> USE DEF Owing, SynthUnchanged, ReaderUnchanged
<1> at \notin {"reconnect", "resession"} BY DEF Calm, Connected, Attached
<1>1. CASE Begin BY <1>1 DEF Begin
<1>2. CASE Connect BY <1>2 DEF Connect, EnsureConnected
<1>3. CASE SetSession BY <1>3 DEF SetSession, AfterSpeaking, Looping
<1>4. CASE NextSentence BY <1>4 DEF NextSentence
<1>5. CASE TokensEnd BY <1>5 DEF TokensEnd
<1>6. CASE LoopCtxDone BY <1>6 DEF LoopCtxDone
<1>7. CASE Speak BY <1>7 DEF Speak
<1>8. CASE Write BY <1>8 DEF Write, AfterSpeaking, Looping
<1>9. CASE Flush BY <1>9 DEF Flush, AfterSpeaking, Looping
<1>10. CASE CountFlush BY <1>10 DEF CountFlush, AfterSpeaking, Looping
<1>11. CASE WaitForFlushed BY <1>11 DEF WaitForFlushed
<1>12. CASE AwaitFlushed BY <1>12 DEF AwaitFlushed
<1>13. CASE ClearClient BY <1>13 DEF ClearClient
<1>14. CASE Return BY <1>14 DEF Return
<1>15. CASE CancelResponse BY <1>15 DEF CancelResponse
<1>16. CASE Close BY <1>16 DEF Close
<1>17. CASE UNCHANGED vars BY <1>17 DEF vars
<1>18. ASSUME NEW c \in Conns, Binary(c)
    PROVE cur' = cur /\ (Owing \/ (SetSession /\ at = "session"))
  BY <1>18 DEF Binary
<1>19. ASSUME NEW c \in Conns, BinarySend(c)
    PROVE cur' = cur /\ (Owing \/ (SetSession /\ at = "session"))
  BY <1>19 DEF BinarySend
<1>20. ASSUME NEW c \in Conns, Flushed(c)
    PROVE cur' = cur /\ (Owing \/ (SetSession /\ at = "session"))
  BY <1>20 DEF Flushed
<1>21. ASSUME NEW c \in Conns, ConnClosed(c)
    PROVE cur' = cur /\ (Owing \/ (SetSession /\ at = "session"))
  BY <1>21 DEF ConnClosed
<1>22. ASSUME NEW c \in Conns, ConnBreaks(c)
    PROVE cur' = cur /\ (Owing \/ (SetSession /\ at = "session"))
  BY <1>22 DEF ConnBreaks
<1> QED BY Steps, <1>1, <1>2, <1>3, <1>4, <1>5, <1>6, <1>7, <1>8, <1>9, <1>10, <1>11, <1>12,
    <1>13, <1>14, <1>15, <1>16, <1>17, <1>18, <1>19, <1>20, <1>21, <1>22

\* The account as a step finds it.
AccountTypes ==
  /\ cur \in Responses /\ callback \in Conns /\ callback # 0
  /\ (inFlight[callback] # <<>>) \in BOOLEAN
  /\ Queue \in Seq(0 .. MaxResponses) /\ wire[callback] \in Seq(0 .. MaxResponses)
  /\ flushedCh[callback] \in Nat /\ pendingFlushes[callback] \in Nat /\ Flushes \in Nat
  /\ Len(heard[cur]) \in Nat /\ spoken[cur] \in Nat
  /\ session[callback] = cur

LEMMA AccountNow ==
  ASSUME TypeOK, Connections, Lives, Calm, Owing, ~cancelled[cur]
  PROVE  AccountHolds /\ AccountTypes
<1>1. Owing => at # "panic" /\ at # "idle" BY DEF Owing
<1>2. cur \in Responses BY <1>1, Numbers DEF TypeOK, ControlTypeOK
<1>3. callback \in Conns BY <1>1, Numbers DEF Calm, Connected, Attached, Owing, TypeOK,
                             ControlTypeOK
<1>4. /\ wire[callback] \in Seq(0 .. MaxResponses) /\ flushedCh[callback] \in Nat
      /\ pendingFlushes[callback] \in Nat
  BY <1>3, OfConn, Numbers DEF TypeOK
<1>5. Queue \in Seq(0 .. MaxResponses)
  <2>1. 0 \in 0 .. MaxResponses BY Numbers
  <2>2. Append(wire[callback], 0) \in Seq(0 .. MaxResponses) BY <1>4, <2>1, AppendProperties
  <2> QED BY <1>4, <2>2 DEF Queue
<1>6. Flushes \in Nat BY <1>4 DEF Flushes, Bit
<1>7. spoken[cur] \in Nat /\ heard[cur] \in Seq(Responses) BY <1>2, OfResponse
<1>8. Len(heard[cur]) \in Nat BY <1>7, LenProperties
<1>9. AccountHolds BY <1>1 DEF Calm, Counted
<1>10. session[callback] = cur
  <2>1. Speaking /\ callback # 0 BY <1>3, Numbers DEF Owing, Speaking
  <2> QED BY <2>1 DEF Connections, SpokenTo
<1>11. callback # 0 BY <1>3, Numbers
<1> QED BY <1>2, <1>3, <1>4, <1>5, <1>6, <1>7, <1>8, <1>9, <1>10, <1>11 DEF AccountTypes

\* The account of a response after a step, when it is still on the same connection.
AccountNext ==
  Account(Queue', inFlight'[callback] # <<>>, flushedCh'[callback], Flushes',
          Len(heard'[cur]), spoken'[cur])

\* Synthesize keeps the account of a response that it speaks.
LEMMA SynthesizeCounts ==
  ASSUME TypeOK, Connections, Lives, Calm, Owing, Owing', ~cancelled[cur],
         UNCHANGED <<cur, callback>>,
         \/ NextSentence \/ TokensEnd \/ LoopCtxDone \/ Speak \/ Write \/ Flush
         \/ CountFlush \/ WaitForFlushed \/ AwaitFlushed \/ UNCHANGED vars
  PROVE  AccountNext
<1>0. AccountHolds /\ AccountTypes BY AccountNow
<1> USE <1>0 DEF AccountHolds, AccountTypes
<1>1. /\ wire \in [Conns -> Seq(0 .. MaxResponses)] /\ spoken \in [Responses -> Nat]
      /\ flushedCh \in [Conns -> 0 .. FlushCap] /\ pendingFlushes \in [Conns -> Nat]
  BY DEF TypeOK, ConnTypeOK
<1>2. CASE \/ NextSentence \/ TokensEnd \/ LoopCtxDone \/ Speak \/ WaitForFlushed
           \/ UNCHANGED vars
  <2>1. /\ UNCHANGED <<wire, inFlight, flushedCh, pendingFlushes, heard, spoken>>
        /\ (at = "flush" <=> at' = "flush") /\ (at = "count" <=> at' = "count")
    BY <1>2 DEF NextSentence, TokensEnd, LoopCtxDone, Speak, WaitForFlushed, SynthUnchanged, vars
  <2>2. Queue' = Queue /\ Flushes' = Flushes BY <2>1 DEF Queue, Flushes
  <2> QED BY <2>1, <2>2 DEF AccountNext
<1>3. CASE Write
  <2>1. conn = callback /\ up[callback] /\ at = "write"
    BY <1>3 DEF Write, Calm, Connected, Attached
  <2>2. /\ wire'[callback] = Append(wire[callback], cur) /\ spoken'[cur] = spoken[cur] + 1
        /\ at' = "flush" /\ UNCHANGED <<inFlight, flushedCh, pendingFlushes, heard>>
    BY <1>1, <1>3, <2>1 DEF Write
  <2>3. Queue = wire[callback] /\ Queue' = Append(Append(wire[callback], cur), 0)
    BY <2>1, <2>2 DEF Queue
  <2>4. Flushes' = Flushes + 1 BY <2>1, <2>2 DEF Flushes, Bit
  <2> HIDE DEF Queue, Flushes
  <2>5. Account(Append(Append(Queue, cur), 0), inFlight[callback] # <<>>, flushedCh[callback],
                Flushes + 1, Len(heard[cur]), spoken[cur] + 1)
    BY SentenceSaid
  <2> QED BY <2>2, <2>3, <2>4, <2>5 DEF AccountNext
<1>4. CASE Flush
  <2>1. conn = callback /\ up[callback] /\ at = "flush"
    BY <1>4 DEF Flush, Calm, Connected, Attached
  <2>2. /\ wire'[callback] = Append(wire[callback], 0) /\ at' = "count"
        /\ UNCHANGED <<inFlight, flushedCh, pendingFlushes, heard, spoken>>
    BY <1>1, <1>4, <2>1 DEF Flush
  <2>3. Queue' = Queue /\ Flushes' = Flushes BY <2>1, <2>2 DEF Queue, Flushes, Bit
  <2> QED BY <2>2, <2>3 DEF AccountNext
<1>5. CASE CountFlush
  <2>1. at = "count" /\ callback # 0 /\ at' \notin {"flush", "count"}
    BY <1>5 DEF CountFlush, AfterSpeaking, Looping, Owing
  <2>2. /\ pendingFlushes'[callback] = pendingFlushes[callback] + 1
        /\ UNCHANGED <<wire, inFlight, flushedCh, heard, spoken>>
    BY <1>1, <1>5, <2>1 DEF CountFlush, SynthUnchanged
  <2>3. Queue' = Queue BY <2>1, <2>2 DEF Queue
  <2>4. Flushes' = Flushes BY <2>1, <2>2 DEF Flushes, Bit
  <2> QED BY <2>2, <2>3, <2>4 DEF AccountNext
<1>6. CASE AwaitFlushed
  <2>1. conn = callback /\ at = "await" /\ pendingFlushes[callback] > 0
    BY <1>6 DEF AwaitFlushed, Calm, Connected, Attached, Connections, SpokenTo
  <2>2. /\ flushedCh[callback] > 0
        /\ flushedCh'[callback] = flushedCh[callback] - 1
        /\ pendingFlushes'[callback] = pendingFlushes[callback] - 1
        /\ at' \notin {"flush", "count"}
        /\ UNCHANGED <<wire, inFlight, heard, spoken>>
    BY <1>1, <1>6, <2>1 DEF AwaitFlushed, SynthUnchanged
  <2>3. Queue' = Queue BY <2>1, <2>2 DEF Queue
  <2>4. Flushes' = Flushes - 1 BY <2>1, <2>2 DEF Flushes, Bit
  <2> HIDE DEF Queue, Flushes
  <2>5. Account(Queue, inFlight[callback] # <<>>, flushedCh[callback] - 1,
                Flushes - 1, Len(heard[cur]), spoken[cur])
    <3>1. flushedCh[callback] \in Nat \ {0} BY <2>2
    <3> QED BY <3>1, FlushDone
  <2> QED BY <2>2, <2>3, <2>4, <2>5 DEF AccountNext
<1> QED BY <1>2, <1>3, <1>4, <1>5, <1>6

\* The queue of the callback's connection delivers its first.
LEMMA QueueDelivers ==
  ASSUME TypeOK, Connections, Lives, Calm, Owing, ~cancelled[cur],
         UNCHANGED <<at, callback>>, wire[callback] # <<>>, wire'[callback] = Tail(wire[callback])
  PROVE  Queue # <<>> /\ Head(Queue) = Head(wire[callback]) /\ Queue' = Tail(Queue)
<1>1. wire[callback] \in Seq(0 .. MaxResponses) BY AccountNow DEF AccountTypes
<1> QED BY <1>1, TailOfAppend DEF Queue

\* The reader of a connection keeps it.
LEMMA ReaderCounts ==
  ASSUME TypeOK, Connections, Lives, Calm, Owing, ~cancelled[cur], NEW c \in Conns,
         at' # "panic", faults' = 0,
         UNCHANGED <<cur, callback>>, Binary(c) \/ BinarySend(c) \/ Flushed(c)
  PROVE  AccountNext
<1>0. AccountHolds /\ AccountTypes BY AccountNow
<1> USE <1>0 DEF AccountHolds, AccountTypes
<1>1. /\ wire \in [Conns -> Seq(0 .. MaxResponses)] /\ heard \in [Responses -> Seq(Responses)]
      /\ flushedCh \in [Conns -> 0 .. FlushCap]
      /\ inFlight \in [Conns -> {<<>>} \cup (Responses \X Responses)]
  BY DEF TypeOK, ConnTypeOK
<1>2. UNCHANGED <<at, pendingFlushes, spoken>>
  BY DEF Binary, BinarySend, Flushed, ReaderUnchanged
<1>3. CASE c # callback
  <2>1. /\ wire'[callback] = wire[callback] /\ inFlight'[callback] = inFlight[callback]
        /\ flushedCh'[callback] = flushedCh[callback]
    BY <1>1, <1>3 DEF Binary, BinarySend, Flushed
  <2>2. heard'[cur] = heard[cur]
    <3>1. SUFFICES ASSUME BinarySend(c), inFlight[c] # <<>>, inFlight[c][2] = cur PROVE FALSE
      BY <1>1 DEF Binary, BinarySend, Flushed
    <3>2. session[c] = cur BY <3>1 DEF Calm, OwnFrames
    <3>3. cur # 0 BY Numbers
    <3>4. ~interrupted[cur] BY DEF Lives, LifeOf, ContextOf
    <3> QED BY <1>3, <3>2, <3>3, <3>4 DEF Calm, Ended
  <2>3. Queue' = Queue /\ Flushes' = Flushes BY <1>2, <2>1 DEF Queue, Flushes
  <2> QED BY <1>2, <2>1, <2>2, <2>3 DEF AccountNext
<1>4. CASE c = callback /\ Binary(c)
  <2>1. /\ inFlight[callback] = <<>> /\ wire[callback] # <<>> /\ Head(wire[callback]) # 0
        /\ wire'[callback] = Tail(wire[callback]) /\ UNCHANGED <<flushedCh, heard>>
    BY <1>1, <1>4 DEF Binary
  <2>2. inFlight'[callback] # <<>>
    <3>1. session[callback] # 0 /\ ~cancelled[session[callback]] BY Numbers
    <3>2. inFlight'[callback] = <<Head(wire[callback]), session[callback]>>
      BY <1>1, <1>4, <3>1 DEF Binary
    <3> QED BY <3>2
  <2>3. Queue # <<>> /\ Head(Queue) # 0 /\ Queue' = Tail(Queue)
    BY <1>2, <2>1, QueueDelivers
  <2>4. Flushes' = Flushes BY <1>2 DEF Flushes
  <2>5. Account(Tail(Queue), TRUE, flushedCh[callback], Flushes, Len(heard[cur]), spoken[cur])
    BY <2>1, <2>3, FrameTaken
  <2> QED BY <1>2, <2>1, <2>2, <2>3, <2>4, <2>5 DEF AccountNext
<1>5. CASE c = callback /\ BinarySend(c)
  <2>1. inFlight[callback] # <<>> /\ inFlight'[callback] = <<>>
    BY <1>1, <1>5 DEF BinarySend
  <2>2. inFlight[callback] = <<cur, cur>> BY <2>1 DEF Calm, OwnFrames
  <2>3. ~returned[cur]
    <3>1. at \notin {"idle", "panic"} BY DEF Owing
    <3>2. cur \in Nat BY Numbers
    <3> QED BY <3>1, <3>2 DEF Lives, LifeOf, ContextOf
  <2>4. heard'[cur] = Append(heard[cur], cur) /\ UNCHANGED <<wire, flushedCh>>
    <3>1. inFlight[c][1] = cur /\ inFlight[c][2] = cur BY <1>5, <2>2
    <3>2. UNCHANGED <<wire, flushedCh>> BY <1>5 DEF BinarySend
    <3>3. heard' = [heard EXCEPT ![cur] = Append(@, cur)]
      BY <1>5, <2>3, <3>1 DEF BinarySend
    <3> QED BY <1>1, <3>2, <3>3
  <2>5. Len(heard'[cur]) = Len(heard[cur]) + 1 BY <1>1, <2>4, AppendProperties
  <2>6. Queue' = Queue /\ Flushes' = Flushes BY <1>2, <2>4 DEF Queue, Flushes
  <2>7. Account(Queue, FALSE, flushedCh[callback], Flushes, Len(heard[cur]) + 1, spoken[cur])
    BY <2>1, FrameGiven
  <2> QED BY <1>2, <2>1, <2>4, <2>5, <2>6, <2>7 DEF AccountNext
<1>6. CASE c = callback /\ Flushed(c)
  <2>1. /\ inFlight[callback] = <<>> /\ wire[callback] # <<>> /\ Head(wire[callback]) = 0
        /\ wire'[callback] = Tail(wire[callback]) /\ UNCHANGED <<inFlight, heard>>
        /\ flushedCh'[callback] \in {flushedCh[callback], flushedCh[callback] + 1}
    BY <1>1, <1>6 DEF Flushed
  <2>2. Queue # <<>> /\ Head(Queue) = 0 /\ Queue' = Tail(Queue)
    BY <1>2, <2>1, QueueDelivers
  <2>3. Flushes' = Flushes BY <1>2 DEF Flushes
  <2>4. /\ flushedCh'[callback] \in Nat /\ flushedCh'[callback] <= flushedCh[callback] + 1
    <3>1. flushedCh[callback] \in Nat OBVIOUS
    <3>2. CASE flushedCh'[callback] = flushedCh[callback] BY <3>1, <3>2
    <3>3. CASE flushedCh'[callback] = flushedCh[callback] + 1 BY <3>1, <3>3
    <3> QED BY <2>1, <3>2, <3>3
  <2>5. Account(Tail(Queue), FALSE, flushedCh'[callback], Flushes, Len(heard[cur]), spoken[cur])
    BY <2>1, <2>2, <2>4, AckTaken
  <2> QED BY <1>2, <2>1, <2>2, <2>3, <2>5 DEF AccountNext
<1> QED BY <1>3, <1>4, <1>5, <1>6

LEMMA CountedKept ==
  ASSUME TypeOK, Connections, Lives, Calm, faults = 0, faults' = 0, at # "panic", at' # "panic",
         [Next]_vars
  PROVE  Counted'
<1> SUFFICES ASSUME Owing', ~cancelled'[cur'] PROVE Counted' BY DEF Counted
<1>1. cur' = cur /\ (Owing \/ (SetSession /\ at = "session")) BY OwingBefore
<1>2. cur \in Responses
  <2>1. at # "idle" BY <1>1 DEF Owing
  <2> QED BY <2>1, Numbers DEF TypeOK, ControlTypeOK
<1>3. ~cancelled[cur]
  <2>1. cancelled \in [Responses -> BOOLEAN] BY DEF TypeOK
  <2>2. CASE CancelResponse BY <1>1, <1>2, <2>1, <2>2 DEF CancelResponse
  <2> QED BY <1>1, <2>2, Changes
<1>4. callback' = callback /\ callback # 0
  <2>1. callback' # 0 BY AttachedKept DEF Attached, Owing
  <2>2. ~Connect BY <1>1 DEF Connect, Owing, SetSession, Calm, Connected, Attached
  <2> QED BY <2>1, <2>2, CallbackStep
<1>5. AccountNext
  <2>1. CASE SetSession /\ at = "session"
    <3>1. /\ wire[callback] = <<>> /\ inFlight[callback] = <<>> /\ callback \in Conns
      BY <1>4, <2>1, Numbers DEF Calm, Connected, CleanBetween, Clean, TypeOK, ControlTypeOK
    <3>2. heard[cur] = <<>> /\ spoken[cur] = 0
      BY <1>2, <2>1 DEF Lives, LifeOf, Unbegun, Untouched
    <3>3. /\ flushedCh'[callback] = 0 /\ pendingFlushes'[callback] = 0
          /\ UNCHANGED <<wire, inFlight, heard, spoken>> /\ at' \notin {"flush", "count"}
      BY <1>4, <2>1, <3>1 DEF SetSession, SynthUnchanged, Looping, TypeOK, ConnTypeOK
    <3>4. Queue' = <<>> BY <1>4, <3>1, <3>3 DEF Queue
    <3>5. Flushes' = 0 BY <1>4, <3>3 DEF Flushes, Bit
    <3>6. Len(<<>>) = 0 OBVIOUS
    <3> QED BY <3>1, <3>2, <3>3, <3>4, <3>5, <3>6, NothingSaid DEF AccountNext
  <2>2. CASE Owing
    <3>1. ~(ClearClient \/ Return \/ Begin \/ Connect \/ SetSession \/ CancelResponse)
      <4>1. at \notin {"reconnect", "resession"} BY DEF Calm, Connected, Attached
      <4>2. ~CancelResponse
        <5>1. cancelled \in [Responses -> BOOLEAN] BY DEF TypeOK
        <5> QED BY <1>1, <1>2, <5>1 DEF CancelResponse
      <4>3. ~ClearClient BY DEF ClearClient, Owing
      <4> QED BY <2>2, <4>1, <4>2, <4>3 DEF Owing, Return, Begin, Connect, SetSession
    <3>2. ~Close /\ \A c \in Conns : ~ConnBreaks(c) /\ ~ConnClosed(c) BY NoFault
    <3>3. \/ NextSentence \/ TokensEnd \/ LoopCtxDone \/ Speak \/ Write \/ Flush
          \/ CountFlush \/ WaitForFlushed \/ AwaitFlushed \/ UNCHANGED vars
          \/ \E c \in Conns : Binary(c) \/ BinarySend(c) \/ Flushed(c)
      BY <3>1, <3>2, Steps
    <3>4. UNCHANGED <<cur, callback>> BY <1>1, <1>4
    <3> QED BY <1>3, <2>2, <3>3, <3>4, SynthesizeCounts, ReaderCounts
  <2> QED BY <1>1, <2>1, <2>2
<1> QED BY <1>1, <1>4, <1>5 DEF Counted, AccountHolds, AccountNext

LEMMA CalmKept ==
  ASSUME TypeOK, Connections, Lives, Calm, faults = 0, faults' = 0, [Next]_vars
  PROVE  Calm'
<1>1. CASE at = "panic"
  <2>1. UNCHANGED vars
    BY <1>1, Steps
    DEF Begin, Connect, SetSession, NextSentence, TokensEnd, LoopCtxDone, Speak, Write, Flush,
        CountFlush, WaitForFlushed, AwaitFlushed, ClearClient, Return, CancelResponse, Close,
        Binary, BinarySend, Flushed, ConnClosed, ConnBreaks
  <2>2. OwnFrames' /\ Ended'
    BY <2>1 DEF vars, Calm, OwnFrames, Ended, Frames
  <2>3. at' = "panic" /\ \E k \in Responses : interrupted'[k] BY <1>1, <2>1 DEF vars, Calm
  <2> QED BY <2>2, <2>3 DEF Calm
<1>2. CASE at # "panic"
  <2>1. OwnFrames' /\ Ended' BY <1>2, OwnFramesKept, EndedKept
  <2>2. ASSUME at' # "panic" PROVE Connected' /\ Counted'
    BY <1>2, <2>2, AttachedKept, CleanNow, CountedKept DEF Connected
  <2>3. at' = "panic" => \E k \in Responses : interrupted'[k] BY <1>2, PanicNow
  <2> QED BY <2>1, <2>2, <2>3 DEF Calm
<1> QED BY <1>1, <1>2

LEMMA InitCalm == Init => Calm
<1> SUFFICES ASSUME Init PROVE Calm OBVIOUS
<1>1. at = "idle" /\ callback = 0 /\ cur = 0 BY DEF Init
<1>2. /\ \A c \in Conns : wire[c] = <<>> /\ inFlight[c] = <<>>
      /\ \A k \in Responses : heard[k] = <<>> /\ ~returned[k]
  BY DEF Init
<1>3. Len(<<>>) = 0 OBVIOUS
<1>4. OwnFrames BY <1>2, <1>3, FramesOfEmpty DEF OwnFrames
<1>5. Ended BY <1>1, <1>2 DEF Ended
<1>6. Connected BY <1>1 DEF Connected, Attached, CleanBetween, CleanAtEnd
<1>7. Counted BY <1>1 DEF Counted, Owing
<1> QED BY <1>1, <1>4, <1>5, <1>6, <1>7 DEF Calm

(***************************************************************************)
(* Deepgram's synthesizer: the theorems                                    *)
(***************************************************************************)
\* The faults are counted upwards.
LEMMA FaultsGrow ==
  ASSUME TypeOK, [Next]_vars, faults' = 0
  PROVE  faults = 0
<1>1. faults \in Nat BY Numbers DEF TypeOK, ControlTypeOK
<1> QED BY <1>1, Changes DEF Close, ConnBreaks

LEMMA DeepgramStep == DeepgramInv /\ [Next]_vars => DeepgramInv'
<1> SUFFICES ASSUME DeepgramInv, [Next]_vars PROVE DeepgramInv' OBVIOUS
<1>1. TypeOK /\ Connections /\ Lives /\ Given BY DEF DeepgramInv
<1>2. TypeOK' /\ Connections' /\ Lives' /\ Given'
  BY <1>1, Types, ConnectionsKept, LivesKept, GivenKept
<1>3. faults' = 0 => Calm' BY <1>1, FaultsGrow, CalmKept DEF DeepgramInv
<1> QED BY <1>2, <1>3 DEF DeepgramInv

\* The invariant of Deepgram's synthesizer, in every run.
THEOREM DeepgramInvHolds == Spec => []DeepgramInv
<1>1. Init => DeepgramInv BY InitTypes, InitLives, InitGiven, InitCalm DEF DeepgramInv
<1> QED BY <1>1, DeepgramStep, PTL DEF Spec

\* A response is given audio of another one only on a connection that a fault disturbed,
\* and never that of an interrupted one: nothing of a response that the user cut off is
\* heard later, although its connection may have been the next response's.
THEOREM InvHolds == Spec => []Inv
<1>1. DeepgramInv => Inv
  <2> SUFFICES ASSUME DeepgramInv, NEW k \in Responses, NEW i \in 1 .. Len(heard[k]),
                      heard[k][i] # k
               PROVE  faults > 0 /\ ~interrupted[heard[k][i]]
    BY DEF DeepgramInv, Inv, OwnAudioOnly
  <2>1. ~interrupted[heard[k][i]] BY DEF DeepgramInv, Given, MayHear
  <2>2. faults # 0 BY DEF DeepgramInv, Calm, OwnFrames
  <2>3. faults \in Nat BY Numbers DEF DeepgramInv, TypeOK, ControlTypeOK
  <2> QED BY <2>1, <2>2, <2>3
<1> QED BY <1>1, DeepgramInvHolds, PTL

\* A response that nothing disturbed has been given all its audio when Synthesize returns,
\* however many acknowledgements flushedCh dropped.
THEOREM DeepgramSpeaksToTheEnd == Spec => []SpokenToTheEnd
<1>1. DeepgramInv => SpokenToTheEnd BY DEF DeepgramInv, Calm, Ended, SpokenToTheEnd
<1> QED BY <1>1, DeepgramInvHolds, PTL

\* The process does not crash unless a connection ended or a response was interrupted.
THEOREM DeepgramCrashes == Spec => []CrashNeedsInterruption
<1>1. DeepgramInv => CrashNeedsInterruption
  <2>1. DeepgramInv => faults \in Nat BY Numbers DEF DeepgramInv, TypeOK, ControlTypeOK
  <2> QED BY <2>1 DEF DeepgramInv, Calm, CrashNeedsInterruption
<1> QED BY <1>1, DeepgramInvHolds, PTL

(***************************************************************************)
(* The synthesizer that is either of them                                  *)
(***************************************************************************)
GP == INSTANCE GoogleSynthesizerProofs

\* It implements Deepgram's synthesizer, which stands still when Google's is there.
LEMMA EitherIsDeepgram == EitherSpec => Spec
<1>1. EitherInit => Init BY DEF EitherInit
<1>2. [EitherNext]_<<google, vars, googleVars>> => [Next]_vars BY DEF EitherNext
<1> QED BY <1>1, <1>2, PTL DEF EitherSpec, Spec

\* The actions of Google's synthesizer are those its theorems are about.
LEMMA SameActions == G!Next => GP!Next
<1> USE DEF GP!tokenVars, G!tokenVars, GP!grpVars, G!grpVars, GP!streamVars, G!streamVars,
    GP!textVars,
        G!textVars, GP!Fails, G!Fails, GP!GrpDone, G!GrpDone, GP!SendEnds, G!SendEnds,
        GP!SendGoesOn, G!SendGoesOn, GP!ReadToken, G!ReadToken, GP!Token, G!Token
<1>1. G!StreamLoop => GP!StreamLoop
  BY DEF GP!StreamLoop, G!StreamLoop, GP!NewClient, G!NewClient, GP!NextToken, G!NextToken,
         GP!OpenStream, G!OpenStream, GP!OpenFails, G!OpenFails, GP!GroupDone, G!GroupDone,
         GP!GroupReturns, G!GroupReturns, GP!Remaining, G!Remaining
<1>2. G!SendLoop => GP!SendLoop
  BY DEF GP!SendLoop, G!SendLoop, GP!SendFirst, G!SendFirst, GP!SendToken, G!SendToken,
         GP!FlushTimer, G!FlushTimer, GP!TokensClosed, G!TokensClosed, GP!SendCtxDone,
         G!SendCtxDone, GP!FlushText, G!FlushText, GP!TrySendSentence, G!TrySendSentence,
         GP!Accepted, G!Accepted, GP!Rejected, G!Rejected, GP!AfterSentence, G!AfterSentence,
         GP!Pieces, G!Pieces
<1>3. G!RecvLoop => GP!RecvLoop
  BY DEF GP!RecvLoop, G!RecvLoop, GP!RecvCheck, G!RecvCheck, GP!RecvFrame, G!RecvFrame,
         GP!RecvEnds, G!RecvEnds, GP!SendFrame, G!SendFrame
<1>4. G!EndTokens \/ G!CancelResponse \/ G!StreamBreaks =>
        GP!EndTokens \/ GP!CancelResponse \/ GP!StreamBreaks
  BY DEF GP!EndTokens, G!EndTokens, GP!CancelResponse, G!CancelResponse, GP!StreamBreaks,
         G!StreamBreaks
<1>5. G!Terminated => GP!Terminated BY DEF GP!Terminated, G!Terminated, GP!vars, G!vars
<1> QED BY <1>1, <1>2, <1>3, <1>4, <1>5 DEF GP!Next, G!Next

\* It implements Google's.
LEMMA EitherIsGoogle == EitherSpec => GP!Spec
<1>1. EitherInit => GP!Init BY DEF EitherInit, G!Init, GP!Init
<1>2. [EitherNext]_<<google, vars, googleVars>> => [GP!Next]_GP!vars
  <2>1. EitherNext => GP!Next \/ UNCHANGED GP!vars
    BY SameActions
    DEF EitherNext, googleVars, GP!vars, GP!tokenVars, GP!grpVars, GP!streamVars, GP!textVars
  <2> QED
    BY <2>1 DEF googleVars, GP!vars, GP!tokenVars, GP!grpVars, GP!streamVars, GP!textVars
<1> QED BY <1>1, <1>2, PTL DEF EitherSpec, GP!Spec

LEMMA GoogleBounds == GP!Bounds
BY PiecesAssumption DEF GP!Bounds

\* The types of both synthesizers; for Deepgram's, whose audio a response is given; for
\* Google's, that a response is heard in the order of its text.
THEOREM EitherIsSafe == EitherSpec => []EitherInv
<1>1. GP!Spec => []GP!TypeOK BY GoogleBounds, GP!TypesHold
<1>2. GP!Spec => []GP!HeardInOrder BY GoogleBounds, GP!HeardStaysInOrder
<1>3. GP!TypeOK => G!TypeOK BY DEF GP!TypeOK, G!TypeOK
<1>4. GP!HeardInOrder => G!HeardInOrder
  BY DEF GP!HeardInOrder, G!HeardInOrder, GP!Ascending, G!Ascending, GP!Pieces, G!Pieces
<1>5. Inv /\ G!TypeOK /\ G!HeardInOrder => EitherInv BY DEF EitherInv
<1> QED
  BY <1>1, <1>2, <1>3, <1>4, <1>5, EitherIsDeepgram, EitherIsGoogle, InvHolds, PTL

\* Google's: no text is lost, repeated or swapped on its way to the streams.
THEOREM TextStaysKept == EitherSpec => []TextKept
<1>1. GP!TextKept => TextKept
  BY DEF GP!TextKept, TextKept, G!TextKept, GP!Ascending, G!Ascending, GP!Pieces, G!Pieces
<1> QED BY <1>1, EitherIsGoogle, GP!TextIsKept, PTL

\* A response that nothing disturbed is spoken to the end, by either.
THEOREM EitherSpeaksToTheEnd == EitherSpec => []EitherSpokenToTheEnd
<1>1. GP!Spec => []GP!SpokenToTheEnd BY GoogleBounds, GP!IsSpokenToTheEnd
<1>2. GP!SpokenToTheEnd => G!SpokenToTheEnd BY DEF GP!SpokenToTheEnd, G!SpokenToTheEnd
<1>3. SpokenToTheEnd /\ G!SpokenToTheEnd => EitherSpokenToTheEnd BY DEF EitherSpokenToTheEnd
<1> QED
  BY <1>1, <1>2, <1>3, EitherIsDeepgram, EitherIsGoogle, DeepgramSpeaksToTheEnd, PTL

\* Neither crashes the process unless a connection ended or a response was interrupted.
THEOREM EitherCrashes == EitherSpec => []CrashNeedsInterruption
BY EitherIsDeepgram, DeepgramCrashes, PTL

=============================================================================
