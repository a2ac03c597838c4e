-------------------------- MODULE GoogleSynthesizer --------------------------
(***************************************************************************)
(* synthesizer.GoogleSynthesizer: one call of Synthesize, which keeps no   *)
(* state for the next.  The tokens of a response are gathered into         *)
(* sentences and sent over a stream; a second goroutine receives the       *)
(* audio.  A stream that fails is replaced, and what was gathered and not  *)
(* sent is the first token of the next.                                    *)
(*                                                                         *)
(* The text of a response is a sequence of pieces, numbered as they are    *)
(* read; some end a sentence.  A token is one or two pieces.  The service  *)
(* makes one frame of audio of a piece, named by the piece.  gRPC is       *)
(* external: a Send on a stream that has ended may go unnoticed, Recv      *)
(* returns what was delivered before the end, and both return when the     *)
(* context of the stream, which is Synthesize's, is done.                  *)
(***************************************************************************)
EXTENDS Naturals, Sequences

CONSTANTS
  MaxPieces,      \* bound: pieces of text in the response
  MaxFailures     \* bound: streams that end by themselves or cannot be opened

VARIABLES
  stage,          \* streamLoop: "client", "next" token, "open", "run", "returned"
  ctxDone,
  \* the channel of tokens
  consumed, ends, ended,  \* pieces read, those that end a sentence, the channel is closed
  text,           \* pendingText, firstToken, sb: gathered and not sent
  \* the two goroutines and their error group
  snd, rcv, frame, grpErr,
  \* the stream: "open", "closing" (CloseSend was called), "eof", "error"
  stream, audio,  \* audio: what it will deliver
  \* history
  sent, dropped,  \* pieces sent with success; given up by flushText
  played,         \* put on the audio channel
  failures

tokenVars  == <<consumed, ends, ended>>
grpVars    == <<snd, rcv, frame, grpErr>>
streamVars == <<stream, audio>>
textVars   == <<text, sent, dropped>>
vars == <<stage, ctxDone, tokenVars, grpVars, streamVars, textVars, played, failures>>

Init ==
  /\ stage = "client" /\ ctxDone = FALSE
  /\ consumed = 0 /\ ends = {} /\ ended = FALSE
  /\ snd = "done" /\ rcv = "done" /\ frame = 0 /\ grpErr = FALSE
  /\ stream = "eof" /\ audio = <<>>
  /\ text = <<>> /\ sent = <<>> /\ dropped = {} /\ played = <<>> /\ failures = 0

GrpDone == ctxDone \/ grpErr
Fails == failures < MaxFailures /\ failures' = failures + 1
Pieces(s) == {s[i] : i \in 1 .. Len(s)}

\* A token is received: the pieces up to n.
ReadToken(n) ==
  /\ ~ended /\ n \in consumed + 1 .. consumed + 2 /\ n <= MaxPieces
  /\ consumed' = n /\ \E E \in SUBSET (consumed + 1 .. n) : ends' = ends \cup E
  /\ UNCHANGED ended

Token(n) == [i \in 1 .. n - consumed |-> consumed + i]

(***************************************************************************)
(* Synthesize and streamLoop                                               *)
(***************************************************************************)
NewClient ==
  /\ stage = "client"
  /\ \/ stage' = "next" /\ UNCHANGED failures
     \/ stage' = "returned" /\ IF ctxDone THEN UNCHANGED failures ELSE Fails
  /\ UNCHANGED <<ctxDone, tokenVars, grpVars, streamVars, textVars, played>>

\* nextToken: what is left of the previous stream goes before the tokens.
NextToken ==
  /\ stage = "next"
  /\ \/ text # <<>> /\ stage' = "open" /\ UNCHANGED <<text, tokenVars>>
     \/ text = <<>> /\ stage' = "open" /\ \E n \in 1 .. MaxPieces : ReadToken(n) /\ text' = Token(n)
     \/ text = <<>> /\ (ended \/ ctxDone) /\ stage' = "returned" /\ UNCHANGED <<text, tokenVars>>
  /\ UNCHANGED <<ctxDone, grpVars, streamVars, sent, dropped, played, failures>>

OpenStream ==
  /\ stage = "open" /\ ~ctxDone
  /\ stage' = "run" /\ stream' = "open" /\ audio' = <<>>
  /\ snd' = "first" /\ rcv' = "check" /\ grpErr' = FALSE
  /\ UNCHANGED <<ctxDone, tokenVars, frame, textVars, played, failures>>

\* A stream that cannot be opened is not tried again.
OpenFails ==
  /\ stage = "open" /\ stage' = "returned"
  /\ IF ctxDone THEN UNCHANGED failures ELSE Fails
  /\ UNCHANGED <<ctxDone, tokenVars, grpVars, streamVars, textVars, played>>

GroupReturns == snd = "done" /\ rcv = "done"

\* Mutant: what was gathered is forgotten with its stream.
RemainingForgotten == <<>>

\* sendLoop's result, which the next stream begins with.
Remaining == text

GroupDone ==
  /\ stage = "run" /\ GroupReturns
  /\ stage' = IF ctxDone \/ ~grpErr THEN "returned" ELSE "next"
  /\ text' = Remaining
  /\ UNCHANGED <<ctxDone, tokenVars, grpVars, streamVars, sent, dropped, played, failures>>

(***************************************************************************)
(* sendLoop                                                                *)
(***************************************************************************)
\* It returns, and closes its half of the stream.
SendEnds == snd' = "done" /\ stream' = IF stream = "open" THEN "closing" ELSE stream

\* It looks at the context before it waits again.
SendGoesOn == IF GrpDone THEN SendEnds ELSE snd' = "select" /\ UNCHANGED stream

\* sendText, with and without success.
Accepted(s) == sent' = sent \o s /\ audio' = IF stream = "open" THEN audio \o s ELSE audio
Rejected == (stream # "open" \/ ctxDone) /\ UNCHANGED <<sent, audio>>

AfterSentence(s, n) == SubSeq(s, n + 1, Len(s))

\* trySendSentence of what is gathered, s: the first sentence, if there is one.
TrySendSentence(s) ==
  /\ UNCHANGED dropped
  /\ \/ /\ Pieces(s) \cap ends' = {} /\ text' = s
        /\ SendGoesOn /\ UNCHANGED <<sent, audio, grpErr>>
     \/ \E n \in 1 .. Len(s) :
          /\ s[n] \in ends' /\ \A i \in 1 .. n - 1 : s[i] \notin ends'
          /\ \/ Accepted(SubSeq(s, 1, n)) /\ text' = AfterSentence(s, n)
                /\ SendGoesOn /\ UNCHANGED grpErr
             \/ Rejected /\ text' = s /\ SendEnds /\ grpErr' = TRUE

SendFirst ==
  /\ snd = "first" /\ UNCHANGED tokenVars /\ TrySendSentence(text)
  /\ UNCHANGED <<stage, ctxDone, rcv, frame, played, failures>>

SendToken ==
  /\ snd = "select" /\ \E n \in 1 .. MaxPieces : ReadToken(n) /\ TrySendSentence(text \o Token(n))
  /\ UNCHANGED <<stage, ctxDone, rcv, frame, played, failures>>

\* flushText forgets what cannot be sent.
FlushText ==
  /\ text' = <<>>
  /\ \/ Accepted(text) /\ UNCHANGED dropped
     \/ Rejected /\ text # <<>> /\ dropped' = dropped \cup Pieces(text)

FlushTimer ==
  /\ snd = "select" /\ text # <<>> /\ FlushText /\ SendGoesOn
  /\ UNCHANGED <<stage, ctxDone, tokenVars, rcv, frame, grpErr, played, failures>>

\* Mutant: the rest is not flushed at the end of the tokens.
TokensClosedUnflushed ==
  /\ snd = "select" /\ ended /\ SendEnds
  /\ UNCHANGED <<stage, ctxDone, tokenVars, rcv, frame, grpErr, textVars, audio, played, failures>>

TokensClosed ==
  /\ snd = "select" /\ ended /\ FlushText /\ SendEnds
  /\ UNCHANGED <<stage, ctxDone, tokenVars, rcv, frame, grpErr, played, failures>>

SendCtxDone ==
  /\ snd = "select" /\ GrpDone /\ SendEnds
  /\ UNCHANGED <<stage, ctxDone, tokenVars, rcv, frame, grpErr, audio, textVars, played,
                 failures>>

(***************************************************************************)
(* recvLoop                                                                *)
(***************************************************************************)
\* Before it blocks in Recv, which the end of sendLoop's context does not end.
RecvCheck ==
  /\ rcv = "check" /\ rcv' = IF GrpDone THEN "done" ELSE "recv"
  /\ UNCHANGED <<stage, ctxDone, tokenVars, snd, frame, grpErr, streamVars, textVars, played,
                 failures>>

RecvFrame ==
  /\ rcv = "recv" /\ audio # <<>>
  /\ frame' = Head(audio) /\ audio' = Tail(audio) /\ rcv' = "send"
  /\ UNCHANGED <<stage, ctxDone, tokenVars, snd, grpErr, stream, textVars, played, failures>>

\* The service has ended the stream, or an error or the context has.
RecvEnds ==
  /\ rcv = "recv" /\ rcv' = "done"
  /\ \/ audio = <<>> /\ stream \in {"closing", "eof"} /\ UNCHANGED grpErr
     \/ /\ ctxDone \/ (audio = <<>> /\ stream = "error")
        /\ grpErr' = TRUE
  /\ UNCHANGED <<stage, ctxDone, tokenVars, snd, frame, streamVars, textVars, played, failures>>

SendFrame ==
  /\ rcv = "send" /\ frame' = 0
  /\ \/ played' = Append(played, frame) /\ rcv' = "check"
     \/ GrpDone /\ rcv' = "done" /\ UNCHANGED played
  /\ UNCHANGED <<stage, ctxDone, tokenVars, snd, grpErr, streamVars, textVars, failures>>

(***************************************************************************)
(* The brain, the responder and the service                                *)
(***************************************************************************)
EndTokens ==
  /\ ~ended /\ ended' = TRUE
  /\ UNCHANGED <<stage, ctxDone, consumed, ends, grpVars, streamVars, textVars, played, failures>>

CancelResponse ==
  /\ ~ctxDone /\ ctxDone' = TRUE
  /\ UNCHANGED <<stage, tokenVars, grpVars, streamVars, textVars, played, failures>>

\* The service ends the stream, or it fails; some of the audio may still come.
StreamBreaks ==
  /\ stream \in {"open", "closing"} /\ Fails /\ stream' \in {"eof", "error"}
  /\ \E n \in 0 .. Len(audio) : audio' = SubSeq(audio, 1, n)
  /\ UNCHANGED <<stage, ctxDone, tokenVars, grpVars, textVars, played>>

Terminated == stage = "returned" /\ UNCHANGED vars

StreamLoop == NewClient \/ NextToken \/ OpenStream \/ OpenFails \/ GroupDone
SendLoop == SendFirst \/ SendToken \/ FlushTimer \/ TokensClosed \/ SendCtxDone
RecvLoop == RecvCheck \/ RecvFrame \/ RecvEnds \/ SendFrame

Next ==
  \/ StreamLoop \/ SendLoop \/ RecvLoop
  \/ EndTokens \/ CancelResponse \/ StreamBreaks \/ Terminated

Spec == Init /\ [][Next]_vars

\* The goroutines run.  The responder reads the audio; the brain need not end the tokens,
\* nor does a stream break.
FairSpec == Spec /\ WF_vars(StreamLoop) /\ WF_vars(SendLoop) /\ WF_vars(RecvLoop)

(***************************************************************************)
(* Properties                                                              *)
(***************************************************************************)
\* Type invariant.
TypeOK ==
  /\ stage \in {"client", "next", "open", "run", "returned"} /\ ctxDone \in BOOLEAN
  /\ consumed \in 0 .. MaxPieces /\ ends \subseteq 1 .. consumed /\ ended \in BOOLEAN
  /\ snd \in {"first", "select", "done"} /\ rcv \in {"check", "recv", "send", "done"}
  /\ frame \in 0 .. consumed /\ grpErr \in BOOLEAN
  /\ stream \in {"open", "closing", "eof", "error"} /\ audio \in Seq(1 .. consumed)
  /\ text \in Seq(1 .. consumed) /\ sent \in Seq(1 .. consumed) /\ dropped \subseteq 1 .. consumed
  /\ played \in Seq(1 .. consumed) /\ failures \in 0 .. MaxFailures

Ascending(s) == \A i, j \in 1 .. Len(s) : i < j => s[i] < s[j]

\* No text is lost, repeated or put in another order, however many streams it takes: what
\* was read is what was sent followed by what is gathered, but for what flushText could not
\* send over a stream that had ended.
TextKept ==
  /\ Ascending(sent \o text) /\ Pieces(sent \o text) = (1 .. consumed) \ dropped
  /\ dropped # {} => failures > 0 \/ ctxDone

\* The response is heard in the order of its text, each piece once and none that was not
\* sent: a stream is not read any more when the next one is.
HeardInOrder == Ascending(played) /\ Pieces(played) \subseteq Pieces(sent)

\* A response that nothing disturbed is spoken to the end of its tokens.
SpokenToTheEnd ==
  stage = "returned" /\ ~ctxDone /\ failures = 0 => ended /\ Len(played) = consumed

\* Synthesize returns once its context is done, and the responder may wait for it.
CancelledReturns == ctxDone ~> stage = "returned"

\* It returns once the tokens have ended, unless streams fail for ever.
FinishedReturns == ended ~> stage = "returned"
=============================================================================
