--------------------------- MODULE MCSynthesizers ---------------------------
(***************************************************************************)
(* A synthesizer as the responder is given it: Deepgram's, or Google's,    *)
(* which keeps nothing between the responses and so serves one.            *)
(***************************************************************************)
EXTENDS DeepgramSynthesizer

CONSTANTS MaxPieces, MaxFailures

ASSUME PiecesAssumption == MaxPieces \in Nat /\ MaxFailures \in Nat

VARIABLES
  google,   \* which it is
  stage, ctxDone, consumed, ends, ended, text, snd, rcv, frame, grpErr, stream, audio, sent,
  dropped, played, failures

G == INSTANCE GoogleSynthesizer

googleVars ==
  <<stage, ctxDone, consumed, ends, ended, text, snd, rcv, frame, grpErr, stream, audio, sent,
    dropped, played, failures>>

EitherInit == google \in BOOLEAN /\ Init /\ G!Init

EitherNext ==
  \/ ~google /\ Next /\ UNCHANGED <<google, googleVars>>
  \/ google /\ G!Next /\ UNCHANGED <<google, vars>>

\* The fairness of both modules, each for the synthesizer that is there.
EitherSpec ==
  /\ EitherInit /\ [][EitherNext]_<<google, vars, googleVars>>
  /\ WF_vars(~google /\ Synthesize) /\ \A c \in Conns : WF_vars(~google /\ Reader(c))
  /\ WF_googleVars(google /\ G!StreamLoop)
  /\ WF_googleVars(google /\ G!SendLoop)
  /\ WF_googleVars(google /\ G!RecvLoop)

\* The types and, for Deepgram's, that no interrupted response is heard in another; for
\* Google's, that a response is heard in the order of its text.
EitherInv == Inv /\ G!TypeOK /\ G!HeardInOrder

\* Google's: no text is lost, repeated or swapped on its way to the streams.
TextKept == G!TextKept

\* A response that nothing disturbed is spoken to the end.
EitherSpokenToTheEnd == SpokenToTheEnd /\ G!SpokenToTheEnd

\* Synthesize returns once its context is done: CancelResponse waits for that.
EitherCancelledReturns == CancelledReturns /\ G!CancelledReturns

\* Synthesize returns once the tokens have ended: Deepgram's if the response is short.
EitherFinishedReturns == ShortResponseReturns /\ G!FinishedReturns
=============================================================================
