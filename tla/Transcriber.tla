----------------------------- MODULE Transcriber -----------------------------
(***************************************************************************)
(* The three transcribers: one session of a speech-to-text service over    *)
(* connections that fail and are renewed.  OpenAI and Google run a send    *)
(* and a receive loop per connection in an error group, inside             *)
(* helper.Retrier.Execute.  Deepgram runs a send loop that reconnects by   *)
(* itself, while the SDK's goroutine calls Message.                        *)
(*                                                                         *)
(* A transcript is the session (the Start) and its number in what the      *)
(* service has said.  Audio is a number of frames.  A write returns, also  *)
(* on a connection that is dead, and then with or without an error.        *)
(***************************************************************************)
EXTENDS Naturals, Sequences

CONSTANTS
  Providers,      \* a subset of {"openai", "google", "deepgram"}
  MaxAttempts,    \* maxReconnectAttempts; 0: no limit
  AudioCap, Cap,  \* capacities of audioCh and transcriptCh
  MaxStarts, MaxSaid, MaxFaults   \* bounds: sessions, transcripts, failures

ASSUME ProvidersAssumption == Providers \subseteq {"openai", "google", "deepgram"}
ASSUME BoundsAssumption ==
  /\ MaxAttempts \in Nat /\ MaxStarts \in Nat /\ MaxSaid \in Nat /\ MaxFaults \in Nat
  /\ AudioCap \in Nat \ {0} /\ Cap \in Nat \ {0}

VARIABLES
  provider,
  \* the owner's fields
  owner,          \* "idle": cancel, audioCh and transcriptCh are nil; "stopping": in wg.Wait
  gen, ctxDone, audioCh,
  transcriptCh, closed,
  \* streamLoop
  loop,           \* "open", "run", "wait" (backoff), "done"
  failures, why,  \* Execute: consecutiveFailures, and what made it return
  \* the connection: "retry" and "fatal" are dead, for a reason that isReconnectable judges so
  conn, inbox,    \* inbox: what the service has sent and was not read
  \* the loops, their error group and the SDK's callback
  snd, rcv, held, grpErr, callback,
  \* the service, and history
  said, faults, crashed,
  fruitful, barren   \* this connection brought a transcript; connections in a row that did not

ownerVars == <<owner, gen, ctxDone>>
loopVars  == <<loop, failures, why, closed, barren>>
grpVars   == <<snd, rcv, held, grpErr>>
vars == <<provider, ownerVars, audioCh, transcriptCh, loopVars, conn, inbox, fruitful, grpVars,
          callback, said, faults, crashed>>

Init ==
  /\ provider \in Providers
  /\ owner = "idle" /\ gen = 0 /\ ctxDone = FALSE /\ audioCh = 0
  /\ transcriptCh = <<>> /\ closed = FALSE
  /\ loop = "done" /\ failures = 0 /\ why = "none" /\ conn = "none" /\ inbox = <<>>
  /\ snd = "done" /\ rcv = "done" /\ held = <<>> /\ grpErr = "none" /\ callback = <<>>
  /\ said = 0 /\ faults = 0 /\ crashed = FALSE
  /\ fruitful = FALSE /\ barren = 0

Reasons == {"retry", "fatal"}
Dead == conn \in Reasons
GrpDone == ctxDone \/ grpErr # "none"
First(err) == IF grpErr = "none" THEN err ELSE grpErr
Fault == faults < MaxFaults /\ faults' = faults + 1

(***************************************************************************)
(* The owner: Start, Stop, Feed and the reader of Transcribe               *)
(***************************************************************************)
\* The goroutine of streamLoop; or Deepgram's sendLoop, on the connection Start has made.
StreamBegins ==
  IF provider = "deepgram" THEN loop' = "run" /\ conn' = "open" /\ snd' = "select"
  ELSE loop' = "open" /\ UNCHANGED <<conn, snd>>

\* Start of a transcriber that is stopped; of one that is not, Start calls Stop first.
Start ==
  /\ owner = "idle" /\ gen < MaxStarts
  /\ owner' = "started" /\ gen' = gen + 1 /\ ctxDone' = FALSE
  /\ audioCh' = 0 /\ transcriptCh' = <<>> /\ closed' = FALSE
  /\ failures' = 0 /\ why' = "none" /\ barren' = 0 /\ fruitful' = FALSE /\ inbox' = <<>>
  /\ StreamBegins
  /\ UNCHANGED <<provider, rcv, held, grpErr, callback, said, faults, crashed>>

StopCancel ==
  /\ owner = "started" /\ owner' = "stopping" /\ ctxDone' = TRUE
  /\ UNCHANGED <<provider, gen, audioCh, transcriptCh, loopVars, conn, inbox, fruitful, grpVars,
                 callback, said, faults, crashed>>

\* Mutant: Stop does not wait.
LoopsEndedAnyway == TRUE

LoopsEnded == loop = "done"

\* wg.Wait returns; Google's and Deepgram's clients close their connections.
StopWaited ==
  /\ owner = "stopping" /\ LoopsEnded
  /\ owner' = "idle" /\ conn' = IF provider = "openai" THEN conn ELSE "closed"
  /\ UNCHANGED <<provider, gen, ctxDone, audioCh, transcriptCh, loopVars, inbox, fruitful,
                 grpVars, callback, said, faults, crashed>>

Feed ==
  /\ owner # "idle" /\ audioCh < AudioCap /\ audioCh' = audioCh + 1
  /\ UNCHANGED <<provider, ownerVars, transcriptCh, loopVars, conn, inbox, fruitful, grpVars,
                 callback, said, faults, crashed>>

Read ==
  /\ transcriptCh # <<>>
  /\ transcriptCh' = Tail(transcriptCh)
  /\ UNCHANGED <<provider, ownerVars, audioCh, loopVars, conn, inbox, fruitful, grpVars,
                 callback, said, faults, crashed>>

(***************************************************************************)
(* The service and the network                                             *)
(***************************************************************************)
Say ==
  /\ conn = "open" /\ said < MaxSaid
  /\ said' = said + 1 /\ inbox' = Append(inbox, said')
  /\ UNCHANGED <<provider, ownerVars, audioCh, transcriptCh, loopVars, conn, fruitful, grpVars,
                 callback, faults, crashed>>

ConnBreaks ==
  /\ conn = "open" /\ Fault /\ conn' \in Reasons
  /\ UNCHANGED <<provider, ownerVars, audioCh, transcriptCh, loopVars, inbox, fruitful, grpVars,
                 callback, said, crashed>>

(***************************************************************************)
(* streamLoop and Retrier.Execute                                          *)
(***************************************************************************)
End(reason) == loop' = "done" /\ closed' = TRUE /\ why' = reason /\ UNCHANGED failures

Continue(n) == loop' = "wait" /\ failures' = n /\ UNCHANGED <<closed, why>>

\* Mutant: every error resets the count.
AttemptEndsResetting(err) ==
  /\ barren' = (IF fruitful THEN 0 ELSE barren + 1) /\ fruitful' = FALSE
  /\ IF ctxDone THEN End("cancelled")
     ELSE IF err = "fatal" THEN End("fatal") ELSE Continue(0)

\* Execute, when do has returned err.
AttemptEnds(err) ==
  /\ barren' = (IF fruitful THEN 0 ELSE barren + 1) /\ fruitful' = FALSE
  /\ IF ctxDone THEN End("cancelled")
     ELSE IF err = "none" THEN Continue(0)
     ELSE IF err = "fatal" THEN End("fatal")
     ELSE IF MaxAttempts > 0 /\ failures + 1 >= MaxAttempts THEN End("attempts")
     ELSE Continue(failures + 1)

OpenConnection ==
  /\ loop = "open" /\ ~ctxDone
  /\ loop' = "run" /\ conn' = "open" /\ inbox' = <<>>
  /\ snd' = "select" /\ rcv' = "read" /\ grpErr' = "none"
  /\ UNCHANGED <<provider, ownerVars, audioCh, transcriptCh, failures, why, closed, barren,
                 fruitful, held, callback, said, faults, crashed>>

\* The handshake, or the configuration that is sent first, fails.
OpenFails ==
  /\ loop = "open"
  /\ IF ctxDone THEN UNCHANGED faults ELSE Fault
  /\ \E err \in Reasons : AttemptEnds(err)
  /\ UNCHANGED <<provider, ownerVars, audioCh, transcriptCh, conn, inbox, grpVars, callback, said,
                 crashed>>

GroupReturns == snd = "done" /\ rcv = "done"

GroupDone ==
  /\ loop = "run" /\ provider # "deepgram" /\ GroupReturns
  /\ AttemptEnds(grpErr)
  /\ UNCHANGED <<provider, ownerVars, audioCh, transcriptCh, conn, inbox, grpVars, callback,
                 said, faults, crashed>>

\* backoff: the delay has passed, or the context is done.
BackoffOver ==
  /\ loop = "wait"
  /\ \/ loop' = "open" /\ UNCHANGED <<failures, why, closed>>
     \/ ctxDone /\ End("cancelled")
  /\ UNCHANGED <<provider, ownerVars, audioCh, transcriptCh, barren, conn, inbox, fruitful,
                 grpVars, callback, said, faults, crashed>>

(***************************************************************************)
(* sendLoop                                                                *)
(***************************************************************************)
\* Mutant: the connection is left to the receive loop.
HangUpNot == UNCHANGED conn

\* The deferred close: OpenAI's ends the connection, Google's CloseSend only its own half.
HangUp == conn' = IF provider = "openai" THEN "closed" ELSE conn

\* A frame is written; on a dead connection the write may fail.
SendAudio ==
  /\ snd = "select" /\ audioCh > 0 /\ audioCh' = audioCh - 1
  /\ \/ UNCHANGED <<snd, grpErr, conn>>
     \/ /\ Dead
        /\ IF provider = "deepgram" THEN snd' = "reconnect" /\ UNCHANGED <<grpErr, conn>>
           ELSE snd' = "done" /\ grpErr' = First("retry") /\ HangUp
  /\ UNCHANGED <<provider, ownerVars, transcriptCh, loopVars, inbox, fruitful, rcv, held,
                 callback, said, faults, crashed>>

\* Mutant: it looks at the outer context only.
SendCancelledByOwner == ctxDone

SendCancelled == GrpDone

SendCtxDone ==
  /\ snd = "select" /\ SendCancelled /\ snd' = "done"
  /\ IF provider = "deepgram" THEN End("cancelled") /\ UNCHANGED conn
                              ELSE HangUp /\ UNCHANGED <<loop, failures, why, closed>>
  /\ UNCHANGED <<provider, ownerVars, audioCh, transcriptCh, barren, inbox, fruitful, rcv, held,
                 grpErr, callback, said, faults, crashed>>

\* Deepgram: AttemptReconnect, unless the context is done.
Reconnect ==
  /\ snd = "reconnect"
  /\ \/ /\ ~ctxDone /\ snd' = "select" /\ conn' = "open" /\ inbox' = <<>>
        /\ UNCHANGED <<loop, failures, why, closed, faults>>
     \/ /\ IF ctxDone THEN UNCHANGED faults ELSE Fault
        /\ snd' = "done" /\ End(IF ctxDone THEN "cancelled" ELSE "attempts")
        /\ UNCHANGED <<conn, inbox>>
  /\ UNCHANGED <<provider, ownerVars, audioCh, transcriptCh, barren, fruitful, rcv, held, grpErr,
                 callback, said, crashed>>

(***************************************************************************)
(* receiveLoop and Message                                                 *)
(***************************************************************************)
Readable == inbox # <<>> /\ conn # "closed"

\* A send without waiting; a panic on a closed channel.
Offer(transcript) ==
  /\ transcriptCh' = IF ~closed /\ Len(transcriptCh) < Cap THEN Append(transcriptCh, transcript)
                     ELSE transcriptCh
  /\ crashed' = (crashed \/ closed)

\* OpenAI gives a transcript up when the channel is full, Google keeps it and waits.
ReadMessage ==
  /\ rcv = "read" /\ Readable /\ inbox' = Tail(inbox) /\ fruitful' = TRUE
  /\ IF provider = "openai" THEN Offer(<<gen, Head(inbox)>>) /\ UNCHANGED <<rcv, held>>
     ELSE rcv' = "send" /\ held' = <<gen, Head(inbox)>> /\ UNCHANGED <<transcriptCh, crashed>>
  /\ UNCHANGED <<provider, ownerVars, audioCh, loopVars, conn, snd, grpErr, callback, said,
                 faults>>

\* Mutant: the loop waits for room whatever happens.
GiveUpSendNot == FALSE

GiveUpSend == GrpDone

SendTranscript ==
  /\ rcv = "send" /\ held' = <<>>
  /\ \/ /\ closed \/ Len(transcriptCh) < Cap
        /\ Offer(held) /\ rcv' = "read" /\ UNCHANGED grpErr
     \/ /\ GiveUpSend /\ rcv' = "done" /\ grpErr' = First("retry")
        /\ UNCHANGED <<transcriptCh, crashed>>
  /\ UNCHANGED <<provider, ownerVars, audioCh, loopVars, conn, inbox, fruitful, snd, callback,
                 said, faults>>

\* The read fails: all was read, the connection was closed here, or (Google) the context of
\* the stream is done.  OpenAI takes an error after the group's end for none.
ReadFails ==
  /\ rcv = "read" /\ rcv' = "done"
  /\ (Dead /\ inbox = <<>>) \/ conn = "closed" \/ (provider = "google" /\ ctxDone)
  /\ grpErr' = IF provider = "openai" /\ GrpDone THEN grpErr
               ELSE First(IF conn = "fatal" THEN "fatal" ELSE "retry")
  /\ UNCHANGED <<provider, ownerVars, audioCh, transcriptCh, loopVars, conn, inbox, fruitful,
                 snd, held, callback, said, faults, crashed>>

\* OpenAI: an error event, on a connection that stays open.
ServerError ==
  /\ provider = "openai" /\ rcv = "read" /\ conn = "open" /\ inbox = <<>> /\ Fault
  /\ rcv' = "done" /\ \E err \in Reasons : grpErr' = First(err)
  /\ UNCHANGED <<provider, ownerVars, audioCh, transcriptCh, loopVars, conn, inbox, fruitful,
                 snd, held, callback, said, crashed>>

CallbackBegins ==
  /\ provider = "deepgram" /\ callback = <<>> /\ Readable
  /\ callback' = <<gen, Head(inbox)>> /\ inbox' = Tail(inbox) /\ fruitful' = TRUE
  /\ UNCHANGED <<provider, ownerVars, audioCh, transcriptCh, loopVars, conn, grpVars, said,
                 faults, crashed>>

\* Mutant: the callback does not recover.
MessageUnrecovered(transcript) == Offer(transcript)

\* The callback recovers from the panic of a send on a closed channel.
Message(transcript) ==
  IF closed THEN UNCHANGED <<transcriptCh, crashed>> ELSE Offer(transcript)

\* The channel is read only now: after Stop it is nil, after another Start the next one.
CallbackSends ==
  /\ callback # <<>> /\ callback' = <<>>
  /\ IF owner = "idle" THEN UNCHANGED <<transcriptCh, crashed>> ELSE Message(callback)
  /\ UNCHANGED <<provider, ownerVars, audioCh, loopVars, conn, inbox, fruitful, grpVars, said,
                 faults>>

Owner == Start \/ StopCancel \/ StopWaited \/ Feed \/ Read
StreamLoop == OpenConnection \/ OpenFails \/ GroupDone \/ BackoffOver
SendLoop == SendAudio \/ SendCtxDone \/ Reconnect
ReceiveLoop == ReadMessage \/ SendTranscript \/ ReadFails \/ ServerError
Callback == CallbackBegins \/ CallbackSends

Next == Owner \/ Say \/ ConnBreaks \/ StreamLoop \/ SendLoop \/ ReceiveLoop \/ Callback

Spec == Init /\ [][Next]_vars

\* Each goroutine goes on when it can, a select chooses a context that is done in the end,
\* and handshakes end.  Until it stops the transcriber, the recognizer reads.  The rest of
\* the owner, the service and the network need do nothing.
FairSpec ==
  /\ Spec
  /\ WF_vars(StreamLoop) /\ WF_vars(SendCtxDone) /\ WF_vars(Reconnect)
  /\ WF_vars(ReadMessage \/ ReadFails) /\ WF_vars(SendTranscript) /\ WF_vars(StopWaited)
  /\ WF_vars(Read /\ owner = "started")

(***************************************************************************)
(* Properties                                                              *)
(***************************************************************************)
Transcripts == (0 .. MaxStarts) \X (1 .. MaxSaid)

OwnerTypeOK ==
  /\ provider \in Providers /\ owner \in {"idle", "started", "stopping"}
  /\ gen \in 0 .. MaxStarts /\ audioCh \in 0 .. AudioCap
  /\ said \in 0 .. MaxSaid /\ faults \in 0 .. MaxFaults

LoopTypeOK ==
  /\ loop \in {"open", "run", "wait", "done"}
  /\ failures \in Nat /\ barren \in Nat
  /\ why \in {"none", "cancelled", "fatal", "attempts"}
  /\ conn \in Reasons \cup {"none", "open", "closed"}
  /\ snd \in {"select", "reconnect", "done"} /\ rcv \in {"read", "send", "done"}
  /\ grpErr \in Reasons \cup {"none"}

FlagTypeOK ==
  ctxDone \in BOOLEAN /\ closed \in BOOLEAN /\ crashed \in BOOLEAN /\ fruitful \in BOOLEAN

DataTypeOK ==
  /\ inbox \in Seq(1 .. MaxSaid)
  /\ held \in {<<>>} \cup Transcripts /\ callback \in {<<>>} \cup Transcripts
  /\ rcv = "send" => held \in Transcripts
  /\ transcriptCh \in Seq(Transcripts) /\ Len(transcriptCh) <= Cap

\* Type invariant, with the capacities of the channels.
TypeOK == OwnerTypeOK /\ LoopTypeOK /\ FlagTypeOK /\ DataTypeOK

\* No transcript is sent on a closed channel outside the callback that recovers from it:
\* the channel is closed only when no loop that sends on it is left.
NoSendOnClosed == ~crashed

\* The safety of every state: the types, and that no send panics.
Inv == TypeOK /\ NoSendOnClosed

\* Whatever ended a connection, it does not outlive its loops: before the next one is
\* opened, and when streamLoop gives up or is stopped, it is closed or dead.
NoConnectionLeft ==
  provider # "deepgram" /\ loop # "run" =>
    conn # "open" \/ (provider = "google" /\ ctxDone)

\* A session's channel carries its own transcripts only, whatever the loops of the session
\* before it still held when Stop was called.  Deepgram's callback may bring one of those.
OwnTranscripts ==
  provider # "deepgram" => \A i \in 1 .. Len(transcriptCh) : transcriptCh[i][1] = gen

\* Execute gives up in the end: attempts in a row that fail without having brought anything
\* are no more than MaxAttempts, so that a service that is gone is not called for ever.
UselessAttemptsEnd == MaxAttempts > 0 => barren <= MaxAttempts

\* Stop returns, whatever its loops were blocked on: a read no context ends, a full
\* channel nobody reads, a delay.
StopReturns == owner = "stopping" ~> owner # "stopping"

\* A connection that has died is noticed although there may be no audio to write: it is
\* renewed, or the session ends and its reader sees the channel closed.
DeathNoticed ==
  provider # "deepgram" /\ loop = "run" /\ Dead ~> ~Dead \/ loop = "done"

\* A session is given up only after MaxAttempts connections in a row that brought
\* nothing: "success resets counter", retrier_test.go expects.
GivesUpWhenUseless ==
  why = "attempts" /\ provider # "deepgram" => barren >= MaxAttempts
=============================================================================
