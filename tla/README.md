# A TLA+ model of live-agent-go

live-agent-go (`src/voice`, Go) connects a WebRTC session to a conversational
agent: audio frames are fed to a voice-activity detector (VAD) and a
transcriber, complete utterances are given to a *brain*, its tokens to a
synthesizer, and the synthesizer's audio, mixed with background tracks, goes
back to the session. Nearly everything is a goroutine behind a channel. The
parts the repository owns are small; what is hard is how they cancel, wait for
and overtake each other. This directory models that, checks it with TLC and
proves the central invariants with TLAPS.

## Inventory

| component | state | operations | interacts with |
|---|---|---|---|
| `internal/speech/recognizer.go` Recognizer | `bufferCh`, error group, `errCh`; `handleEvent`'s locals `isSpeaking`, `isTranscribing`, `transcripts` | Start, Feed, Stop, Err; two goroutines | reads the VAD's and the transcriber's channels, calls the RecognitionHandler |
| `recognition_handler.go` | `interruptTimer` | OnSpeechStart, OnInterim, OnSpeechEnd, OnSpeechRecognized, timer callback | called on the event loop; calls the Responder, also from timers |
| `internal/dialog/responder.go`, `tools.go` Responder | `cancelResp`, `respWg`, `interruptible`, `ctx` | Respond, IceBreaking, CancelResponse, Close, SetInterruptible | five goroutines per response (brain, synthesizer, two that move tokens, forwarder), `consumeAudios`; mixer, subscribers' channels |
| `internal/dialog/mixer.go` mixer | `speechCh`, `speechSampleBuf`, `tracks`, `trackCh`, `cmdCh` | SetSpeechSource, AddTrack, StopAllTracks, Close; Run | reads `mixerIn` channels, sends frames to `consumeAudios` |
| `agent.go` Agent | `started`, `stopped`, `errCh` | Start, Stop, Feed, IceBreaking, Err | owns the recognizer, the handler and the responder |
| `session_agent.go` SessionAgent | error group of six goroutines | Run, Close | moves audio, tokens and prompts between Agent and Session |
| `transport/webrtc` Manager, Session, audioReceiver, audioSender, messageHandler | `connected`, `ctx`, `once`, `trackWg`, `audioIn`, `messageIn`, `ready`, encode buffer | Close, SendAudio, SendMessage; callbacks of the peer connection | pion/webrtc calls OnTrack, state changes, OnMessage on its own goroutines |
| `transcriber/*` | connection, `transcriptCh`, send buffer | Start, Stop, Feed, Transcribe | remote services; reconnect through the Retrier (OpenAI, Google) or by themselves (Deepgram) |
| `synthesizer/*` | Deepgram: client, callback, `pendingFlushes`, `flushedCh`; Google: nothing between responses | Synthesize, Close | remote services; SDK callbacks |
| `vad/silero_vad.go` | frame buffer, `speaking`, `silenceFrames`, `eventCh` | Start, Stop, Feed | the recognizer |
| `helper` TokenBucket, Retrier, resampling, splitting | tokens and last tick; consecutive failures | Take; Execute; pure functions | used by the parts above |
| `audio` | wave samples and options | pure, except volumes shared with the mixer | mixer |

What makes each correct, and what is hard about it:

- **Recognizer.** Every final transcript is handed to the conversation exactly
  once, in order, and is not kept back once the speaker has stopped and the
  transcriber is done; a failing stream reaches the owner; Stop returns and
  leaves nothing running. Hard: one `select` merges two streams in any order,
  and Stop races with both goroutines.
- **Responder and recognition handler.** A response can always be cancelled,
  its goroutines are always waited for, at most one speaks, a cancelled one falls
  silent, and no callback of the event loop blocks for ever. Hard:
  `CancelResponse` is run by timers, the event loop, IceBreaking and Close, each
  with copies of shared fields it uses after the unlock; waits have no deadline.
- **Mixer.** Frames of one source and of all live tracks at each tick, clamped.
  Hard: commands, tracks and frames arrive on three channels and the mixer
  blocks while it sends.
- **Agent, SessionAgent.** Start and Stop at most once each, in any order with
  Feed; everything started is stopped. Hard: Run's deferred Stop races with Close.
- **WebRTC session.** Close once, from any of four triggers; no send on a channel it
  closes. Hard: the callbacks run on the library's goroutines.
- **Transcribers, synthesizers, VAD.** Streams that end when told to and when
  the remote side ends. Hard: callbacks of SDKs, counters of acknowledgements.
- **Helpers.** Bounds: at most the configured rate, a growing bounded delay.
  Hard: overflow, float arithmetic.

`PROJECT.json` lists the hazards one by one, each at its line, with the property
that would catch it or the reason why none does.

## Plan

The modules, in the order in which they were written.

1. `Recognizer`, refining the abstract `UtteranceQueue`; `RecognizerProofs`.
2. `Responder` with the recognition handler and the speech path of the mixer;
   `MCResponder`, `ResponderProofs`.
3. `DeepgramSynthesizer`; `GoogleSynthesizer`, `GoogleSynthesizerProofs`; `MCSynthesizers`
   has either; `SynthesizersProofs`.
4. `Mixer`, `MCMixer`, `MixerProofs`.
5. `SessionPort`, what a session promises; `WebRTCSession`, which implements it;
   `SessionAgent` with the Agent, which runs over it; `WebRTCSessionProofs`,
   `SessionAgentProofs`.
6. `Transcriber` with the Retrier, `TranscriberProofs`.

How they compose:

```
 WebRTCSession --implements--> SessionPort <--runs over-- SessionAgent (Agent)
                                                          |          |
                  abstracted to "ended" and "in a callback"|          |
                                                  Recognizer     Responder --> Mixer
                                      (implements UtteranceQueue)    |
                                          |                          |
                             VAD, Transcriber           DeepgramSynthesizer, GoogleSynthesizer
```

`SessionAgent` replaces the recognizer by whether its event loop has ended, which
`Recognizer` shows to follow a Stop (`StopReturns`), and the responder by how far
its Close has come and whether the event loop is in one of its callbacks. Either may wait
for ever, as the findings about `Responder` show, and `SessionAgent` lets it. `Responder` assumes of a synthesizer what `MCSynthesizers`
shows (`EitherCancelledReturns`), and of the mixer that a source that was
replaced is not played, which `Mixer` shows (`SilencedNotHeard`). `Recognizer` assumes of a
transcriber that its channel is closed after Stop and carries the transcripts of
this session, which `Transcriber` shows (`StopReturns`, `OwnTranscripts`).

Left, in the order of their worth: the framing and the silence counter of
`SileroVAD` and the encode buffer of the audio sender (the same loop over the
samples of a frame); the values of the mixer's samples (volume, ducking, clamping); a
bounded-time `TokenBucket`; the pure functions of `audio` and `helper`.

## Recognizer

`Recognizer.tla` follows `recognizer.go`. Each goroutine has a control state:
`pump` (the goroutine of lines 60-95: `select`, then `send` with the event in
`held`), `loop` (`handleEvent`, with its three locals) and `stop` (the caller in
Stop, between cancelling, stopping the VAD, stopping the transcriber and
waiting). A handled event lists the callbacks it makes in `calling`;
`CallbackReturns` takes them one at a time, so the pump, Stop and the streams
run between and during them. The errgroup is `grpErr` (its first error) and
`GroupDone` (its context). A final transcript is its position in the
transcriber's output; an interim one has no content.

The VAD and the transcriber are the environment. `VADEmit` alternates start and
end as `silero_vad.go:128-153` does, without the branch of `emit` that gives an event up
when the context of Feed is done (nothing is fed after it); interims and finals come in any order; with
`MayFail` a stream may end by itself. Feed is not an action: it only passes the
frame on to these two.

Properties: `NoStrandedTranscripts`, `QuietAfterStop`, `DeliversUtterances`
(it implements `UtteranceQueue`), and under fairness `EventuallyRecognized`,
`FailureReported`, `StopReturns`. The run has a VAD; the proofs cover a recognizer without
one too. `EventuallyRecognized` promises nothing for a
transcript while the transcriber leaves a later utterance unfinished; the code
keeps transcripts back then.

| run | question | bounds |
|---|---|---|
| `recognizer` | all of them, streams failing, Stop at any time | two turns, two finals, one interim, channels of 1 and a buffer of 2: every channel fills, the pump blocks, both orders of end and final occur in each turn |

Fairness: the Go scheduler runs every goroutine that can run (weak fairness of
Pump, Loop, ReportEnd and of a Stop that has begun, which includes that the
handler's callbacks return; the responder's model shows when they do). The speaker,
failures, the call of Stop and deadlines get none.

## Responder

`Responder.tla` follows `responder.go` and `recognition_handler.go`. `pc` says
where each goroutine that may be in CancelResponse is: the event loop
(`handler`), fired timers, IceBreaking's caller (`ice`) and Close (`closer`).
The steps are cut where another goroutine can come between: taking the fields
(the critical section of 162-170), calling the cancel function, muting the
mixer, waiting, creating the context, sending the prompt, starting the
goroutines, storing the wait group. `gotCancel` and `gotWg` are the locals
`cancel` and `wg`. A response is a number, naming its context, its wait group and
its `mixerIn` channel. `brain`, `synth` and `fwd` are its goroutines, the last with
the steps of `forwardSynthToMixer`; the token goroutines keep no state and end
when these do. The mixer is the source it plays, the command channel, and
whether it is blocked in `sendFrame`; its goroutine runs from the
start. `out` counts the frames in `mixerOut` and the one `consumeAudios` holds.

Interrupt timers are the members of `Timers`: with `{}` there is no minimum
interrupt duration; one timer suffices for a timer that fires and overtakes any step of
the next response.

| run | question | bounds |
|---|---|---|
| `responder_ownership` | with a timer: nothing orphaned, everything awaited, only cancelled responses awaited (`Ownership`), never two at once (`OneAtATime`), the speaking one is played (`HeardUnlessFired`), the agent is left deaf only by a brain that asks for it late (`DeafOnlyWhileSpeaking`); `MCResponder` lets Respond and IceBreaking alternate and not overlap | two responses by either creator, one timer that can be re-armed |
| `responder_live` | with a timer: callbacks return, cancelled responses fall silent | one response by either creator, channels of 1 |
| `responder_close` | Close returns, subscribers no longer reading, brains calling SetInterruptible at any time | one response, the real command channel of 4 |
| `responder_close_stuck` | *violated* once the command channel is full | a channel of 1 and two responses; with the code's 4 the same needs three |
| `responder_ice_race` | *violated*: IceBreaking and Respond at once; `MCResponder` restricts the behaviours to silent responses, which keeps the state space small and can only hide counterexamples | two responses |

`Ownership` is the inductive invariant as a whole, since its parts are what the proofs
need; the three that a reader looks for are `NoOrphanedResponse`,
`GoroutinesAwaited` and `AwaitedIsCancelled`. `OneAtATime` says when responses may
overlap: a fired timer, or Close, has taken the wait group that the next
CancelResponse would wait for. `HeardUnlessFired` says that `SpeakerIsHeard` holds until a
timer has fired or Close is called: a timer that fires late removes the source of a
response it was not armed for (`fired` is the history of that, in `MCResponder`). A brain may call SetInterruptible as
long as it runs, as nothing in `tools.go` prevents it. `DeafOnlyWhileSpeaking` says when
the handler may ignore the speaker: while a synthesizer speaks, or when a brain has
cleared the flag after its own synthesizer had returned (`late`, the other history of
`MCResponder`). Such a call does leave the agent deaf for good: callbacks return early, so
that no later response begins whose end would restore the flag (see the hazards). `responder_close` checks no deadlock because after Close the system stops.

Fairness (`RunsFairly`): every goroutine that can run does, and a brain and a
synthesizer return once their context is done, as the interfaces ask of them.
Nothing makes a synthesizer produce a further frame, the user speak, a timer
fire or Close be called. `FairSpec` adds subscribers that read (those of audio
and, since SendPrompt always goes on, those of prompts), `StalledSpec`
subscribers that may not, with the deadline of Close passing.

## Mixer

`Mixer.tla` follows `mixer.go`. `at` is where Run is: at its loop's top, waiting in one
of its three modes, or inside a tick, which is cut at every channel it drains
(`SpeechTick` drains the source, `DrainCommands` the commands, `CollectTracks` the
tracks and takes the speech of the frame), at every track it mixes and at the send.
Draining a channel until it is empty is one step. A sample is its response and its place
in it, or its place in the wave, so the properties speak of what is put out and not of
counters. The callers are those of `Responder` without timers: a response begins when
the one before was muted and its forwarder has ended; a late announcement after the
muting happens.

Properties: `SpeechInOrder`; `SilencedNotHeard` (a tick that begins after CancelResponse
has muted a response mixes none of its samples, and one that begins after a track's Stop
has returned none of the track); `Inv` (the types, and `NoTrackLost`); under fairness
`HeardOut` (responses and tracks that nobody interrupts are heard to the end) and
`CloseEnds`.

| run | question | bounds |
|---|---|---|
| `mixer` | all of them | channels of 1, ticks of 2 samples, frames of 3, waves of 3. `MCMixer` lists the loads: two responses of two frames without tracks (ticks that underflow, that span two frames, that are shorter, changes of source in between); one frame beside a looping track, or beside one that ends; both tracks beside a silent source |

The loads are a bound on the state space only: speech and tracks meet in the wave and in
the length of a frame, and both occur beside each kind of track.

Fairness: Run runs and its timer fires; frames are read until Close, not after it
(`consumeAudios` ends with the responder's context). Whoever adds tracks, speaks or
closes need not.

The volumes, ducking and clamping change the values of samples only and are left out.

## Synthesizers

`DeepgramSynthesizer.tla` follows `deepgram_tts.go`. `at` is the place of the one
goroutine in Synthesize, cut wherever it reads a field that a callback of the SDK may
have changed: `client` and `callback`, both nil after the end of the connection. `conn`
is the local it works on. A connection has its callback's `session` (context and audio
channel, which is closed once Synthesize returns), `flushedCh` and `pendingFlushes`, and
`wire`, what it will still deliver: frames, named by the response that sent the
sentence, and acknowledgements. `Binary` and `BinarySend` are the two halves of the
callback, the read of the session and the send. A sentence is one frame.

Assumed of the SDK: a connection delivers what was sent in order, Stop does not wait for
a running callback, and Close is called back after the end; a write to a connection that
has ended may succeed or fail. Assumed of the responder: calls do not overlap, and the
next begins after the previous was cancelled.

`GoogleSynthesizer.tla` follows `google_tts.go`. It keeps nothing between responses, so
one call of Synthesize is modelled. `stage` is where streamLoop is; `snd` and `rcv` are
its two goroutines in their error group, `stream` the gRPC stream with the `audio` it
will deliver. The text of a response is a sequence of pieces, some of which end a
sentence; a token is one or two pieces. What is gathered and not sent, `text`, lives in
`pendingText`, `firstToken` and the string builder in turn and is handed from one stream
to the next. The code renews a stream that ended at once and without a limit
(`MaxFailures` bounds how often the service ends one), a stream that cannot be opened
ends Synthesize, and flushText forgets what it could not send.

| run | question | bounds |
|---|---|---|
| `synthesizers` | Deepgram's: a response is given its own audio, all of it unless interrupted; crashes need an interruption or the end of a connection. Google's: no text is lost, repeated or swapped except by flushText over a stream that has ended (`TextKept`), what is heard is in the order of the text. Both: spoken to the end when undisturbed, a cancelled Synthesize returns, and an uninterrupted one whose tokens end (for Deepgram's, one of no more sentences than `flushedCh` holds) | `MCSynthesizers` begins as either. Deepgram's: two responses (one reuses or replaces the other's connection), two sentences against a `flushedCh` of 1, so that it overflows; one connection that ends or is closed, at any moment, and one that replaces it. Google's: three pieces, two ended streams: a sentence in one token, over two tokens and two in one; a rest carried over two renewals |

Fairness: Synthesize, its goroutines and the SDK's readers run, and the service delivers
what it was sent while the connection lasts; connections need not end, nor responses be
cancelled, nor tokens arrive. `EitherCancelledReturns` is what the responder's fairness
assumes of a synthesizer.

What is not promised, because the code does not keep it. Of Deepgram's: that the process
survives the end of a connection between the use of `client` and of `callback` (a nil
dereference) or a frame that arrives as an interrupted Synthesize returns (a send on a
closed channel); that audio is complete after a reconnection; that a response with more
sentences than `flushedCh` holds returns by itself; and that, when a flush fails, the
last frames of the dying connection are not given to the next response. Of Google's:
that audio is complete after the end of a stream, and that Synthesize returns if every
stream ends early for ever.

## Transcriber

`Transcriber.tla` follows the three `*_stt.go` and `helper/retrier.go`; `provider` is
which one runs, chosen at the beginning. `owner` is the recognizer's side (Start, Stop
with its wait, Feed, reading), `loop` is streamLoop inside `Retrier.Execute` with its
count `failures`, `snd` and `rcv` are the loops of a connection in their error group,
`callback` is the SDK's goroutine in Deepgram's Message. `conn` is the connection;
`"retry"` and `"fatal"` are dead ones, by what isReconnectable will say of the error.
The three differ where the code does: who hangs up, whether a read ends with the
context, whether a transcript is given up or waited with when the channel is full, who
reconnects.

| run | question | bounds |
|---|---|---|
| `transcriber` | no send on the closed channel outside the callback that recovers, no connection that outlives its loops, no transcript of an earlier session, an end to attempts that bring nothing; Stop returns and a dead connection is noticed without audio | two sessions (what the first leaves behind meets the second), three transcripts, three failures against three attempts, channels of 1 |
| `transcriber_gives_up` | *violated*: the retrier counts the drops of a session that works | two attempts, two failures |

Fairness: loops that can go on do, a `select` takes a context that is done in the end,
handshakes end, and the recognizer reads until it stops the transcriber. Nobody need
speak, feed or stop. Neither run checks deadlock: a stopped transcriber stays so.

## WebRTCSession and SessionPort

`SessionPort.tla` is what `voice.Session` promises to the one who uses it: `Connected`,
`MessageReady` and `Done` close at most once, `AudioIn` and `MessageIn` only after that
and in this order. `WebRTCSession.tla` follows `transport/webrtc`, from the Manager's
negotiation to the end of Close. Close may be running on four goroutines (`Closers`: its
owner, a failed negotiation, the connection timeout, a state of the peer connection);
`once` is `sync.Once`, `at` where each is. The peer connection calls OnTrack on
goroutines of its own, so that `trackWg.Add` may come after the wait (`late`); a reader
has `track[t]`. A send on a closed channel is recorded in `crashed`.

| run | question | bounds |
|---|---|---|
| `webrtc_session` | the session implements the port, liveness included (`KeepsPort`); every caller of Close returns to a closed session; a reader meets the closed channel only after a deadline or a late OnTrack; once Close is called, all callers return and no reader stays (`EndsForGood`) | two remote tracks (one reader that is awaited beside one that is late), a buffer of one frame, all four closers, a data channel, a timeout |

Fairness: a goroutine that can go on does, a timer fires, a closed peer connection ends
its reads. `Progress` has all of these in one condition: none occurs for ever, so that
weak fairness of the disjunction is as good as of each, and cheaper to check. The peer,
the owner and its deadline need do nothing. Deadlock is not checked: a closed session
stops. The type invariant is proved and not listed with the run.

A message that arrives while `messageIn` is closed may panic (`crashed` has it); pion
does not wait for the callback, and the code does not prevent it, so that no property
excludes it.

## SessionAgent

`SessionAgent.tla` follows `session_agent.go` and `agent.go` over any session that takes
the steps of `SessionPort`. `run` and `close` are the two callers, `loop` the goroutines
of the error group, `grpDone` its context, `stopping` where either caller is in
Agent.Stop, under `lock`: in the three steps of `responder.Close` (the context and the
response's cancel function; `SetSpeechSource(nil)`; the waits) and the two of
`recognizer.Stop`. Of the recognizer there is whether its event loop has ended, and in
`respond` whether that loop is in a callback that waits in CancelResponse (`"cancel"`) or
sends the prompt of a new response (`"prompt"`), which an interrupt timer may cancel
(`Recognizer` and `Responder` have the rest). `err` is the one value of the agent's
`errCh`: an error, or nil when both goroutines of the recognizer noticed the
cancellation first; a nil ends its goroutine in the group without cancelling the group's
context. A Feed that has passed its checks may meet a recognizer that is being stopped,
and the VAD then panics; the model goes on there, and `FedUntilStopped` says that only
Close leads to it.

| run | question | bounds |
|---|---|---|
| `session_agent` | Stop leaves no recognizer and stops it under a Feed only for Close (`Inv`); when Run has returned, its loops have ended and what it started is stopped, and when Close has too, the session is done (`NothingRunsOn`); Run returns once session or agent have ended (`RunReturns`); prompts are taken | the prompt loop, with a buffer of 1 (the token loop is the same without its counter, the audio loop does not wait for the session to be ready; the proofs of the safety properties have all three) |

`RunReturns` names what may hold Run up (`Obstacles`), and says that nothing else does:
SetSpeechSource in `responder.Close`, which knows no deadline (`responder_close_stuck`);
the waits of `responder.Close`, while the caller of Stop has none; the event loop, under
the same condition, in a callback's CancelResponse (`responder_ice_race`) or, since
`responder.Close` comes before `recognizer.Stop`, in a Respond that began in between and
sends its prompt to a full channel with a context nobody will cancel; and IceBreaking. An
obstacle counts only if it lasts for ever: a prompt channel that is full for a while
excuses nothing, and neither does a caller whose deadline passes while it holds the lock,
anywhere but in SetSpeechSource.

Fairness: `Progress` as above, the handler when the prompt channel has room, the
outbound loops; strong fairness where a `select` has an alternative that may be chosen
again and again, of the context in `inboundAudioLoop`, and of a cancelled event loop
between its callbacks. Feed returns with its context. Nothing is assumed of what waits
without a deadline: `Muted`, `Cancelled` and `IceBroken` get no fairness, `ResponderClosed`
only once the deadline has passed. Sessions need not connect or end, nor anybody call Run
or Close.
Deadlock is not checked: when both have returned, the system stops.

## What is proved

By TLAPS, for every value of the constants allowed by the named assumptions in the
modules (positive capacities, timers distinct from the other goroutines).

- `RecognizerProofs`: `TypeCorrect`; `NothingStranded`, through the stronger
  `ReleasePending` (pending callbacks end in the release: `calling # <<>>` alone would
  allow the last callback to be another one); `NoCallbackAfterStop`, through
  `StopWaitsForGroup` (the loop ends between callbacks); `DeliversInOrder`, the
  refinement of `UtteranceQueue`, through `PipelineInv`: the final transcripts in
  buffer, pump and channel are exactly the unhandled ones, in order. The last needs
  lemmas on what appending, moving and removing an event does to such a sequence.
- `ResponderProofs`: `TypeCorrect`; `OwnershipHolds`: if there is one creator
  (`OneCreator`, true of an agent without IceBreaking and of IceBreaking alone),
  `Ownership` is an invariant for any number of responses and timers, with Close. It
  contains three properties and what makes them inductive: a goroutine holds what it
  took only inside CancelResponse (`HoldsWhileCancelling`), a response has no context
  before CreateContext (`ContextsAreFresh`), and the creator finds the fields it sets
  still cleared (`FieldsAreClear`). `NothingOrphaned`, `AllAwaited` and
  `WaitsForCancelled` follow. `OneSpeaks` needs more, `LastIsAwaited`: the wait group in
  the field, or in a creator's hand, is that of the last response with a context.
  `ListensBetween` is inductive by itself, over `HistorySpec`, for brains that may call
  SetInterruptible whenever they run and for creators that may race. The steps need no more than that creators take
  turns (`TakeTurns`), so that the same holds of two creators that do not race
  (`AlternateOwns`, `AlternateSpeaks`, of `AlternateSpec`, which the run checks);
  `responder_ice_race` shows what happens when they do. `SpeakerHeard` is about the
  command channel: the source that is last in it is that of the response that speaks.
  `HeardInv` says why, while no timer has fired: the handler and IceBreaking are the only
  ones that mute (`Bystanders`), when they do nothing is live (`NothingToTake`), and no
  forwarder announces beside that of the last response (`UserAwaitsLast`,
  `StreamsAreFresh`).
- `MixerProofs`: `SilencedStaySilent`, through `SilenceInv`: samples of a muted response
  are in the buffer only while a command is on its way, which empties it, and its frames
  are not read because its context is done. `SpeechStaysInOrder`, through `OrderInv`:
  what has been put out, is being mixed and is buffered is one chain of samples; the
  next frame of the present source continues it (`SourceJoins`) and each source in the
  commands is later than what is in the chain and has not been read (`CommandsFollow`).
  A frame given up after Close breaks the chain, after which nothing is put out
  (`NothingMore`). `InvHolds`: the capacities, and no track is lost between AddTrack, the
  channel and the pass of a tick over the tracks, which removes those that have ended
  while it goes over them.
- `GoogleSynthesizerProofs`: `TextIsKept`, through lemmas on cutting and joining the
  gathered text; `HeardStaysInOrder` and `IsSpokenToTheEnd`, through `HeardHolds`: what
  was played, is in a frame and is on its way is in the order of what was sent, and while
  no stream has ended all that was sent is among it.
- `SynthesizersProofs`, of Deepgram's synthesizer: `DeepgramInvHolds`, an invariant in two
  parts. In every state: `client` and `callback` are of one connection unless they are
  nil (`Connections`), a connection carries audio that the response in its session may be
  given (`Deliverable`), or that the next one may (`Inheritable`), and what is left
  behind between responses is nothing when the last was not interrupted
  (`CleanBetween`). While no connection has ended: the wire alternates between a sentence
  and its acknowledgement, and `Account` relates what is on the wire, in the callback's
  hand and in `flushedCh` to `pendingFlushes` and to the sentences that were spoken and
  heard, so that Synthesize, which leaves when the acknowledgements are in, has been
  given all the audio. `InvHolds`, `DeepgramSpeaksToTheEnd` and `DeepgramCrashes` follow.
  `EitherIsSafe`, `TextStaysKept`, `EitherSpeaksToTheEnd` and `EitherCrashes` state them
  of the specification that the run checks, which implements both (`EitherIsDeepgram`,
  `EitherIsGoogle`).
- `TranscriberProofs`: `TypeCorrect`; `SessionHolds`, the inductive invariant of a
  session (loops run only under streamLoop, a connection ends with its loops, a
  connection that brought nothing is counted); from it `SendsAreSafe`,
  `ConnectionsDoNotStay`, `TranscriptsAreOwn` and `GivesUp`.
- `WebRTCSessionProofs`: `TypeCorrect`; `ClosingHolds`: one goroutine at a time is
  inside `once.Do`, and what it has passed is done; from it `ReturnedIsClosed`,
  `ReadersWaitedFor` and `ImplementsPort`, each step a step of the port or none (its
  fairness is model-checked).
- `SessionAgentProofs`: `StoppingHolds`: Run, Close and Stop go on in one order, and one
  caller holds the lock from the first to the last step of Stop; from it `StopEnds` and
  `NothingLeft`, which says of Run alone that its loops and the agent it started have
  ended, and of Run and Close together that the session has.

Every invariant that a passing run checks, and the safety part of the refinements, is a theorem
under the hypotheses above. Model-checked only: liveness, outside the prover's
reach, as is fairness. These are `EventuallyRecognized`, `FailureReported`, `StopReturns`,
`HandlerReturns`, `CancelledFallsSilent`, `CloseReturns`, `EitherCancelledReturns`,
`EitherFinishedReturns`, `HeardOut`, `CloseEnds`, `DeathNoticed`, `EndsForGood`,
`RunReturns`, `PromptsAreTaken` and the fairness that `KeepsPort` includes. What `Responder`
assumes of the return of a synthesizer rests on these runs.

## Findings

`responder_ice_race`, `responder_close_stuck` and `transcriber_gives_up` contradict what
the repository's tests expect; PROJECT.json quotes the lines.

## Not modelled

- The token bucket: floating-point time on one sender's goroutine, used only with
  pacing, which SessionAgent does not ask for.
- The audio sender's encode buffer and `SileroVAD`'s framing and silence counter:
  sequential loops over the samples of a frame under one lock.
- The values of the mixer's samples (volume, ducking, clamping), the pure functions of
  `audio` and `helper`.
- The generated mocks and the option builders, which have no behaviour to model.

What brains, remote services and codecs compute is left out: they are environments.
