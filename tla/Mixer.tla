-------------------------------- MODULE Mixer --------------------------------
(***************************************************************************)
(* dialog.mixer, sample by sample: one goroutine, Run, mixes the samples   *)
(* of the present speech source with the background tracks and sends one   *)
(* frame per tick.  Sources and tracks reach it over channels (cmdCh,      *)
(* trackCh, and the source's own), which it reads at certain moments only. *)
(*                                                                         *)
(* A response is a number; it is the source it announces and the context   *)
(* its frames carry.  A sample of speech is its response and its place in  *)
(* it, a sample of a track its place in the wave.  What adding, ducking    *)
(* and clamping do to the values is left out.  StopAllTracks, which        *)
(* nothing calls, is left out too.                                         *)
(***************************************************************************)
EXTENDS Naturals, Sequences, SequencesExt, FiniteSetsExt

CONSTANTS
  MaxResponses,   \* bound: the responses
  MaxFrames,      \* bound: frames of a response
  Loads,          \* bound: the combinations of responses, frames and tracks
  FrameLen,       \* samples in a frame of speech
  SamplesPerTick,
  Tracks, Looping,   \* the tracks that may be added, those with the option loop
  WaveLen,        \* samples of a wave
  InCap, CmdCap, TrackCap, OutCap   \* capacities of mixerIn, cmdCh, trackCh, out

ASSUME TracksAssumption == Looping \subseteq Tracks
ASSUME LoadsAssumption ==
  Loads \subseteq [responses : 0 .. MaxResponses, frames : 0 .. MaxFrames, tracks : SUBSET Tracks]
ASSUME BoundsAssumption ==
  /\ MaxResponses \in Nat /\ MaxFrames \in Nat /\ FrameLen \in Nat \ {0}
  /\ SamplesPerTick \in Nat \ {0} /\ WaveLen \in Nat \ {0}
  /\ {InCap, CmdCap, TrackCap, OutCap} \subseteq Nat \ {0}

Responses == 1 .. MaxResponses

VARIABLES
  \* the mixer
  at,              \* where Run is
  speechCh, speechSampleBuf, tracks, position,
  trackCh, cmdCh,  \* a command is the source it sets, 0 is nil
  done,            \* m.ctx is cancelled
  \* the frame being mixed
  speech, heard,   \* its speech; for each track in it, the places in the wave
  todo,            \* the tracks not yet looked at
  out,             \* how many frames are in the channel out
  \* the responses and their goroutines
  mixerIn, ended,  \* the channel, by its frames' numbers; it is closed
  sent,            \* frames sent, 0 before the source is announced
  announced, ctxDone, muted,   \* the source was announced, the context cancelled, and nil announced
  \* the tracks and their owners
  added, stopped,
  \* history
  said,            \* the speech put out
  deaf, silent     \* the responses muted and the tracks stopped when the tick began

srcVars   == <<mixerIn, ended, sent, announced, ctxDone, muted>>
ownVars   == <<added, stopped>>
frameVars == <<speech, heard, todo>>
histVars  == <<said, deaf, silent>>
vars == <<at, speechCh, speechSampleBuf, tracks, position, trackCh, cmdCh, done, frameVars, out,
          srcVars, ownVars, histVars>>

Init ==
  /\ at = "loop" /\ speechCh = 0 /\ speechSampleBuf = <<>> /\ tracks = <<>>
  /\ position = [t \in Tracks |-> 0] /\ trackCh = <<>> /\ cmdCh = <<>> /\ done = FALSE
  /\ speech = <<>> /\ heard = [t \in Tracks |-> <<>>] /\ todo = <<>> /\ out = 0
  /\ mixerIn = [r \in Responses |-> <<>>] /\ ended = [r \in Responses |-> FALSE]
  /\ sent = [r \in Responses |-> 0] /\ announced = [r \in Responses |-> FALSE]
  /\ ctxDone = [r \in Responses |-> FALSE] /\ muted = [r \in Responses |-> FALSE]
  /\ added = {} /\ stopped = {}
  /\ said = <<>> /\ deaf = {} /\ silent = {}

(***************************************************************************)
(* Run                                                                     *)
(***************************************************************************)
OthersUnchanged == UNCHANGED <<srcVars, ownVars>>

\* The samples that frames add to the buffer: the frames in a channel follow each other.
Samples(r, frames) ==
  [i \in 1 .. Len(frames) * FrameLen |-> <<r, (frames[1] - 1) * FrameLen + i>>]

\* Mutant: what was buffered of the old source is kept.
HandleCmdsKeeps(cmds) ==
  /\ speechCh' = IF cmds = <<>> THEN speechCh ELSE cmds[Len(cmds)]
  /\ UNCHANGED speechSampleBuf

\* handleCmd, for each of the commands: the last source is taken and, if there is a
\* command, what was buffered is dropped.
HandleCmds(cmds) ==
  IF cmds = <<>> THEN UNCHANGED <<speechCh, speechSampleBuf>>
  ELSE speechCh' = cmds[Len(cmds)] /\ speechSampleBuf' = <<>>

\* The loop's top: the context, new tracks, and what to wait for.
Loop ==
  /\ at = "loop"
  /\ IF done THEN at' = "done" /\ UNCHANGED <<tracks, trackCh>>
     ELSE /\ tracks' = tracks \o trackCh /\ trackCh' = <<>>
          /\ at' = IF speechCh # 0 \/ speechSampleBuf # <<>> THEN "speechActive"
                   ELSE IF tracks' # <<>> THEN "bgOnly" ELSE "idle"
  /\ UNCHANGED <<speechCh, speechSampleBuf, position, cmdCh, done, frameVars, out, histVars>>
  /\ OthersUnchanged

CtxDone ==
  /\ at \in {"speechActive", "bgOnly", "idle"} /\ done
  /\ at' = "loop"
  /\ UNCHANGED <<speechCh, speechSampleBuf, tracks, position, trackCh, cmdCh, done, frameVars,
                 out, histVars>>
  /\ OthersUnchanged

\* runIdle takes one command or one track.
Idle ==
  /\ at = "idle" /\ at' = "loop"
  /\ \/ /\ cmdCh # <<>> /\ HandleCmds(<<Head(cmdCh)>>) /\ cmdCh' = Tail(cmdCh)
        /\ UNCHANGED <<tracks, trackCh>>
     \/ /\ trackCh # <<>> /\ tracks' = Append(tracks, Head(trackCh))
        /\ trackCh' = Tail(trackCh)
        /\ UNCHANGED <<cmdCh, speechCh, speechSampleBuf>>
  /\ UNCHANGED <<position, done, frameVars, out, histVars>> /\ OthersUnchanged

\* The timer of runSpeechActive: drainSpeechFrames, with the frames whose context is
\* done left out, until the channel is empty or closed.
SpeechTick ==
  /\ at = "speechActive" /\ ~done
  /\ at' = "commands"
  /\ deaf' = {r \in Responses : muted[r]} /\ silent' = stopped
  /\ IF speechCh = 0 THEN UNCHANGED <<speechCh, speechSampleBuf, mixerIn>>
     ELSE LET live == IF ctxDone[speechCh] THEN <<>> ELSE mixerIn[speechCh] IN
          /\ speechSampleBuf' = speechSampleBuf \o Samples(speechCh, live)
          /\ mixerIn' = [mixerIn EXCEPT ![speechCh] = <<>>]
          /\ speechCh' = IF ended[speechCh] THEN 0 ELSE speechCh
  /\ UNCHANGED <<tracks, position, trackCh, cmdCh, done, frameVars, out, said, ended, sent,
                 announced, ctxDone, muted, ownVars>>

\* The timer of runBGOnly.
BGTick ==
  /\ at = "bgOnly" /\ ~done
  /\ at' = "bgCommands"
  /\ deaf' = {r \in Responses : muted[r]} /\ silent' = stopped
  /\ UNCHANGED <<speechCh, speechSampleBuf, tracks, position, trackCh, cmdCh, done, frameVars,
                 out, said>>
  /\ OthersUnchanged

DrainCommands ==
  /\ at \in {"commands", "bgCommands"}
  /\ at' = IF at = "commands" THEN "collect" ELSE "bgCollect"
  /\ HandleCmds(cmdCh) /\ cmdCh' = <<>>
  /\ UNCHANGED <<tracks, position, trackCh, done, frameVars, out, histVars>>
  /\ OthersUnchanged

\* Mutant: a rest shorter than a tick stays.
TakenNoRest(n) == IF at = "collect" /\ n >= SamplesPerTick THEN SamplesPerTick ELSE 0

\* How many of n buffered samples the frame takes: a whole tick's, or the rest of a source
\* that has ended, or none.
Taken(n) ==
  IF at = "bgCollect" THEN 0
  ELSE IF n >= SamplesPerTick THEN SamplesPerTick
  ELSE IF speechCh = 0 THEN n ELSE 0

\* Mutant: one sample more is dropped.
RestSkips(taken) == SubSeq(speechSampleBuf, taken + 2, Len(speechSampleBuf))

Rest(taken) == SubSeq(speechSampleBuf, taken + 1, Len(speechSampleBuf))

\* collectNewTracks, and the speech of the frame.  Without speech and without a source
\* that could still bring some there is no frame.
CollectTracks ==
  /\ at \in {"collect", "bgCollect"}
  /\ tracks' = tracks \o trackCh /\ trackCh' = <<>>
  /\ LET taken == Taken(Len(speechSampleBuf)) IN
       /\ speech' = SubSeq(speechSampleBuf, 1, taken)
       /\ speechSampleBuf' = Rest(taken)
       /\ IF at = "collect" /\ taken = 0 /\ speechCh = 0
            THEN at' = "loop" /\ todo' = <<>>
            ELSE at' = "mix" /\ todo' = tracks'
  /\ UNCHANGED <<speechCh, position, cmdCh, done, heard, out, histVars>> /\ OthersUnchanged

\* readTrackSamples: the places in the wave of the next n samples, from the beginning
\* again for a looping track; fewer if the wave of another one ends.
Read(t, n) ==
  IF t \in Looping THEN [i \in 1 .. n |-> ((position[t] + i - 1) % WaveLen) + 1]
  ELSE [i \in 1 .. Min({n, WaveLen - position[t]}) |-> position[t] + i]

Length == IF speech = <<>> THEN SamplesPerTick ELSE Len(speech)

\* Mutant: a looping track is removed at the end of its wave.
OverAnyway(t, end) == end >= WaveLen

\* The track has been read to its end.
Over(t, end) == end >= WaveLen /\ t \notin Looping

\* mixTracks, one track: a stopped one and one that is over are not kept.
MixTrack ==
  /\ at = "mix" /\ todo # <<>> /\ todo' = Tail(todo)
  /\ LET t == Head(todo)
         others == RemoveAt(tracks, Len(tracks) - Len(todo) + 1)
         samples == Read(t, Length)
         end == IF samples = <<>> THEN position[t] ELSE Last(samples)
     IN  IF t \in stopped THEN tracks' = others /\ UNCHANGED <<heard, position>>
         ELSE /\ heard' = [heard EXCEPT ![t] = samples]
              /\ position' = [position EXCEPT ![t] = end]
              /\ tracks' = IF Over(t, end) THEN others ELSE tracks
  /\ UNCHANGED <<at, speechCh, speechSampleBuf, trackCh, cmdCh, done, speech, out, histVars>>
  /\ OthersUnchanged

\* Mutant: it waits for room whatever happens.
SendFrameDeaf ==
  /\ at = "mix" /\ todo = <<>> /\ out < OutCap
  /\ at' = "loop" /\ out' = out + 1 /\ said' = said \o speech
  /\ speech' = <<>> /\ heard' = [t \in Tracks |-> <<>>]
  /\ UNCHANGED <<speechCh, speechSampleBuf, tracks, position, trackCh, cmdCh, done, todo, deaf,
                 silent>>
  /\ OthersUnchanged

\* sendFrame waits for room or gives the frame up with the mixer.
SendFrame ==
  /\ at = "mix" /\ todo = <<>>
  /\ at' = "loop"
  /\ \/ /\ out < OutCap /\ out' = out + 1
        /\ said' = said \o speech
     \/ done /\ UNCHANGED <<out, said>>
  /\ speech' = <<>> /\ heard' = [t \in Tracks |-> <<>>]
  /\ UNCHANGED <<speechCh, speechSampleBuf, tracks, position, trackCh, cmdCh, done, todo, deaf,
                 silent>>
  /\ OthersUnchanged

(***************************************************************************)
(* The callers: the responder's goroutines, the owners of tracks, the      *)
(* reader                                                                  *)
(***************************************************************************)
RunUnchanged ==
  UNCHANGED <<at, speechCh, speechSampleBuf, tracks, position, frameVars, histVars>>

\* SetSpeechSource waits for room or gives up with the mixer.
SetSpeechSource(r) ==
  \/ Len(cmdCh) < CmdCap /\ cmdCh' = Append(cmdCh, r)
  \/ done /\ UNCHANGED cmdCh

\* Respond has cancelled the previous response and waited for its goroutines.
Begun(r) == r > 1 => muted[r - 1] /\ ended[r - 1]

\* Some load admits what has been sent and added.
WithinLoads ==
  \E load \in Loads :
    /\ \A r \in Responses : announced[r] \/ ended[r] \/ ctxDone[r] => r <= load.responses
    /\ \A r \in Responses : sent[r] <= load.frames
    /\ added \subseteq load.tracks

\* forwardSynthToMixer announces a response before its first frame; it may have looked
\* at the context before it was cancelled.
Announce(r) ==
  /\ Begun(r) /\ ~announced[r] /\ ~ended[r]
  /\ announced' = [announced EXCEPT ![r] = TRUE]
  /\ SetSpeechSource(r)
  /\ UNCHANGED <<trackCh, done, out, mixerIn, ended, sent, ctxDone, muted, ownVars>>
  /\ RunUnchanged /\ WithinLoads'

SendSpeech(r) ==
  /\ announced[r] /\ ~ended[r] /\ sent[r] < MaxFrames /\ Len(mixerIn[r]) < InCap
  /\ sent' = [sent EXCEPT ![r] = @ + 1]
  /\ mixerIn' = [mixerIn EXCEPT ![r] = Append(@, sent[r] + 1)]
  /\ UNCHANGED <<trackCh, cmdCh, done, out, ended, announced, ctxDone, muted, ownVars>>
  /\ RunUnchanged /\ WithinLoads'

EndSpeech(r) ==
  /\ Begun(r) /\ ~ended[r] /\ (sent[r] > 0 \/ ctxDone[r])
  /\ ended' = [ended EXCEPT ![r] = TRUE]
  /\ UNCHANGED <<trackCh, cmdCh, done, out, mixerIn, sent, announced, ctxDone, muted, ownVars>>
  /\ RunUnchanged /\ WithinLoads'

\* CancelResponse: first the context, then the source.
CancelContext(r) ==
  /\ ~ctxDone[r] /\ Begun(r)
  /\ ctxDone' = [ctxDone EXCEPT ![r] = TRUE]
  /\ UNCHANGED <<trackCh, cmdCh, done, out, mixerIn, ended, sent, announced, muted, ownVars>>
  /\ RunUnchanged /\ WithinLoads'

Mute(r) ==
  /\ ctxDone[r] /\ ~muted[r]
  /\ muted' = [muted EXCEPT ![r] = TRUE]
  /\ SetSpeechSource(0)
  /\ UNCHANGED <<trackCh, done, out, mixerIn, ended, sent, announced, ctxDone, ownVars>>
  /\ RunUnchanged

\* AddTrack waits for room; given up with the mixer, it returns no track.
AddTrack(t) ==
  /\ t \notin added /\ Len(trackCh) < TrackCap
  /\ added' = added \cup {t} /\ trackCh' = Append(trackCh, t)
  /\ UNCHANGED <<cmdCh, done, out, srcVars, stopped>>
  /\ RunUnchanged /\ WithinLoads'

StopTrack(t) ==
  /\ t \in added \ stopped
  /\ stopped' = stopped \cup {t}
  /\ UNCHANGED <<trackCh, cmdCh, done, out, srcVars, added>> /\ RunUnchanged

Close ==
  /\ ~done /\ done' = TRUE
  /\ UNCHANGED <<trackCh, cmdCh, out, srcVars, ownVars>> /\ RunUnchanged

\* consumeAudios takes a frame for its subscribers; it need not once Close has begun.
ReadFrame ==
  /\ out > 0 /\ out' = out - 1
  /\ UNCHANGED <<trackCh, cmdCh, done, srcVars, ownVars>> /\ RunUnchanged

Terminated ==
  /\ at = "done" /\ UNCHANGED vars

Run ==
  \/ Loop \/ CtxDone \/ Idle \/ SpeechTick \/ BGTick \/ DrainCommands \/ CollectTracks
  \/ MixTrack \/ SendFrame
Speaker(r) ==
  Announce(r) \/ SendSpeech(r) \/ EndSpeech(r) \/ CancelContext(r) \/ Mute(r)

Next ==
  \/ Run \/ \E r \in Responses : Speaker(r)
  \/ \E t \in Tracks : AddTrack(t) \/ StopTrack(t)
  \/ Close \/ ReadFrame \/ Terminated

Spec == Init /\ [][Next]_vars

\* The mixer runs, its timer fires, and frames are read until Close.
FairSpec == Spec /\ WF_vars(Run) /\ WF_vars(ReadFrame /\ ~done)

(***************************************************************************)
(* Properties                                                              *)
(***************************************************************************)
\* Type invariant, with the capacities of the channels.
TypeOK ==
  /\ at \in {"loop", "idle", "speechActive", "bgOnly", "commands", "bgCommands", "collect",
             "bgCollect", "mix", "done"}
  /\ speechCh \in Responses \cup {0} /\ speechSampleBuf \in Seq(Responses \X (Nat \ {0}))
  /\ tracks \in Seq(Tracks) /\ position \in [Tracks -> 0 .. WaveLen]
  /\ cmdCh \in Seq(Responses \cup {0}) /\ Len(cmdCh) <= CmdCap
  /\ trackCh \in Seq(Tracks) /\ Len(trackCh) <= TrackCap
  /\ speech \in Seq(Responses \X (Nat \ {0})) /\ Len(speech) <= SamplesPerTick
  /\ heard \in [Tracks -> Seq(1 .. WaveLen)] /\ todo \in Seq(Tracks)
  /\ out \in 0 .. OutCap
  /\ \A r \in Responses : mixerIn[r] \in Seq(1 .. MaxFrames) /\ Len(mixerIn[r]) <= InCap
  /\ sent \in [Responses -> 0 .. MaxFrames]
  /\ {ended, announced, ctxDone, muted} \subseteq [Responses -> BOOLEAN]
  /\ {added, stopped, silent} \subseteq SUBSET Tracks /\ deaf \subseteq Responses
  /\ done \in BOOLEAN
  /\ said \in Seq(Responses \X (Nat \ {0}))

\* The speech put out is, response after response, the samples sent, from the first one
\* on and with no gap, repetition or way back to an earlier response: whatever the length
\* of frames and ticks, underflows and changes of source in between.
SpeechInOrder ==
  \A i \in DOMAIN said :
    \/ i > 1 /\ said[i] = <<said[i - 1][1], said[i - 1][2] + 1>>
    \/ said[i][2] = 1 /\ (i = 1 \/ said[i - 1][1] < said[i][1])

\* A tick that begins after CancelResponse has muted a response mixes none of its
\* samples, although its frames may be in the mixer's buffer and in its channel, and its
\* source be announced after that.
CancelledNotHeard == \A i \in DOMAIN speech : speech[i][1] \notin deaf

\* Nor does it mix a track whose Stop has returned.
StoppedNotHeard == \A t \in silent : heard[t] = <<>>

\* What was muted or stopped is not heard any more.
SilencedNotHeard == CancelledNotHeard /\ StoppedNotHeard

\* A track that AddTrack has returned is waiting or played until it is stopped or its
\* wave has ended; a looping one for ever.
NoTrackLost ==
  \A t \in added \ stopped :
    \/ t \in ToSet(tracks) \cup ToSet(trackCh)
    \/ t \notin Looping /\ position[t] = WaveLen

\* The safety of every state: the types, and that no track is lost.
Inv == TypeOK /\ NoTrackLost

\* A response that ends and is not interrupted is put out to its last sample.
SpeechHeardOut ==
  \A r \in Responses :
    (announced[r] /\ ended[r] /\ ~ctxDone[r]) ~>
      (ctxDone[r] \/ done \/ <<r, sent[r] * FrameLen>> \in ToSet(said))

\* A track is played to the end of its wave, whatever the mixer was doing when it came.
TrackHeardOut ==
  \A t \in Tracks :
    t \in added ~> (t \in stopped \/ done \/ position[t] = WaveLen)

\* Nothing that is not interrupted is cut off.
HeardOut == SpeechHeardOut /\ TrackHeardOut

\* Run ends after Close, also when nobody reads the frames.
CloseEnds == done ~> at = "done"
=============================================================================
