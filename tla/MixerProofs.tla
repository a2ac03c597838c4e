----------------------------- MODULE MixerProofs -----------------------------
(***************************************************************************)
(* Mixer, for every number of responses and frames, every length of frames *)
(* and ticks, every set of tracks and capacity: what was muted or stopped  *)
(* is not heard in a tick that begins later, the speech is put out in      *)
(* order, without a gap or a repetition, the channels keep within their    *)
(* capacities, and no background track that was added is lost.             *)
(***************************************************************************)
EXTENDS Mixer, SequenceTheorems, TLAPS

USE DEF srcVars, ownVars, frameVars, histVars, OthersUnchanged, RunUnchanged

Sample == Responses \X (Nat \ {0})

\* What a command may set.
Sources == Responses \cup {0}

\* The parts of the type invariant that the speech depends on.
SpeechTypes ==
  /\ at \in {"loop", "idle", "speechActive", "bgOnly", "commands", "bgCommands", "collect",
             "bgCollect", "mix", "done"}
  /\ done \in BOOLEAN
  /\ speechCh \in Sources /\ cmdCh \in Seq(Sources)
  /\ speechSampleBuf \in Seq(Sample) /\ speech \in Seq(Sample)
  /\ sent \in [Responses -> Nat] /\ mixerIn \in [Responses -> Seq(Nat \ {0})]
  /\ ended \in [Responses -> BOOLEAN] /\ announced \in [Responses -> BOOLEAN]
  /\ ctxDone \in [Responses -> BOOLEAN] /\ muted \in [Responses -> BOOLEAN]
  /\ deaf \subseteq Responses

\* Samples of a response are in the buffer.
Buffered(r) == \E i \in 1 .. Len(speechSampleBuf) : speechSampleBuf[i][1] = r

(***************************************************************************)
(* Types                                                                   *)
(***************************************************************************)
\* The samples of frames are samples of their response.
LEMMA SamplesType ==
  ASSUME NEW r \in Responses, NEW frames \in Seq(Nat \ {0})
  PROVE  /\ Samples(r, frames) \in Seq(Sample)
         /\ Len(Samples(r, frames)) = Len(frames) * FrameLen
         /\ \A i \in 1 .. Len(Samples(r, frames)) :
              Samples(r, frames)[i] = <<r, (frames[1] - 1) * FrameLen + i>>
<1> DEFINE n == Len(frames) * FrameLen
           k == (frames[1] - 1) * FrameLen
<1>1. n \in Nat BY BoundsAssumption
<1>2. CASE n = 0
  BY <1>2 DEF Samples
<1>3. CASE n > 0
  <2>1. Len(frames) > 0
    <3>1. Len(frames) \in Nat OBVIOUS
    <3>2. Len(frames) = 0 => n = 0 BY BoundsAssumption
    <3> QED BY <1>3, <3>1, <3>2
  <2>2. frames[1] \in Nat \ {0} BY <2>1
  <2>3. k \in Nat BY <2>2, BoundsAssumption
  <2> HIDE DEF k, n
  <2>4. \A i \in 1 .. n : <<r, k + i>> \in Sample BY <1>1, <2>3 DEF Sample
  <2>5. Samples(r, frames) = [i \in 1 .. n |-> <<r, k + i>>] BY DEF Samples, k, n
  <2>6. Samples(r, frames) \in Seq(Sample) /\ Len(Samples(r, frames)) = n
    BY <1>1, <2>4, <2>5
  <2> QED BY <2>5, <2>6 DEF k, n
<1> QED BY <1>1, <1>2, <1>3

\* Initially.
LEMMA InitTypes == Init => SpeechTypes
<1> SUFFICES ASSUME Init PROVE SpeechTypes
  OBVIOUS
<1>1. <<>> \in Seq(Sources) /\ <<>> \in Seq(Sample) /\ <<>> \in Seq(Nat \ {0}) BY EmptySeq
<1>2. mixerIn \in [Responses -> Seq(Nat \ {0})] BY <1>1 DEF Init
<1> QED BY <1>1, <1>2 DEF Init, SpeechTypes, Sources

\* What commands leave behind.
LEMMA CommandsTypes ==
  ASSUME SpeechTypes, NEW cmds \in Seq(Sources), HandleCmds(cmds)
  PROVE  speechCh' \in Sources /\ speechSampleBuf' \in Seq(Sample)
<1>1. CASE cmds = <<>> BY <1>1 DEF HandleCmds, SpeechTypes
<1>2. CASE cmds # <<>>
  <2>1. Len(cmds) \in Nat \ {0} BY <1>2, EmptySeq
  <2>2. cmds[Len(cmds)] \in Sources BY <2>1, ElementOfSeq
  <2>3. <<>> \in Seq(Sample) BY EmptySeq
  <2> QED BY <1>2, <2>2, <2>3 DEF HandleCmds
<1> QED BY <1>1, <1>2

\* A frame takes a beginning of the buffer.
LEMMA CollectSplits ==
  ASSUME SpeechTypes, CollectTracks
  PROVE  /\ speech' \in Seq(Sample) /\ speechSampleBuf' \in Seq(Sample)
         /\ speech' \o speechSampleBuf' = speechSampleBuf
         /\ at' # "mix" => speech' = <<>>
<1> DEFINE s == speechSampleBuf
           n == Taken(Len(s))
<1>1. s \in Seq(Sample) /\ Len(s) \in Nat BY LenProperties DEF SpeechTypes
<1>2. n \in 0 .. Len(s)
  <2> HIDE DEF s
  <2> QED BY <1>1, BoundsAssumption DEF Taken
<1>3. speech' = SubSeq(s, 1, n) /\ s' = SubSeq(s, n + 1, Len(s))
  BY DEF CollectTracks, Rest
<1>4. at' # "mix" => n = 0 BY DEF CollectTracks
<1> HIDE DEF s, n
<1>5. \A i \in 1 .. Len(s) : s[i] \in Sample BY <1>1, ElementOfSeq
<1>6. SubSeq(s, 1, n) \in Seq(Sample) BY <1>1, <1>2, <1>5, SubSeqProperties
<1>7. SubSeq(s, n + 1, Len(s)) \in Seq(Sample) BY <1>1, <1>2, <1>5, SubSeqProperties
<1>8. SubSeq(s, 1, n) \o SubSeq(s, n + 1, Len(s)) = SubSeq(s, 1, Len(s))
  <2>1. /\ 1 \in 1 .. Len(s) + 1 /\ n \in 1 - 1 .. Len(s) /\ Len(s) \in n .. Len(s)
    BY <1>1, <1>2
  <2> QED BY <1>1, <2>1, ConcatAdjacentSubSeq
<1>9. SubSeq(s, 1, Len(s)) = s BY <1>1, SubSeqFull
<1>10. n = 0 => SubSeq(s, 1, n) = <<>> BY SubSeqEmpty
<1> QED BY <1>3, <1>4, <1>6, <1>7, <1>8, <1>9, <1>10 DEF s

\* The steps of the mixer keep the types.
LEMMA RunTypes == SpeechTypes /\ Run => SpeechTypes'
<1> SUFFICES ASSUME SpeechTypes, Run PROVE SpeechTypes'
  OBVIOUS
<1> USE DEF SpeechTypes
<1>1. CASE Loop
  <2>1. at' \in {"done", "speechActive", "bgOnly", "idle"} BY <1>1 DEF Loop
  <2> QED BY <1>1, <2>1 DEF Loop
<1>2. CASE CtxDone
  BY <1>2 DEF CtxDone
<1>3. CASE Idle
  <2>1. CASE cmdCh # <<>> /\ HandleCmds(<<Head(cmdCh)>>) /\ cmdCh' = Tail(cmdCh)
    <3>1. Head(cmdCh) \in Sources /\ cmdCh' \in Seq(Sources) BY <2>1, HeadTailProperties
    <3>2. <<Head(cmdCh)>> \in Seq(Sources) BY <3>1
    <3>3. speechCh' \in Sources /\ speechSampleBuf' \in Seq(Sample)
      BY <2>1, <3>2, CommandsTypes
    <3> QED BY <1>3, <3>1, <3>3 DEF Idle
  <2>2. CASE UNCHANGED <<cmdCh, speechCh, speechSampleBuf>>
    BY <1>3, <2>2 DEF Idle
  <2> QED BY <1>3, <2>1, <2>2 DEF Idle
<1>4. CASE SpeechTick
  <2>1. CASE speechCh = 0
    BY <1>4, <2>1 DEF SpeechTick
  <2>2. CASE speechCh # 0
    <3> DEFINE live == IF ctxDone[speechCh] THEN <<>> ELSE mixerIn[speechCh]
    <3>1. speechCh \in Responses /\ live \in Seq(Nat \ {0}) BY <2>2, EmptySeq DEF Sources
    <3>2. Samples(speechCh, live) \in Seq(Sample) BY <3>1, SamplesType
    <3>3. speechSampleBuf' = speechSampleBuf \o Samples(speechCh, live)
      BY <1>4, <2>2 DEF SpeechTick
    <3>4. speechSampleBuf' \in Seq(Sample) BY <3>2, <3>3, ConcatProperties
    <3>5. mixerIn' \in [Responses -> Seq(Nat \ {0})] BY <1>4, <2>2, EmptySeq DEF SpeechTick
    <3>6. speechCh' \in Sources BY <1>4, <2>2 DEF SpeechTick, Sources
    <3> QED BY <1>4, <2>2, <3>4, <3>5, <3>6 DEF SpeechTick
  <2> QED BY <2>1, <2>2
<1>5. CASE BGTick
  BY <1>5 DEF BGTick
<1>6. CASE DrainCommands
  <2>1. speechCh' \in Sources /\ speechSampleBuf' \in Seq(Sample)
    BY <1>6, CommandsTypes DEF DrainCommands
  <2> QED BY <1>6, <2>1 DEF DrainCommands
<1>7. CASE CollectTracks
  <2>1. speech' \in Seq(Sample) /\ speechSampleBuf' \in Seq(Sample)
    BY <1>7, CollectSplits
  <2> QED BY <1>7, <2>1 DEF CollectTracks
<1>8. CASE MixTrack
  BY <1>8 DEF MixTrack
<1>9. CASE SendFrame
  BY <1>9 DEF SendFrame
<1> QED BY <1>1, <1>2, <1>3, <1>4, <1>5, <1>6, <1>7, <1>8, <1>9 DEF Run

\* A source is announced, or not, as the type of the channel demands.
LEMMA SourceType ==
  ASSUME SpeechTypes, NEW r \in Sources, SetSpeechSource(r)
  PROVE  cmdCh' \in Seq(Sources)
<1>1. cmdCh \in Seq(Sources) BY DEF SpeechTypes
<1>2. Append(cmdCh, r) \in Seq(Sources) BY <1>1, AppendProperties
<1> QED BY <1>1, <1>2 DEF SetSpeechSource

\* The steps of the callers keep the types.
LEMMA CallersTypes ==
  ASSUME SpeechTypes,
         \/ \E r \in Responses : Speaker(r)
         \/ \E t \in Tracks : AddTrack(t) \/ StopTrack(t)
         \/ Close \/ ReadFrame \/ UNCHANGED vars
  PROVE  SpeechTypes'
<1> USE DEF SpeechTypes
<1>1. ASSUME NEW r \in Responses, Announce(r) \/ Mute(r)
      PROVE  SpeechTypes'
  <2>1. SetSpeechSource(r) \/ SetSpeechSource(0) BY <1>1 DEF Announce, Mute
  <2>2. cmdCh' \in Seq(Sources) BY <2>1, SourceType DEF Sources
  <2> QED BY <1>1, <2>2 DEF Announce, Mute
<1>2. ASSUME NEW r \in Responses, SendSpeech(r)
      PROVE  SpeechTypes'
  <2>1. sent[r] \in Nat /\ mixerIn[r] \in Seq(Nat \ {0}) OBVIOUS
  <2>2. sent[r] + 1 \in Nat \ {0} BY <2>1
  <2>3. Append(mixerIn[r], sent[r] + 1) \in Seq(Nat \ {0}) BY <2>1, <2>2, AppendProperties
  <2>4. sent' = [sent EXCEPT ![r] = sent[r] + 1] /\ sent' \in [Responses -> Nat]
    BY <1>2, <2>2 DEF SendSpeech
  <2>5. mixerIn' \in [Responses -> Seq(Nat \ {0})] BY <1>2, <2>3 DEF SendSpeech
  <2> QED BY <1>2, <2>4, <2>5 DEF SendSpeech
<1>3. ASSUME NEW r \in Responses, EndSpeech(r) \/ CancelContext(r)
      PROVE  SpeechTypes'
  BY <1>3 DEF EndSpeech, CancelContext
<1>4. CASE (\E t \in Tracks : AddTrack(t) \/ StopTrack(t)) \/ Close \/ ReadFrame \/ UNCHANGED vars
  BY <1>4 DEF AddTrack, StopTrack, Close, ReadFrame, vars
<1> QED BY <1>1, <1>2, <1>3, <1>4 DEF Speaker

(***************************************************************************)
(* What was muted or stopped is not heard                                  *)
(***************************************************************************)
\* A track is mixed only between the collection of tracks and the sending of the frame.
OnlyMixed == at # "mix" => speech = <<>> /\ \A t \in Tracks : heard[t] = <<>>

\* Samples of a muted response stay in the buffer only until the next command, and there
\* is one: the one that muted it.
BufferWillGo ==
  \A r \in Responses :
    Buffered(r) =>
      /\ muted[r] => cmdCh # <<>> \/ done
      /\ at = "commands" /\ r \in deaf => cmdCh # <<>>
      /\ at = "collect" => r \notin deaf

SilenceInv ==
  /\ SpeechTypes /\ OnlyMixed /\ BufferWillGo
  /\ \A r \in Responses : muted[r] => ctxDone[r]
  /\ DOMAIN heard = Tracks /\ silent \subseteq stopped /\ stopped \subseteq Tracks
  /\ SilencedNotHeard

\* Nothing is buffered, mixed or muted.
LEMMA InitSilence == Init => SilenceInv
<1> SUFFICES ASSUME Init PROVE SilenceInv
  OBVIOUS
<1>1. SpeechTypes BY InitTypes
<1>2. \A r \in Responses : ~Buffered(r) BY EmptySeq DEF Init, Buffered
<1> QED BY <1>1, <1>2 DEF Init, SilenceInv, OnlyMixed, BufferWillGo, SilencedNotHeard,
                          CancelledNotHeard, StoppedNotHeard

\* After a command nothing is buffered, and without one nothing changes.
LEMMA CommandsClear ==
  ASSUME SpeechTypes, NEW cmds, HandleCmds(cmds)
  PROVE  \/ cmds = <<>> /\ speechSampleBuf' = speechSampleBuf
         \/ cmds # <<>> /\ \A r \in Responses : ~Buffered(r)'
<1>1. cmds # <<>> => Len(speechSampleBuf') = 0 BY EmptySeq DEF HandleCmds
<1> QED BY <1>1 DEF HandleCmds, Buffered

\* Which samples a tick adds to the buffer.
LEMMA TickBuffers ==
  ASSUME SilenceInv, SpeechTick, NEW r \in Responses, Buffered(r)'
  PROVE  Buffered(r) \/ ~muted[r]
<1> USE DEF SilenceInv, SpeechTypes
<1>1. CASE speechCh = 0
  BY <1>1 DEF SpeechTick, Buffered
<1>2. CASE speechCh # 0
  <2> DEFINE live == IF ctxDone[speechCh] THEN <<>> ELSE mixerIn[speechCh]
             new == Samples(speechCh, live)
             s == speechSampleBuf
  <2>1. speechCh \in Responses /\ live \in Seq(Nat \ {0}) BY <1>2, EmptySeq DEF Sources
  <2>2. new \in Seq(Sample) /\ \A i \in 1 .. Len(new) : new[i][1] = speechCh
    <3> HIDE DEF live
    <3>1. /\ new \in Seq(Sample)
          /\ \A i \in 1 .. Len(new) : new[i] = <<speechCh, (live[1] - 1) * FrameLen + i>>
      BY <2>1, SamplesType
    <3> QED BY <3>1
  <2>3. ctxDone[speechCh] => Len(new) = 0
    <3>1. ctxDone[speechCh] => Len(live) = 0 BY EmptySeq
    <3>2. Len(new) = Len(live) * FrameLen BY <2>1, SamplesType
    <3> QED BY <3>1, <3>2, BoundsAssumption
  <2>4. s' = s \o new BY <1>2 DEF SpeechTick
  <2>5. PICK i \in 1 .. Len(s') : s'[i][1] = r BY DEF Buffered
  <2>6. s \in Seq(Sample) OBVIOUS
  <2> HIDE DEF s, new, live
  <2>7. CASE i <= Len(s)
    <3>1. i \in 1 .. Len(s) /\ s[i] = s'[i] BY <2>2, <2>4, <2>6, <2>7, ConcatProperties
    <3> QED BY <2>5, <3>1 DEF Buffered, s
  <2>8. CASE i > Len(s)
    <3>1. i - Len(s) \in 1 .. Len(new) /\ new[i - Len(s)] = s'[i]
      BY <2>2, <2>4, <2>6, <2>8, ConcatProperties
    <3>2. r = speechCh BY <2>2, <2>5, <3>1
    <3>3. Len(new) # 0 BY <3>1, <2>2, LenProperties
    <3> QED BY <2>3, <3>2, <3>3
  <2> QED BY <2>6, <2>7, <2>8, <2>2, LenProperties
<1> QED BY <1>1, <1>2

\* The steps of the mixer.
LEMMA RunSilence == SilenceInv /\ Run => SilenceInv'
<1> SUFFICES ASSUME SilenceInv, Run PROVE SilenceInv'
  OBVIOUS
<1> USE DEF SilenceInv
<1>1. SpeechTypes' BY RunTypes
<1>2. UNCHANGED <<muted, ctxDone, stopped>> \* they are the callers'
  BY DEF Run, Loop, CtxDone, Idle, SpeechTick, BGTick, DrainCommands, CollectTracks, MixTrack,
         SendFrame
<1>3. CASE Loop \/ CtxDone
  <2>1. /\ UNCHANGED <<speechSampleBuf, cmdCh, done, speech, heard, deaf, silent>>
        /\ at # "mix" /\ at' \notin {"commands", "collect", "mix"}
    BY <1>3 DEF Loop, CtxDone
  <2>2. BufferWillGo' BY <1>2, <2>1 DEF BufferWillGo, Buffered
  <2>3. OnlyMixed' BY <2>1 DEF OnlyMixed
  <2>4. SilencedNotHeard' BY <2>1 DEF SilencedNotHeard, CancelledNotHeard, StoppedNotHeard
  <2> QED BY <1>1, <1>2, <2>1, <2>2, <2>3, <2>4
<1>4. CASE Idle
  <2>1. /\ UNCHANGED <<done, speech, heard, deaf, silent>> /\ at = "idle" /\ at' = "loop"
    BY <1>4 DEF Idle
  <2>2. \/ HandleCmds(<<Head(cmdCh)>>)
        \/ UNCHANGED <<speechSampleBuf, cmdCh>>
    BY <1>4 DEF Idle
  <2>3. (\A r \in Responses : ~Buffered(r)') \/ UNCHANGED <<speechSampleBuf, cmdCh>>
    <3>1. <<Head(cmdCh)>> # <<>> OBVIOUS
    <3> QED BY <2>2, <3>1, CommandsClear
  <2>4. BufferWillGo' BY <1>2, <2>1, <2>3 DEF BufferWillGo, Buffered
  <2>5. OnlyMixed' BY <2>1 DEF OnlyMixed
  <2>6. SilencedNotHeard' BY <2>1 DEF SilencedNotHeard, CancelledNotHeard, StoppedNotHeard
  <2> QED BY <1>1, <1>2, <2>1, <2>4, <2>5, <2>6
<1>5. CASE SpeechTick
  <2>1. /\ UNCHANGED <<cmdCh, done, speech, heard>> /\ ~done
        /\ at = "speechActive" /\ at' = "commands" /\ silent' = stopped
    BY <1>5 DEF SpeechTick
  <2>2. deaf' = {r \in Responses : muted[r]} BY <1>5 DEF SpeechTick
  <2>3. \A r \in Responses : Buffered(r)' => (muted[r] => cmdCh # <<>>)
    <3>1. \A r \in Responses : Buffered(r)' => Buffered(r) \/ ~muted[r] BY <1>5, TickBuffers
    <3> QED BY <2>1, <3>1 DEF BufferWillGo
  <2>4. BufferWillGo' BY <1>2, <2>1, <2>2, <2>3 DEF BufferWillGo
  <2>5. OnlyMixed' BY <2>1 DEF OnlyMixed
  <2>6. SilencedNotHeard'
    <3>1. speech' = <<>> /\ \A t \in Tracks : heard'[t] = <<>> BY <2>1 DEF OnlyMixed
    <3> QED BY <2>1, <3>1 DEF SilencedNotHeard, CancelledNotHeard, StoppedNotHeard
  <2> QED BY <1>1, <1>2, <2>1, <2>4, <2>5, <2>6
<1>6. CASE BGTick
  <2>1. /\ UNCHANGED <<speechSampleBuf, cmdCh, done, speech, heard>>
        /\ at = "bgOnly" /\ at' = "bgCommands" /\ silent' = stopped
    BY <1>6 DEF BGTick
  <2>2. BufferWillGo' BY <1>2, <2>1 DEF BufferWillGo, Buffered
  <2>3. OnlyMixed' BY <2>1 DEF OnlyMixed
  <2>4. SilencedNotHeard'
    <3>1. speech' = <<>> /\ \A t \in Tracks : heard'[t] = <<>> BY <2>1 DEF OnlyMixed
    <3> QED BY <2>1, <3>1 DEF SilencedNotHeard, CancelledNotHeard, StoppedNotHeard
  <2> QED BY <1>1, <1>2, <2>1, <2>2, <2>3, <2>4
<1>7. CASE DrainCommands
  <2>1. /\ UNCHANGED <<done, speech, heard, deaf, silent>> /\ at \in {"commands", "bgCommands"}
        /\ at' = IF at = "commands" THEN "collect" ELSE "bgCollect"
        /\ cmdCh' = <<>>
    BY <1>7 DEF DrainCommands
  <2>2. (\A r \in Responses : ~Buffered(r)') \/ (cmdCh = <<>> /\ UNCHANGED speechSampleBuf)
    BY <1>7, CommandsClear DEF DrainCommands
  <2>3. BufferWillGo' BY <1>2, <2>1, <2>2 DEF BufferWillGo, Buffered
  <2>4. OnlyMixed' BY <2>1 DEF OnlyMixed
  <2>5. SilencedNotHeard' BY <2>1 DEF SilencedNotHeard, CancelledNotHeard, StoppedNotHeard
  <2> QED BY <1>1, <1>2, <2>1, <2>3, <2>4, <2>5
<1>8. CASE CollectTracks
  <2>1. /\ UNCHANGED <<cmdCh, done, heard, deaf, silent>> /\ at \in {"collect", "bgCollect"}
        /\ at' \in {"loop", "mix"}
    BY <1>8 DEF CollectTracks
  <2>2. /\ speech' \in Seq(Sample) /\ speechSampleBuf' \in Seq(Sample)
        /\ speech' \o speechSampleBuf' = speechSampleBuf
        /\ at' # "mix" => speech' = <<>>
    BY <1>8, CollectSplits
  <2>3. \A r \in Responses : Buffered(r)' => Buffered(r)
    <3> DEFINE s == speech'
               b == speechSampleBuf'
    <3>1. s \in Seq(Sample) /\ b \in Seq(Sample) BY <2>2
    <3> HIDE DEF s, b
    <3>2. Len(s) \in Nat /\ \A i \in 1 .. Len(b) : /\ Len(s) + i \in 1 .. Len(s \o b)
                                                   /\ (s \o b)[Len(s) + i] = b[i]
      BY <3>1, ConcatProperties
    <3> QED BY <2>2, <3>2 DEF Buffered, s, b
  <2>4. at = "bgCollect" => speech' = <<>>
    BY <1>8, SubSeqEmpty DEF CollectTracks, Taken
  <2>5. \A i \in 1 .. Len(speech') :
          i \in 1 .. Len(speechSampleBuf) /\ speech'[i] = speechSampleBuf[i]
    <3> DEFINE s == speech'
               b == speechSampleBuf'
    <3>1. s \in Seq(Sample) /\ b \in Seq(Sample) BY <2>2
    <3> HIDE DEF s, b
    <3>2. \A i \in 1 .. Len(s) : i \in 1 .. Len(s \o b) /\ (s \o b)[i] = s[i]
      BY <3>1, ConcatProperties
    <3> QED BY <2>2, <3>2 DEF s, b
  <2>6. CancelledNotHeard'
    <3>1. CASE at = "bgCollect"
      BY <2>4, <3>1 DEF CancelledNotHeard
    <3>2. CASE at = "collect"
      <4>1. \A i \in 1 .. Len(speech') : speech'[i] \in Sample /\ Buffered(speech'[i][1])
        BY <2>2, <2>5, ElementOfSeq DEF Buffered
      <4>2. \A i \in 1 .. Len(speech') : speech'[i][1] \notin deaf
        BY <3>2, <4>1 DEF BufferWillGo, Sample
      <4>3. DOMAIN speech' = 1 .. Len(speech') BY <2>2, LenProperties
      <4> QED BY <2>1, <4>2, <4>3 DEF CancelledNotHeard
    <3> QED BY <2>1, <3>1, <3>2
  <2>7. StoppedNotHeard' BY <2>1 DEF SilencedNotHeard, StoppedNotHeard
  <2>8. BufferWillGo' BY <1>2, <2>1, <2>3 DEF BufferWillGo
  <2>9. OnlyMixed' BY <2>1, <2>2 DEF OnlyMixed
  <2> QED BY <1>1, <1>2, <2>1, <2>6, <2>7, <2>8, <2>9 DEF SilencedNotHeard
<1>9. CASE MixTrack
  <2>1. UNCHANGED <<at, speechSampleBuf, cmdCh, done, speech, deaf, silent>> /\ at = "mix"
    BY <1>9 DEF MixTrack
  <2>2. \/ UNCHANGED heard
        \/ \E t, x : t \notin stopped /\ heard' = [heard EXCEPT ![t] = x]
    BY <1>9 DEF MixTrack
  <2>3. DOMAIN heard' = Tracks /\ \A t \in stopped : heard'[t] = heard[t] BY <2>2
  <2>4. BufferWillGo' BY <1>2, <2>1 DEF BufferWillGo, Buffered
  <2>5. OnlyMixed' BY <2>1 DEF OnlyMixed
  <2>6. SilencedNotHeard'
    BY <2>1, <2>3 DEF SilencedNotHeard, CancelledNotHeard, StoppedNotHeard
  <2> QED BY <1>1, <1>2, <2>1, <2>3, <2>4, <2>5, <2>6
<1>10. CASE SendFrame
  <2>1. /\ UNCHANGED <<speechSampleBuf, cmdCh, done, deaf, silent>> /\ at' = "loop"
        /\ speech' = <<>> /\ heard' = [t \in Tracks |-> <<>>]
    BY <1>10 DEF SendFrame
  <2>2. BufferWillGo' BY <1>2, <2>1 DEF BufferWillGo, Buffered
  <2>3. OnlyMixed' BY <2>1 DEF OnlyMixed
  <2>4. SilencedNotHeard' BY <2>1 DEF SilencedNotHeard, CancelledNotHeard, StoppedNotHeard
  <2> QED BY <1>1, <1>2, <2>1, <2>2, <2>3, <2>4
<1> QED BY <1>3, <1>4, <1>5, <1>6, <1>7, <1>8, <1>9, <1>10 DEF Run

\* The steps of the callers.
LEMMA CallersSilence ==
  ASSUME SilenceInv,
         \/ \E r \in Responses : Speaker(r)
         \/ \E t \in Tracks : AddTrack(t) \/ StopTrack(t)
         \/ Close \/ ReadFrame \/ UNCHANGED vars
  PROVE  SilenceInv'
<1> USE DEF SilenceInv
<1>1. SpeechTypes' BY CallersTypes
<1>2. /\ UNCHANGED <<at, speechSampleBuf, speech, heard, deaf, silent>>
      /\ done => done'
  BY DEF Speaker, Announce, SendSpeech, EndSpeech, CancelContext, Mute, AddTrack, StopTrack,
         Close, ReadFrame, vars
<1>3. cmdCh # <<>> => cmdCh' # <<>>
  <2>1. ASSUME NEW r \in Sources, SetSpeechSource(r)
        PROVE  cmdCh # <<>> => cmdCh' # <<>>
    <3>1. cmdCh \in Seq(Sources) BY DEF SpeechTypes
    <3>2. Append(cmdCh, r) # <<>> BY <3>1
    <3> QED BY <2>1, <3>2 DEF SetSpeechSource
  <2> QED BY <2>1 DEF Speaker, Announce, SendSpeech, EndSpeech, CancelContext, Mute, AddTrack,
                      StopTrack, Close, ReadFrame, vars, Sources
<1>4. ASSUME NEW r \in Responses, muted'[r] # muted[r]
      PROVE  muted'[r] /\ ctxDone'[r] /\ (cmdCh' # <<>> \/ done')
  <2>1. PICK q \in Responses : Mute(q)
    BY <1>4 DEF Speaker, Announce, SendSpeech, EndSpeech, CancelContext, Mute, AddTrack,
                StopTrack, Close, ReadFrame, vars
  <2>2. muted' = [muted EXCEPT ![q] = TRUE] /\ ctxDone[q] /\ UNCHANGED <<ctxDone, done>>
    BY <2>1 DEF Mute
  <2>3. q = r BY <1>4, <2>2 DEF SpeechTypes
  <2>4. muted'[r] /\ ctxDone'[r] BY <2>2, <2>3 DEF SpeechTypes
  <2>5. Append(cmdCh, 0) # <<>>
    <3>1. cmdCh \in Seq(Sources) /\ 0 \in Sources BY DEF SpeechTypes, Sources
    <3> QED BY <3>1
  <2> QED BY <2>1, <2>2, <2>4, <2>5 DEF Mute, SetSpeechSource
<1>5. \A r \in Responses : ctxDone[r] => ctxDone'[r]
  BY DEF Speaker, Announce, SendSpeech, EndSpeech, CancelContext, Mute, AddTrack, StopTrack,
         Close, ReadFrame, vars, SpeechTypes
<1>6. stopped \subseteq stopped' /\ stopped' \subseteq Tracks
  BY DEF Speaker, Announce, SendSpeech, EndSpeech, CancelContext, Mute, AddTrack, StopTrack,
         Close, ReadFrame, vars
<1>7. \A r \in Responses : muted'[r] => ctxDone'[r] BY <1>4, <1>5
<1>8. BufferWillGo' BY <1>2, <1>3, <1>4 DEF BufferWillGo, Buffered
<1>9. OnlyMixed' BY <1>2 DEF OnlyMixed
<1>10. SilencedNotHeard' BY <1>2 DEF SilencedNotHeard, CancelledNotHeard, StoppedNotHeard
<1> QED BY <1>1, <1>2, <1>6, <1>7, <1>8, <1>9, <1>10

\* The inductive invariant: what is muted is not mixed because a command is on its way that
\* empties the buffer, and what is sent of it is not read because its context is done.
THEOREM SilenceHolds == Spec => []SilenceInv
<1>1. SilenceInv /\ [Next]_vars => SilenceInv'
  BY RunSilence, CallersSilence DEF Next, Terminated
<1> QED BY InitSilence, <1>1, PTL DEF Spec

\* No sample of a response that CancelResponse has muted, and none of a track whose Stop has
\* returned, is in a frame whose tick began later (drainSpeechFrames, handleCmd, mixTracks).
THEOREM SilencedStaySilent == Spec => []SilencedNotHeard
<1>1. SilenceInv => SilencedNotHeard BY DEF SilenceInv
<1> QED BY SilenceHolds, <1>1, PTL

(***************************************************************************)
(* Speech is put out in order                                              *)
(***************************************************************************)
\* SpeechInOrder, of any sequence of samples.
Chained(s) ==
  \A i \in 1 .. Len(s) :
    \/ i > 1 /\ s[i] = <<s[i - 1][1], s[i - 1][2] + 1>>
    \/ s[i][2] = 1 /\ (i = 1 \/ s[i - 1][1] < s[i][1])

\* The samples put out and those on their way, and the responses they are of.
Whole == (said \o speech) \o speechSampleBuf
ResponsesIn(s) == {s[i][1] : i \in 1 .. Len(s)}
Spoken == ResponsesIn(said) \cup ResponsesIn(speech) \cup ResponsesIn(speechSampleBuf)

\* Nothing more will be put out.
NothingMore == done /\ at \in {"loop", "idle", "speechActive", "bgOnly", "done"}

\* The frames of a response that the mixer has taken.
TakenFrames(r) == sent[r] - Len(mixerIn[r])

\* The frames in a channel are the last ones sent.
FramesFollow ==
  \A r \in Responses :
    /\ Len(mixerIn[r]) <= sent[r] /\ (sent[r] > 0 => announced[r])
    /\ \A i \in 1 .. Len(mixerIn[r]) : mixerIn[r][i] = TakenFrames(r) + i

\* A response begins when those before it have ended.
ResponsesFollow ==
  \A r, q \in Responses :
    q < r /\ (announced[r] \/ ended[r] \/ ctxDone[r]) => ended[q]

\* The mixer knows announced sources only.
KnownAreAnnounced ==
  /\ \A r \in Spoken : r \in Responses /\ announced[r]
  /\ speechCh # 0 => announced[speechCh]
  /\ \A i \in 1 .. Len(cmdCh) : cmdCh[i] # 0 => announced[cmdCh[i]]

\* A source in the commands is later than the present one and those before it in the
\* commands, and nothing of it has been read.
CommandsFollow ==
  \A i \in 1 .. Len(cmdCh) : cmdCh[i] # 0 =>
    /\ speechCh < cmdCh[i]
    /\ \A j \in 1 .. i - 1 : cmdCh[j] < cmdCh[i]
    /\ TakenFrames(cmdCh[i]) = 0
    /\ \A r \in Spoken : r < cmdCh[i]

\* The next frame of the present source continues where the samples end.
SourceJoins ==
  speechCh # 0 /\ ~ctxDone[speechCh] =>
    \/ TakenFrames(speechCh) = 0 /\ \A r \in Spoken : r < speechCh
    \/ NothingMore
    \/ Len(Whole) > 0 /\ Whole[Len(Whole)] = <<speechCh, TakenFrames(speechCh) * FrameLen>>

Order ==
  /\ said \in Seq(Sample)
  /\ FramesFollow /\ ResponsesFollow /\ KnownAreAnnounced /\ CommandsFollow /\ SourceJoins
  /\ NothingMore \/ Chained(Whole)
  /\ Chained(said)

OrderInv == SilenceInv /\ Order

\* The first part of a chain is one.
LEMMA ChainPrefix ==
  ASSUME NEW s \in Seq(Sample), NEW t \in Seq(Sample), Chained(s \o t)
  PROVE  Chained(s)
<1>1. \A i \in 1 .. Len(s) : i \in 1 .. Len(s \o t) /\ (s \o t)[i] = s[i]
  BY ConcatProperties
<1>2. \A i \in 1 .. Len(s) : i > 1 => i - 1 \in 1 .. Len(s) BY LenProperties
<1> QED BY <1>1, <1>2 DEF Chained

\* A chain is continued by the next samples of its last response, or by the first ones of
\* a later response.
LEMMA ChainAppend ==
  ASSUME NEW s \in Seq(Sample), NEW t \in Seq(Sample), Chained(s),
         NEW r \in Responses, NEW m \in Nat,
         \A i \in 1 .. Len(t) : t[i] = <<r, m + i>>,
         \/ m = 0 /\ \A i \in 1 .. Len(s) : s[i][1] < r
         \/ Len(s) > 0 /\ s[Len(s)] = <<r, m>>
  PROVE  Chained(s \o t)
<1> DEFINE w == s \o t
<1>1. /\ Len(w) = Len(s) + Len(t) /\ Len(s) \in Nat /\ Len(t) \in Nat
      /\ \A i \in 1 .. Len(s) + Len(t) : w[i] = IF i <= Len(s) THEN s[i] ELSE t[i - Len(s)]
  BY ConcatProperties, LenProperties
<1> HIDE DEF w
<1> SUFFICES ASSUME NEW i \in 1 .. Len(w)
             PROVE  \/ i > 1 /\ w[i] = <<w[i - 1][1], w[i - 1][2] + 1>>
                    \/ w[i][2] = 1 /\ (i = 1 \/ w[i - 1][1] < w[i][1])
  BY DEF Chained, w
<1>2. CASE i <= Len(s)
  <2>1. i \in 1 .. Len(s) /\ w[i] = s[i] /\ (i > 1 => w[i - 1] = s[i - 1]) BY <1>1, <1>2
  <2> QED BY <2>1 DEF Chained
<1>3. CASE i = Len(s) + 1
  <2>1. 1 \in 1 .. Len(t) /\ w[i] = t[1]
    <3>1. i \in 1 .. Len(s) + Len(t) /\ ~(i <= Len(s)) /\ i - Len(s) = 1 BY <1>1, <1>3
    <3>2. w[i] = t[i - Len(s)] BY <1>1, <3>1
    <3> QED BY <1>1, <3>1, <3>2
  <2>2. w[i] = <<r, m + 1>> BY <2>1
  <2>3. CASE m = 0 /\ \A k \in 1 .. Len(s) : s[k][1] < r
    <3>1. w[i][2] = 1 /\ w[i][1] = r BY <2>2, <2>3
    <3>2. i > 1 => i - 1 \in 1 .. Len(s) /\ w[i - 1] = s[i - 1] BY <1>1, <1>3
    <3> QED BY <2>3, <3>1, <3>2
  <2>4. CASE Len(s) > 0 /\ s[Len(s)] = <<r, m>>
    <3>1. i > 1 /\ w[i - 1] = <<r, m>> BY <1>1, <1>3, <2>4
    <3> QED BY <2>2, <3>1
  <2> QED BY <2>3, <2>4
<1>4. CASE i > Len(s) + 1
  <2>1. /\ i - Len(s) \in 1 .. Len(t) /\ w[i] = t[i - Len(s)]
        /\ (i - 1) - Len(s) \in 1 .. Len(t) /\ w[i - 1] = t[(i - 1) - Len(s)]
    <3>1. /\ i \in 1 .. Len(s) + Len(t) /\ ~(i <= Len(s)) /\ i - Len(s) \in 1 .. Len(t)
          /\ i - 1 \in 1 .. Len(s) + Len(t) /\ ~(i - 1 <= Len(s))
          /\ (i - 1) - Len(s) \in 1 .. Len(t)
      BY <1>1, <1>4
    <3> QED BY <1>1, <3>1
  <2>2. w[i] = <<r, m + (i - Len(s))>> /\ w[i - 1] = <<r, m + ((i - 1) - Len(s))>> BY <2>1
  <2>3. m + (i - Len(s)) = (m + ((i - 1) - Len(s))) + 1 BY <1>1
  <2> QED BY <1>1, <1>4, <2>2, <2>3
<1> QED BY <1>1, <1>2, <1>3, <1>4

\* The responses of a concatenation.
LEMMA ResponsesOfConcat ==
  ASSUME NEW s \in Seq(Sample), NEW t \in Seq(Sample)
  PROVE  ResponsesIn(s \o t) = ResponsesIn(s) \cup ResponsesIn(t)
<1>1. \A i \in 1 .. Len(s) : i \in 1 .. Len(s \o t) /\ (s \o t)[i] = s[i]
  BY ConcatProperties
<1>2. \A i \in 1 .. Len(t) :
        Len(s) + i \in 1 .. Len(s \o t) /\ (s \o t)[Len(s) + i] = t[i]
  BY ConcatProperties
<1>3. \A i \in 1 .. Len(s \o t) :
        \/ i \in 1 .. Len(s) /\ (s \o t)[i] = s[i]
        \/ i - Len(s) \in 1 .. Len(t) /\ (s \o t)[i] = t[i - Len(s)]
  BY ConcatProperties
<1>4. ResponsesIn(s) \subseteq ResponsesIn(s \o t) BY <1>1 DEF ResponsesIn
<1>5. ResponsesIn(t) \subseteq ResponsesIn(s \o t) BY <1>2 DEF ResponsesIn
<1>6. ResponsesIn(s \o t) \subseteq ResponsesIn(s) \cup ResponsesIn(t)
  BY <1>3 DEF ResponsesIn
<1> QED BY <1>4, <1>5, <1>6

\* Nothing has been said or sent.
LEMMA InitOrder == Init => OrderInv
<1> SUFFICES ASSUME Init PROVE OrderInv
  OBVIOUS
<1>1. SilenceInv BY InitSilence
<1>2. /\ said = <<>> /\ speech = <<>> /\ speechSampleBuf = <<>> /\ cmdCh = <<>>
      /\ speechCh = 0 /\ sent = [r \in Responses |-> 0] /\ mixerIn = [r \in Responses |-> <<>>]
      /\ announced = [r \in Responses |-> FALSE] /\ ended = [r \in Responses |-> FALSE]
      /\ ctxDone = [r \in Responses |-> FALSE]
  BY DEF Init
<1>3. <<>> \in Seq(Sample) /\ Len(<<>>) = 0 BY EmptySeq
<1>4. Whole = <<>> BY <1>2 DEF Whole
<1>5. Spoken = {} BY <1>2, <1>3 DEF Spoken, ResponsesIn
<1>6. Chained(<<>>) BY <1>3 DEF Chained
<1>7. FramesFollow BY <1>2, <1>3 DEF FramesFollow
<1>8. ResponsesFollow BY <1>2 DEF ResponsesFollow
<1>9. KnownAreAnnounced BY <1>2, <1>3, <1>5 DEF KnownAreAnnounced
<1>10. CommandsFollow BY <1>2, <1>3 DEF CommandsFollow
<1>11. SourceJoins BY <1>2 DEF SourceJoins
<1> QED BY <1>1, <1>2, <1>3, <1>4, <1>6, <1>7, <1>8, <1>9, <1>10, <1>11 DEF OrderInv, Order

\* Steps that add no samples and take no commands.
LEMMA SamplesKept ==
  ASSUME OrderInv, UNCHANGED <<sent, mixerIn, announced, ended, ctxDone, speechCh, cmdCh>>,
         said' \in Seq(Sample), Chained(said'), Spoken' \subseteq Spoken,
         NothingMore => NothingMore', NothingMore' \/ Whole' = Whole
  PROVE  Order'
<1> USE DEF OrderInv, Order
<1>1. FramesFollow' BY DEF FramesFollow, TakenFrames
<1>2. ResponsesFollow' BY DEF ResponsesFollow
<1>3. KnownAreAnnounced' BY DEF KnownAreAnnounced
<1>4. CommandsFollow' BY DEF CommandsFollow, TakenFrames
<1>5. SourceJoins' BY DEF SourceJoins, TakenFrames
<1>6. (NothingMore \/ Chained(Whole))' BY DEF Chained
<1>7. Chained(said)' BY DEF Chained
<1> QED BY <1>1, <1>2, <1>3, <1>4, <1>5, <1>6, <1>7

\* Nothing changes for the speech.
LEMMA SpeechUnchanged ==
  ASSUME OrderInv, UNCHANGED <<sent, mixerIn, announced, ended, ctxDone, speechCh, cmdCh>>,
         UNCHANGED <<said, speech, speechSampleBuf>>, NothingMore => NothingMore'
  PROVE  Order'
<1>1. said' \in Seq(Sample) /\ Chained(said') BY DEF OrderInv, Order, Chained
<1>2. Spoken' = Spoken /\ Whole' = Whole BY DEF Spoken, Whole, ResponsesIn
<1> QED BY <1>1, <1>2, SamplesKept

\* Commands are taken up to the k-th, and the buffer is emptied.
LEMMA CommandsTaken ==
  ASSUME OrderInv, UNCHANGED <<sent, mixerIn, announced, ended, ctxDone, said, done>>,
         speech = <<>>, speech' = <<>>, speechSampleBuf' = <<>>,
         NEW k \in 1 .. Len(cmdCh), speechCh' = cmdCh[k],
         cmdCh' \in Seq(Sources),
         \A i \in 1 .. Len(cmdCh') : k + i \in 1 .. Len(cmdCh) /\ cmdCh'[i] = cmdCh[k + i]
  PROVE  Order'
<1> USE DEF OrderInv, Order
<1>1. FramesFollow' BY DEF FramesFollow, TakenFrames
<1>2. ResponsesFollow' BY DEF ResponsesFollow
<1>3. Spoken' \subseteq Spoken
  <2>1. ResponsesIn(<<>>) = {} BY EmptySeq DEF ResponsesIn
  <2> QED BY <2>1 DEF Spoken, ResponsesIn
<1>4. KnownAreAnnounced' BY <1>3 DEF KnownAreAnnounced
<1>5. CommandsFollow'
  <2> SUFFICES ASSUME NEW i \in 1 .. Len(cmdCh'), cmdCh'[i] # 0
               PROVE  /\ speechCh' < cmdCh'[i]
                      /\ \A j \in 1 .. i - 1 : cmdCh'[j] < cmdCh'[i]
                      /\ sent[cmdCh'[i]] - Len(mixerIn[cmdCh'[i]]) = 0
                      /\ \A r \in Spoken' : r < cmdCh'[i]
    BY DEF CommandsFollow, TakenFrames
  <2>1. k + i \in 1 .. Len(cmdCh) /\ cmdCh'[i] = cmdCh[k + i] OBVIOUS
  <2>2. k \in 1 .. (k + i) - 1 /\ \A j \in 1 .. i - 1 : k + j \in 1 .. (k + i) - 1
    BY <2>1, LenProperties
  <2>3. \A j \in 1 .. i - 1 : j \in 1 .. Len(cmdCh') BY LenProperties
  <2>4. \A j \in 1 .. (k + i) - 1 : cmdCh[j] < cmdCh[k + i] BY <2>1 DEF CommandsFollow
  <2>5. \A j \in 1 .. i - 1 : cmdCh'[j] < cmdCh'[i] BY <2>1, <2>2, <2>3, <2>4
  <2>6. TakenFrames(cmdCh[k + i]) = 0 BY <2>1 DEF CommandsFollow
  <2>7. sent[cmdCh'[i]] - Len(mixerIn[cmdCh'[i]]) = 0 BY <2>1, <2>6 DEF TakenFrames
  <2>8. \A r \in Spoken' : r < cmdCh'[i] BY <1>3, <2>1 DEF CommandsFollow
  <2> QED BY <2>1, <2>2, <2>4, <2>5, <2>7, <2>8
<1>6. SourceJoins' BY <1>3 DEF SourceJoins, CommandsFollow, TakenFrames
<1>7. Whole' = said' BY ConcatEmptySeq DEF Whole
<1> QED BY <1>1, <1>2, <1>4, <1>5, <1>6, <1>7 DEF Chained

\* A frame takes samples from the buffer, but does not change their order.
LEMMA CollectOrder == OrderInv /\ CollectTracks => Order'
<1> SUFFICES ASSUME OrderInv, CollectTracks PROVE Order'
  OBVIOUS
<1> USE DEF OrderInv, Order, SilenceInv
<1>1. /\ UNCHANGED <<sent, mixerIn, announced, ended, ctxDone, speechCh, cmdCh, said>>
      /\ at \in {"collect", "bgCollect"} /\ speech = <<>>
  BY DEF CollectTracks, OnlyMixed
<1>2. /\ speech' \in Seq(Sample) /\ speechSampleBuf' \in Seq(Sample)
      /\ speech' \o speechSampleBuf' = speechSampleBuf
  BY CollectSplits
<1>3. Whole' = Whole
  <2> DEFINE a == said
             s == speech'
             b == speechSampleBuf'
  <2>1. Whole' = (a \o s) \o b BY <1>1 DEF Whole
  <2>2. a \in Seq(Sample) /\ s \in Seq(Sample) /\ b \in Seq(Sample) BY <1>2
  <2>3. Whole = a \o (s \o b) BY <1>1, <1>2, <2>2, ConcatEmptySeq DEF Whole
  <2> HIDE DEF a, s, b
  <2>4. (a \o s) \o b = a \o (s \o b) BY <2>2, ConcatAssociative
  <2> QED BY <2>1, <2>3, <2>4
<1>4. Spoken' \subseteq Spoken
  <2> DEFINE s == speech'
             b == speechSampleBuf'
  <2>1. s \in Seq(Sample) /\ b \in Seq(Sample) BY <1>2
  <2>2. ResponsesIn(s) \cup ResponsesIn(b) = ResponsesIn(s \o b)
    <3> HIDE DEF s, b
    <3> QED BY <2>1, ResponsesOfConcat
  <2>3. ResponsesIn(s) \cup ResponsesIn(b) = ResponsesIn(speechSampleBuf) BY <1>2, <2>2
  <2>4. Spoken' = (ResponsesIn(said) \cup ResponsesIn(s)) \cup ResponsesIn(b)
    BY <1>1 DEF Spoken, ResponsesIn
  <2> QED BY <2>3, <2>4 DEF Spoken
<1>5. said' \in Seq(Sample) /\ Chained(said') BY <1>1
<1>6. ~NothingMore BY <1>1 DEF NothingMore
<1> QED BY <1>1, <1>3, <1>4, <1>5, <1>6, SamplesKept

\* A frame that is sent puts its samples out; after one that is not, nothing is put out.
LEMMA SendOrder == OrderInv /\ SendFrame => Order'
<1> SUFFICES ASSUME OrderInv, SendFrame PROVE Order'
  OBVIOUS
<1> USE DEF OrderInv, Order, SilenceInv
<1>1. /\ UNCHANGED <<sent, mixerIn, announced, ended, ctxDone, speechCh, cmdCh, done,
                     speechSampleBuf>>
      /\ at = "mix" /\ at' = "loop" /\ speech' = <<>>
  BY DEF SendFrame
<1>2. ~NothingMore BY <1>1 DEF NothingMore
<1>3. speech \in Seq(Sample) /\ speechSampleBuf \in Seq(Sample) BY DEF SpeechTypes
<1>4. said \o speech \in Seq(Sample) BY <1>3, ConcatProperties
<1>5. Chained(said \o speech) BY <1>2, <1>3, <1>4, ChainPrefix DEF Whole
<1>6. ResponsesIn(<<>>) = {} BY EmptySeq DEF ResponsesIn
<1>7. CASE said' = said \o speech
  <2>1. Whole' = Whole BY <1>1, <1>4, <1>7, ConcatEmptySeq DEF Whole
  <2>2. ResponsesIn(said') = ResponsesIn(said) \cup ResponsesIn(speech)
    BY <1>3, <1>7, ResponsesOfConcat
  <2>3. Spoken' \subseteq Spoken
    <3>1. Spoken' =
            (ResponsesIn(said') \cup ResponsesIn(speech')) \cup ResponsesIn(speechSampleBuf')
      BY DEF Spoken, ResponsesIn
    <3>2. ResponsesIn(speech') = {} /\ speechSampleBuf' = speechSampleBuf BY <1>1, <1>6
    <3> QED BY <2>2, <3>1, <3>2 DEF Spoken
  <2>4. said' \in Seq(Sample) /\ Chained(said') BY <1>4, <1>5, <1>7
  <2> HIDE DEF OrderInv, Order, SilenceInv
  <2> QED BY <1>1, <1>2, <2>1, <2>3, <2>4, SamplesKept
<1>8. CASE done /\ said' = said
  <2>1. NothingMore' BY <1>1, <1>8 DEF NothingMore
  <2>2. Spoken' \subseteq Spoken BY <1>1, <1>6, <1>8 DEF Spoken, ResponsesIn
  <2> QED BY <1>1, <1>8, <2>1, <2>2, SamplesKept
<1> QED BY <1>7, <1>8 DEF SendFrame


\* A tick appends the next samples of the present source to the buffer.
LEMMA TickOrder == OrderInv /\ SpeechTick => Order'
<1> SUFFICES ASSUME OrderInv, SpeechTick PROVE Order'
  OBVIOUS
<1>1. /\ SpeechTypes /\ OnlyMixed /\ said \in Seq(Sample) /\ FramesFollow /\ ResponsesFollow
      /\ KnownAreAnnounced /\ CommandsFollow /\ SourceJoins /\ Chained(said)
      /\ NothingMore \/ Chained(Whole)
  BY DEF OrderInv, Order, SilenceInv
<1>2. /\ UNCHANGED <<sent, announced, ended, ctxDone, cmdCh, said, speech, done>>
      /\ at = "speechActive" /\ at' = "commands" /\ ~done /\ speech = <<>>
  BY <1>1 DEF SpeechTick, OnlyMixed
<1>3. ~NothingMore BY <1>2 DEF NothingMore
<1>4. CASE speechCh = 0
  <2>1. UNCHANGED <<speechCh, speechSampleBuf, mixerIn>> BY <1>4 DEF SpeechTick
  <2> QED BY <1>2, <1>3, <2>1, SpeechUnchanged
<1>5. CASE speechCh # 0
  <2> DEFINE live == IF ctxDone[speechCh] THEN <<>> ELSE mixerIn[speechCh]
             new == Samples(speechCh, live)
             k == TakenFrames(speechCh)
             buf == speechSampleBuf
  <2>1. speechCh \in Responses /\ live \in Seq(Nat \ {0})
    BY <1>1, <1>5, EmptySeq DEF Sources, SpeechTypes
  <2>2. /\ buf' = buf \o new
        /\ mixerIn' = [mixerIn EXCEPT ![speechCh] = <<>>]
        /\ speechCh' \in {0, speechCh}
    BY <1>5 DEF SpeechTick
  <2>3. /\ new \in Seq(Sample) /\ Len(new) = Len(live) * FrameLen
        /\ \A i \in 1 .. Len(new) : new[i] = <<speechCh, (live[1] - 1) * FrameLen + i>>
    <3> HIDE DEF live
    <3> QED BY <2>1, SamplesType
  <2>4. \A r \in Responses : mixerIn'[r] = IF r = speechCh THEN <<>> ELSE mixerIn[r]
    BY <1>1, <2>1, <2>2 DEF SpeechTypes
  <2>5. FramesFollow' BY <1>1, <1>2, <2>4, EmptySeq DEF FramesFollow, TakenFrames, SpeechTypes
  <2>6. ResponsesFollow' BY <1>1, <1>2 DEF ResponsesFollow
  <2>7. k \in Nat BY <1>1, <2>1, LenProperties DEF FramesFollow, SpeechTypes, TakenFrames
  <2>8. Len(new) > 0 => live = mixerIn[speechCh] /\ Len(live) > 0 /\ ~ctxDone[speechCh]
    <3>1. Len(live) = 0 => Len(new) = 0 BY <2>3, BoundsAssumption
    <3>2. Len(live) \in Nat BY <2>1, LenProperties
    <3>3. ctxDone[speechCh] => Len(live) = 0 BY EmptySeq
    <3> HIDE DEF new
    <3> QED BY <3>1, <3>2, <3>3
  <2>9. Len(new) > 0 => live[1] = k + 1
    <3>1. \A i \in 1 .. Len(mixerIn[speechCh]) : mixerIn[speechCh][i] = k + i
      BY <1>1, <2>1 DEF FramesFollow
    <3> HIDE DEF new, k, live
    <3> QED BY <2>1, <2>8, <3>1, LenProperties
  <2>10. \A i \in 1 .. Len(new) : new[i] = <<speechCh, k * FrameLen + i>>
    <3>1. Len(new) \in Nat BY <2>3, LenProperties
    <3> HIDE DEF new, k, live
    <3>2. ASSUME NEW i \in 1 .. Len(new) PROVE new[i] = <<speechCh, k * FrameLen + i>>
      <4>1. live[1] = k + 1 BY <2>9, <3>1
      <4>2. live[1] - 1 = k BY <2>7, <4>1
      <4> QED BY <2>3, <4>2
    <3> QED BY <3>2
  <2>11. Len(new) > 0 => \/ k = 0 /\ \A r \in Spoken : r < speechCh
                         \/ Len(Whole) > 0 /\ Whole[Len(Whole)] = <<speechCh, k * FrameLen>>
    <3>1. Len(new) > 0 => ~ctxDone[speechCh] BY <2>8
    <3>2. SourceJoins BY <1>1
    <3> HIDE DEF new
    <3> QED BY <1>3, <1>5, <3>1, <3>2 DEF SourceJoins
  <2>12. /\ buf \in Seq(Sample) /\ said \o speech \in Seq(Sample) /\ Whole \in Seq(Sample)
         /\ Spoken = ResponsesIn(Whole)
    <3>1. buf \in Seq(Sample) /\ speech \in Seq(Sample) BY <1>1 DEF SpeechTypes
    <3>2. /\ said \o speech \in Seq(Sample)
          /\ ResponsesIn(said \o speech) = ResponsesIn(said) \cup ResponsesIn(speech)
      BY <1>1, <3>1, ConcatProperties, ResponsesOfConcat
    <3>3. /\ (said \o speech) \o buf \in Seq(Sample)
          /\ ResponsesIn((said \o speech) \o buf) =
               ResponsesIn(said \o speech) \cup ResponsesIn(buf)
      BY <3>1, <3>2, ConcatProperties, ResponsesOfConcat
    <3> QED BY <3>1, <3>2, <3>3 DEF Whole, Spoken
  <2>13. Whole' = Whole \o new
    <3> DEFINE a == said \o speech
    <3>1. Whole' = a \o (buf \o new) /\ Whole = a \o buf BY <1>2, <2>2 DEF Whole
    <3>2. a \in Seq(Sample) BY <2>12
    <3>3. buf \in Seq(Sample) /\ new \in Seq(Sample) BY <2>3, <2>12
    <3> HIDE DEF a, new, buf
    <3>4. (a \o buf) \o new = a \o (buf \o new) BY <3>2, <3>3, ConcatAssociative
    <3> QED BY <3>1, <3>4
  <2>14. ResponsesIn(new) \subseteq {speechCh} /\ (ResponsesIn(new) # {} => Len(new) > 0)
    <3> HIDE DEF new, k
    <3>1. Len(new) \in Nat BY <2>3, LenProperties
    <3> QED BY <2>10, <3>1 DEF ResponsesIn
  <2>15. Spoken' = Spoken \cup ResponsesIn(new)
    <3>1. ResponsesIn(buf') = ResponsesIn(buf) \cup ResponsesIn(new)
      <4> HIDE DEF new
      <4> QED BY <2>2, <2>3, <2>12, ResponsesOfConcat
    <3>2. Spoken' = (ResponsesIn(said) \cup ResponsesIn(speech)) \cup ResponsesIn(buf')
      BY <1>2 DEF Spoken, ResponsesIn
    <3> QED BY <3>1, <3>2 DEF Spoken
  <2>16. KnownAreAnnounced'
    <3> HIDE DEF new
    <3> QED BY <1>1, <1>2, <1>5, <2>1, <2>2, <2>14, <2>15 DEF KnownAreAnnounced
  <2>17. Chained(Whole)'
    <3>1. Chained(Whole) BY <1>1, <1>3
    <3>2. Len(new) = 0 => new = <<>> BY <2>3, EmptySeq
    <3>3. CASE Len(new) > 0
      <4>1. \/ k = 0 /\ \A i \in 1 .. Len(Whole) : Whole[i][1] < speechCh
            \/ Len(Whole) > 0 /\ Whole[Len(Whole)] = <<speechCh, k * FrameLen>>
        BY <2>11, <2>12, <3>3 DEF ResponsesIn
      <4> DEFINE w == Whole
                 m == k * FrameLen
      <4>2. m \in Nat /\ (k = 0 => m = 0) BY <2>7, BoundsAssumption
      <4>3. w \in Seq(Sample) /\ Chained(w) BY <2>12, <3>1
      <4>4. \/ m = 0 /\ \A i \in 1 .. Len(w) : w[i][1] < speechCh
            \/ Len(w) > 0 /\ w[Len(w)] = <<speechCh, m>>
        BY <4>1, <4>2
      <4>5. \A i \in 1 .. Len(new) : new[i] = <<speechCh, m + i>> BY <2>10
      <4> HIDE DEF w, m, new, k
      <4>6. Chained(w \o new) BY <2>1, <2>3, <4>2, <4>3, <4>4, <4>5, ChainAppend
      <4> QED BY <2>13, <4>6 DEF Chained, w
    <3>4. CASE Len(new) = 0
      <4> HIDE DEF new
      <4>1. Whole' = Whole BY <2>12, <2>13, <3>2, <3>4, ConcatEmptySeq
      <4> QED BY <3>1, <4>1 DEF Chained
    <3>5. Len(new) \in Nat BY <2>3, LenProperties
    <3> HIDE DEF new
    <3> QED BY <3>3, <3>4, <3>5
  <2>18. CommandsFollow'
    <3> SUFFICES ASSUME NEW i \in 1 .. Len(cmdCh), cmdCh[i] # 0
                 PROVE  /\ speechCh' < cmdCh[i]
                        /\ \A j \in 1 .. i - 1 : cmdCh[j] < cmdCh[i]
                        /\ sent[cmdCh[i]] - Len(mixerIn'[cmdCh[i]]) = 0
                        /\ \A r \in Spoken' : r < cmdCh[i]
      BY <1>2 DEF CommandsFollow, TakenFrames
    <3>1. /\ speechCh < cmdCh[i] /\ TakenFrames(cmdCh[i]) = 0
          /\ \A j \in 1 .. i - 1 : cmdCh[j] < cmdCh[i]
          /\ \A r \in Spoken : r < cmdCh[i]
      BY <1>1 DEF CommandsFollow
    <3>2. cmdCh[i] \in Responses BY <1>1, ElementOfSeq DEF SpeechTypes, Sources
    <3>3. cmdCh[i] # speechCh /\ 0 < cmdCh[i] BY <2>1, <3>1, <3>2 DEF Responses
    <3>4. mixerIn'[cmdCh[i]] = mixerIn[cmdCh[i]] BY <2>4, <3>2, <3>3
    <3> HIDE DEF new
    <3> QED BY <2>2, <2>14, <2>15, <3>1, <3>3, <3>4 DEF TakenFrames
  <2>19. SourceJoins'
    <3> SUFFICES ASSUME speechCh' = speechCh, ~ctxDone[speechCh]
                 PROVE  \/ sent[speechCh] = 0 /\ \A r \in Spoken' : r < speechCh
                        \/ /\ Len(Whole') > 0
                           /\ Whole'[Len(Whole')] = <<speechCh, sent[speechCh] * FrameLen>>
      <4>1. sent[speechCh] \in Nat BY <1>1, <2>1 DEF SpeechTypes
      <4>2. speechCh' = speechCh => sent[speechCh'] - Len(mixerIn'[speechCh']) = sent[speechCh]
        BY <2>1, <2>4, <4>1, EmptySeq
      <4> HIDE DEF new
      <4> QED BY <1>2, <2>2, <4>2 DEF SourceJoins, TakenFrames
    <3>1. live = mixerIn[speechCh] OBVIOUS
    <3>2. sent[speechCh] = k + Len(live) /\ Len(live) \in Nat
      BY <1>1, <2>1, <3>1, LenProperties DEF TakenFrames, SpeechTypes
    <3>3. CASE Len(live) = 0
      <4>1. Len(new) = 0 BY <2>3, <3>3, BoundsAssumption
      <4>2. new = <<>> BY <2>3, <4>1, EmptySeq
      <4> HIDE DEF new, k, live
      <4>3. Whole' = Whole /\ Spoken' = Spoken
        BY <2>12, <2>13, <2>14, <2>15, <4>1, <4>2, ConcatEmptySeq
      <4>4. sent[speechCh] = TakenFrames(speechCh) BY <2>7, <3>2, <3>3 DEF k
      <4> QED BY <1>1, <1>3, <1>5, <4>3, <4>4 DEF SourceJoins
    <3>4. CASE Len(live) > 0
      <4> DEFINE n == Len(new)
                 w == Whole
      <4> HIDE DEF new, k, live
      <4>1. n = Len(live) * FrameLen /\ n \in Nat /\ n > 0
        BY <2>3, <3>2, <3>4, BoundsAssumption
      <4>2. new[n] = <<speechCh, k * FrameLen + n>> BY <2>10, <4>1
      <4>3. k * FrameLen + n = sent[speechCh] * FrameLen
        BY <2>7, <3>2, <4>1, BoundsAssumption
      <4> HIDE DEF n, w
      <4>4. /\ Len(w \o new) = Len(w) + n /\ Len(w) \in Nat
            /\ (w \o new)[Len(w) + n] = new[n]
        <5>1. w \in Seq(Sample) /\ new \in Seq(Sample) BY <2>3, <2>12 DEF w
        <5>2. /\ Len(w) \in Nat /\ Len(w \o new) = Len(w) + Len(new)
              /\ \A i \in 1 .. Len(w) + Len(new) :
                   (w \o new)[i] = IF i <= Len(w) THEN w[i] ELSE new[i - Len(w)]
          BY <5>1, ConcatProperties, LenProperties
        <5>3. /\ Len(w) + n \in 1 .. Len(w) + Len(new) /\ ~(Len(w) + n <= Len(w))
              /\ (Len(w) + n) - Len(w) = n
          BY <4>1, <5>2 DEF n
        <5>4. (w \o new)[Len(w) + n] = new[(Len(w) + n) - Len(w)] BY <5>2, <5>3
        <5> QED BY <5>2, <5>3, <5>4 DEF n
      <4> QED BY <2>13, <4>1, <4>2, <4>3, <4>4 DEF w
    <3> HIDE DEF live
    <3> QED BY <3>2, <3>3, <3>4
  <2> QED BY <1>1, <1>2, <2>5, <2>6, <2>16, <2>17, <2>18, <2>19 DEF Order, Chained
<1> QED BY <1>4, <1>5


\* The steps of the mixer.
LEMMA RunOrder == OrderInv /\ Run => Order'
<1> SUFFICES ASSUME OrderInv, Run PROVE Order'
  OBVIOUS
<1>1. SpeechTypes /\ OnlyMixed BY DEF OrderInv, SilenceInv
<1>2. CASE Loop \/ CtxDone \/ BGTick \/ MixTrack
  <2>1. /\ UNCHANGED <<sent, mixerIn, announced, ended, ctxDone, speechCh, cmdCh>>
        /\ UNCHANGED <<said, speech, speechSampleBuf>>
    BY <1>2 DEF Loop, CtxDone, BGTick, MixTrack
  <2>2. NothingMore => NothingMore' BY <1>2 DEF NothingMore, Loop, CtxDone, BGTick, MixTrack
  <2> QED BY <2>1, <2>2, SpeechUnchanged
<1>3. CASE Idle
  <2>1. /\ UNCHANGED <<sent, mixerIn, announced, ended, ctxDone, said, speech, done>>
        /\ at = "idle" /\ at' = "loop" /\ speech = <<>> /\ speech' = <<>>
    BY <1>1, <1>3 DEF Idle, OnlyMixed
  <2>2. CASE cmdCh # <<>> /\ HandleCmds(<<Head(cmdCh)>>) /\ cmdCh' = Tail(cmdCh)
    <3>1. cmdCh \in Seq(Sources) BY <1>1 DEF SpeechTypes
    <3>2. speechCh' = <<Head(cmdCh)>>[Len(<<Head(cmdCh)>>)] /\ speechSampleBuf' = <<>>
      BY <2>2 DEF HandleCmds
    <3>3. /\ 1 \in 1 .. Len(cmdCh) /\ speechCh' = cmdCh[1] /\ cmdCh' \in Seq(Sources)
          /\ \A i \in 1 .. Len(cmdCh') : 1 + i \in 1 .. Len(cmdCh) /\ cmdCh'[i] = cmdCh[1 + i]
      BY <2>2, <3>1, <3>2
    <3> QED BY <2>1, <3>2, <3>3, CommandsTaken
  <2>3. CASE UNCHANGED <<cmdCh, speechCh, speechSampleBuf>>
    <3>1. NothingMore => NothingMore' BY <2>1 DEF NothingMore
    <3> QED BY <2>1, <2>3, <3>1, SpeechUnchanged
  <2> QED BY <1>3, <2>2, <2>3 DEF Idle
<1>4. CASE DrainCommands
  <2>1. /\ UNCHANGED <<sent, mixerIn, announced, ended, ctxDone, said, speech, done>>
        /\ at \in {"commands", "bgCommands"} /\ speech = <<>> /\ speech' = <<>> /\ cmdCh' = <<>>
    BY <1>1, <1>4 DEF DrainCommands, OnlyMixed
  <2>2. ~NothingMore BY <2>1 DEF NothingMore
  <2>3. CASE cmdCh = <<>>
    <3>1. UNCHANGED <<speechCh, speechSampleBuf, cmdCh>>
      BY <1>4, <2>1, <2>3 DEF DrainCommands, HandleCmds
    <3> QED BY <2>1, <2>2, <3>1, SpeechUnchanged
  <2>4. CASE cmdCh # <<>>
    <3>1. cmdCh \in Seq(Sources) BY <1>1 DEF SpeechTypes
    <3>2. Len(cmdCh) \in 1 .. Len(cmdCh) BY <2>4, <3>1, EmptySeq, LenProperties
    <3>3. speechCh' = cmdCh[Len(cmdCh)] /\ speechSampleBuf' = <<>>
      BY <1>4, <2>4 DEF DrainCommands, HandleCmds
    <3>4. cmdCh' \in Seq(Sources) /\ Len(cmdCh') = 0 BY <2>1, EmptySeq
    <3> QED BY <2>1, <3>2, <3>3, <3>4, CommandsTaken
  <2> QED BY <2>3, <2>4
<1> QED BY <1>2, <1>3, <1>4, TickOrder, CollectOrder, SendOrder DEF Run

\* A command is appended: to mute, or to set a source that nothing is known of.
LEMMA CommandAppended ==
  ASSUME OrderInv, NEW c \in Sources, SetSpeechSource(c),
         UNCHANGED <<speechCh, sent, mixerIn>>, Spoken' = Spoken,
         c # 0 => /\ TakenFrames(c) = 0 /\ speechCh < c
                  /\ \A r \in Spoken : r < c
                  /\ \A i \in 1 .. Len(cmdCh) : cmdCh[i] < c
  PROVE  CommandsFollow'
<1>1. CommandsFollow /\ cmdCh \in Seq(Sources) BY DEF OrderInv, Order, SilenceInv, SpeechTypes
<1>2. CASE UNCHANGED cmdCh
  BY <1>1, <1>2 DEF CommandsFollow, TakenFrames
<1>3. CASE cmdCh' = Append(cmdCh, c)
  <2> DEFINE s == cmdCh
  <2>1. /\ Len(s') = Len(s) + 1 /\ Len(s) \in Nat
        /\ \A i \in 1 .. Len(s) : s'[i] = s[i]
        /\ s'[Len(s) + 1] = c
    BY <1>1, <1>3, AppendProperties, LenProperties
  <2> SUFFICES ASSUME NEW i \in 1 .. Len(s'), s'[i] # 0
               PROVE  /\ speechCh < s'[i]
                      /\ \A j \in 1 .. i - 1 : s'[j] < s'[i]
                      /\ sent[s'[i]] - Len(mixerIn[s'[i]]) = 0
                      /\ \A r \in Spoken : r < s'[i]
    BY DEF CommandsFollow, TakenFrames
  <2>2. CASE i <= Len(s)
    <3>1. i \in 1 .. Len(s) /\ s'[i] = s[i] BY <2>1, <2>2
    <3>2. \A j \in 1 .. i - 1 : s'[j] = s[j] BY <2>1, <2>2
    <3> QED BY <1>1, <3>1, <3>2 DEF CommandsFollow, TakenFrames
  <2>3. CASE i = Len(s) + 1
    <3>1. s'[i] = c /\ \A j \in 1 .. i - 1 : j \in 1 .. Len(s) /\ s'[j] = s[j] BY <2>1, <2>3
    <3> QED BY <3>1 DEF TakenFrames
  <2> HIDE DEF s
  <2> QED BY <2>1, <2>2, <2>3
<1> QED BY <1>2, <1>3 DEF SetSpeechSource

\* The steps of the callers.
LEMMA CallersOrder ==
  ASSUME OrderInv,
         \/ \E r \in Responses : Speaker(r)
         \/ \E t \in Tracks : AddTrack(t) \/ StopTrack(t)
         \/ Close \/ ReadFrame \/ UNCHANGED vars
  PROVE  Order'
<1>1. /\ SpeechTypes /\ said \in Seq(Sample) /\ FramesFollow /\ ResponsesFollow
      /\ KnownAreAnnounced /\ CommandsFollow /\ SourceJoins /\ Chained(said)
      /\ NothingMore \/ Chained(Whole)
  BY DEF OrderInv, Order, SilenceInv
<1>2. CASE \/ \E t \in Tracks : AddTrack(t) \/ StopTrack(t)
           \/ Close \/ ReadFrame \/ UNCHANGED vars
  <2>1. /\ UNCHANGED <<sent, mixerIn, announced, ended, ctxDone, speechCh, cmdCh>>
        /\ UNCHANGED <<said, speech, speechSampleBuf>> /\ at' = at /\ (done => done')
    BY <1>2 DEF AddTrack, StopTrack, Close, ReadFrame, vars
  <2>2. NothingMore => NothingMore' BY <2>1 DEF NothingMore
  <2> QED BY <2>1, <2>2, SpeechUnchanged
<1>3. ASSUME NEW c \in Responses, Speaker(c) PROVE Order'
  <2>1. /\ UNCHANGED <<at, done, speechCh, said, speech, speechSampleBuf>>
        /\ Spoken' = Spoken /\ Whole' = Whole /\ (NothingMore' <=> NothingMore)
    <3>1. UNCHANGED <<at, done, speechCh, said, speech, speechSampleBuf>>
      BY <1>3 DEF Speaker, Announce, SendSpeech, EndSpeech, CancelContext, Mute
    <3> QED BY <3>1 DEF Spoken, Whole, ResponsesIn, NothingMore
  <2>2. /\ said' \in Seq(Sample) /\ Chained(said)'
        /\ (NothingMore \/ Chained(Whole))'
    BY <1>1, <2>1 DEF Chained
  <2>3. CASE Announce(c)
    <3>1. /\ UNCHANGED <<sent, mixerIn, ended, ctxDone>> /\ SetSpeechSource(c) /\ Begun(c)
          /\ ~announced[c] /\ ~ended[c] /\ announced' = [announced EXCEPT ![c] = TRUE]
      BY <2>3 DEF Announce
    <3>2. \A r \in Responses : announced'[r] = (r = c \/ announced[r])
      BY <1>1, <3>1 DEF SpeechTypes
    <3>3. \A r \in Responses : announced[r] => r < c
      <4>1. \A r \in Responses : announced[r] => ~(c < r) /\ r # c
        BY <1>1, <3>1 DEF ResponsesFollow
      <4> QED BY <4>1 DEF Responses
    <3>4. FramesFollow' BY <1>1, <3>1, <3>2 DEF FramesFollow, TakenFrames
    <3>5. ResponsesFollow'
      <4>1. \A q \in Responses : q < c => ended[q]
        <5>1. ASSUME NEW q \in Responses, q < c PROVE ended[q]
          <6>1. c - 1 \in Responses /\ c > 1 /\ (q = c - 1 \/ q < c - 1)
            BY <5>1, BoundsAssumption DEF Responses
          <6> QED BY <1>1, <3>1, <6>1 DEF Begun, ResponsesFollow
        <5> QED BY <5>1
      <4> QED BY <1>1, <3>1, <3>2, <4>1 DEF ResponsesFollow
    <3>6. TakenFrames(c) = 0
      <4>1. /\ Len(mixerIn[c]) <= sent[c] /\ ~(sent[c] > 0)
            /\ sent[c] \in Nat /\ Len(mixerIn[c]) \in Nat
        BY <1>1, <3>1, LenProperties DEF FramesFollow, SpeechTypes
      <4> QED BY <4>1 DEF TakenFrames
    <3>7. /\ speechCh < c /\ \A r \in Spoken : r < c
          /\ \A i \in 1 .. Len(cmdCh) : cmdCh[i] < c
      <4>1. 0 < c BY DEF Responses
      <4>2. speechCh < c BY <1>1, <3>3, <4>1 DEF KnownAreAnnounced, SpeechTypes, Sources
      <4>3. \A i \in 1 .. Len(cmdCh) : cmdCh[i] \in Sources
        BY <1>1, ElementOfSeq DEF SpeechTypes
      <4> QED BY <1>1, <3>3, <4>1, <4>2, <4>3 DEF KnownAreAnnounced, Sources
    <3>8. CommandsFollow' BY <2>1, <3>1, <3>6, <3>7, CommandAppended DEF Sources
    <3>9. \A i \in 1 .. Len(cmdCh') :
            cmdCh'[i] = c \/ (i \in 1 .. Len(cmdCh) /\ cmdCh'[i] = cmdCh[i])
      <4>1. cmdCh \in Seq(Sources) /\ c \in Sources BY <1>1 DEF SpeechTypes, Sources
      <4> QED BY <3>1, <4>1, AppendProperties, LenProperties DEF SetSpeechSource
    <3>10. \A i \in 1 .. Len(cmdCh) : cmdCh[i] # 0 => cmdCh[i] \in Responses
      BY <1>1, ElementOfSeq DEF SpeechTypes, Sources
    <3>11. KnownAreAnnounced'
      BY <1>1, <2>1, <3>2, <3>9, <3>10 DEF KnownAreAnnounced, SpeechTypes, Sources
    <3>12. SourceJoins' BY <1>1, <2>1, <3>1 DEF SourceJoins, TakenFrames
    <3> QED BY <2>2, <3>4, <3>5, <3>8, <3>11, <3>12 DEF Order
  <2>4. CASE SendSpeech(c)
    <3>1. /\ UNCHANGED <<announced, ended, ctxDone, cmdCh>> /\ announced[c]
          /\ sent' = [sent EXCEPT ![c] = @ + 1]
          /\ mixerIn' = [mixerIn EXCEPT ![c] = Append(@, sent[c] + 1)]
      BY <2>4 DEF SendSpeech
    <3>2. /\ sent[c] \in Nat /\ mixerIn[c] \in Seq(Nat \ {0}) /\ Len(mixerIn[c]) \in Nat
      BY <1>1, LenProperties DEF SpeechTypes
    <3>3. /\ sent'[c] = sent[c] + 1 /\ mixerIn'[c] = Append(mixerIn[c], sent[c] + 1)
          /\ \A r \in Responses \ {c} : sent'[r] = sent[r] /\ mixerIn'[r] = mixerIn[r]
      BY <1>1, <3>1 DEF SpeechTypes
    <3>4. /\ Len(mixerIn'[c]) = Len(mixerIn[c]) + 1
          /\ \A i \in 1 .. Len(mixerIn[c]) : mixerIn'[c][i] = mixerIn[c][i]
          /\ mixerIn'[c][Len(mixerIn[c]) + 1] = sent[c] + 1
      <4>1. sent[c] + 1 \in Nat \ {0} BY <3>2
      <4> QED BY <3>2, <3>3, <4>1, AppendProperties
    <3>5. \A r \in Responses : sent'[r] - Len(mixerIn'[r]) = sent[r] - Len(mixerIn[r])
      <4>1. sent'[c] - Len(mixerIn'[c]) = sent[c] - Len(mixerIn[c]) BY <3>2, <3>3, <3>4
      <4> QED BY <3>3, <4>1
    <3>6. FramesFollow'
      <4> SUFFICES ASSUME NEW r \in Responses
                   PROVE  /\ Len(mixerIn'[r]) <= sent'[r] /\ (sent'[r] > 0 => announced[r])
                          /\ \A i \in 1 .. Len(mixerIn'[r]) :
                               mixerIn'[r][i] = (sent'[r] - Len(mixerIn'[r])) + i
        BY <3>1 DEF FramesFollow, TakenFrames
      <4>1. CASE r # c
        BY <1>1, <3>3, <4>1 DEF FramesFollow, TakenFrames
      <4>2. CASE r = c
        <5> DEFINE n == Len(mixerIn[c])
                   k == sent[c]
        <5>1. n <= k /\ \A i \in 1 .. n : mixerIn[c][i] = (k - n) + i
          BY <1>1 DEF FramesFollow, TakenFrames
        <5>2. n \in Nat /\ k \in Nat BY <3>2
        <5>3. /\ Len(mixerIn'[c]) = n + 1 /\ sent'[c] = k + 1
              /\ \A i \in 1 .. n : mixerIn'[c][i] = mixerIn[c][i]
              /\ mixerIn'[c][n + 1] = k + 1
          BY <3>3, <3>4
        <5> DEFINE s == mixerIn'[c]
        <5>4. \A i \in 1 .. n + 1 : s[i] = ((k + 1) - (n + 1)) + i
          <6> HIDE DEF n, k, s
          <6>1. \A i \in 1 .. n : s[i] = (k - n) + i BY <5>1, <5>3 DEF s
          <6>2. s[n + 1] = k + 1 BY <5>3 DEF s
          <6> QED BY <5>2, <6>1, <6>2
        <5>5. n + 1 <= k + 1 /\ \A i \in 1 .. n + 1 : mixerIn'[c][i] = ((k + 1) - (n + 1)) + i
          <6> HIDE DEF n, k
          <6> QED BY <5>1, <5>2, <5>4
        <5>6. /\ Len(mixerIn'[c]) <= sent'[c]
              /\ \A i \in 1 .. Len(mixerIn'[c]) :
                   mixerIn'[c][i] = (sent'[c] - Len(mixerIn'[c])) + i
          <6> HIDE DEF n, k
          <6> QED BY <5>3, <5>5
        <5> QED BY <3>1, <4>2, <5>6
      <4> QED BY <4>1, <4>2
    <3>7. ResponsesFollow' BY <1>1, <3>1 DEF ResponsesFollow
    <3>8. KnownAreAnnounced' BY <1>1, <2>1, <3>1 DEF KnownAreAnnounced
    <3>9. \A i \in 1 .. Len(cmdCh) : cmdCh[i] # 0 => cmdCh[i] \in Responses
      BY <1>1, ElementOfSeq DEF SpeechTypes, Sources
    <3>10. CommandsFollow' BY <1>1, <2>1, <3>1, <3>5, <3>9 DEF CommandsFollow, TakenFrames
    <3>11. SourceJoins'
      BY <1>1, <2>1, <3>1, <3>5 DEF SourceJoins, TakenFrames, SpeechTypes, Sources
    <3> QED BY <2>2, <3>6, <3>7, <3>8, <3>10, <3>11 DEF Order
  <2>5. CASE EndSpeech(c) \/ CancelContext(c)
    <3>1. /\ UNCHANGED <<announced, sent, mixerIn, cmdCh>> /\ Begun(c)
          /\ \A r \in Responses : (ended[r] => ended'[r]) /\ (ctxDone[r] => ctxDone'[r])
          /\ \A r \in Responses \ {c} : ended'[r] = ended[r] /\ ctxDone'[r] = ctxDone[r]
      BY <1>1, <2>5 DEF EndSpeech, CancelContext, SpeechTypes
    <3>2. ResponsesFollow'
      <4>1. ASSUME NEW r \in Responses, NEW q \in Responses, q < r,
                   announced'[r] \/ ended'[r] \/ ctxDone'[r]
            PROVE  ended'[q]
        <5>1. CASE r # c
          BY <1>1, <3>1, <4>1, <5>1 DEF ResponsesFollow
        <5>2. CASE r = c
          <6>1. c - 1 \in Responses /\ c > 1 /\ (q = c - 1 \/ q < c - 1)
            BY <4>1, <5>2, BoundsAssumption DEF Responses
          <6>2. ended[q] BY <1>1, <3>1, <6>1 DEF Begun, ResponsesFollow
          <6> QED BY <3>1, <6>2
        <5> QED BY <5>1, <5>2
      <4> QED BY <4>1 DEF ResponsesFollow
    <3>3. FramesFollow' BY <1>1, <3>1 DEF FramesFollow, TakenFrames
    <3>4. KnownAreAnnounced' BY <1>1, <2>1, <3>1 DEF KnownAreAnnounced
    <3>5. CommandsFollow' BY <1>1, <2>1, <3>1 DEF CommandsFollow, TakenFrames
    <3>6. SourceJoins'
      BY <1>1, <2>1, <3>1 DEF SourceJoins, TakenFrames, SpeechTypes, Sources
    <3> QED BY <2>2, <3>2, <3>3, <3>4, <3>5, <3>6 DEF Order
  <2>6. CASE Mute(c)
    <3>1. /\ UNCHANGED <<announced, sent, mixerIn, ended, ctxDone>> /\ SetSpeechSource(0)
      BY <2>6 DEF Mute
    <3>2. CommandsFollow' BY <2>1, <3>1, CommandAppended DEF Sources
    <3>3. \A i \in 1 .. Len(cmdCh') :
            cmdCh'[i] = 0 \/ (i \in 1 .. Len(cmdCh) /\ cmdCh'[i] = cmdCh[i])
      <4>1. 0 \in Sources /\ cmdCh \in Seq(Sources) BY <1>1 DEF SpeechTypes, Sources
      <4> QED BY <3>1, <4>1, AppendProperties, LenProperties DEF SetSpeechSource
    <3>4. KnownAreAnnounced' BY <1>1, <2>1, <3>1, <3>3 DEF KnownAreAnnounced
    <3>5. FramesFollow' BY <1>1, <3>1 DEF FramesFollow, TakenFrames
    <3>6. ResponsesFollow' BY <1>1, <3>1 DEF ResponsesFollow
    <3>7. SourceJoins' BY <1>1, <2>1, <3>1 DEF SourceJoins, TakenFrames
    <3> QED BY <2>2, <3>2, <3>4, <3>5, <3>6, <3>7 DEF Order
  <2> QED BY <1>3, <2>3, <2>4, <2>5, <2>6 DEF Speaker
<1> QED BY <1>2, <1>3

\* The inductive invariant: what has been put out, is being mixed and is buffered is one
\* chain; the next frame of the source joins it, and sources that follow are later ones.
THEOREM OrderHolds == Spec => []OrderInv
<1>1. OrderInv /\ [Next]_vars => OrderInv'
  <2> SUFFICES ASSUME OrderInv, [Next]_vars PROVE OrderInv'
    OBVIOUS
  <2>1. SilenceInv' BY RunSilence, CallersSilence DEF OrderInv, Next, Terminated
  <2>2. Order' BY RunOrder, CallersOrder DEF Next, Terminated
  <2> QED BY <2>1, <2>2 DEF OrderInv
<1> QED BY InitOrder, <1>1, PTL DEF Spec

\* The speech put out is, response after response, the samples sent, from the first one on
\* and with no gap, repetition or way back (drainSpeechFrames, collectSpeechFrames,
\* handleCmd, SetSpeechSource).
THEOREM SpeechStaysInOrder == Spec => []SpeechInOrder
<1>1. OrderInv => SpeechInOrder
  <2>1. OrderInv => Chained(said) /\ DOMAIN said = 1 .. Len(said)
    BY LenProperties DEF OrderInv, Order
  <2> QED BY <2>1 DEF Chained, SpeechInOrder
<1> QED BY OrderHolds, <1>1, PTL

(***************************************************************************)
(* The types, the capacities of the channels, and that no track is lost    *)
(***************************************************************************)
TrackTypes ==
  /\ tracks \in Seq(Tracks) /\ trackCh \in Seq(Tracks) /\ todo \in Seq(Tracks)
  /\ position \in [Tracks -> 0 .. WaveLen] /\ heard \in [Tracks -> Seq(1 .. WaveLen)]
  /\ added \subseteq Tracks /\ stopped \subseteq Tracks /\ silent \subseteq Tracks

\* The bounds of the channels and counters.
Capacities ==
  /\ Len(cmdCh) <= CmdCap /\ Len(trackCh) <= TrackCap /\ out \in 0 .. OutCap
  /\ Len(speech) <= SamplesPerTick
  /\ \A r \in Responses : /\ mixerIn[r] \in Seq(1 .. MaxFrames) /\ Len(mixerIn[r]) <= InCap
                          /\ sent[r] <= MaxFrames

\* The tracks not yet looked at are the last of the tracks: the one that mixTracks drops
\* is the one it has looked at.
TodoFollows ==
  at = "mix" =>
    /\ Len(todo) <= Len(tracks)
    /\ \A i \in 1 .. Len(todo) : todo[i] = tracks[Len(tracks) - Len(todo) + i]

TrackInv == TrackTypes /\ Capacities /\ TodoFollows /\ NoTrackLost

\* The bounds one by one.
LEMMA Positive ==
  /\ MaxFrames \in Nat /\ SamplesPerTick \in Nat \ {0} /\ WaveLen \in Nat \ {0}
  /\ InCap \in Nat \ {0} /\ CmdCap \in Nat \ {0} /\ TrackCap \in Nat \ {0}
  /\ OutCap \in Nat \ {0}
BY BoundsAssumption

\* The smaller of two numbers.
LEMMA MinOfTwo ==
  ASSUME NEW a \in Nat, NEW b \in Nat
  PROVE  Min({a, b}) \in Nat /\ Min({a, b}) <= a /\ Min({a, b}) <= b
<1>1. \E x \in {a, b} : \A y \in {a, b} : x <= y
  <2>1. CASE a <= b BY <2>1
  <2>2. CASE b <= a BY <2>2
  <2> QED BY <2>1, <2>2
<1>2. Min({a, b}) \in {a, b} /\ \A y \in {a, b} : Min({a, b}) <= y BY <1>1 DEF Min
<1> QED BY <1>2

\* What is left of a sequence without the element at place i.
LEMMA RemoveAtProperties ==
  ASSUME NEW S, NEW s \in Seq(S), NEW i \in 1 .. Len(s)
  PROVE  /\ RemoveAt(s, i) \in Seq(S) /\ Len(RemoveAt(s, i)) = Len(s) - 1
         /\ \A j \in 1 .. i - 1 : RemoveAt(s, i)[j] = s[j]
         /\ \A j \in i .. Len(s) - 1 : RemoveAt(s, i)[j] = s[j + 1]
<1> DEFINE a == SubSeq(s, 1, i - 1)
           b == SubSeq(s, i + 1, Len(s))
<1>1. /\ a \in Seq(S) /\ Len(a) = i - 1 /\ \A j \in 1 .. i - 1 : a[j] = s[j]
      /\ b \in Seq(S) /\ Len(b) = Len(s) - i /\ \A j \in 1 .. Len(s) - i : b[j] = s[i + j]
  OBVIOUS
<1>2. RemoveAt(s, i) = a \o b BY DEF RemoveAt
<1>3. /\ a \o b \in Seq(S) /\ Len(a \o b) = Len(a) + Len(b)
      /\ \A j \in 1 .. Len(a) + Len(b) :
           (a \o b)[j] = IF j <= Len(a) THEN a[j] ELSE b[j - Len(a)]
  <2> HIDE DEF a, b
  <2> QED BY <1>1, ConcatProperties
<1> HIDE DEF a, b
<1>4. Len(s) \in Nat BY LenProperties
<1>5. \A j \in 1 .. i - 1 : (a \o b)[j] = s[j] BY <1>1, <1>3, <1>4
<1>6. \A j \in i .. Len(s) - 1 : (a \o b)[j] = s[j + 1]
  <2> TAKE j \in i .. Len(s) - 1
  <2>1. /\ j \in 1 .. Len(a) + Len(b) /\ ~(j <= Len(a)) /\ j - Len(a) \in 1 .. Len(s) - i
        /\ i + (j - Len(a)) = j + 1
    BY <1>1, <1>4
  <2>2. (a \o b)[j] = b[j - Len(a)] BY <1>3, <2>1
  <2>3. b[j - Len(a)] = s[i + (j - Len(a))] BY <1>1, <2>1
  <2> QED BY <2>1, <2>2, <2>3
<1> QED BY <1>1, <1>2, <1>3, <1>4, <1>5, <1>6

\* Every other element is still there.
LEMMA RemoveAtKeeps ==
  ASSUME NEW S, NEW s \in Seq(S), NEW i \in 1 .. Len(s), NEW x \in ToSet(s), x # s[i]
  PROVE  x \in ToSet(RemoveAt(s, i))
<1>1. PICK j \in 1 .. Len(s) : s[j] = x BY LenProperties DEF ToSet
<1>2. /\ Len(RemoveAt(s, i)) = Len(s) - 1 /\ DOMAIN RemoveAt(s, i) = 1 .. Len(s) - 1
  BY RemoveAtProperties, LenProperties
<1>3. CASE j < i
  <2>1. j \in 1 .. i - 1 /\ j \in 1 .. Len(s) - 1 BY <1>1, <1>3, LenProperties
  <2> QED BY <1>1, <1>2, <2>1, RemoveAtProperties DEF ToSet
<1>4. CASE j > i
  <2>1. /\ j - 1 \in i .. Len(s) - 1 /\ j - 1 \in 1 .. Len(s) - 1 /\ (j - 1) + 1 = j
    BY <1>1, <1>4, LenProperties
  <2>2. RemoveAt(s, i)[j - 1] = x BY <1>1, <2>1, RemoveAtProperties
  <2> QED BY <1>2, <2>1, <2>2 DEF ToSet
<1> QED BY <1>1, <1>3, <1>4, LenProperties

\* The elements of a concatenation, and of a sequence and its tail.
LEMMA ElementsOfConcat ==
  ASSUME NEW S, NEW s \in Seq(S), NEW t \in Seq(S)
  PROVE  ToSet(s) \cup ToSet(t) \subseteq ToSet(s \o t)
<1>1. /\ s \o t \in Seq(S) /\ Len(s \o t) = Len(s) + Len(t)
      /\ \A i \in 1 .. Len(s) + Len(t) :
           (s \o t)[i] = IF i <= Len(s) THEN s[i] ELSE t[i - Len(s)]
  BY ConcatProperties
<1>2. /\ DOMAIN s = 1 .. Len(s) /\ DOMAIN t = 1 .. Len(t) /\ Len(s) \in Nat /\ Len(t) \in Nat
      /\ DOMAIN (s \o t) = 1 .. Len(s) + Len(t)
  BY <1>1, LenProperties
<1>3. \A i \in 1 .. Len(s) : i \in 1 .. Len(s) + Len(t) /\ (s \o t)[i] = s[i] BY <1>1, <1>2
<1>4. \A i \in 1 .. Len(t) :
        Len(s) + i \in 1 .. Len(s) + Len(t) /\ (s \o t)[Len(s) + i] = t[i]
  BY <1>1, <1>2
<1> QED BY <1>2, <1>3, <1>4 DEF ToSet

LEMMA ElementsOfTail ==
  ASSUME NEW S, NEW s \in Seq(S), s # <<>>, NEW x \in ToSet(s)
  PROVE  x = Head(s) \/ x \in ToSet(Tail(s))
<1>1. PICK i \in 1 .. Len(s) : s[i] = x BY LenProperties DEF ToSet
<1>2. CASE i = 1 BY <1>1, <1>2
<1>3. CASE i > 1
  <2>1. /\ Tail(s) \in Seq(S) /\ Len(Tail(s)) = Len(s) - 1
        /\ \A j \in 1 .. Len(Tail(s)) : Tail(s)[j] = s[j + 1]
    BY HeadTailProperties
  <2>2. i - 1 \in 1 .. Len(Tail(s)) /\ (i - 1) + 1 = i BY <1>1, <1>3, <2>1, LenProperties
  <2>3. Tail(s)[i - 1] = x BY <1>1, <2>1, <2>2
  <2> QED BY <2>1, <2>2, <2>3, LenProperties DEF ToSet
<1> QED BY <1>1, <1>2, <1>3

\* The samples read of a track are places in its wave, and there are none at its end.
LEMMA ReadType ==
  ASSUME TrackTypes, NEW t \in Tracks, NEW n \in Nat
  PROVE  /\ Read(t, n) \in Seq(1 .. WaveLen)
         /\ t \notin Looping /\ position[t] = WaveLen => Read(t, n) = <<>>
<1> DEFINE p == position[t]
<1>1. p \in 0 .. WaveLen /\ WaveLen \in Nat \ {0} BY BoundsAssumption DEF TrackTypes
<1>2. CASE t \in Looping
  <2>1. Read(t, n) = [i \in 1 .. n |-> ((p + i - 1) % WaveLen) + 1] BY <1>2 DEF Read
  <2> HIDE DEF p
  <2>2. \A i \in 1 .. n : ((p + i - 1) % WaveLen) + 1 \in 1 .. WaveLen
    <3> TAKE i \in 1 .. n
    <3> DEFINE k == p + i - 1
    <3>1. k \in Nat BY <1>1
    <3> HIDE DEF k
    <3>2. k % WaveLen \in 0 .. WaveLen - 1 BY <1>1, <3>1
    <3>3. (k % WaveLen) + 1 \in 1 .. WaveLen BY <1>1, <3>2
    <3> QED BY <3>3 DEF k
  <2> QED BY <1>2, <2>1, <2>2
<1>3. CASE t \notin Looping
  <2> DEFINE m == Min({n, WaveLen - p})
  <2>1. Read(t, n) = [i \in 1 .. m |-> p + i] BY <1>3 DEF Read
  <2>2. m \in Nat /\ m <= WaveLen - p
    <3> HIDE DEF p
    <3>1. WaveLen - p \in Nat BY <1>1
    <3> QED BY <3>1, MinOfTwo
  <2>3. p = WaveLen => m = 0
    <3> HIDE DEF p, m
    <3> QED BY <1>1, <2>2
  <2> HIDE DEF p, m
  <2>4. \A i \in 1 .. m : p + i \in 1 .. WaveLen BY <1>1, <2>2
  <2>5. [i \in 1 .. m |-> p + i] \in Seq(1 .. WaveLen) BY <2>2, <2>4
  <2>6. m = 0 => [i \in 1 .. m |-> p + i] = <<>> OBVIOUS
  <2> QED BY <2>1, <2>3, <2>5, <2>6 DEF p
<1> QED BY <1>2, <1>3

\* One track is mixed, and dropped if it is stopped or over.
LEMMA MixTracks == SilenceInv /\ TrackInv /\ MixTrack => TrackInv'
<1> SUFFICES ASSUME SilenceInv, TrackInv, MixTrack PROVE TrackInv'
  OBVIOUS
<1> USE DEF TrackInv
<1> DEFINE t == Head(todo)
           L == Len(tracks)
           d == Len(todo)
           others == RemoveAt(tracks, L - d + 1)
           samples == Read(t, Length)
           end == IF samples = <<>> THEN position[t] ELSE Last(samples)
<1>1. /\ tracks \in Seq(Tracks) /\ todo \in Seq(Tracks) /\ todo # <<>> /\ t \in Tracks
      /\ L \in Nat /\ d \in Nat \ {0} /\ d <= L
      /\ \A i \in 1 .. d : todo[i] = tracks[L - d + i]
  <2>1. tracks \in Seq(Tracks) /\ todo \in Seq(Tracks) /\ todo # <<>> BY DEF TrackTypes, MixTrack
  <2>2. t \in Tracks BY <2>1, HeadTailProperties
  <2> QED BY <2>1, <2>2, LenProperties, EmptySeq DEF TodoFollows, MixTrack
<1>2. L - d + 1 \in 1 .. L /\ tracks[L - d + 1] = t
  <2>1. 1 \in 1 .. d /\ todo[1] = t BY <1>1
  <2> HIDE DEF L, d, t
  <2> QED BY <1>1, <2>1
<1>3. /\ todo' \in Seq(Tracks) /\ Len(todo') = d - 1
      /\ \A i \in 1 .. d - 1 : todo'[i] = todo[i + 1]
  <2>1. todo' = Tail(todo) BY DEF MixTrack
  <2> QED BY <1>1, <2>1, HeadTailProperties
<1>4. /\ others \in Seq(Tracks) /\ Len(others) = L - 1
      /\ \A j \in L - d + 1 .. L - 1 : others[j] = tracks[j + 1]
  <2> HIDE DEF d
  <2> QED BY <1>1, <1>2, RemoveAtProperties
<1>5. samples \in Seq(1 .. WaveLen) /\ end \in 0 .. WaveLen
      /\ (t \notin Looping /\ position[t] = WaveLen => end = WaveLen)
  <2>1. Length \in Nat
    BY BoundsAssumption, LenProperties DEF Length, SilenceInv, SpeechTypes
  <2>2. /\ samples \in Seq(1 .. WaveLen)
        /\ t \notin Looping /\ position[t] = WaveLen => samples = <<>>
    BY <1>1, <2>1, ReadType
  <2>3. position[t] \in 0 .. WaveLen BY <1>1 DEF TrackTypes
  <2> HIDE DEF samples, t
  <2>4. samples # <<>> => Last(samples) \in 1 .. WaveLen
    <3>1. samples # <<>> => Len(samples) \in 1 .. Len(samples) BY <2>2, EmptySeq
    <3> QED BY <2>2, <3>1, ElementOfSeq DEF Last
  <2> QED BY <2>2, <2>3, <2>4, BoundsAssumption
<1>6. /\ UNCHANGED <<at, trackCh, added, stopped, silent>>
      /\ UNCHANGED <<cmdCh, out, speech, mixerIn, sent>> /\ at = "mix"
      /\ \/ t \in stopped /\ tracks' = others /\ UNCHANGED <<heard, position>>
         \/ /\ t \notin stopped /\ heard' = [heard EXCEPT ![t] = samples]
            /\ position' = [position EXCEPT ![t] = end]
            /\ tracks' = IF Over(t, end) THEN others ELSE tracks
  BY DEF MixTrack
<1>7. tracks' = tracks \/ tracks' = others BY <1>6
<1>8. TrackTypes'
  <2>1. tracks' \in Seq(Tracks)
    <3> HIDE DEF others
    <3> QED BY <1>1, <1>4, <1>7
  <2>2. position' \in [Tracks -> 0 .. WaveLen] /\ heard' \in [Tracks -> Seq(1 .. WaveLen)]
    <3> HIDE DEF end, samples, t, others
    <3> QED BY <1>1, <1>5, <1>6 DEF TrackTypes
  <2> QED BY <1>3, <1>6, <2>1, <2>2 DEF TrackTypes
<1>9. Capacities' BY <1>6 DEF Capacities
<1>10. TodoFollows'
  <2> DEFINE rest == todo'
             now == tracks'
  <2>1. Len(rest) = d - 1 /\ \A i \in 1 .. d - 1 : rest[i] = tracks[L - d + (i + 1)]
    <3>1. \A i \in 1 .. d - 1 : i + 1 \in 1 .. d BY <1>1
    <3> QED BY <1>1, <1>3, <3>1
  <2>2. \/ now = tracks /\ Len(now) = L
        \/ /\ Len(now) = L - 1
           /\ \A j \in L - d + 1 .. L - 1 : now[j] = tracks[j + 1]
    BY <1>4, <1>7
  <2>3. Len(rest) <= Len(now) /\ \A i \in 1 .. Len(rest) : rest[i] = now[Len(now) - Len(rest) + i]
    <3> HIDE DEF rest, now, L, d
    <3>1. CASE now = tracks /\ Len(now) = L
      <4>1. \A i \in 1 .. d - 1 : L - d + (i + 1) = L - (d - 1) + i BY <1>1
      <4> QED BY <1>1, <2>1, <3>1, <4>1
    <3>2. CASE /\ Len(now) = L - 1
               /\ \A j \in L - d + 1 .. L - 1 : now[j] = tracks[j + 1]
      <4>1. \A i \in 1 .. d - 1 : /\ (L - 1) - (d - 1) + i \in L - d + 1 .. L - 1
                                  /\ ((L - 1) - (d - 1) + i) + 1 = L - d + (i + 1)
        BY <1>1
      <4>2. \A i \in 1 .. d - 1 : now[(L - 1) - (d - 1) + i] = tracks[L - d + (i + 1)]
        BY <3>2, <4>1
      <4>3. d - 1 <= L - 1 BY <1>1
      <4> QED BY <2>1, <3>2, <4>2, <4>3
    <3> QED BY <2>2, <3>1, <3>2
  <2> QED BY <2>3 DEF TodoFollows
<1>11. NoTrackLost'
  <2> SUFFICES ASSUME NEW x \in added \ stopped
               PROVE  \/ x \in ToSet(tracks') \cup ToSet(trackCh)
                      \/ x \notin Looping /\ position'[x] = WaveLen
    BY <1>6 DEF NoTrackLost
  <2>1. x \in Tracks BY DEF TrackTypes
  <2>2. CASE x \in ToSet(trackCh) BY <2>2
  <2>3. CASE x \notin Looping /\ position[x] = WaveLen
    <3>1. position' = position \/ position' = [position EXCEPT ![t] = end] BY <1>6
    <3>2. x = t => end = WaveLen BY <1>5, <2>3
    <3> HIDE DEF t, end
    <3> QED BY <2>1, <2>3, <3>1, <3>2 DEF TrackTypes
  <2>4. CASE x \in ToSet(tracks)
    <3>1. CASE tracks' = tracks BY <2>4, <3>1
    <3>2. CASE tracks' = others /\ x # t
      BY <1>1, <1>2, <2>4, <3>2, RemoveAtKeeps
    <3>3. CASE x = t /\ tracks' # tracks
      <4>1. Over(t, end) /\ position' = [position EXCEPT ![t] = end] BY <1>6, <3>3
      <4>2. end = WaveLen /\ t \notin Looping
        <5> HIDE DEF end, t
        <5> QED BY <1>5, <4>1, BoundsAssumption DEF Over
      <4> HIDE DEF end, t
      <4> QED BY <2>1, <3>3, <4>1, <4>2 DEF TrackTypes
    <3> QED BY <1>7, <3>1, <3>2, <3>3
  <2> QED BY <2>2, <2>3, <2>4 DEF NoTrackLost
<1> QED BY <1>8, <1>9, <1>10, <1>11

\* The elements of a sequence with one more.
LEMMA ElementsOfAppend ==
  ASSUME NEW S, NEW s \in Seq(S), NEW x \in S
  PROVE  ToSet(s) \cup {x} \subseteq ToSet(Append(s, x))
<1>1. /\ Append(s, x) \in Seq(S) /\ Len(Append(s, x)) = Len(s) + 1
      /\ \A i \in 1 .. Len(s) : Append(s, x)[i] = s[i]
      /\ Append(s, x)[Len(s) + 1] = x
  BY AppendProperties
<1>2. /\ DOMAIN s = 1 .. Len(s) /\ Len(s) \in Nat
      /\ DOMAIN Append(s, x) = 1 .. Len(s) + 1
  BY <1>1, LenProperties
<1> QED BY <1>1, <1>2 DEF ToSet

\* The new tracks are taken.
LEMMA TracksTaken ==
  ASSUME TrackInv, tracks' = tracks \o trackCh, trackCh' = <<>>,
         UNCHANGED <<position, added, stopped>>
  PROVE  /\ tracks' \in Seq(Tracks) /\ trackCh' \in Seq(Tracks) /\ Len(trackCh') = 0
         /\ NoTrackLost'
<1>1. tracks \in Seq(Tracks) /\ trackCh \in Seq(Tracks) BY DEF TrackInv, TrackTypes
<1>2. ToSet(tracks) \cup ToSet(trackCh) \subseteq ToSet(tracks') BY <1>1, ElementsOfConcat
<1>3. NoTrackLost' BY <1>2 DEF TrackInv, NoTrackLost
<1> QED BY <1>1, <1>3, ConcatProperties, EmptySeq

\* Nothing is there.
LEMMA InitTracks == Init => TrackInv
<1> SUFFICES ASSUME Init PROVE TrackInv
  OBVIOUS
<1>1. /\ <<>> \in Seq(Tracks) /\ <<>> \in Seq(1 .. WaveLen) /\ <<>> \in Seq(1 .. MaxFrames)
      /\ Len(<<>>) = 0
  BY EmptySeq
<1>2. TrackTypes BY <1>1, BoundsAssumption DEF Init, TrackTypes
<1>3. Capacities BY <1>1, BoundsAssumption DEF Init, Capacities
<1> QED BY <1>2, <1>3 DEF Init, TrackInv, TodoFollows, NoTrackLost

\* The other steps of the mixer.
LEMMA RunTracks == SilenceInv /\ TrackInv /\ Run => TrackInv'
<1> SUFFICES ASSUME SilenceInv, TrackInv, Run PROVE TrackInv'
  OBVIOUS
<1> USE DEF TrackInv
<1>1. UNCHANGED <<added, stopped, sent>> /\ silent' \subseteq Tracks
  BY DEF Run, Loop, CtxDone, Idle, SpeechTick, BGTick, DrainCommands, CollectTracks, MixTrack,
         SendFrame, TrackTypes
<1>2. CASE Loop
  <2>1. /\ UNCHANGED <<position, cmdCh, out, speech, heard, todo, mixerIn>> /\ at' # "mix"
        /\ \/ UNCHANGED <<tracks, trackCh>>
           \/ tracks' = tracks \o trackCh /\ trackCh' = <<>>
    BY <1>2 DEF Loop
  <2>2. CASE UNCHANGED <<tracks, trackCh>>
    BY <1>1, <2>1, <2>2 DEF TrackTypes, Capacities, TodoFollows, NoTrackLost
  <2>3. CASE tracks' = tracks \o trackCh /\ trackCh' = <<>>
    <3>1. /\ tracks' \in Seq(Tracks) /\ trackCh' \in Seq(Tracks) /\ Len(trackCh') = 0
          /\ NoTrackLost'
      BY <1>1, <2>1, <2>3, TracksTaken
    <3>2. Capacities' BY <1>1, <2>1, <3>1, Positive DEF Capacities
    <3> QED BY <1>1, <2>1, <3>1, <3>2 DEF TrackTypes, TodoFollows
  <2> QED BY <2>1, <2>2, <2>3
<1>3. CASE CtxDone \/ BGTick
  <2>1. /\ UNCHANGED <<tracks, trackCh, position, cmdCh, out, speech, heard, todo, mixerIn>>
        /\ at' # "mix"
    BY <1>3 DEF CtxDone, BGTick
  <2> QED BY <1>1, <2>1 DEF TrackTypes, Capacities, TodoFollows, NoTrackLost
<1>4. CASE Idle
  <2>1. UNCHANGED <<position, out, speech, heard, todo, mixerIn>> /\ at' # "mix"
    BY <1>4 DEF Idle
  <2>2. CASE cmdCh # <<>> /\ cmdCh' = Tail(cmdCh) /\ UNCHANGED <<tracks, trackCh>>
    <3>1. Len(cmdCh') <= CmdCap
      <4>1. cmdCh \in Seq(Sources) BY DEF SilenceInv, SpeechTypes
      <4>2. Len(cmdCh') = Len(cmdCh) - 1 /\ Len(cmdCh) \in Nat /\ Len(cmdCh) <= CmdCap
        BY <2>2, <4>1, HeadTailProperties, LenProperties DEF Capacities
      <4> QED BY <4>2, BoundsAssumption
    <3> QED BY <1>1, <2>1, <2>2, <3>1 DEF TrackTypes, Capacities, TodoFollows, NoTrackLost
  <2>3. CASE /\ trackCh # <<>> /\ tracks' = Append(tracks, Head(trackCh))
             /\ trackCh' = Tail(trackCh) /\ UNCHANGED cmdCh
    <3>1. tracks \in Seq(Tracks) /\ trackCh \in Seq(Tracks) /\ trackCh # <<>>
      BY <2>3 DEF TrackTypes
    <3>2. /\ Head(trackCh) \in Tracks /\ trackCh' \in Seq(Tracks)
          /\ Len(trackCh') = Len(trackCh) - 1 /\ Len(trackCh) \in Nat
      BY <2>3, <3>1, HeadTailProperties, LenProperties
    <3>3. tracks' \in Seq(Tracks) BY <2>3, <3>1, <3>2, AppendProperties
    <3>4. ToSet(tracks) \cup ToSet(trackCh) \subseteq ToSet(tracks') \cup ToSet(trackCh')
      <4>1. ToSet(tracks) \cup {Head(trackCh)} \subseteq ToSet(tracks')
        BY <2>3, <3>1, <3>2, ElementsOfAppend
      <4>2. \A x \in ToSet(trackCh) : x = Head(trackCh) \/ x \in ToSet(trackCh')
        BY <2>3, <3>1, ElementsOfTail
      <4> QED BY <4>1, <4>2
    <3>5. NoTrackLost' BY <1>1, <2>1, <3>4 DEF NoTrackLost
    <3>6. Len(trackCh') <= TrackCap BY <3>2, Positive DEF Capacities
    <3> QED BY <1>1, <2>1, <2>3, <3>2, <3>3, <3>5, <3>6 DEF TrackTypes, Capacities, TodoFollows
  <2> QED BY <1>4, <2>2, <2>3 DEF Idle
<1>5. CASE SpeechTick
  <2>1. UNCHANGED <<tracks, trackCh, position, cmdCh, out, speech, heard, todo>> /\ at' # "mix"
    BY <1>5 DEF SpeechTick
  <2>2. mixerIn' = mixerIn \/ mixerIn' = [mixerIn EXCEPT ![speechCh] = <<>>]
    BY <1>5 DEF SpeechTick
  <2>3. \A r \in Responses : mixerIn'[r] = mixerIn[r] \/ mixerIn'[r] = <<>>
    BY <2>2 DEF SilenceInv, SpeechTypes
  <2>4. <<>> \in Seq(1 .. MaxFrames) /\ Len(<<>>) = 0 BY EmptySeq
  <2>5. \A r \in Responses : mixerIn'[r] \in Seq(1 .. MaxFrames) /\ Len(mixerIn'[r]) <= InCap
    <3> TAKE r \in Responses
    <3>1. CASE mixerIn'[r] = mixerIn[r] BY <3>1 DEF Capacities
    <3>2. CASE mixerIn'[r] = <<>> BY <2>4, <3>2, Positive
    <3> QED BY <2>3, <3>1, <3>2
  <2>6. Capacities' BY <1>1, <2>1, <2>5 DEF Capacities
  <2> QED BY <1>1, <2>1, <2>6 DEF TrackTypes, TodoFollows, NoTrackLost
<1>6. CASE DrainCommands
  <2>1. /\ UNCHANGED <<tracks, trackCh, position, out, speech, heard, todo, mixerIn>>
        /\ at' # "mix" /\ cmdCh' = <<>>
    BY <1>6 DEF DrainCommands
  <2>2. Len(cmdCh') <= CmdCap BY <2>1, EmptySeq, Positive
  <2> QED BY <1>1, <2>1, <2>2 DEF TrackTypes, Capacities, TodoFollows, NoTrackLost
<1>7. CASE CollectTracks
  <2>1. /\ UNCHANGED <<position, cmdCh, out, heard, mixerIn>>
        /\ tracks' = tracks \o trackCh /\ trackCh' = <<>>
        /\ todo' = tracks' \/ (at' # "mix" /\ todo' = <<>>)
    BY <1>7 DEF CollectTracks
  <2>2. /\ tracks' \in Seq(Tracks) /\ trackCh' \in Seq(Tracks) /\ Len(trackCh') = 0
        /\ NoTrackLost'
    BY <1>1, <2>1, TracksTaken
  <2>3. todo' \in Seq(Tracks) BY <2>1, <2>2, EmptySeq
  <2>4. TodoFollows'
    <3>1. Len(tracks') \in Nat BY <2>2, LenProperties
    <3>2. \A i \in 1 .. Len(tracks') : Len(tracks') - Len(tracks') + i = i BY <3>1
    <3>3. CASE todo' = tracks' BY <3>1, <3>2, <3>3 DEF TodoFollows
    <3> QED BY <2>1, <3>3 DEF TodoFollows
  <2>5. Len(speech') <= SamplesPerTick
    <3> DEFINE n == Taken(Len(speechSampleBuf))
    <3>1. n \in Nat /\ n <= SamplesPerTick
      <4>1. Len(speechSampleBuf) \in Nat BY LenProperties DEF SilenceInv, SpeechTypes
      <4> QED BY <4>1, BoundsAssumption DEF Taken
    <3>2. speech' = SubSeq(speechSampleBuf, 1, n) BY <1>7 DEF CollectTracks
    <3> HIDE DEF n
    <3>3. n = 0 => speech' = <<>> BY <3>2, SubSeqEmpty
    <3>4. n > 0 => Len(speech') = n BY <3>1, <3>2
    <3> QED BY <3>1, <3>3, <3>4, BoundsAssumption
  <2>6. Capacities' BY <1>1, <2>1, <2>2, <2>5, BoundsAssumption DEF Capacities
  <2> QED BY <1>1, <2>1, <2>2, <2>3, <2>4, <2>6 DEF TrackTypes
<1>8. CASE SendFrame
  <2>1. /\ UNCHANGED <<tracks, trackCh, position, cmdCh, todo, mixerIn>> /\ at' # "mix"
        /\ (out < OutCap /\ out' = out + 1) \/ out' = out
        /\ speech' = <<>> /\ heard' = [t \in Tracks |-> <<>>]
    BY <1>8 DEF SendFrame
  <2>2. <<>> \in Seq(1 .. WaveLen) /\ Len(<<>>) = 0 BY EmptySeq
  <2>3. out' \in 0 .. OutCap BY <2>1, Positive DEF Capacities
  <2>4. Len(speech') <= SamplesPerTick BY <2>1, <2>2, BoundsAssumption
  <2> QED BY <1>1, <2>1, <2>2, <2>3, <2>4 DEF TrackTypes, Capacities, TodoFollows, NoTrackLost
<1> QED BY <1>2, <1>3, <1>4, <1>5, <1>6, <1>7, <1>8, MixTracks DEF Run

\* The steps of the callers.
LEMMA CallersTracks ==
  ASSUME SilenceInv, TrackInv,
         \/ \E r \in Responses : Speaker(r)
         \/ \E t \in Tracks : AddTrack(t) \/ StopTrack(t)
         \/ Close \/ ReadFrame \/ UNCHANGED vars
  PROVE  TrackInv'
<1> USE DEF TrackInv
<1>1. ASSUME NEW c \in Responses, Speaker(c) PROVE TrackInv'
  <2>1. UNCHANGED <<at, tracks, trackCh, todo, position, heard, added, stopped, silent, out,
                    speech>>
    BY <1>1 DEF Speaker, Announce, SendSpeech, EndSpeech, CancelContext, Mute
  <2>2. Len(cmdCh') <= CmdCap
    <3>1. cmdCh' = cmdCh \/ \E s \in Sources : SetSpeechSource(s)
      BY <1>1 DEF Speaker, Announce, SendSpeech, EndSpeech, CancelContext, Mute, Sources
    <3>2. ASSUME NEW s \in Sources, SetSpeechSource(s) PROVE Len(cmdCh') <= CmdCap
      <4>1. cmdCh \in Seq(Sources) BY DEF SilenceInv, SpeechTypes
      <4>2. Len(Append(cmdCh, s)) = Len(cmdCh) + 1 /\ Len(cmdCh) \in Nat
        BY <4>1, AppendProperties, LenProperties
      <4> QED BY <3>2, <4>2, Positive DEF SetSpeechSource, Capacities
    <3> QED BY <3>1, <3>2 DEF Capacities
  <2>3. \A r \in Responses : /\ mixerIn'[r] \in Seq(1 .. MaxFrames) /\ Len(mixerIn'[r]) <= InCap
                             /\ sent'[r] <= MaxFrames
    <3>1. CASE UNCHANGED <<mixerIn, sent>> BY <3>1 DEF Capacities
    <3>2. CASE SendSpeech(c)
      <4>1. sent[c] \in Nat /\ sent[c] < MaxFrames /\ Len(mixerIn[c]) < InCap
        BY <3>2 DEF SendSpeech, SilenceInv, SpeechTypes
      <4>2. sent[c] + 1 \in 1 .. MaxFrames BY <4>1, Positive
      <4>3. /\ Append(mixerIn[c], sent[c] + 1) \in Seq(1 .. MaxFrames)
            /\ Len(Append(mixerIn[c], sent[c] + 1)) = Len(mixerIn[c]) + 1
            /\ Len(mixerIn[c]) \in Nat
        BY <4>2, AppendProperties, LenProperties DEF Capacities
      <4>4. /\ sent'[c] = sent[c] + 1 /\ mixerIn'[c] = Append(mixerIn[c], sent[c] + 1)
            /\ \A r \in Responses \ {c} : sent'[r] = sent[r] /\ mixerIn'[r] = mixerIn[r]
        BY <3>2 DEF SendSpeech, SilenceInv, SpeechTypes
      <4>5. Len(mixerIn'[c]) <= InCap BY <4>1, <4>3, <4>4, Positive
      <4>6. sent'[c] <= MaxFrames BY <4>2, <4>4, Positive
      <4>7. mixerIn'[c] \in Seq(1 .. MaxFrames) BY <4>3, <4>4
      <4> QED BY <4>4, <4>5, <4>6, <4>7 DEF Capacities
    <3>3. UNCHANGED <<mixerIn, sent>> \/ SendSpeech(c)
      BY <1>1 DEF Speaker, Announce, EndSpeech, CancelContext, Mute
    <3> QED BY <3>1, <3>2, <3>3
  <2>4. Capacities' BY <2>1, <2>2, <2>3 DEF Capacities
  <2> QED BY <2>1, <2>4 DEF TrackTypes, TodoFollows, NoTrackLost
<1>2. ASSUME NEW t \in Tracks, AddTrack(t) PROVE TrackInv'
  <2>1. /\ UNCHANGED <<at, tracks, todo, position, heard, stopped, silent, out, speech>>
        /\ UNCHANGED <<cmdCh, mixerIn, sent>>
        /\ Len(trackCh) < TrackCap /\ added' = added \cup {t} /\ trackCh' = Append(trackCh, t)
    BY <1>2 DEF AddTrack
  <2>2. /\ trackCh' \in Seq(Tracks) /\ Len(trackCh') = Len(trackCh) + 1 /\ Len(trackCh) \in Nat
    BY <2>1, AppendProperties, LenProperties DEF TrackTypes
  <2>3. Len(trackCh') <= TrackCap BY <2>1, <2>2, BoundsAssumption
  <2>4. ToSet(trackCh) \cup {t} \subseteq ToSet(trackCh')
    BY <2>1, ElementsOfAppend DEF TrackTypes
  <2>5. NoTrackLost' BY <2>1, <2>4 DEF NoTrackLost
  <2>6. Capacities' BY <2>1, <2>3 DEF Capacities
  <2> QED BY <2>1, <2>2, <2>5, <2>6 DEF TrackTypes, TodoFollows
<1>3. ASSUME NEW t \in Tracks, StopTrack(t) PROVE TrackInv'
  <2>1. /\ UNCHANGED <<at, tracks, trackCh, todo, position, heard, added, silent, out, speech>>
        /\ UNCHANGED <<cmdCh, mixerIn, sent>> /\ stopped' = stopped \cup {t}
    BY <1>3 DEF StopTrack
  <2> QED BY <2>1 DEF TrackTypes, Capacities, TodoFollows, NoTrackLost
<1>4. CASE Close \/ ReadFrame \/ UNCHANGED vars
  <2>1. /\ UNCHANGED <<at, tracks, trackCh, todo, position, heard, added, stopped, silent, speech>>
        /\ UNCHANGED <<cmdCh, mixerIn, sent>> /\ (out' = out \/ (out > 0 /\ out' = out - 1))
    BY <1>4 DEF Close, ReadFrame, vars
  <2>2. out' \in 0 .. OutCap BY <2>1, Positive DEF Capacities
  <2> QED BY <2>1, <2>2 DEF TrackTypes, Capacities, TodoFollows, NoTrackLost
<1> QED BY <1>1, <1>2, <1>3, <1>4

\* A track that AddTrack has returned is waiting or played until it is stopped or its wave
\* has ended (collectNewTracks, runIdle, mixTracks); all state keeps its type, the channels
\* their capacity and a frame its length.
THEOREM InvHolds == Spec => []Inv
<1>1. SilenceInv /\ TrackInv /\ [Next]_vars => TrackInv'
  BY RunTracks, CallersTracks DEF Next, Terminated
<1>2. OrderInv /\ TrackInv => Inv
  <2> SUFFICES ASSUME OrderInv, TrackInv PROVE Inv
    OBVIOUS
  <2>1. SpeechTypes /\ said \in Seq(Sample) BY DEF OrderInv, Order, SilenceInv
  <2>2. \A r \in Responses : sent[r] \in 0 .. MaxFrames
    BY <2>1, BoundsAssumption DEF TrackInv, Capacities, SpeechTypes
  <2>3. sent \in [Responses -> 0 .. MaxFrames] BY <2>1, <2>2 DEF SpeechTypes
  <2>4. TypeOK
    BY <2>1, <2>3 DEF TypeOK, TrackInv, TrackTypes, Capacities, SpeechTypes, Sources, Sample
  <2> QED BY <2>4 DEF Inv, TrackInv
<1>3. OrderInv => SilenceInv BY DEF OrderInv
<1> QED BY OrderHolds, InitTracks, <1>1, <1>2, <1>3, PTL DEF Spec

=============================================================================
