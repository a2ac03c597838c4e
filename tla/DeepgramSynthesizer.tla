------------------------- MODULE DeepgramSynthesizer -------------------------
(***************************************************************************)
(* synthesizer.DeepgramSynthesizer: Synthesize cuts the tokens of a        *)
(* response into sentences and sends each, followed by a flush, over a     *)
(* websocket that outlives the response.  The SDK's reader goroutine       *)
(* brings the audio and one acknowledgement per flush back through a       *)
(* callback object of the connection; Synthesize returns when it has       *)
(* counted as many acknowledgements as flushes, or its context is done.    *)
(*                                                                         *)
(* Calls of Synthesize do not overlap (Responder!OneAtATime).  The SDK is  *)
(* external: a connection delivers what was sent over it in order, its     *)
(* Stop does not wait for a callback that is running, and it calls Close   *)
(* when the connection has ended.  A connection is named by a number, and  *)
(* so are its client and its callback; 0 is nil.  A sentence is one frame  *)
(* of audio.                                                               *)
(***************************************************************************)
EXTENDS Naturals, Sequences

CONSTANTS
  MaxResponses,   \* bound: calls of Synthesize
  MaxSentences,   \* bound: sentences of a response
  MaxConns,       \* bound: connections that can be opened
  FlushCap,       \* capacity of flushedCh (16 in the code)
  MaxFaults       \* bound: connections that end by themselves and calls of Close

ASSUME BoundsAssumption ==
  /\ MaxResponses \in Nat /\ MaxSentences \in Nat /\ MaxConns \in Nat
  /\ FlushCap \in Nat \ {0} /\ MaxFaults \in Nat

Responses == 1 .. MaxResponses
Conns == 1 .. MaxConns

VARIABLES
  \* DeepgramSynthesizer
  client, callback,
  conns,          \* how many connections have been opened
  \* Synthesize: its control state, response and locals
  at, cur,
  conn,           \* speakAndFlush: client; waitForFlushed: the callback it selects on
  retried,        \* speakAndFlush: it is in its second attempt
  final,          \* the tokens have ended
  cancelled,      \* the contexts of the responses
  returned,       \* Synthesize has returned and its audio channel is closed
  \* the connections and their callbacks
  up,             \* the connection is open for writing
  wire,           \* what it will deliver: k is audio of response k, 0 an acknowledgement
  session,        \* ctx and audioCh of the callback: a response or 0
  flushedCh, pendingFlushes,
  inFlight,       \* the frame Binary holds, and the response whose channel it has read
  \* history
  spoken,         \* sentences sent with success
  heard,          \* the responses whose audio was put on the channel of k
  interrupted,    \* cancelled before Synthesize looked at its context for the last time
  faults          \* how often a connection has ended by itself or Close was called

synthVars == <<at, cur, conn, retried, final>>
ctxVars   == <<cancelled, returned, interrupted>>
connVars  == <<client, callback, conns>>
ackVars   == <<session, flushedCh, pendingFlushes>>
wireVars  == <<up, wire>>
vars == <<connVars, synthVars, ctxVars, wireVars, ackVars, inFlight, spoken, heard, faults>>

Init ==
  /\ client = 0 /\ callback = 0 /\ conns = 0
  /\ at = "idle" /\ cur = 0 /\ conn = 0 /\ retried = FALSE /\ final = FALSE
  /\ cancelled = [k \in Responses |-> FALSE] /\ returned = [k \in Responses |-> FALSE]
  /\ up = [c \in Conns |-> FALSE] /\ wire = [c \in Conns |-> <<>>]
  /\ session = [c \in Conns |-> 0] /\ flushedCh = [c \in Conns |-> 0]
  /\ pendingFlushes = [c \in Conns |-> 0] /\ inFlight = [c \in Conns |-> <<>>]
  /\ spoken = [k \in Responses |-> 0] /\ heard = [k \in Responses |-> <<>>]
  /\ interrupted = [k \in Responses |-> FALSE] /\ faults = 0

(***************************************************************************)
(* Synthesize                                                              *)
(***************************************************************************)
SynthUnchanged == UNCHANGED <<ctxVars, wireVars, inFlight, spoken, heard, faults>>

\* Respond has cancelled the response before.
Begin ==
  /\ at = "idle" /\ cur < MaxResponses /\ (cur # 0 => cancelled[cur])
  /\ cur' = cur + 1 /\ at' = "connect"
  /\ conn' = 0 /\ retried' = FALSE /\ final' = FALSE
  /\ UNCHANGED <<connVars, ackVars>> /\ SynthUnchanged

\* ensureConnected: an existing client will do, whatever has become of its connection.
EnsureConnected(found, failed) ==
  \/ client # 0 /\ at' = found /\ UNCHANGED <<connVars, up>>
  \/ client = 0 /\ at' = failed /\ UNCHANGED <<connVars, up>>
  \/ /\ client = 0 /\ ~cancelled[cur] /\ conns < MaxConns
     /\ conns' = conns + 1 /\ client' = conns + 1 /\ callback' = conns + 1
     /\ up' = [up EXCEPT ![conns + 1] = TRUE]
     /\ at' = found

\* speakAndFlush returns to sendLoop, which looks at the context before it waits for a
\* token.
Looping == IF cancelled[cur] THEN "end" ELSE "loop"
AfterSpeaking == IF final THEN "wait" ELSE Looping

Connect ==
  /\ \/ at = "connect" /\ EnsureConnected("session", "fail")
     \/ at = "reconnect" /\ EnsureConnected("resession", AfterSpeaking)
  /\ UNCHANGED <<cur, conn, retried, final, ctxVars, wire, ackVars, inFlight, spoken, heard,
                 faults>>

\* The callback's session is set and its count of flushes starts again; without a
\* callback this is a nil dereference.
SetSession ==
  /\ at \in {"session", "resession"}
  /\ IF callback = 0
       THEN at' = "panic" /\ UNCHANGED <<ackVars, conn>>
       ELSE /\ session' = [session EXCEPT ![callback] = cur]
            /\ flushedCh' = [flushedCh EXCEPT ![callback] = 0]
            /\ pendingFlushes' = [pendingFlushes EXCEPT ![callback] = 0]
            /\ conn' = client
            /\ at' = IF at = "session" THEN Looping
                     ELSE IF client # 0 THEN "write"
                     ELSE IF retried THEN AfterSpeaking ELSE "panic"
  /\ UNCHANGED <<connVars, cur, retried, final>> /\ SynthUnchanged

\* sendLoop: a sentence is complete, or the tokens have ended with or without a rest.
NextSentence ==
  /\ at = "loop" /\ spoken[cur] < MaxSentences
  /\ at' = "speak" /\ (final' = FALSE \/ (final' = TRUE /\ ~cancelled[cur]))
  /\ UNCHANGED <<connVars, cur, conn, retried, ackVars>> /\ SynthUnchanged

TokensEnd ==
  /\ at = "loop"
  /\ at' = (IF cancelled[cur] THEN "end" ELSE "wait") /\ final' = TRUE
  /\ UNCHANGED <<connVars, cur, conn, retried, ackVars>> /\ SynthUnchanged

LoopCtxDone ==
  /\ at = "loop" /\ cancelled[cur]
  /\ at' = "end"
  /\ UNCHANGED <<connVars, cur, conn, retried, final, ackVars>> /\ SynthUnchanged

\* speakAndFlush gets the client.
Speak ==
  /\ at = "speak"
  /\ conn' = client /\ retried' = FALSE
  /\ at' = IF client = 0 THEN "reconnect" ELSE "write"
  /\ UNCHANGED <<connVars, cur, final, ackVars>> /\ SynthUnchanged

\* SpeakWithText.  Writing to a connection that has ended may go unnoticed.
Write ==
  /\ at = "write"
  /\ \/ /\ up[conn] /\ wire' = [wire EXCEPT ![conn] = Append(@, cur)]
        /\ spoken' = [spoken EXCEPT ![cur] = @ + 1]
        /\ at' = "flush" /\ UNCHANGED retried
     \/ /\ ~up[conn] /\ at' = "flush"
        /\ spoken' = [spoken EXCEPT ![cur] = @ + 1]
        /\ UNCHANGED <<wire, retried>>
     \/ /\ ~up[conn] /\ at' = IF retried THEN AfterSpeaking ELSE "reconnect"
        /\ retried' = TRUE
        /\ UNCHANGED <<wire, spoken>>
  /\ UNCHANGED <<connVars, cur, conn, final, ctxVars, up, ackVars, inFlight, heard, faults>>

Flush ==
  /\ at = "flush"
  /\ \/ up[conn] /\ wire' = [wire EXCEPT ![conn] = Append(@, 0)] /\ at' = "count"
     \/ ~up[conn] /\ at' \in {"count", AfterSpeaking} /\ UNCHANGED wire
  /\ UNCHANGED <<connVars, cur, conn, retried, final, ctxVars, up, ackVars, inFlight, spoken,
                 heard, faults>>

\* Mutant: a flush is counted again when it is written.
CountFlushTwice ==
  /\ at = "count"
  /\ IF callback = 0
       THEN at' = "panic" /\ UNCHANGED pendingFlushes
       ELSE /\ at' = AfterSpeaking
            /\ pendingFlushes' = [pendingFlushes EXCEPT ![callback] = @ + 2]
  /\ UNCHANGED <<connVars, cur, conn, retried, final, session, flushedCh>> /\ SynthUnchanged

\* s.callback.pendingFlushes++
CountFlush ==
  /\ at = "count"
  /\ IF callback = 0
       THEN at' = "panic" /\ UNCHANGED pendingFlushes
       ELSE /\ at' = AfterSpeaking
            /\ pendingFlushes' = [pendingFlushes EXCEPT ![callback] = @ + 1]
  /\ UNCHANGED <<connVars, cur, conn, retried, final, session, flushedCh>> /\ SynthUnchanged

\* Mutant: Synthesize does not wait.
WaitForFlushedNot ==
  /\ at = "wait" /\ at' = IF callback = 0 THEN "panic" ELSE "end"
  /\ UNCHANGED <<connVars, cur, conn, retried, final, ackVars>> /\ SynthUnchanged

\* waitForFlushed: the loop's condition, and the channel its select will use.
WaitForFlushed ==
  /\ at = "wait"
  /\ at' = IF callback = 0 THEN "panic" ELSE IF pendingFlushes[callback] = 0 THEN "end" ELSE "await"
  /\ conn' = callback
  /\ UNCHANGED <<connVars, cur, retried, final, ackVars>> /\ SynthUnchanged

\* Mutant: the select does not look at the context.
AwaitFlushedDeaf ==
  /\ at = "await" /\ flushedCh[conn] > 0
  /\ flushedCh' = [flushedCh EXCEPT ![conn] = @ - 1]
  /\ pendingFlushes' = [c \in Conns |-> IF c = callback THEN pendingFlushes[c] - 1
                                        ELSE pendingFlushes[c]]
  /\ at' = IF callback = 0 THEN "panic" ELSE "wait"
  /\ UNCHANGED <<connVars, cur, conn, retried, final, session>> /\ SynthUnchanged

\* The select: an acknowledgement is counted, or the context is done.
AwaitFlushed ==
  /\ at = "await"
  /\ \/ /\ flushedCh[conn] > 0
        /\ flushedCh' = [flushedCh EXCEPT ![conn] = @ - 1]
        /\ pendingFlushes' = [c \in Conns |-> IF c = callback THEN pendingFlushes[c] - 1
                                              ELSE pendingFlushes[c]]
        /\ at' = IF callback = 0 THEN "panic" ELSE "wait"
     \/ cancelled[cur] /\ at' = "end" /\ UNCHANGED <<flushedCh, pendingFlushes>>
  /\ UNCHANGED <<connVars, cur, conn, retried, final, session>> /\ SynthUnchanged

\* Mutant: an interrupted response leaves its connection to the next one.
ClearClientNot ==
  /\ at = "end"
  /\ at' = "clearSession"
  /\ UNCHANGED <<connVars, cur, conn, retried, final, ctxVars, wireVars, ackVars, inFlight,
                 spoken, heard, faults>>

\* clearClient: an interrupted response takes its connection with it.
ClearClient ==
  /\ at = "end"
  /\ at' = "clearSession"
  /\ IF cancelled[cur]
       THEN /\ client' = 0 /\ callback' = 0
            /\ up' = [c \in Conns |-> up[c] /\ c # client]
       ELSE UNCHANGED <<client, callback, up>>
  /\ UNCHANGED <<conns, cur, conn, retried, final, ctxVars, wire, ackVars, inFlight, spoken,
                 heard, faults>>

\* The deferred clearSession; Synthesize returns and the responder closes the channel.
Return ==
  /\ at \in {"clearSession", "fail"}
  /\ at' = "idle"
  /\ session' = [c \in Conns |-> IF c = callback /\ at = "clearSession" THEN 0 ELSE session[c]]
  /\ returned' = [returned EXCEPT ![cur] = TRUE]
  /\ UNCHANGED <<connVars, cur, conn, retried, final, cancelled, interrupted, wireVars, flushedCh,
                 pendingFlushes, inFlight, spoken, heard, faults>>

(***************************************************************************)
(* The connections                                                         *)
(***************************************************************************)
ReaderUnchanged == UNCHANGED <<cur, conn, retried, final, ctxVars, up, conns, spoken>>

\* The callback Binary reads the session and gives a frame nobody wants up.
Binary(c) ==
  /\ at # "panic" /\ inFlight[c] = <<>> /\ wire[c] # <<>> /\ Head(wire[c]) # 0
  /\ wire' = [wire EXCEPT ![c] = Tail(@)]
  /\ inFlight' = IF session[c] = 0 \/ cancelled[session[c]] THEN inFlight
                 ELSE [inFlight EXCEPT ![c] = <<Head(wire[c]), session[c]>>]
  /\ UNCHANGED <<at, client, callback, ackVars, heard, faults>> /\ ReaderUnchanged

\* It sends the frame, which panics if the channel has been closed; it need not if the
\* context is done as well.
BinarySend(c) ==
  /\ at # "panic" /\ inFlight[c] # <<>>
  /\ LET k == inFlight[c][2] IN
       \/ cancelled[k] /\ UNCHANGED <<heard, at>>
       \/ ~returned[k] /\ heard' = [heard EXCEPT ![k] = Append(@, inFlight[c][1])]
          /\ UNCHANGED at
       \/ returned[k] /\ at' = "panic" /\ UNCHANGED heard
  /\ inFlight' = [inFlight EXCEPT ![c] = <<>>]
  /\ UNCHANGED <<wire, client, callback, ackVars, faults>> /\ ReaderUnchanged

\* The callback Flush drops the acknowledgement when flushedCh is full.
Flushed(c) ==
  /\ at # "panic" /\ inFlight[c] = <<>> /\ wire[c] # <<>> /\ Head(wire[c]) = 0
  /\ wire' = [wire EXCEPT ![c] = Tail(@)]
  /\ flushedCh' = [flushedCh EXCEPT ![c] = IF @ < FlushCap THEN @ + 1 ELSE @]
  /\ UNCHANGED <<at, client, callback, session, pendingFlushes, inFlight, heard, faults>>
  /\ ReaderUnchanged

\* The callback Close, after the end of the connection.
ConnClosed(c) ==
  /\ at # "panic" /\ inFlight[c] = <<>> /\ c <= conns /\ ~up[c]
  /\ callback = c
  /\ callback' = 0 /\ client' = 0
  /\ wire' = [wire EXCEPT ![c] = <<>>]
  /\ UNCHANGED <<at, ackVars, inFlight, heard, faults>> /\ ReaderUnchanged

ConnBreaks(c) ==
  /\ faults < MaxFaults /\ at # "panic"
  /\ up[c] /\ up' = [up EXCEPT ![c] = FALSE]
  /\ \E n \in 0 .. Len(wire[c]) : wire' = [wire EXCEPT ![c] = SubSeq(@, 1, n)]
  /\ faults' = faults + 1
  /\ UNCHANGED <<connVars, synthVars, ctxVars, ackVars, inFlight, spoken, heard>>

(***************************************************************************)
(* The responder                                                           *)
(***************************************************************************)
CancelResponse ==
  /\ at # "panic" /\ cur # 0 /\ ~cancelled[cur]
  /\ cancelled' = [cancelled EXCEPT ![cur] = TRUE]
  /\ interrupted' = [interrupted EXCEPT ![cur] = at \notin {"clearSession", "idle"}]
  /\ UNCHANGED <<connVars, synthVars, returned, wireVars, ackVars, inFlight, spoken, heard,
                 faults>>

\* DeepgramSynthesizer.Close stops the client and leaves the callback.
Close ==
  /\ faults < MaxFaults /\ at # "panic" /\ client # 0
  /\ client' = 0 /\ up' = [up EXCEPT ![client] = FALSE]
  /\ faults' = faults + 1
  /\ UNCHANGED <<callback, conns, synthVars, ctxVars, wire, ackVars, inFlight, spoken, heard>>

\* All responses are done, or the process has crashed.
Terminated ==
  /\ at = "panic" \/ (at = "idle" /\ cur = MaxResponses)
  /\ UNCHANGED vars

Synthesize ==
  \/ Connect \/ SetSession \/ NextSentence \/ TokensEnd \/ LoopCtxDone
  \/ Speak \/ Write \/ Flush \/ CountFlush
  \/ WaitForFlushed \/ AwaitFlushed \/ ClearClient \/ Return
Reader(c) == Binary(c) \/ BinarySend(c) \/ Flushed(c) \/ ConnClosed(c)

Next ==
  \/ Begin \/ Synthesize \/ CancelResponse \/ Close \/ Terminated
  \/ \E c \in Conns : Reader(c) \/ ConnBreaks(c)

Spec == Init /\ [][Next]_vars

\* Synthesize and the SDK's readers run; the brain ends the tokens.
FairSpec == Spec /\ WF_vars(Synthesize) /\ \A c \in Conns : WF_vars(Reader(c))

(***************************************************************************)
(* Properties                                                              *)
(***************************************************************************)
ControlTypeOK ==
  /\ at \in {"idle", "connect", "session", "loop", "speak", "reconnect", "resession", "write",
             "flush", "count", "wait", "await", "end", "clearSession", "fail", "panic"}
  /\ cur \in 0 .. MaxResponses /\ conn \in 0 .. MaxConns
  /\ retried \in BOOLEAN /\ final \in BOOLEAN /\ faults \in 0 .. MaxFaults
  /\ client \in 0 .. MaxConns /\ callback \in 0 .. MaxConns /\ conns \in 0 .. MaxConns
  /\ at # "idle" => cur # 0
  /\ at \in {"write", "flush", "await"} => conn # 0

ConnTypeOK ==
  /\ up \in [Conns -> BOOLEAN] /\ wire \in [Conns -> Seq(0 .. MaxResponses)]
  /\ session \in [Conns -> 0 .. MaxResponses] /\ flushedCh \in [Conns -> 0 .. FlushCap]
  /\ pendingFlushes \in [Conns -> Nat]
  /\ inFlight \in [Conns -> {<<>>} \cup (Responses \X Responses)]

\* Type invariant, with the capacity of flushedCh and that no nil client is written to.
TypeOK ==
  /\ ControlTypeOK /\ ConnTypeOK
  /\ cancelled \in [Responses -> BOOLEAN] /\ returned \in [Responses -> BOOLEAN]
  /\ interrupted \in [Responses -> BOOLEAN]
  /\ spoken \in [Responses -> Nat] /\ heard \in [Responses -> Seq(Responses)]

\* A connection is reused from one response to the next, and yet no response is given
\* the audio of another one.  (It is when the flush after a sentence fails, so that
\* nothing waits for its audio, and the next response finds the dying connection.)  The
\* audio of an interrupted response is never given to another one.
OwnAudioOnly ==
  \A k \in Responses : \A i \in 1 .. Len(heard[k]) :
    heard[k][i] # k => faults > 0 /\ ~interrupted[heard[k][i]]

\* The safety of every state: the types, and whose audio a response is given.
Inv == TypeOK /\ OwnAudioOnly

\* A response that was not interrupted, on connections that did not end, has been
\* given all its audio when Synthesize returns: the acknowledgements are counted
\* neither short nor twice.
SpokenToTheEnd ==
  \A k \in Responses :
    returned[k] /\ ~interrupted[k] /\ faults = 0 => Len(heard[k]) = spoken[k]

\* The process crashes, on a nil callback or by a send on the closed audio channel,
\* only if a connection ended or a response was interrupted.
CrashNeedsInterruption ==
  at = "panic" => faults > 0 \/ \E k \in Responses : interrupted[k]

\* Synthesize is under way.
Running == at \notin {"idle", "panic"}

\* Synthesize returns once its context is done, wherever it is: what Responder assumes
\* of a synthesizer.
CancelledReturns == Running /\ cancelled[cur] ~> ~Running

\* An uninterrupted response of no more sentences than flushedCh can hold
\* acknowledgements is spoken and returns.
ShortResponseReturns ==
  Running ~> ~Running \/ faults > 0 \/ spoken[cur] > FlushCap
=============================================================================
