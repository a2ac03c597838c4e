---------------------------- MODULE WebRTCSession ----------------------------
(***************************************************************************)
(* transport/webrtc: a Session from the Manager that makes it to the end   *)
(* of Close, with the goroutines around it: the ones in Close (the owner,  *)
(* the Manager after a failed negotiation, and those closeAsync starts for *)
(* the connection timeout and for a state of the peer connection), the     *)
(* reader of each remote track, and the callbacks of the data channel.     *)
(*                                                                         *)
(* The peer connection is external: it calls OnTrack on goroutines of its  *)
(* own, gives a reader the packet it has peeked at even after its Close,   *)
(* and does not wait for the callback of a message.  A panic is recorded   *)
(* in crashed; what a program would do after it has no meaning.            *)
(***************************************************************************)
EXTENDS Naturals

CONSTANTS
  RemoteTracks,   \* tracks the peer may send
  AudioCap,       \* audioBufferSize
  Messaging,      \* BOOLEAN: a message channel has been named
  Timeout         \* BOOLEAN: connectionTimeout > 0

ASSUME SessionAssumption ==
  AudioCap \in Nat \ {0} /\ Messaging \in BOOLEAN /\ Timeout \in BOOLEAN

Closers == {"owner", "manager", "timeout", "ice"}
Nobody == "nobody"

VARIABLES
  mgr,        \* the Manager's AcceptOffer or CreateOffer
  \* Session
  done,       \* ctx is cancelled
  connected,  \* connected is closed
  once,       \* the goroutine in once.Do, "nobody" before, "over" afterwards
  at,         \* where each closer is in Close
  expired,    \* the deadline of the owner's Close has passed
  waited,     \* what receiver.Wait returned: "pending", "all" or "abandoned"
  timer,      \* connectionTimeoutLoop
  \* audioReceiver
  track, audioIn, audioOpen,
  late,       \* history: OnTrack ran after receiver.Wait had returned
  \* messageHandler
  ready,      \* ready is closed
  callback,   \* the callback of a message is at its select
  messagesOpen,
  \* the peer connection and its data channel
  peer, dc,
  crashed     \* history: sends on closed channels

closeVars == <<once, at, waited>>
audioVars == <<track, audioIn, late>>
dcVars    == <<ready, callback, dc>>
portVars  == <<connected, done, audioOpen, messagesOpen>>
vars == <<mgr, portVars, closeVars, expired, timer, audioVars, dcVars, peer, crashed>>

Init ==
  /\ mgr = "new" /\ done = FALSE /\ connected = FALSE
  /\ once = Nobody /\ at = [c \in Closers |-> "idle"]
  /\ expired = FALSE /\ waited = "pending" /\ timer = "off"
  /\ track = [t \in RemoteTracks |-> "none"] /\ audioIn = 0 /\ late = FALSE
  /\ ready = FALSE /\ callback = FALSE /\ dc = "none"
  /\ audioOpen = TRUE /\ messagesOpen = TRUE
  /\ peer = "open" /\ crashed = {}

\* A goroutine calls Close.
Call(c) == at[c] = "idle" /\ at' = [at EXCEPT ![c] = "called"]

(***************************************************************************)
(* Manager                                                                 *)
(***************************************************************************)
\* newSession fails, and only the peer connection is closed, or the session is there.
NewSession ==
  /\ mgr = "new"
  /\ \/ mgr' = "none" /\ peer' = "closed" /\ UNCHANGED timer
     \/ /\ mgr' = "negotiating"
        /\ timer' = IF Timeout THEN "running" ELSE "off"
        /\ UNCHANGED peer
  /\ UNCHANGED <<portVars, closeVars, expired, audioVars, dcVars, crashed>>

\* AcceptOffer or CreateOffer: the descriptions are set and the candidates gathered.
Negotiated ==
  /\ mgr = "negotiating"
  /\ mgr' = "given"
  /\ UNCHANGED <<portVars, closeVars, expired, timer, audioVars, dcVars, peer, crashed>>

\* One of the steps fails or the caller's context ends: the deferred function closes.
NegotiationFails ==
  /\ mgr = "negotiating"
  /\ mgr' = "failed" /\ Call("manager")
  /\ UNCHANGED <<portVars, once, waited, expired, timer, audioVars, dcVars, peer, crashed>>

\* setupCallbacks has run.
HasCallbacks == mgr \notin {"new", "none"}

Manager == NewSession \/ Negotiated \/ NegotiationFails

(***************************************************************************)
(* Close                                                                   *)
(***************************************************************************)
OwnerCloses ==
  /\ mgr = "given" /\ Call("owner")
  /\ UNCHANGED <<mgr, portVars, once, waited, expired, timer, audioVars, dcVars, peer, crashed>>

OwnerExpires ==
  /\ ~expired /\ at["owner"] \notin {"idle", "returned"}
  /\ expired' = TRUE
  /\ UNCHANGED <<mgr, portVars, closeVars, timer, audioVars, dcVars, peer, crashed>>

\* Mutant: a flag in place of the Once, which does not wait for the first caller.
OnceFlag(c) ==
  /\ at[c] = "called"
  /\ IF once = Nobody
       THEN once' = c /\ done' = TRUE /\ at' = [at EXCEPT ![c] = "peer"]
       ELSE at' = [at EXCEPT ![c] = "returned"] /\ UNCHANGED <<once, done>>
  /\ UNCHANGED <<mgr, connected, audioOpen, messagesOpen, waited, expired, timer,
                 audioVars, dcVars, peer, crashed>>

\* Mutant: Close does not cancel the context.
OnceCancelsNot(c) ==
  /\ at[c] = "called"
  /\ \/ once = Nobody /\ once' = c /\ at' = [at EXCEPT ![c] = "peer"]
     \/ once = "over" /\ at' = [at EXCEPT ![c] = "returned"] /\ UNCHANGED once
  /\ UNCHANGED <<mgr, portVars, waited, expired, timer, audioVars, dcVars, peer, crashed>>

\* once.Do: the first caller cancels and goes on, the others wait for it to return.
Once(c) ==
  /\ at[c] = "called"
  /\ \/ once = Nobody /\ once' = c /\ done' = TRUE /\ at' = [at EXCEPT ![c] = "peer"]
     \/ once = "over" /\ at' = [at EXCEPT ![c] = "returned"] /\ UNCHANGED <<once, done>>
  /\ UNCHANGED <<mgr, connected, audioOpen, messagesOpen, waited, expired, timer,
                 audioVars, dcVars, peer, crashed>>

\* Mutant: the peer connection is left open.
ClosePeerNot(c) ==
  /\ at[c] = "peer"
  /\ at' = [at EXCEPT ![c] = "wait"]
  /\ UNCHANGED <<mgr, portVars, once, waited, expired, timer, audioVars, dcVars, peer, crashed>>

ClosePeer(c) ==
  /\ at[c] = "peer"
  /\ peer' = "closed" /\ at' = [at EXCEPT ![c] = "wait"]
  /\ UNCHANGED <<mgr, portVars, once, waited, expired, timer, audioVars, dcVars, crashed>>

\* The counter of trackWg is zero.
NoReader == \A t \in RemoteTracks : track[t] \in {"none", "announced", "done"}

\* Mutant: Close does not wait for the readers.
WaitReadersNot(c) ==
  /\ at[c] = "wait"
  /\ waited' = "all" /\ at' = [at EXCEPT ![c] = "audio"]
  /\ UNCHANGED <<mgr, portVars, once, expired, timer, audioVars, dcVars, peer, crashed>>

\* receiver.Wait: only the owner's context ends.
WaitReaders(c) ==
  /\ at[c] = "wait"
  /\ \/ NoReader /\ waited' = "all"
     \/ c = "owner" /\ expired /\ waited' = "abandoned"
  /\ at' = [at EXCEPT ![c] = "audio"]
  /\ UNCHANGED <<mgr, portVars, once, expired, timer, audioVars, dcVars, peer, crashed>>

\* receiver.Close, and the return of a Close without a message channel.
CloseAudio(c) ==
  /\ at[c] = "audio"
  /\ audioOpen' = FALSE
  /\ IF Messaging THEN at' = [at EXCEPT ![c] = "messages"] /\ UNCHANGED once
                  ELSE at' = [at EXCEPT ![c] = "returned"] /\ once' = "over"
  /\ UNCHANGED <<mgr, connected, done, messagesOpen, waited, expired, timer, audioVars, dcVars,
                 peer, crashed>>

\* messaging.Close, and the return of Close.
CloseMessages(c) ==
  /\ at[c] = "messages"
  /\ messagesOpen' = FALSE
  /\ at' = [at EXCEPT ![c] = "returned"] /\ once' = "over"
  /\ UNCHANGED <<mgr, connected, done, audioOpen, waited, expired, timer, audioVars, dcVars,
                 peer, crashed>>

Close(c) ==
  Once(c) \/ ClosePeer(c) \/ WaitReaders(c) \/ CloseAudio(c) \/ CloseMessages(c)

(***************************************************************************)
(* connectionTimeoutLoop and the states of the peer connection             *)
(***************************************************************************)
TimeoutLoopEnds ==
  /\ timer = "running" /\ (connected \/ done)
  /\ timer' = "ended"
  /\ UNCHANGED <<mgr, portVars, closeVars, expired, audioVars, dcVars, peer, crashed>>

TimerFires ==
  /\ timer = "running"
  /\ timer' = "ended" /\ Call("timeout")
  /\ UNCHANGED <<mgr, portVars, once, waited, expired, audioVars, dcVars, peer, crashed>>

IceConnected ==
  /\ HasCallbacks /\ peer = "open"
  /\ connected' = TRUE
  /\ UNCHANGED <<mgr, done, audioOpen, messagesOpen, closeVars, expired, timer, audioVars, dcVars,
                 peer, crashed>>

\* Disconnected, Failed or Closed: closeAsync.
IceBroken ==
  /\ HasCallbacks /\ Call("ice")
  /\ UNCHANGED <<mgr, portVars, once, waited, expired, timer, audioVars, dcVars, peer, crashed>>

(***************************************************************************)
(* audioReceiver                                                           *)
(***************************************************************************)
\* The peer connection starts a goroutine for the callback.
TrackArrives(t) ==
  /\ HasCallbacks /\ peer = "open" /\ track[t] = "none"
  /\ track' = [track EXCEPT ![t] = "announced"]
  /\ UNCHANGED <<mgr, portVars, closeVars, expired, timer, audioIn, late, dcVars, peer, crashed>>

\* OnTrack: a track of another codec is left alone; a reader begins with a peeked packet.
OnTrack(t) ==
  /\ track[t] = "announced"
  /\ \E s \in {"fresh", "done"} :
       /\ track' = [track EXCEPT ![t] = s]
       /\ late' = (late \/ (s = "fresh" /\ waited # "pending"))
  /\ UNCHANGED <<mgr, portVars, closeVars, expired, timer, audioIn, dcVars, peer, crashed>>

\* ReadRTP returns a packet, which becomes a frame.
ReadRTP(t) ==
  /\ track[t] = "fresh" \/ (track[t] = "reading" /\ peer = "open")
  /\ track' = [track EXCEPT ![t] = "sending"]
  /\ UNCHANGED <<mgr, portVars, closeVars, expired, timer, audioIn, late, dcVars, peer, crashed>>

\* ReadRTP fails: the track or the peer connection has ended, or there is no decoder.
ReadFails(t) ==
  /\ track[t] \in {"fresh", "reading"}
  /\ track' = [track EXCEPT ![t] = "done"]
  /\ UNCHANGED <<mgr, portVars, closeVars, expired, timer, audioIn, late, dcVars, peer, crashed>>

\* The frame has room, the context is done, or the frame is dropped.
SendFrame(t) ==
  /\ track[t] = "sending" /\ audioOpen
  /\ \/ /\ audioIn < AudioCap
        /\ audioIn' = audioIn + 1 /\ track' = [track EXCEPT ![t] = "reading"]
     \/ done /\ track' = [track EXCEPT ![t] = "done"] /\ UNCHANGED audioIn
     \/ /\ audioIn = AudioCap /\ ~done
        /\ track' = [track EXCEPT ![t] = "reading"] /\ UNCHANGED audioIn
  /\ UNCHANGED <<mgr, portVars, closeVars, expired, timer, late, dcVars, peer, crashed>>

\* After receiver.Close the select may take either ready case, of which one panics.
SendFrameClosed(t) ==
  /\ track[t] = "sending" /\ ~audioOpen
  /\ track' = [track EXCEPT ![t] = "done"]
  /\ crashed' \in {crashed, crashed \cup {"audio"}}
  /\ UNCHANGED <<mgr, portVars, closeVars, expired, timer, audioIn, late, dcVars, peer>>

\* AudioIn is read.
TakeFrame ==
  /\ audioIn > 0 /\ audioIn' = audioIn - 1
  /\ UNCHANGED <<mgr, portVars, closeVars, expired, timer, track, late, dcVars, peer, crashed>>

Reader(t) == OnTrack(t) \/ ReadRTP(t) \/ ReadFails(t) \/ SendFrame(t) \/ SendFrameClosed(t)

(***************************************************************************)
(* messageHandler                                                          *)
(***************************************************************************)
OnOpen ==
  /\ Messaging /\ HasCallbacks /\ peer = "open" /\ dc = "none"
  /\ dc' = "open" /\ ready' = TRUE
  /\ UNCHANGED <<mgr, portVars, closeVars, expired, timer, audioVars, callback, peer, crashed>>

OnClose ==
  /\ dc = "open" /\ dc' = "closed"
  /\ UNCHANGED <<mgr, portVars, closeVars, expired, timer, audioVars, ready, callback, peer,
                 crashed>>

OnMessage ==
  /\ dc = "open" /\ peer = "open" /\ ~callback
  /\ callback' = TRUE
  /\ UNCHANGED <<mgr, portVars, closeVars, expired, timer, audioVars, ready, dc, peer, crashed>>

\* The message is kept or dropped; after messaging.Close the select may panic.
SendMessageIn ==
  /\ callback /\ callback' = FALSE
  /\ crashed' \in {crashed} \cup (IF messagesOpen THEN {} ELSE {crashed \cup {"message"}})
  /\ UNCHANGED <<mgr, portVars, closeVars, expired, timer, audioVars, ready, dc, peer>>

DataChannel == OnOpen \/ OnClose \/ OnMessage \/ SendMessageIn

Next ==
  \/ Manager \/ OwnerCloses \/ OwnerExpires
  \/ \E c \in Closers : Close(c)
  \/ TimeoutLoopEnds \/ TimerFires \/ IceConnected \/ IceBroken
  \/ \E t \in RemoteTracks : TrackArrives(t) \/ Reader(t)
  \/ TakeFrame \/ DataChannel

Spec == Init /\ [][Next]_vars

\* Steps that a goroutine takes when it can: a timer fires, a closed peer connection
\* ends its reads.  None of them occurs for ever, so that weak fairness of all of them
\* together is as good as of each.
Progress ==
  \/ TimeoutLoopEnds \/ TimerFires \/ \E c \in Closers : Close(c)
  \/ \E t \in RemoteTracks : OnTrack(t) \/ (peer = "closed" /\ ReadFails(t))

FairSpec ==
  /\ Spec /\ WF_vars(Progress)
  /\ \A t \in RemoteTracks : WF_vars(SendFrame(t) \/ SendFrameClosed(t))

(***************************************************************************)
(* Properties                                                              *)
(***************************************************************************)
CloseTypeOK ==
  /\ once \in Closers \cup {Nobody, "over"}
  /\ at \in [Closers -> {"idle", "called", "peer", "wait", "audio", "messages", "returned"}]
  /\ mgr \in {"new", "none", "negotiating", "given", "failed"}
  /\ waited \in {"pending", "all", "abandoned"} /\ timer \in {"off", "running", "ended"}

AudioTypeOK ==
  /\ track \in [RemoteTracks -> {"none", "announced", "fresh", "reading", "sending", "done"}]
  /\ audioIn \in 0 .. AudioCap

PeerTypeOK ==
  /\ peer \in {"open", "closed"} /\ dc \in {"none", "open", "closed"}
  /\ crashed \in SUBSET {"audio", "message"}

FlagTypeOK ==
  /\ done \in BOOLEAN /\ connected \in BOOLEAN /\ expired \in BOOLEAN
  /\ audioOpen \in BOOLEAN /\ late \in BOOLEAN
  /\ ready \in BOOLEAN /\ callback \in BOOLEAN /\ messagesOpen \in BOOLEAN

TypeOK == CloseTypeOK /\ AudioTypeOK /\ PeerTypeOK /\ FlagTypeOK

\* Whoever comes back from Close, first or not, finds the session closed to the end:
\* context, peer connection and both channels.
ReturnedMeansClosed ==
  \A c \in Closers :
    at[c] = "returned" => /\ done /\ peer = "closed" /\ ~audioOpen
                          /\ Messaging => ~messagesOpen

\* A reader sends on the closed audioIn only if Close gave up waiting for it at its
\* deadline, or if OnTrack ran after the wait.
ReadersAreAwaited == "audio" \in crashed => waited = "abandoned" \/ late

\* The session keeps the promises of the port, whoever closes it and how often.
\* Without a message channel MessageIn is nil: there is nothing to close.
Port == INSTANCE SessionPort WITH
          connected <- connected, ready <- ready, done <- done,
          audioOpen <- audioOpen,
          messagesOpen <- IF Messaging THEN messagesOpen ELSE audioOpen
KeepsPort == Port!Spec

\* Once anyone has called Close, all its callers return, although all but one have no
\* deadline and wait for readers and for each other, and no reader is left for good.
EndsForGood ==
  (\E c \in Closers : at[c] = "called")
     ~> [](/\ \A c \in Closers : at[c] \in {"idle", "returned"}
           /\ \A t \in RemoteTracks : track[t] \in {"none", "done"})
=============================================================================
