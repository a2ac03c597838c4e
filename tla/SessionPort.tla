----------------------------- MODULE SessionPort -----------------------------
(***************************************************************************)
(* What voice.Session promises to the one that runs an agent over it: its  *)
(* channels Connected, MessageReady and Done are closed at most once and   *)
(* never opened again; AudioIn and MessageIn are closed once the session   *)
(* is done, in this order, and then always (a session without a message    *)
(* channel has no MessageIn and counts it as closed with AudioIn).  It may *)
(* be done without having been connected, and never have a channel ready.  *)
(***************************************************************************)
VARIABLES connected, ready, done, audioOpen, messagesOpen

latches == <<connected, ready, done>>
port == <<latches, audioOpen, messagesOpen>>

Init ==
  /\ connected = FALSE /\ ready = FALSE /\ done = FALSE
  /\ audioOpen = TRUE /\ messagesOpen = TRUE

Connect == ~connected /\ connected' = TRUE /\ UNCHANGED <<ready, done, audioOpen, messagesOpen>>

MessageReady == ~ready /\ ready' = TRUE /\ UNCHANGED <<connected, done, audioOpen, messagesOpen>>

End == ~done /\ done' = TRUE /\ UNCHANGED <<connected, ready, audioOpen, messagesOpen>>

CloseAudio ==
  /\ done /\ audioOpen
  /\ audioOpen' = FALSE
  /\ messagesOpen' \in {messagesOpen, FALSE}
  /\ UNCHANGED latches

CloseMessages ==
  /\ ~audioOpen /\ messagesOpen
  /\ messagesOpen' = FALSE
  /\ UNCHANGED <<latches, audioOpen>>

Next == Connect \/ MessageReady \/ End \/ CloseAudio \/ CloseMessages

Safety == Init /\ [][Next]_port

Spec == Safety /\ WF_port(CloseAudio) /\ WF_port(CloseMessages)
=============================================================================
