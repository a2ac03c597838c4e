----------------------------- MODULE MCResponder -----------------------------
(***************************************************************************)
(* Responder with the history of two calls that come late, and parts of    *)
(* its behaviours, for IceBreaking beside Respond.                         *)
(***************************************************************************)
EXTENDS Responder

VARIABLES
  fired,   \* an interrupt timer has entered CancelResponse
  late     \* the agent has been deaf since a brain whose synthesizer had returned asked for it

history == <<fired, late>>

HistoryInit == fired = FALSE /\ late = FALSE

FiredNext == fired' = (fired \/ \E t \in Timers : pc[t] = "armed" /\ pc'[t] = "take")

\* Set when the flag is cleared and no brain whose synthesizer is still running can have
\* cleared it.
LateNext ==
  late' = /\ ~interruptible'
          /\ late \/ (interruptible /\ \A k \in Responses : brain[k] = "run" => synth[k] # "run")

HistoryNext == FiredNext /\ LateNext

HistorySpec == Init /\ HistoryInit /\ [][Next /\ HistoryNext]_<<vars, history>>

\* The agent is deaf, so that the callbacks cancel nothing and begin no response, only while
\* a synthesizer is running, whose return restores the flag; or since a brain asked for it
\* after its own synthesizer had returned: then nothing that the speaker does restores it.
DeafOnlyWhileSpeaking ==
  ~interruptible => late \/ \E k \in Responses : synth[k] = "run"

\* IceBreaking does not overlap a callback of the handler: what the code would do if they
\* did not race.
CreatorsAlternate == pc["handler"] = "idle" \/ pc["ice"] = "idle"

AlternateNext == Next /\ CreatorsAlternate' /\ HistoryNext

AlternateSpec == Init /\ HistoryInit /\ [][AlternateNext]_<<vars, history>>

\* Until a timer has fired or Close is called, SpeakerIsHeard.  Afterwards it may not hold:
\* what began to cancel before the last response was created removes the speech source
\* after it.
HeardUnlessFired == fired \/ rClosed \/ SpeakerIsHeard

\* They race, and every response goes on until it is cancelled, has produced no audio
\* yet and is interruptible.  What these behaviours violate, FairSpec violates.

SilentResponses ==
  /\ interruptible
  /\ \A k \in Responses : fwd[k] \in {"none", "receive", "done"}
  /\ \A k \in Responses : brain[k] = "done" \/ synth[k] = "done" => ctx[k] = "done"

SilentSpec ==
  /\ Init /\ HistoryInit
  /\ [][Next /\ SilentResponses' /\ HistoryNext]_<<vars, history>>
  /\ RunsFairly /\ WF_vars(SubscriberReads)
=============================================================================
