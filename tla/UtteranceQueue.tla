--------------------------- MODULE UtteranceQueue ---------------------------
(***************************************************************************)
(* What the recognizer promises about final transcripts: the n-th final    *)
(* transcript the transcriber puts on its channel is handed to the         *)
(* conversation at most once, after every earlier one, and in batches: a   *)
(* call of OnSpeechRecognized takes a non-empty run of the undelivered     *)
(* ones.  Transcripts are named by their position, 1, 2, 3, ...            *)
(***************************************************************************)
EXTENDS Naturals, Sequences

VARIABLES
  produced,    \* how many final transcripts the transcriber has produced
  delivered    \* the transcripts handed over so far, in the order of the calls

Init == produced = 0 /\ delivered = <<>>

Produce == produced' = produced + 1 /\ UNCHANGED delivered

Deliver ==
  /\ \E n \in Len(delivered) + 1 .. produced : delivered' = [i \in 1 .. n |-> i]
  /\ UNCHANGED produced

Next == Produce \/ Deliver

Spec == Init /\ [][Next]_<<produced, delivered>>
=============================================================================
