------------------------------- MODULE MCMixer -------------------------------
(***************************************************************************)
(* Loads for Mixer: all the speech without tracks, the least speech beside *)
(* any one track, and all the tracks beside a source that sends nothing.   *)
(***************************************************************************)
EXTENDS Mixer

MCLoads ==
  {[responses |-> MaxResponses, frames |-> MaxFrames, tracks |-> {}],
   [responses |-> 1, frames |-> 0, tracks |-> Tracks]}
    \cup {[responses |-> 1, frames |-> 1, tracks |-> {t}] : t \in Tracks}
=============================================================================
