------------------------ MODULE MCProposerScheduler ------------------------
(* Inputs of the model-checking runs of ProposerScheduler. *)
EXTENDS ProposerScheduler

\* Two validators that propose in turns, in pairs, and one of them alone.
MCDuty == [s \in 0..7 |-> IF s \in {0, 3, 4, 5} THEN "a" ELSE "b"]

=============================================================================
