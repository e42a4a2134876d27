----------------------------- MODULE MCFwUpdate -----------------------------
(* Values of the constants of FwUpdate that a configuration file cannot write. *)
EXTENDS FwUpdate
CONSTANTS v0, v1

\* Two images with a save beside the session; one image with an abort at any step.
MCUses == {[vers |-> {v0, v1}, cmds |-> {"save"}], [vers |-> {v0}, cmds |-> {"abort"}]}
\* Two images and an abort.
MCAborting == {[vers |-> {v0, v1}, cmds |-> {"abort"}]}
=============================================================================
