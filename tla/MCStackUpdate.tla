---------------------------- MODULE MCStackUpdate ----------------------------
(***************************************************************************)
(* Two updates over two releases with a crash of the host, or one with a   *)
(* crash, a failing download or installation and a command that goes       *)
(* unanswered; with the faults of the line in both.                        *)
(***************************************************************************)
EXTENDS StackUpdate

MCUses ==
  {[updates |-> 2, crashes |-> 1, lost |-> 0, io |-> 0],
   [updates |-> 1, crashes |-> 1, lost |-> 1, io |-> 1]}
=============================================================================
