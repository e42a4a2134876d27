------------------------------- MODULE MCRamps -------------------------------
(* Values of the constants of Ramps that a configuration file cannot write. *)
EXTENDS Ramps

MCMoves == {-1, 0, 1}
MCNums == {-1, 1}
MCDens == {-1, 0, 2}
MCMaxSpeeds == {0, 2}
MCJogSpeeds == {-2, 3}
MCTargets == {-2, 2}
MCDefaults == [num |-> 1, den |-> 2, max |-> 4]
\* A follower reconfigured on the fly, index moves, jogging, and outputs forced by hand.
MCSessions == {
  [writes |-> {"sync", "den"}, limit |-> 2, moves |-> {-1, 1}],
  [writes |-> {"pos", "num", "dir"}, limit |-> 2, moves |-> {0, 1}],
  [writes |-> {"sync", "mode", "dout"}, limit |-> 3, moves |-> {0}],
  [writes |-> {"tgt", "max", "idx", "mode"}, limit |-> 3, moves |-> {0}],
  [writes |-> {"jog", "mode", "dout"}, limit |-> 3, moves |-> {0}]}
=============================================================================
