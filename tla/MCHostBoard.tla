----------------------------- MODULE MCHostBoard -----------------------------
(***************************************************************************)
(* Two writers and one change of connection, and a few kinds of trouble at  *)
(* a time: each use bounds what a session has.                             *)
(***************************************************************************)
EXTENDS HostBoard

MCWriters == <<"w1", "w2">>

Quiet == [writes |-> 0, losses |-> 0, cuts |-> 0, diag |-> FALSE, raw |-> FALSE, reconf |-> 0]
MCUses == {[Quiet EXCEPT !.losses = 2, !.cuts = 2],
           [Quiet EXCEPT !.writes = 2, !.losses = 2],
           [Quiet EXCEPT !.writes = 1, !.losses = 1, !.cuts = 1, !.diag = TRUE],
           [Quiet EXCEPT !.writes = 2, !.cuts = 1, !.raw = TRUE],
           [Quiet EXCEPT !.writes = 2, !.losses = 1, !.raw = TRUE],
           [Quiet EXCEPT !.writes = 1, !.raw = TRUE, !.reconf = 1],
           [Quiet EXCEPT !.writes = 2, !.reconf = 1],
           [Quiet EXCEPT !.writes = 2, !.cuts = 1, !.reconf = 1]}
=============================================================================
