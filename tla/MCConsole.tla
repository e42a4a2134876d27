----------------------------- MODULE MCConsole -----------------------------
(***************************************************************************)
(* Each use sets some of the bounds free: both ports at once, a busy       *)
(* RS-485 line with noise, and connections that come and go.               *)
(***************************************************************************)
EXTENDS Console

Lines(r, t) == [p \in Ports |-> IF p = "rs485" THEN r ELSE t]

MCUses == {
  [lines |-> Lines(1, 1), conns |-> 1, prints |-> 1, noises |-> 0, bursts |-> 2, resets |-> {}],
  [lines |-> Lines(1, 1), conns |-> 1, prints |-> 1, noises |-> 0, bursts |-> 1,
   resets |-> {<<"tcp", 1>>}],
  [lines |-> Lines(2, 0), conns |-> 0, prints |-> 1, noises |-> 1, bursts |-> 2,
   resets |-> {<<"rs485", 2>>}],
  [lines |-> Lines(0, 2), conns |-> 2, prints |-> 3, noises |-> 0, bursts |-> 2, resets |-> {}]}
=============================================================================
