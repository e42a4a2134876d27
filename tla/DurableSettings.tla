-------------------------- MODULE DurableSettings --------------------------
(***************************************************************************)
(* What the two-sector settings store promises its writers, with nothing   *)
(* about sectors, sequence numbers or checksums: one durable value, and a  *)
(* save that takes effect entirely or not at all.  A save that reports     *)
(* success has taken effect; one that fails or is cut by a power loss may  *)
(* or may not have, but never leaves a third value behind.                 *)
(***************************************************************************)

VARIABLES
  stored,   \* what a load returns now
  pending,  \* the value of the save in progress, or NoSave
  rc        \* result of the last finished save: "ok", "error", or "none"

CONSTANTS
  Content,  \* everything a load can return
  Initial,  \* the value of a store that was never written
  NoSave    \* not a Content

avars == <<stored, pending, rc>>

AInit ==
  /\ stored = Initial
  /\ pending = NoSave
  /\ rc = "none"

\* A writer asks for c to be made durable.
ABegin(c) ==
  /\ pending = NoSave
  /\ pending' = c
  /\ rc' = "none"
  /\ UNCHANGED stored

\* The only step that changes what a load returns.
ATakeEffect ==
  /\ pending # NoSave
  /\ stored' = pending
  /\ UNCHANGED <<pending, rc>>

\* Success is reported only for a value a load already returns.
AReturnOk ==
  /\ pending # NoSave
  /\ stored = pending
  /\ pending' = NoSave
  /\ rc' = "ok"
  /\ UNCHANGED stored

\* A failed save, which may have taken effect in the same step.
AReturnError ==
  /\ pending # NoSave
  /\ stored' \in {stored, pending}
  /\ pending' = NoSave
  /\ rc' = "error"

\* The power goes, or the processor resets.
ACrash ==
  /\ stored' \in {stored} \cup ({pending} \ {NoSave})
  /\ pending' = NoSave
  /\ rc' = "none"

ANext ==
  \/ \E c \in Content : ABegin(c)
  \/ ATakeEffect
  \/ AReturnOk
  \/ AReturnError
  \/ ACrash

ASpec == AInit /\ [][ANext]_avars
=============================================================================
