---------------------------- MODULE StackUpdate ----------------------------
(***************************************************************************)
(* The update of a whole unit: StackUpdater installs the software of a     *)
(* release and stages its firmware (comms/stack_update.py); after the      *)
(* restart PendingUpdateController flashes it (comms/pending_update.py,    *)
(* firmware_apply.py) over FirmwareUpdater (comms/updater.py) and the      *)
(* transfer of Ymodem.  The user may start another update while the staged *)
(* image is being flashed.                                                 *)
(*                                                                         *)
(* The host's disk survives its crashes.  Of the board there is what the   *)
(* bootloader decides by (DualBank has the detail): the banks, what their  *)
(* CRCs were recorded for, the active bank, and the one Exec came from.    *)
(***************************************************************************)
EXTENDS Ymodem

CONSTANTS
  Releases,   \* the versions that are released, in their order: 1..n; 0 is the factory's
  Uses        \* what a history has, all bounds: updates, crashes (of the host), lost (commands of
              \* the bootloader whose answers never come), io (failing downloads and installations)

ASSUME ReleaseAssumption == Releases \in Nat \ {0}
Bounds == [updates : Nat, crashes : Nat, lost : Nat, io : Nat]
ASSUME UseAssumption == Uses \subseteq Bounds

None == -1
Torn == -2
Version == 0..Releases

VARIABLES
  use,
  left,     \* what may still happen of it
  disk,     \* the installed software, the staged image, the marker
  apply,    \* the update on the update screen: its step and release
  pend,     \* PendingUpdateController: its step, the version, the bank
  board,    \* what runs, exec, the banks, the active and the loaded bank, and while it receives an
            \* image: the bank it goes into, and the file the sender read it from
  crowded,  \* history: an update began while another was pending
  slipped   \* history: a command of the bootloader went unanswered

svars == <<use, left, disk, apply, pend, board, crowded, slipped>>
vars == <<tvars, svars>>

Idle == [at |-> "idle", v |-> None]
NoFlash == [at |-> "none", v |-> None, bank |-> 0]

Init ==
  /\ use \in Uses
  /\ TransferInit
  /\ left = use
  /\ disk = [software |-> 0, image |-> None, marker |-> None]
  /\ apply = Idle
  /\ pend = NoFlash
  /\ board = [at |-> "app", exec |-> 0, bank |-> <<0, 0>>, active |-> 1, loaded |-> 1,
               into |-> 0, file |-> None]
  /\ crowded = FALSE /\ slipped = FALSE

(***************************************************************************)
(* StackUpdater.apply.                                                     *)
(***************************************************************************)
Cleared(d) == [d EXCEPT !.marker = None, !.image = None]
ApplyKeeps == UNCHANGED <<tvars, use, pend, board, slipped>>
Steps(at) == apply.at = at
To(at) == apply' = [apply EXCEPT !.at = at]

\* The update screen offers a release that is not the one installed.
StartUpdate(v) ==
  /\ Steps("idle") /\ left.updates > 0 /\ v # disk.software
  /\ left' = [left EXCEPT !.updates = @ - 1]
  /\ apply' = [at |-> "download", v |-> v]
  /\ crowded' = (crowded \/ disk.marker # None \/ pend # NoFlash)
  /\ UNCHANGED disk /\ ApplyKeeps

\* (mutant: the marker first)
CopyImage_MarkerFirst ==
  /\ Steps("download") /\ To("copy")
  /\ disk' = [disk EXCEPT !.image = Torn, !.marker = apply.v]
  /\ UNCHANGED <<left, crowded>> /\ ApplyKeeps
\* Both assets are there and verified: the image is copied to its place ...
CopyImage ==
  /\ Steps("download") /\ To("copy")
  /\ disk' = [disk EXCEPT !.image = Torn]
  /\ UNCHANGED <<left, crowded>> /\ ApplyKeeps
Copied ==
  /\ Steps("copy") /\ To("mark")
  /\ disk' = [disk EXCEPT !.image = apply.v]
  /\ UNCHANGED <<left, crowded>> /\ ApplyKeeps
\* ... and the marker takes the place of an older one, if any.
WriteMarker ==
  /\ Steps("mark") /\ To("install")
  /\ disk' = [disk EXCEPT !.marker = apply.v]
  /\ UNCHANGED <<left, crowded>> /\ ApplyKeeps

Installed ==
  /\ Steps("install") /\ To("reboot")
  /\ disk' = [disk EXCEPT !.software = apply.v]
  /\ UNCHANGED <<left, crowded>> /\ ApplyKeeps

\* A download, a copy or the installation fails: the marker is cleared, whatever it is for.
ApplyFails ==
  /\ apply.at \in {"download", "copy", "mark", "install"} /\ left.io > 0
  /\ left' = [left EXCEPT !.io = @ - 1]
  /\ apply' = Idle
  /\ disk' = Cleared(disk)
  /\ UNCHANGED crowded /\ ApplyKeeps

Apply ==
  \/ \E v \in Version : StartUpdate(v)
  \/ CopyImage \/ Copied \/ WriteMarker \/ Installed \/ ApplyFails

(***************************************************************************)
(* The board.                                                              *)
(***************************************************************************)
\* bl_boot_app: a stale Exec is copied from the active bank if that is trusted.
Boots(b) ==
  IF b.active # b.loaded /\ b.bank[b.active] # None
    THEN [b EXCEPT !.at = "app", !.exec = b.bank[b.active], !.loaded = b.active]
    ELSE [b EXCEPT !.at = "app"]

(***************************************************************************)
(* PendingUpdateController.run, apply_firmware and _flash_flow.            *)
(***************************************************************************)
FlashKeeps == UNCHANGED <<use, apply, crowded>>
Flashes(at) == pend.at = at
Goes(at) == pend' = [pend EXCEPT !.at = at]
Ends == pend' = NoFlash

\* The marker at the start of the application.
pending_firmware_update ==
  /\ Flashes("start")
  /\ IF disk.marker # None /\ disk.marker = disk.software /\ disk.image # None
       THEN pend' = [pend EXCEPT !.at = "await", !.v = disk.marker] /\ UNCHANGED disk
       ELSE Ends /\ disk' = IF disk.marker = None THEN disk ELSE Cleared(disk)
  /\ UNCHANGED <<tvars, left, board, slipped>> /\ FlashKeeps

\* _wait_for_board; the bootloader's answers count as those of a board of another version.
BoardAbsent ==
  /\ Flashes("await") /\ board.at \notin {"app", "cli"}
  /\ Ends
  /\ UNCHANGED <<tvars, left, disk, board, slipped>> /\ FlashKeeps
AlreadyThere ==
  /\ Flashes("await") /\ board.at = "app" /\ board.exec = pend.v
  /\ Ends /\ disk' = Cleared(disk)
  /\ UNCHANGED <<tvars, left, board, slipped>> /\ FlashKeeps

\* A command that gets no answer: it may have been carried out or not, and the
\* flow goes on with an empty answer.
Unanswered == left.lost > 0 /\ left' = [left EXCEPT !.lost = @ - 1] /\ slipped' = TRUE
Answered == UNCHANGED <<left, slipped>>

\* update: only the application knows it.  A failure keeps the marker.
EnterBootloader ==
  /\ Flashes("await") /\ board.at \in {"app", "cli"} /\ ~(board.at = "app" /\ board.exec = pend.v)
  /\ \/ board.at = "app" /\ Goes("info") /\ board' = [board EXCEPT !.at = "cli"]
        /\ UNCHANGED <<left, slipped>>
     \/ board.at = "app" /\ Unanswered /\ Ends
        /\ board' \in {board, [board EXCEPT !.at = "cli"]}
     \/ board.at = "cli" /\ Ends /\ UNCHANGED <<board, left, slipped>>
  /\ UNCHANGED <<tvars, disk>> /\ FlashKeeps

\* info: the bank to flash is the inactive one; without an answer, 0 counts as active.
Info ==
  /\ Flashes("info")
  /\ \/ Answered /\ pend' = [pend EXCEPT !.at = "flash", !.bank = 3 - board.active]
     \/ Unanswered /\ pend' = [pend EXCEPT !.at = "flash", !.bank = 2]
  /\ UNCHANGED <<tvars, disk, board>> /\ FlashKeeps

\* flash, and then the image is read, which may be gone by now.
Flash ==
  /\ Flashes("flash")
  /\ \/ /\ rcv' = At("hello", 1) /\ down' = <<"C">>
        /\ board' = [board EXCEPT !.at = "receive", !.into = pend.bank, !.file = disk.image]
        /\ UNCHANGED faults
     \/ /\ faults > 0 /\ faults' = faults - 1
        /\ rcv' = Off /\ down' = <<>> /\ UNCHANGED board
  /\ IF disk.image = None THEN Ends /\ snd' = Off ELSE Goes("send") /\ snd' = At("hello", 0)
  /\ up' = <<>>
  /\ UNCHANGED <<adrift, left, disk, slipped>> /\ FlashKeeps

\* The transfer.  The bank is erased with its first block; its CRC is recorded, over whatever is
\* there, when the receiver takes the transfer for complete: the file, a part of it or, without a
\* block, what the bank had, which gets a CRC if it had none.
Ended(b) == [b EXCEPT !.at = "cli", !.into = 0, !.file = None]
Received(b) ==
  IF rcv.blk = LastBlock + 1 THEN {b.file}
  ELSE IF rcv.blk > 1 THEN {Torn}
  ELSE IF b.bank[b.into] = None THEN {None, Torn} ELSE {b.bank[b.into]}
Recorded(b) == {[Ended(b) EXCEPT !.bank[b.into] = v] : v \in Received(b)}
Result ==
  board' \in CASE rcv.at # "erase" /\ rcv'.at = "erase" ->
                    {[board EXCEPT !.bank[board.into] = None]}
               [] rcv.at # "done" /\ rcv'.at = "done" -> Recorded(board)
               [] rcv.at # "failed" /\ rcv'.at = "failed" -> {Ended(board)}
               [] OTHER -> {board}
Transferring ==
  /\ Transfer /\ Result
  /\ UNCHANGED <<use, left, disk, apply, pend, crowded, slipped>>

\* The answer of flash must arrive.  Any failure keeps the marker.
FlashDone ==
  /\ Flashes("send") /\ snd.at = "done"
  /\ \/ rcv.at = "done" /\ Goes("bank") /\ UNCHANGED <<left, slipped>>
     \/ rcv.at \in {"loop", "failed"} /\ Ends /\ UNCHANGED <<left, slipped>>
     \/ rcv.at = "done" /\ Unanswered /\ Ends
  /\ snd' = Off /\ UNCHANGED <<rcv, up, down, faults, adrift, disk, board>> /\ FlashKeeps
FlashFails_Clears ==
  /\ Flashes("send") /\ snd.at = "failed"
  /\ Ends /\ snd' = Off /\ disk' = Cleared(disk)
  /\ UNCHANGED <<rcv, up, down, faults, adrift, left, board, slipped>> /\ FlashKeeps
FlashFails ==
  /\ Flashes("send") /\ snd.at = "failed"
  /\ Ends /\ snd' = Off
  /\ UNCHANGED <<rcv, up, down, faults, adrift, left, disk, board, slipped>> /\ FlashKeeps

\* bank: an answer that never comes is taken for none needed.
Bank ==
  LET selected == [board EXCEPT !.active = pend.bank] IN
  /\ Flashes("bank") /\ Goes("boot")
  /\ \/ Answered /\ board' = selected
     \/ Unanswered /\ board' \in {board, selected}
  /\ UNCHANGED <<tvars, disk>> /\ FlashKeeps

\* boot has no answer.
Boot ==
  /\ Flashes("boot") /\ Goes("clear")
  /\ \/ board' = Boots(board) /\ UNCHANGED <<left, slipped>>
     \/ Unanswered /\ UNCHANGED board
  /\ UNCHANGED <<tvars, disk>> /\ FlashKeeps

\* The marker is cleared, whatever it is for by now, and whatever the board runs.
ClearPending ==
  /\ Flashes("clear")
  /\ Ends /\ disk' = Cleared(disk)
  /\ UNCHANGED <<tvars, left, board, slipped>> /\ FlashKeeps

Pending ==
  \/ pending_firmware_update \/ BoardAbsent \/ AlreadyThere \/ EnterBootloader \/ Info
  \/ Flash \/ FlashDone \/ FlashFails \/ Bank \/ Boot \/ ClearPending

(***************************************************************************)
(* Restarts.                                                               *)
(***************************************************************************)
HostStarts ==
  /\ apply' = Idle
  /\ pend' = [NoFlash EXCEPT !.at = "start"]
  /\ snd' = Off /\ down' = <<>>
\* After an installation; the board is not restarted with it.
Reboot ==
  /\ Steps("reboot") /\ HostStarts
  /\ UNCHANGED <<rcv, up, faults, adrift, use, left, disk, board, crowded, slipped>>
Crash ==
  /\ left.crashes > 0 /\ (apply # Idle \/ pend # NoFlash)
  /\ left' = [left EXCEPT !.crashes = @ - 1]
  /\ HostStarts
  /\ UNCHANGED <<rcv, up, faults, adrift, use, disk, board, crowded, slipped>>
\* The whole unit is switched off and on again, at rest.
PowerCycle ==
  /\ apply = Idle /\ pend = NoFlash /\ (disk.marker # None \/ board.at # "app")
  /\ HostStarts
  /\ board' = Boots([board EXCEPT !.into = 0, !.file = None])
  /\ rcv' = Off /\ up' = <<>>
  /\ UNCHANGED <<faults, adrift, use, left, disk, crowded, slipped>>

Next == Apply \/ Pending \/ Transferring \/ Reboot \/ Crash \/ PowerCycle

\* Whoever has a step to take takes it, and a unit that failed is switched off and on.
Fairness ==
  /\ WF_vars(Apply) /\ WF_vars(Pending) /\ WF_vars(Reboot) /\ WF_vars(PowerCycle)
  /\ WF_vars(ymodem_send /\ Transferring) /\ WF_vars(NoC /\ Transferring)
  /\ WF_vars(ymodem_receive /\ Transferring)
Spec == Init /\ [][Next]_vars /\ Fairness

(***************************************************************************)
(* Properties.                                                             *)
(***************************************************************************)
Image == Version \cup {None, Torn}
Disk == [software : Version, image : Image, marker : Version \cup {None}]
Update == [at : {"download", "copy", "mark", "install", "reboot"}, v : Version] \cup {Idle}
Flashing ==
  [at : {"none", "start", "await", "info", "flash", "send", "bank", "boot", "clear"},
   v : Version \cup {None}, bank : 0..2]
Board ==
  [at : {"app", "cli", "receive"}, exec : Image, bank : [1..2 -> Image],
   active : 1..2, loaded : 1..2, into : 0..2, file : Image]

TypeOK ==
  /\ TransferTypeOK
  /\ use \in Uses /\ left \in Bounds
  /\ disk \in Disk /\ apply \in Update /\ pend \in Flashing /\ board \in Board
  /\ crowded \in BOOLEAN /\ slipped \in BOOLEAN
  /\ Sending => pend.at = "send"
  /\ Receiving <=> board.at = "receive"
  /\ board.at = "receive" => board.into # 0

\* stack_update.py: the marker must not exist until the image beside it is complete.
MarkerNamesWhole == disk.marker # None => disk.image = disk.marker

\* So it is where no update began while another was pending.
StagedWhole == ~crowded => MarkerNamesWhole

\* Whatever crashes, fails and is lost on the way, the board ends up with the firmware of the
\* software that is installed, if it is switched off and on when a flash failed - unless updates
\* overlapped, a command of the bootloader went unanswered, or a transfer went adrift.
Coherent ==
  <>[]((board.at = "app" /\ board.exec = disk.software) \/ slipped \/ crowded \/ adrift > 0)
=============================================================================
