------------------------------ MODULE DualBank ------------------------------
(***************************************************************************)
(* Copy-on-activate between two storage banks and the Exec region: the     *)
(* bootloader (bootloader/src/main.c, bl_cli.c, flash.c), the commands of  *)
(* the application that touch the banks (app/src/Protocol.c, FwUpdate.c)   *)
(* and the settings they share.                                            *)
(*                                                                         *)
(* A 128 KB region is a head (the first chunk, with the vector table) and  *)
(* a tail (all the rest), programmed in that order as the code does.  The  *)
(* CRC of a region is its content.  Settings are saved atomically, which   *)
(* is what SettingsStore proves of them.                                   *)
(*                                                                         *)
(* The two ways in which an image that is not whole is recorded are part   *)
(* of the model: an update that is begun anew while fwTask still feeds a   *)
(* chunk of an aborted one (FwUpdate has the detail), and a YMODEM         *)
(* transfer that ends before all of the image was sent.                    *)
(***************************************************************************)
EXTENDS Integers, FiniteSets

CONSTANTS
  Ver,          \* firmware images
  Factory,      \* the image a new board has in Exec
  Blank, Garbled,
  Unknown,      \* bank_crc 0: not recorded
  None,         \* loaded_bank 0xFF, and "nothing" elsewhere
  Uses,         \* the ways a board is used: the commands its users send (cmds), the images
                \* whose vectors pass bl_image_valid (plausible), and whether both banks
                \* were committed before (provisioned) or the board is factory new
  MaxCrashes,   \* bound on power losses and unexpected resets
  MaxErrors,    \* bound on flash errors
  MaxRaces      \* bound on updates begun while a chunk of an aborted one was being fed

ASSUME UseAssumption ==
  \A u \in Uses : /\ u.plausible \subseteq Ver /\ Factory \in u.plausible
                  /\ u.provisioned \in BOOLEAN
ASSUME BoundAssumption == MaxCrashes \in Nat /\ MaxErrors \in Nat /\ MaxRaces \in Nat

Bank == 0..1

VARIABLES
  exec,     \* the Exec region
  bank,     \* the two storage banks
  set,      \* the persistent settings, as settings_load returns them
  bootflag, \* BOOT_FLAG holds BOOT_MAGIC
  pc,       \* who runs, and for the bootloader where it is
  job,      \* the flash job of the bootloader
  fw,       \* the update session of the application
  origin,   \* where the content of Exec comes from (history)
  due,      \* the image that must run at the next start, where updates alone decide it; else
            \* None (history)
  short,    \* an image was taken for complete before its end (history)
  crashes, errors, races,
  use       \* the way this board is used

vars == <<exec, bank, set, bootflag, pc, job, fw, origin, due, short, crashes, errors, races,
          use>>

(***************************************************************************)
(* Regions.                                                                *)
(***************************************************************************)
Region == [head : Ver \cup {Blank}, tail : Ver \cup {Blank, Garbled}]
Erased == [head |-> Blank, tail |-> Blank]
Whole(v) == [head |-> v, tail |-> v]
IsWhole(r) == \E v \in Ver : r = Whole(v)

\* The marks are none of the images, and "not recorded" is no content of a region.
ASSUME MarkAssumption ==
  /\ Blank \notin Ver /\ Garbled \notin Ver \cup {Blank}
  /\ None \notin Ver \cup Bank /\ Unknown \notin Region

\* What is due is followed where nothing but updates and restarts happens.
OnlyUpdates == use.cmds \subseteq {"fw", "fw.again", "save", "reset"}
Due(v) == IF OnlyUpdates THEN v ELSE None

\* A flash operation on region r: erase it, or program its head or tail with
\* the corresponding part of r2.
Step(r, at, r2) ==
  CASE at = "erase" -> Erased
    [] at = "head"  -> [r EXCEPT !.head = r2.head]
    [] at = "tail"  -> [r EXCEPT !.tail = r2.tail]

After(at) == CASE at = "erase" -> "head"
               [] at = "head"  -> "tail"
               [] at = "tail"  -> "end"

\* The same operation failing or losing power part way.
CutStep(r, at, r2) ==
  {r, Step(r, at, r2)} \cup
    (IF at = "head" THEN {} ELSE {[r EXCEPT !.tail = Garbled]})

Steps == {"erase", "head", "tail"}

\* Bank b when what is programmed into it goes no further than between two
\* chunks: part of the tail may be there.
Between(b, at) == {bank} \cup (IF at = "tail" THEN {[bank EXCEPT ![b].tail = Garbled]} ELSE {})

\* (mutant: erased vectors are taken for good ones)
bl_image_valid_Erased(r) == r.head \in use.plausible \cup {Blank}

\* Vector sanity: a stack pointer in RAM and a reset handler in Exec.
bl_image_valid(r) == r.head \in use.plausible

\* (mutant: the recorded CRC is not compared)
bl_bank_trusted_NoCrc(b, s) == bl_image_valid(bank[b])

\* A bank is trusted when its vectors are sane and its CRC, if one was
\* recorded, matches.
bl_bank_trusted(b, s) ==
  /\ bl_image_valid(bank[b])
  /\ s.crc[b] \in {Unknown, bank[b]}

\* (mutants: the copy is due whether or not the bank is trusted; or only when
\* Exec holds nothing that can run)
NeedCopy_Untrusted(s) == s.stored /\ s.loaded # s.active
NeedCopy_ExecFirst(s) ==
  s.stored /\ s.loaded # s.active /\ ~bl_image_valid(exec)

NeedCopy(s) ==
  /\ s.stored
  /\ s.loaded # s.active
  /\ bl_bank_trusted(s.active, s)

(***************************************************************************)
(* Initial states: a board fresh from the factory image (bootloader and    *)
(* Exec, no settings), or one whose two banks both hold committed images.  *)
(***************************************************************************)
NoJob == [bank |-> 0, img |-> None, at |-> "end", for |-> "none"]
NoSession ==
  [st |-> "idle", bank |-> 0, img |-> None, at |-> "end", ready |-> TRUE,
   stale |-> FALSE, shifted |-> FALSE]

FactorySettings ==
  [stored |-> FALSE, active |-> 0, loaded |-> None, mode |-> "app",
   crc |-> [b \in Bank |-> Unknown]]

Init ==
  /\ use \in Uses
  /\ pc = "reset"
  /\ bootflag = FALSE
  /\ job = NoJob
  /\ fw = NoSession
  /\ exec = Whole(Factory)
  /\ origin = "recorded"
  /\ due = Due(Factory)
  /\ short = FALSE
  /\ crashes = 0 /\ errors = 0 /\ races = 0
  /\ IF use.provisioned
       THEN \E v \in use.plausible \ {Factory} :
              /\ bank = [b \in Bank |-> Whole(IF b = 0 THEN Factory ELSE v)]
              /\ set = [stored |-> TRUE, active |-> 0, loaded |-> 0, mode |-> "app",
                        crc |-> bank]
       ELSE /\ bank = [b \in Bank |-> Erased]
            /\ set = FactorySettings

(***************************************************************************)
(* A settings write: it succeeds, or it reports an error and may or may    *)
(* not have taken effect.                                                  *)
(***************************************************************************)
SaveOk(s) == set' = [s EXCEPT !.stored = TRUE] /\ UNCHANGED errors

SaveError(s) ==
  /\ errors < MaxErrors
  /\ errors' = errors + 1
  /\ set' \in {set, [s EXCEPT !.stored = TRUE]}

Save(s) == SaveOk(s) \/ SaveError(s)

(***************************************************************************)
(* The boot path.                                                          *)
(***************************************************************************)
\* bl_jump_to_exec: an image that is not whole runs, but does not work.
bl_jump_to_exec ==
  /\ pc' = IF IsWhole(exec) THEN "app" ELSE "hung"
  /\ job' = NoJob
  /\ fw' = NoSession
  /\ due' = Due(exec.head)

bl_boot_app(s) ==
  IF ~NeedCopy(s) /\ bl_image_valid(exec)
  THEN bl_jump_to_exec
  ELSE /\ IF bl_bank_trusted(s.active, s)
            THEN /\ pc' = "copy"
                 /\ job' = [bank |-> s.active, img |-> None, at |-> "erase",
                            for |-> "boot"]
            ELSE pc' = "cli" /\ job' = NoJob
       /\ UNCHANGED <<fw, due>>

\* The bootloader's main, from the reset vector.
BlMain ==
  /\ pc = "reset"
  /\ bootflag' = FALSE
  /\ IF bootflag \/ set.mode = "bl"
       THEN pc' = "cli" /\ UNCHANGED <<job, fw, due>>
       ELSE bl_boot_app(set)
  /\ UNCHANGED <<exec, bank, set, origin, crashes, errors>>

\* flash_copy_region, one step of it; the chunks go from offset 0 up, so the
\* vectors are programmed first.
CopyStep ==
  /\ pc = "copy" /\ job.at \in Steps
  /\ exec' = Step(exec, job.at, bank[job.bank])
  /\ job' = [job EXCEPT !.at = After(@)]
  /\ origin' = "cut"
  /\ UNCHANGED <<bank, set, bootflag, pc, fw, due, crashes, errors>>

\* A flash error in the copy: bl_load_bank returns -1 and the caller falls
\* back to the CLI, with Exec as the error left it.
\* (mutant: the bank is recorded as loaded all the same)
SettingsAfterFail_Recorded == [set EXCEPT !.loaded = job.bank]
SettingsAfterFail == set

CopyFail ==
  /\ pc = "copy" /\ job.at \in Steps
  /\ errors < MaxErrors
  /\ errors' = errors + 1
  /\ exec' \in CutStep(exec, job.at, bank[job.bank])
  /\ origin' = "cut"
  /\ set' = SettingsAfterFail
  /\ pc' = "cli" /\ job' = NoJob
  /\ UNCHANGED <<bank, bootflag, fw, due, crashes>>

\* The copy is complete: record loaded_bank, whatever the write returns, then
\* jump (boot path) or go back to the prompt (copy command).
\* (mutant: the application is not started)
MayJump_Never == FALSE
MayJump == job.for = "boot" /\ bl_image_valid(exec)

CopyDone ==
  /\ pc = "copy" /\ job.at = "end"
  /\ Save([set EXCEPT !.loaded = job.bank])
  /\ origin' = IF set.crc[job.bank] = Unknown THEN "unrecorded"
               ELSE IF IsWhole(set.crc[job.bank]) THEN "recorded" ELSE "misrecorded"
  /\ IF MayJump
       THEN bl_jump_to_exec
       ELSE pc' = "cli" /\ job' = NoJob /\ UNCHANGED <<fw, due>>
  /\ UNCHANGED <<exec, bank, bootflag, crashes>>

(***************************************************************************)
(* The bootloader's command line.                                          *)
(***************************************************************************)
Cli(c) == pc = "cli" /\ c \in use.cmds

cmd_bank(n) ==
  /\ Cli("cli.bank")
  /\ Save([set EXCEPT !.active = n])
  /\ due' = None
  /\ UNCHANGED <<exec, bank, bootflag, pc, job, fw, origin, crashes>>

cmd_boot_mode(m) ==
  /\ Cli("cli.boot.mode")
  /\ Save([set EXCEPT !.mode = m])
  /\ UNCHANGED <<exec, bank, bootflag, pc, job, fw, origin, due, crashes>>

\* The session erases its sector lazily, on the first block.
cmd_flash(n, v) ==
  /\ Cli("cli.flash")
  /\ pc' = "ymodem"
  /\ job' = [bank |-> n, img |-> v, at |-> "erase", for |-> "cli"]
  /\ UNCHANGED <<exec, bank, set, bootflag, fw, origin, due, crashes, errors>>

YmodemStep ==
  /\ pc = "ymodem" /\ job.at \in Steps
  /\ bank' = [bank EXCEPT ![job.bank] = Step(@, job.at, Whole(job.img))]
  /\ job' = [job EXCEPT !.at = After(@)]
  /\ UNCHANGED <<exec, set, bootflag, pc, fw, origin, due, crashes, errors>>

\* Cancelled, timed out, or a flash error: nothing is recorded.
YmodemFail ==
  /\ pc = "ymodem" /\ job.at \in Steps
  /\ \/ bank' \in Between(job.bank, job.at) /\ UNCHANGED errors
     \/ /\ errors < MaxErrors
        /\ errors' = errors + 1
        /\ \E r \in CutStep(bank[job.bank], job.at, Whole(job.img)) :
             bank' = [bank EXCEPT ![job.bank] = r]
  /\ pc' = "cli"
  /\ job' = NoJob
  /\ UNCHANGED <<exec, set, bootflag, fw, origin, due, crashes>>

\* The sender ends the transfer: behind the last byte, or short of it, with the
\* bank as it was before or with a head and part of its tail.  Nobody compares
\* what came with the announced size: with sane vectors the CRC of what is there
\* is recorded (the result of that write is ignored), else it is left as it is.
YmodemDone ==
  /\ pc = "ymodem"
  /\ \/ job.at = "end" /\ UNCHANGED <<bank, short>>
     \/ job.at \in {"erase", "tail"} /\ bank' \in Between(job.bank, job.at) /\ short' = TRUE
  /\ IF bl_image_valid(bank[job.bank])
       THEN Save([set EXCEPT !.crc[job.bank] = bank'[job.bank]])
       ELSE UNCHANGED <<set, errors>>
  /\ pc' = "cli"
  /\ job' = NoJob
  /\ UNCHANGED <<exec, bootflag, fw, origin, due, crashes>>

\* erase does not unlock the flash controller: the controller, locked since
\* the last session, may ignore it and the command still answers.
cmd_erase(n) ==
  /\ Cli("cli.erase")
  /\ bank' = [bank EXCEPT ![n] = Erased] \/ UNCHANGED bank
  /\ UNCHANGED <<exec, set, bootflag, pc, job, fw, origin, due, crashes, errors>>

cmd_copy ==
  /\ Cli("cli.copy")
  /\ bl_bank_trusted(set.active, set)
  /\ pc' = "copy"
  /\ job' = [bank |-> set.active, img |-> None, at |-> "erase", for |-> "cli"]
  /\ UNCHANGED <<exec, bank, set, bootflag, fw, origin, due, crashes, errors>>

cmd_boot ==
  /\ Cli("cli.boot")
  /\ bl_boot_app(set)
  /\ UNCHANGED <<exec, bank, set, bootflag, origin, crashes, errors>>

cmd_rollback ==
  /\ Cli("cli.rollback")
  /\ LET other == 1 - set.active
         s == [set EXCEPT !.active = other]
     IN  /\ bl_bank_trusted(other, set)
         /\ \/ SaveOk(s) /\ bl_boot_app([s EXCEPT !.stored = TRUE])
            \/ SaveError(s) /\ due' = None /\ UNCHANGED <<pc, job, fw>>
  /\ UNCHANGED <<exec, bank, bootflag, origin, crashes>>

cmd_reset ==
  /\ Cli("cli.reset")
  /\ pc' = "reset"
  /\ UNCHANGED <<exec, bank, set, bootflag, job, fw, origin, due, crashes, errors>>

(***************************************************************************)
(* The application's commands that touch banks and settings.               *)
(***************************************************************************)
App(c) == pc = "app" /\ c \in use.cmds

\* A session that ended with st and left nothing to commit.
Over(st) == [NoSession EXCEPT !.st = st, !.ready = fw.ready]

\* What the chunk that is being fed has made of its bank when it is interrupted.
Feeding == fw.st = "recv" \/ fw.stale
CutFeed ==
  IF Feeding
  THEN {bank} \cup {[bank EXCEPT ![fw.bank] = r] :
                     r \in CutStep(bank[fw.bank], fw.at, Whole(fw.img))}
  ELSE {bank}

\* "fw.again" allows a second update before the board was restarted.
Again == "fw.again" \in use.cmds

\* FwUpdateBegin: any bank is accepted.  "fw" is the updater tool, which never
\* aborts, picks the bank that is not the active one and resets the board after
\* a commit (`ready' is FALSE in between); "fw.any" is its --bank option.  What a
\* chunk of an aborted session writes to its own bank is there by now.
FwUpdateBegin(b, v) ==
  /\ App("fw")
  /\ b = 1 - set.active \/ "fw.any" \in use.cmds
  /\ fw.ready
  /\ fw.st # "recv"
  /\ fw' = [fw EXCEPT !.st = "recv", !.bank = b, !.img = v, !.at = "erase", !.shifted = FALSE]
  /\ IF fw.stale
       THEN races < MaxRaces /\ races' = races + 1 /\ bank' \in CutFeed
       ELSE UNCHANGED <<bank, races>>
  /\ UNCHANGED <<exec, set, bootflag, pc, job, origin, due, crashes, errors>>

Receiving == pc = "app" /\ fw.st = "recv"

\* fwFeed up to the last byte, in a session of which no chunk was begun before it.
FwFeed ==
  /\ Receiving /\ ~fw.stale /\ fw.at \in {"erase", "head"}
  /\ bank' = [bank EXCEPT ![fw.bank] = Step(@, fw.at, Whole(fw.img))]
  /\ fw' = [fw EXCEPT !.at = After(@)]
  /\ UNCHANGED <<exec, set, bootflag, pc, job, origin, due, crashes, errors>>

\* fwFinishStream: the stream CRC matches, or the bytes were not those the
\* host announced.  (The CRC is of the stream, not of where its bytes went.)
FwFinish ==
  /\ Receiving /\ ~fw.stale /\ fw.at = "tail"
  /\ \/ /\ ~fw.shifted
        /\ bank' = [bank EXCEPT ![fw.bank] = Step(@, "tail", Whole(fw.img))]
        /\ fw' = [fw EXCEPT !.st = "done", !.at = "end"]
     \/ /\ bank' = [bank EXCEPT ![fw.bank].tail = Garbled]
        /\ \/ fw' = Over("error")
           \/ fw.shifted /\ fw' = [fw EXCEPT !.st = "done", !.at = "end"]
  /\ UNCHANGED <<exec, set, bootflag, pc, job, origin, due, crashes, errors>>

\* fwFail: connection lost, size, timeout, or a flash error.
FwFail ==
  /\ Receiving
  /\ \/ bank' \in Between(fw.bank, fw.at) /\ UNCHANGED errors
     \/ /\ errors < MaxErrors
        /\ errors' = errors + 1
        /\ \E r \in CutStep(bank[fw.bank], fw.at, Whole(fw.img)) :
             bank' = [bank EXCEPT ![fw.bank] = r]
  /\ fw' = Over("error")
  /\ UNCHANGED <<exec, set, bootflag, pc, job, origin, due, crashes>>

\* FwUpdateAbort, between two chunks or in the middle of one.
FwUpdateAbort ==
  /\ App("fw.abort") /\ fw.st # "idle"
  /\ \/ ~Feeding /\ fw' = Over("idle") /\ UNCHANGED bank
     \/ Feeding /\ ~fw.stale /\ fw' = Over("idle") /\ bank' \in Between(fw.bank, fw.at)
     \/ Feeding /\ fw' = [fw EXCEPT !.st = "idle", !.stale = TRUE] /\ UNCHANGED bank
  /\ UNCHANGED <<exec, set, bootflag, pc, job, origin, due, crashes, errors>>

\* The rest of the chunk of an aborted session: it was over, the controller
\* refuses it, a settings write has unlocked the controller again, or it was the
\* last one and its session is done after all.
FeedStale ==
  /\ pc = "app" /\ fw.stale /\ fw.st = "idle"
  /\ \/ /\ bank' \in CutFeed
        /\ \E st \in {"idle", "error"} : fw' = Over(st)
     \/ /\ fw.at = "tail"
        /\ bank' = [bank EXCEPT ![fw.bank] = Step(@, "tail", Whole(fw.img))]
        /\ fw' = [fw EXCEPT !.st = "done", !.at = "end", !.stale = FALSE]
  /\ UNCHANGED <<exec, set, bootflag, pc, job, origin, due, crashes, errors>>

\* The same when another session was begun meanwhile: that one's statics were
\* reset behind the chunk, it is closed with the result of the aborted one, or
\* the chunk counts in it: it, or nothing, is in the place of the head, and all
\* that comes after it goes to the wrong place.
FeedRaced ==
  /\ Receiving /\ fw.stale
  /\ \/ /\ UNCHANGED bank
        /\ \/ \E st \in {"recv", "done"} : fw' = [fw EXCEPT !.st = st, !.stale = FALSE]
           \/ fw' = Over("error")
     \/ /\ \E h \in Ver \cup {Blank} :
             bank' = [bank EXCEPT ![fw.bank] = [head |-> h, tail |-> Blank]]
        /\ fw' = [fw EXCEPT !.at = "tail", !.stale = FALSE, !.shifted = TRUE]
  /\ UNCHANGED <<exec, set, bootflag, pc, job, origin, due, crashes, errors>>

\* FwUpdateCommit: re-check the vectors, then record the CRC and select the
\* bank in one save.  The tool gives up when the answer is an error.
\* (mutant: the session need not be complete)
Committable_AnyState == fw.st # "idle" /\ bl_image_valid(bank[fw.bank])
Committable == fw.st = "done" /\ bl_image_valid(bank[fw.bank])

FwUpdateCommit ==
  /\ App("fw") /\ Committable
  /\ LET s == [set EXCEPT !.crc[fw.bank] = bank[fw.bank], !.active = fw.bank]
     IN  \/ SaveOk(s) /\ fw' = [Over("idle") EXCEPT !.ready = Again]
                     /\ due' = Due(bank[fw.bank].head)
         \/ SaveError(s) /\ fw' = [fw EXCEPT !.ready = Again] /\ due' = None
  /\ UNCHANGED <<exec, bank, bootflag, pc, job, origin, crashes>>

\* bank <n>: no check of what the bank holds.
SettingsBankSet(n) ==
  /\ App("bank")
  /\ Save([set EXCEPT !.active = n])
  /\ due' = None
  /\ UNCHANGED <<exec, bank, bootflag, pc, job, fw, origin, crashes>>

\* A hand-off to the bootloader; like any reset it may interrupt fwTask.
Restart == pc' = "reset" /\ fw' = NoSession /\ bank' \in CutFeed

\* rollback: select the other bank, unchecked, and hand off to the
\* bootloader.
cmdRollback ==
  /\ App("rollback")
  /\ LET s == [set EXCEPT !.active = 1 - @]
     IN  \/ SaveOk(s) /\ Restart
         \/ SaveError(s) /\ UNCHANGED <<pc, bank, fw>>
  /\ due' = None
  /\ UNCHANGED <<exec, bootflag, job, origin, crashes>>

\* save: the first save of a new board makes its settings valid.
SettingsSave ==
  /\ App("save")
  /\ Save(set)
  /\ UNCHANGED <<exec, bank, bootflag, pc, job, fw, origin, due, crashes>>

\* update: a one-shot request for the bootloader's command line.
cmdUpdate ==
  /\ App("update")
  /\ bootflag' = TRUE
  /\ Restart
  /\ UNCHANGED <<exec, set, job, origin, due, crashes, errors>>

cmdReset ==
  /\ App("reset")
  /\ Restart
  /\ UNCHANGED <<exec, set, bootflag, job, origin, due, crashes, errors>>

(***************************************************************************)
(* Power loss, at any step of anyone.                                      *)
(***************************************************************************)
Crash ==
  /\ pc # "reset"
  /\ crashes < MaxCrashes
  /\ crashes' = crashes + 1
  /\ pc' = "reset"
  /\ bootflag' = FALSE
  /\ job' = NoJob
  /\ fw' = NoSession
  /\ IF pc = "copy" /\ job.at \in Steps
       THEN exec' \in CutStep(exec, job.at, bank[job.bank]) /\ origin' = "cut"
       ELSE UNCHANGED <<exec, origin>>
  /\ IF pc = "ymodem" /\ job.at \in Steps
       THEN \E r \in CutStep(bank[job.bank], job.at, Whole(job.img)) :
              bank' = [bank EXCEPT ![job.bank] = r]
       ELSE bank' \in IF pc = "app" THEN CutFeed ELSE {bank}
  /\ UNCHANGED <<set, due, errors>>

BootStep == BlMain \/ CopyStep \/ CopyFail \/ CopyDone

CliStep ==
  \/ \E n \in Bank : cmd_bank(n) \/ cmd_erase(n)
  \/ \E m \in {"app", "bl"} : cmd_boot_mode(m)
  \/ \E n \in Bank, v \in Ver : cmd_flash(n, v)
  \/ YmodemStep \/ YmodemFail
  \/ cmd_copy \/ cmd_boot \/ cmd_rollback \/ cmd_reset

AppStep ==
  \/ FwFeed \/ FwFinish \/ FwFail \/ FwUpdateAbort \/ FeedStale \/ FeedRaced \/ FwUpdateCommit
  \/ \E n \in Bank : SettingsBankSet(n)
  \/ cmdRollback \/ SettingsSave \/ cmdUpdate \/ cmdReset

Keeps == UNCHANGED <<use, races, short>>

Next ==
  \/ (BootStep \/ CliStep \/ AppStep \/ Crash) /\ Keeps
  \/ (\E b \in Bank, v \in Ver : FwUpdateBegin(b, v)) /\ UNCHANGED <<use, short>>
  \/ YmodemDone /\ UNCHANGED <<use, races>>

Spec == Init /\ [][Next]_vars

\* The bootloader is one thread that never waits on the boot path.
FairSpec == Spec /\ WF_vars(BootStep /\ Keeps)

-----------------------------------------------------------------------------
(***************************************************************************)
(* Properties.                                                             *)
(***************************************************************************)
\* The types of the flash, the settings and whoever runs.
Settings ==
  [stored : BOOLEAN, active : Bank, loaded : Bank \cup {None}, mode : {"app", "bl"},
   crc : [Bank -> Region \cup {Unknown}]]
Job ==
  [bank : Bank, img : Ver \cup {None}, at : Steps \cup {"end"}, for : {"none", "boot", "cli"}]
Session ==
  [st : {"idle", "recv", "done", "error"}, bank : Bank, img : Ver \cup {None},
   at : Steps \cup {"end"}, ready : BOOLEAN, stale : BOOLEAN, shifted : BOOLEAN]

TypeOK ==
  /\ exec \in Region /\ bank \in [Bank -> Region] /\ set \in Settings
  /\ bootflag \in BOOLEAN
  /\ pc \in {"reset", "cli", "copy", "ymodem", "app", "hung"}
  /\ job \in Job /\ fw \in Session
  /\ origin \in {"recorded", "misrecorded", "unrecorded", "cut"}
  /\ due \in use.plausible \cup {None} /\ use \in Uses
  /\ short \in BOOLEAN
  /\ crashes \in 0..MaxCrashes /\ errors \in 0..MaxErrors /\ races \in 0..MaxRaces

\* Used through the application alone, from two committed banks; or as the update tool does it.
InTheField ==
  \/ /\ use.provisioned
     /\ use.cmds \subseteq {"fw", "fw.any", "fw.again", "fw.abort", "bank", "rollback", "save",
                           "update", "reset", "cli.boot", "cli.reset"}
  \/ use.cmds \subseteq {"fw", "save", "reset"}

\* A broken image is never started: not after a power loss in the middle of a
\* copy, a failed transfer, or a flash error.
NeverRunsTorn == pc # "hung"

\* With any command of the application in any order, from two committed banks, and with an
\* update of a factory board - unless an update was begun while a chunk of an aborted one was
\* still being fed: fw.commit then takes a torn bank for good.
FieldNeverRunsTorn == InTheField /\ races = 0 => NeverRunsTorn

\* When a broken image does start, the last copy into Exec was cut short, or came from a bank
\* whose CRC nobody had recorded, or from one whose CRC was recorded when the image in it was not
\* whole, which takes such a race or a transfer that ended short.  A bank that was damaged after
\* its CRC was recorded never gets into Exec.
RecordedImagesRunWhole ==
  pc = "hung" => origin # "recorded" /\ (origin = "misrecorded" => races > 0 \/ short)

\* Whatever has happened so far, a power cycle now (with no further fault)
\* brings up a whole image: either Exec is run and whole, or it is reloaded
\* from a whole bank.
PowerCycleBoots ==
  set.mode = "app" =>
    IF ~NeedCopy(set) /\ bl_image_valid(exec)
    THEN IsWhole(exec)
    ELSE bl_bank_trusted(set.active, set) /\ IsWhole(bank[set.active])

\* So it is in the field, but for the same race.
FieldPowerCycleBoots == InTheField /\ races = 0 => PowerCycleBoots

\* A start of the application runs the image that is due: the one committed
\* last, or, after a failed or aborted update, the one that ran before.
Starting == pc \in {"reset", "copy", "cli"} /\ pc' \in {"app", "hung"}
RunsWhatIsDue ==
  [][Starting /\ due # None => exec = Whole(due)]_vars

\* From a restart the due image gets to run, however often the power fails on
\* the way: a copy that was cut short is taken up again.
DueImageStarts ==
  \A v \in Ver : (pc = "reset" /\ due = v) ~> (pc = "app" /\ exec = Whole(v))
=============================================================================
