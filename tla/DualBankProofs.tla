--------------------------- MODULE DualBankProofs ---------------------------
(***************************************************************************)
(* The theorems about DualBank, for any images, any ways of using a board  *)
(* and any number of power losses and flash errors.                        *)
(***************************************************************************)
EXTENDS DualBank, TLAPS

(***************************************************************************)
(* The inductive invariant.                                                *)
(***************************************************************************)
\* A transfer that is under way has an image, and a next operation.
TransferTyped ==
  /\ Feeding => fw.img \in Ver /\ fw.at \in Steps
  /\ fw.stale => fw.st \in {"idle", "recv"}
  /\ fw.st = "done" => fw.img \in Ver
  /\ pc = "ymodem" => job.img \in Ver

TypeInv == TypeOK /\ TransferTyped

\* What the operations so far have made of a region that was r before them.
Progress(r, at, r2) ==
  /\ at = "head" => r = Erased
  /\ at = "tail" => r = [head |-> r2.head, tail |-> Blank]
  /\ at = "end"  => r = r2

\* Whoever programs a region has it exactly as far as it has got; a session that
\* is done has the whole image in its bank as long as the application runs - both
\* as long as no update was begun while a chunk of an aborted one was being fed.
FlashInv ==
  /\ pc = "copy" => /\ Progress(exec, job.at, bank[job.bank])
                    /\ bl_bank_trusted(job.bank, set)
  /\ pc = "ymodem" => Progress(bank[job.bank], job.at, Whole(job.img))
  /\ pc = "app" /\ races = 0 =>
       /\ ~fw.shifted /\ (fw.stale => fw.st = "idle")
       /\ Feeding => Progress(bank[fw.bank], fw.at, Whole(fw.img))
       /\ fw.st = "done" => bank[fw.bank] = Whole(fw.img)

\* Without such a race, and without a transfer that ended short, only whole images
\* have their CRC recorded; what was copied from a bank with the recorded CRC of a
\* whole image is whole; what hangs is not.
RecordInv ==
  /\ races = 0 /\ ~short => \A b \in Bank : set.crc[b] # Unknown => IsWhole(set.crc[b])
  /\ origin = "recorded" => IsWhole(exec)
  /\ origin = "misrecorded" => races > 0 \/ short
  /\ pc = "hung" => ~IsWhole(exec)

IInv == TypeInv /\ FlashInv /\ RecordInv

\* The tool writes the bank that is not active; users of the application alone
\* never lose a recorded CRC.
FieldUse ==
  \/ use.provisioned /\ \A b \in Bank : set.crc[b] # Unknown
  \/ /\ use.cmds \subseteq {"fw", "save", "reset"}
     /\ pc = "app" /\ Feeding => fw.bank # set.active

\* In the field the active bank is recorded or empty, and Exec is broken only
\* between the start of a copy and its end: then the copy is still due.
FieldSafe ==
  /\ FieldUse
  /\ ~short
  /\ set.mode = "app"
  /\ set.crc[set.active] # Unknown \/ bank[set.active].head = Blank
  /\ \/ IsWhole(exec) /\ bl_image_valid(exec)
     \/ NeedCopy(set) /\ pc \in {"reset", "copy", "cli"}
  /\ pc = "copy" => NeedCopy(set) /\ job.bank = set.active
  /\ pc \notin {"ymodem", "hung"}

FieldInv == InTheField /\ races = 0 => FieldSafe

\* What is due is what the next start runs.  (With the tool and no flash error.)
ToolOnly == MaxErrors = 0 /\ \A u \in Uses : u.cmds \subseteq {"fw", "save", "reset"}

DueInv ==
  /\ due = IF NeedCopy(set) THEN bank[set.active].head ELSE exec.head
  /\ set.loaded \in {None, set.active} \/ NeedCopy(set)
  /\ ~set.stored => set.crc[set.active] = Unknown
  /\ pc = "app" /\ fw.ready => set.loaded \in {None, set.active}
  /\ pc = "app" /\ fw.st \in {"recv", "done"} => fw.ready /\ fw.bank # set.active
  /\ ~fw.stale /\ races = 0

(***************************************************************************)
(* Regions and flash operations.                                           *)
(***************************************************************************)
\* Erasing, programming, and either cut short, give regions again.
LEMMA RegionsTyped ==
  /\ Erased \in Region
  /\ \A v \in Ver : Whole(v) \in Region
  /\ \A r, r2 \in Region, at \in Steps :
       /\ Step(r, at, r2) \in Region
       /\ CutStep(r, at, r2) \subseteq Region
       /\ After(at) \in {"head", "tail", "end"}
  BY DEF Region, Erased, Whole, Step, CutStep, After, Steps

\* So does what is programmed of the tail between two chunks, in either bank.
LEMMA BetweenTyped ==
  ASSUME NEW b \in Bank, NEW at, bank \in [Bank -> Region], NEW x \in Between(b, at)
  PROVE  x \in [Bank -> Region]
<1>1. [bank[b] EXCEPT !.tail = Garbled] \in Region
  BY DEF Region
<1> QED
  BY <1>1 DEF Between

\* So does a chunk of the application's session that is cut short.
LEMMA CutFeedTyped ==
  ASSUME TypeInv, NEW x \in CutFeed
  PROVE  /\ x \in [Bank -> Region]
         /\ x = bank \/ (Feeding /\ \E r : x = [bank EXCEPT ![fw.bank] = r])
<1>1. CASE Feeding
  <2>1. fw.bank \in Bank /\ fw.img \in Ver /\ fw.at \in Steps
    BY <1>1 DEF TypeInv, TypeOK, TransferTyped, Session
  <2>2. bank \in [Bank -> Region] /\ Whole(fw.img) \in Region
    BY <2>1, RegionsTyped DEF TypeInv, TypeOK
  <2>3. CutStep(bank[fw.bank], fw.at, Whole(fw.img)) \subseteq Region
    BY <2>1, <2>2, RegionsTyped
  <2> QED
    BY <1>1, <2>2, <2>3 DEF CutFeed
<1>2. CASE ~Feeding
  BY <1>2 DEF CutFeed, TypeInv, TypeOK
<1> QED
  BY <1>1, <1>2

\* One operation takes a region as far as it should be for the next one.
LEMMA ProgressStep ==
  ASSUME NEW r \in Region, NEW r2 \in Region, NEW at \in Steps, Progress(r, at, r2)
  PROVE  Progress(Step(r, at, r2), After(at), r2)
  BY DEF Progress, Step, After, Steps, Region, Erased

(***************************************************************************)
(* Types.                                                                  *)
(***************************************************************************)
\* The records the actions write.
LEMMA SettingsTyped ==
  ASSUME NEW s \in Settings
  PROVE  /\ s.active \in Bank /\ s.loaded \in Bank \cup {None} /\ s.stored \in BOOLEAN
         /\ \A b \in Bank : s.crc[b] \in Region \cup {Unknown}
         /\ [s EXCEPT !.stored = TRUE] \in Settings
         /\ \A b \in Bank : /\ [s EXCEPT !.active = b] \in Settings
                            /\ [s EXCEPT !.loaded = b] \in Settings
         /\ \A m \in {"app", "bl"} : [s EXCEPT !.mode = m] \in Settings
         /\ \A b \in Bank, r \in Region :
              /\ [s EXCEPT !.crc[b] = r] \in Settings
              /\ [s EXCEPT !.crc[b] = r, !.active = b] \in Settings
  BY DEF Settings

\* No job, and any job as it starts, is a job.
LEMMA JobTyped ==
  /\ NoJob \in Job
  /\ \A b \in Bank, i \in Ver \cup {None}, f \in {"boot", "cli"} :
       [bank |-> b, img |-> i, at |-> "erase", for |-> f] \in Job
  BY DEF Job, NoJob, Bank, Steps

\* A job keeps its type as it advances.
LEMMA JobAdvances ==
  ASSUME NEW j \in Job
  PROVE  /\ j.bank \in Bank /\ j.img \in Ver \cup {None}
         /\ j.at \in Steps \cup {"end"} /\ j.for \in {"none", "boot", "cli"}
         /\ \A at \in Steps \cup {"end"} : [j EXCEPT !.at = at] \in Job
  BY DEF Job

\* The update session keeps its type through each change of its fields.
LEMMA SessionTyped ==
  ASSUME NEW f \in Session
  PROVE  /\ NoSession \in Session
         /\ f.st \in {"idle", "recv", "done", "error"} /\ f.bank \in Bank
         /\ f.img \in Ver \cup {None} /\ f.at \in Steps \cup {"end"} /\ f.ready \in BOOLEAN
         /\ f.stale \in BOOLEAN /\ f.shifted \in BOOLEAN
         /\ \A st \in {"idle", "recv", "done", "error"}, q \in BOOLEAN :
              /\ [f EXCEPT !.st = st, !.stale = q] \in Session
              /\ [NoSession EXCEPT !.st = st, !.ready = q] \in Session
         /\ \A st \in {"done"}, at \in {"end"} :
              /\ [f EXCEPT !.st = st, !.at = at] \in Session
              /\ [f EXCEPT !.st = st, !.at = at, !.stale = FALSE] \in Session
         /\ \A q \in BOOLEAN : [f EXCEPT !.ready = q] \in Session
         /\ \A at \in Steps \cup {"end"} : [f EXCEPT !.at = at] \in Session
         /\ \A b \in Bank, v \in Ver :
              [f EXCEPT !.st = "recv", !.bank = b, !.img = v, !.at = "erase", !.shifted = FALSE]
                \in Session
         /\ [f EXCEPT !.at = "tail", !.stale = FALSE, !.shifted = TRUE] \in Session
<1>1. NoSession \in Session
  BY DEF Session, NoSession, Bank, Steps
<1>2. {"erase", "tail", "end"} \subseteq Steps \cup {"end"}
  BY DEF Steps
<1> QED
  BY <1>1, <1>2 DEF Session

\* A session that is over is one, of which no chunk is being fed.
LEMMA OverTyped ==
  ASSUME TypeOK, NEW st \in {"idle", "done", "error"}
  PROVE  /\ Over(st) \in Session /\ Over(st).st = st /\ Over(st).ready = fw.ready
         /\ ~Over(st).stale /\ ~Over(st).shifted /\ Over(st).img = None
         /\ [Over(st) EXCEPT !.ready = Again] \in Session
         /\ [Over(st) EXCEPT !.ready = Again].st = st
         /\ [Over(st) EXCEPT !.ready = Again].ready = Again
         /\ ~[Over(st) EXCEPT !.ready = Again].stale
         /\ ~[Over(st) EXCEPT !.ready = Again].shifted
         /\ Again \in BOOLEAN
<1>1. fw.ready \in BOOLEAN /\ Again \in BOOLEAN
  <2>1. fw \in Session
    BY DEF TypeOK
  <2>2. fw.ready \in BOOLEAN
    BY <2>1, SessionTyped
  <2>3. Again \in BOOLEAN
    BY DEF Again
  <2> QED
    BY <2>2, <2>3
<1>2. Over(st) \in Session
  BY <1>1, SessionTyped DEF Over, TypeOK
<1>3. /\ Over(st).st = st /\ Over(st).ready = fw.ready /\ ~Over(st).stale
      /\ ~Over(st).shifted /\ Over(st).img = None
  BY DEF Over, NoSession
<1>4. [Over(st) EXCEPT !.ready = Again] \in Session
  BY <1>1, <1>2, SessionTyped
<1>5. /\ [Over(st) EXCEPT !.ready = Again].st = st
      /\ [Over(st) EXCEPT !.ready = Again].ready = Again
      /\ ~[Over(st) EXCEPT !.ready = Again].stale
      /\ ~[Over(st) EXCEPT !.ready = Again].shifted
  BY <1>2, <1>3 DEF Session
<1> QED
  BY <1>1, <1>2, <1>3, <1>4, <1>5

\* A session that goes on as it is, or is forgotten with the RAM.
LEMMA SessionKept ==
  ASSUME TypeInv, fw' \in {fw, NoSession}, pc' # "ymodem"
  PROVE  /\ fw' \in Session /\ TransferTyped'
         /\ fw' = NoSession => ~Feeding' /\ fw'.st = "idle" /\ ~fw'.shifted /\ ~fw'.stale
<1>1. fw \in Session /\ NoSession \in Session
  BY SessionTyped DEF TypeInv, TypeOK
<1>2. CASE fw' = fw
  BY <1>1, <1>2 DEF TypeInv, TransferTyped, Feeding, NoSession
<1>3. CASE fw' = NoSession
  BY <1>1, <1>3 DEF TransferTyped, Feeding, NoSession
<1> QED
  BY <1>2, <1>3

\* The settings a write can leave behind.
LEMMA SaveTyped ==
  ASSUME NEW s \in Settings, TypeOK, Save(s)
  PROVE  /\ set' \in Settings
         /\ errors' \in 0..MaxErrors
         /\ set' \in {set, [s EXCEPT !.stored = TRUE]}
<1>1. set' \in {set, [s EXCEPT !.stored = TRUE]}
  BY DEF Save, SaveOk, SaveError
<1>2. set' \in Settings
  BY <1>1, SettingsTyped DEF TypeOK
<1>3. errors' \in 0..MaxErrors
  BY BoundAssumption DEF Save, SaveOk, SaveError, TypeOK
<1> QED
  BY <1>1, <1>2, <1>3

\* Starting the application, or the copy, or the command line.
LEMMA BootTyped ==
  ASSUME NEW s, s.active \in Bank, TypeInv, bl_boot_app(s), use' = use
  PROVE  /\ pc' \in {"cli", "copy", "app", "hung"}
         /\ job' \in Job
         /\ fw' \in {fw, NoSession}
         /\ due' \in use.plausible \cup {None}
  BY JobTyped, UseAssumption
     DEF bl_boot_app, bl_jump_to_exec, bl_image_valid, TypeInv, TypeOK, Due

\* Every step keeps the types.
LEMMA TypeStep == TypeInv /\ [Next]_vars => TypeInv'
<1> SUFFICES ASSUME TypeInv, [Next]_vars PROVE TypeInv'
  OBVIOUS
<1> USE DEF TypeInv, TransferTyped, TypeOK, Keeps
<1>1. ASSUME BlMain, Keeps
      PROVE  TypeInv'
  <2>1. /\ pc' \in {"cli", "copy", "app", "hung"} /\ job' \in Job /\ fw' \in {fw, NoSession}
        /\ due' \in use.plausible \cup {None}
    BY <1>1, BootTyped, SettingsTyped DEF BlMain
  <2>2. fw' \in Session /\ TransferTyped'
    BY <2>1, SessionKept
  <2> QED
    BY <1>1, <2>1, <2>2 DEF BlMain
<1>2. ASSUME CopyStep, Keeps
      PROVE  TypeInv'
  BY <1>2, RegionsTyped, JobAdvances DEF CopyStep, Steps, Feeding
<1>3. ASSUME CopyFail, Keeps
      PROVE  TypeInv'
  <2>1. exec' \in Region
    BY <1>3, RegionsTyped, JobAdvances DEF CopyFail
  <2>2. errors' \in 0..MaxErrors
    BY <1>3, BoundAssumption DEF CopyFail
  <2>3. job' \in Job /\ set' = set /\ TransferTyped'
    BY <1>3, JobTyped DEF CopyFail, SettingsAfterFail, Feeding
  <2> QED
    BY <1>3, <2>1, <2>2, <2>3 DEF CopyFail
<1>4. ASSUME CopyDone, Keeps
      PROVE  TypeInv'
  <2>1. job.bank \in Bank /\ [set EXCEPT !.loaded = job.bank] \in Settings
    BY SettingsTyped, JobAdvances
  <2>2. set' \in Settings /\ errors' \in 0..MaxErrors
    BY <1>4, <2>1, SaveTyped DEF CopyDone
  <2>3. /\ pc' \in {"app", "hung", "cli"} /\ job' \in Job /\ fw' \in {fw, NoSession}
        /\ due' \in use.plausible \cup {None}
    BY <1>4, JobTyped DEF CopyDone, MayJump, bl_jump_to_exec, bl_image_valid, Due
  <2>4. fw' \in Session /\ TransferTyped'
    BY <2>3, SessionKept
  <2>5. origin' \in {"recorded", "misrecorded", "unrecorded"}
    BY <1>4 DEF CopyDone
  <2>6. UNCHANGED <<exec, bank, bootflag, crashes, use, races, short>>
    BY <1>4 DEF CopyDone
  <2> QED
    BY <2>2, <2>3, <2>4, <2>5, <2>6
<1>5. ASSUME \E n \in Bank : cmd_bank(n) \/ cmd_erase(n), Keeps
      PROVE  TypeInv'
  <2>1. CASE \E n \in Bank : cmd_bank(n)
    <3>1. PICK n \in Bank : cmd_bank(n)
      BY <2>1
    <3>2. [set EXCEPT !.active = n] \in Settings
      BY SettingsTyped
    <3>3. set' \in Settings /\ errors' \in 0..MaxErrors
      BY <3>1, <3>2, SaveTyped DEF cmd_bank
    <3>4. UNCHANGED <<exec, bank, bootflag, pc, job, fw, origin, crashes>> /\ due' = None
      BY <3>1 DEF cmd_bank
    <3> QED BY <1>5, <3>3, <3>4 DEF Feeding
  <2>2. CASE \E n \in Bank : cmd_erase(n)
    BY <1>5, <2>2, RegionsTyped DEF cmd_erase, Feeding
  <2> QED BY <1>5, <2>1, <2>2
<1>6. ASSUME \E m \in {"app", "bl"} : cmd_boot_mode(m), Keeps
      PROVE  TypeInv'
  BY <1>6, SettingsTyped, SaveTyped DEF cmd_boot_mode, Cli, Feeding
<1>7. ASSUME \E n \in Bank, v \in Ver : cmd_flash(n, v), Keeps
      PROVE  TypeInv'
  <2>1. job' \in Job
    BY <1>7, JobTyped DEF cmd_flash, Cli
  <2>2. TransferTyped'
    BY <1>7 DEF cmd_flash, Cli, Feeding
  <2> QED
    BY <1>7, <2>1, <2>2 DEF cmd_flash
<1>8. ASSUME YmodemStep, Keeps
      PROVE  TypeInv'
  <2>1. bank' \in [Bank -> Region]
    BY <1>8, RegionsTyped, JobAdvances DEF YmodemStep
  <2>2. job' \in Job
    BY <1>8, RegionsTyped, JobAdvances DEF YmodemStep, Steps
  <2>3. TransferTyped'
    BY <1>8, JobAdvances DEF YmodemStep, Job, Feeding
  <2> QED
    BY <1>8, <2>1, <2>2, <2>3 DEF YmodemStep
<1>9. ASSUME YmodemFail, Keeps
      PROVE  TypeInv'
  <2>1. CutStep(bank[job.bank], job.at, Whole(job.img)) \subseteq Region
    BY <1>9, RegionsTyped, JobAdvances DEF YmodemFail
  <2>2. bank' \in [Bank -> Region]
    BY <1>9, <2>1, JobAdvances, BetweenTyped DEF YmodemFail
  <2>3. errors' \in 0..MaxErrors
    BY <1>9, BoundAssumption DEF YmodemFail
  <2>4. job' \in Job /\ TransferTyped'
    BY <1>9, JobTyped DEF YmodemFail, Feeding
  <2> QED
    BY <1>9, <2>1, <2>2, <2>3, <2>4 DEF YmodemFail
<1>10. ASSUME YmodemDone, UNCHANGED <<use, races>>
      PROVE  TypeInv'
  <2>1. job.bank \in Bank /\ short' \in BOOLEAN
    BY <1>10, JobAdvances DEF YmodemDone
  <2>2. bank' \in [Bank -> Region]
    BY <1>10, <2>1, BetweenTyped DEF YmodemDone
  <2>3. [set EXCEPT !.crc[job.bank] = bank'[job.bank]] \in Settings
    BY <2>1, <2>2, SettingsTyped
  <2>4. set' \in Settings /\ errors' \in 0..MaxErrors
    BY <1>10, <2>3, SaveTyped DEF YmodemDone
  <2>5. job' \in Job /\ TransferTyped'
    BY <1>10, JobTyped DEF YmodemDone, Feeding
  <2> QED
    BY <1>10, <2>1, <2>2, <2>4, <2>5 DEF YmodemDone
<1>11. ASSUME cmd_copy, Keeps
      PROVE  TypeInv'
  BY <1>11, JobTyped, SettingsTyped DEF cmd_copy, Cli, Feeding
<1>12. ASSUME cmd_boot, Keeps
      PROVE  TypeInv'
  <2>1. pc' \in {"cli", "copy", "app", "hung"} /\ job' \in Job /\ fw' \in {fw, NoSession}
          /\ due' \in use.plausible \cup {None}
    BY <1>12, BootTyped, SettingsTyped DEF cmd_boot
  <2>2. fw' \in Session /\ TransferTyped'
    BY <2>1, SessionKept
  <2> QED
    BY <1>12, <2>1, <2>2 DEF cmd_boot
<1>13. ASSUME cmd_rollback, Keeps
      PROVE  TypeInv'
  <2>1. set.active \in Bank
    BY <1>13, SettingsTyped DEF cmd_rollback
  <2>2. 1 - set.active \in Bank
    BY <1>13, <2>1 DEF cmd_rollback, Bank
  <2>3. set' \in Settings /\ errors' \in 0..MaxErrors
    BY <1>13, <2>1, <2>2, SettingsTyped, SaveTyped DEF cmd_rollback, Save
  <2>4. pc' \in {"cli", "copy", "app", "hung"} /\ job' \in Job /\ fw' \in {fw, NoSession}
          /\ due' \in use.plausible \cup {None}
    BY <1>13, <2>1, <2>2, BootTyped, SettingsTyped DEF cmd_rollback, Cli
  <2>5. fw' \in Session /\ TransferTyped'
    BY <2>4, SessionKept
  <2> QED
    BY <1>13, <2>1, <2>2, <2>3, <2>4, <2>5 DEF cmd_rollback
<1>14. ASSUME cmd_reset, Keeps
      PROVE  TypeInv'
  BY <1>14 DEF cmd_reset, Cli, Feeding
<1>15. ASSUME \E b \in Bank, v \in Ver : FwUpdateBegin(b, v), UNCHANGED <<use, short>>
      PROVE  TypeInv'
  <2>1. PICK b \in Bank, v \in Ver : FwUpdateBegin(b, v)
    BY <1>15
  <2>2. /\ fw' \in Session /\ fw'.img = v /\ fw'.at = "erase" /\ fw'.st = "recv"
    <3> DEFINE f == [fw EXCEPT !.st = "recv", !.bank = b, !.img = v, !.at = "erase",
                               !.shifted = FALSE]
    <3>1. fw' = f
      BY <2>1 DEF FwUpdateBegin
    <3>2. f \in Session
      BY SessionTyped
    <3>3. f.img = v /\ f.at = "erase" /\ f.st = "recv"
      BY DEF Session
    <3> QED
      BY <3>1, <3>2, <3>3
  <2>3. TransferTyped'
    BY <2>1, <2>2 DEF FwUpdateBegin, Steps, App, Feeding
  <2>4. bank' \in [Bank -> Region] /\ races' \in 0..MaxRaces
    <3>1. CASE fw.stale
      <4>1. races < MaxRaces /\ races' = races + 1 /\ bank' \in CutFeed
        BY <2>1, <3>1 DEF FwUpdateBegin
      <4>2. races' \in 0..MaxRaces
        BY <4>1, BoundAssumption
      <4> QED
        BY <4>1, <4>2, CutFeedTyped
    <3>2. CASE ~fw.stale
      BY <2>1, <3>2 DEF FwUpdateBegin
    <3> QED
      BY <3>1, <3>2
  <2> QED
    BY <1>15, <2>1, <2>2, <2>3, <2>4 DEF FwUpdateBegin
<1>16. ASSUME FwFeed, Keeps
      PROVE  TypeInv'
  <2>1. bank' \in [Bank -> Region]
    BY <1>16, RegionsTyped, SessionTyped DEF FwFeed, Receiving, Steps, Feeding
  <2>2. fw' \in Session
    BY <1>16, RegionsTyped, SessionTyped DEF FwFeed, Receiving, Steps
  <2>3. TransferTyped'
    BY <1>16 DEF FwFeed, Receiving, Session, Steps, After, Feeding
  <2> QED
    BY <1>16, <2>1, <2>2, <2>3 DEF FwFeed
<1>17. ASSUME FwFinish, Keeps
      PROVE  TypeInv'
  <2>1. fw.bank \in Bank /\ bank[fw.bank] \in Region /\ Whole(fw.img) \in Region
    BY <1>17, RegionsTyped, SessionTyped DEF FwFinish, Receiving, Feeding
  <2>2. Step(bank[fw.bank], "tail", Whole(fw.img)) \in Region
          /\ [bank[fw.bank] EXCEPT !.tail = Garbled] \in Region
    BY <1>17, <2>1, RegionsTyped DEF FwFinish, Steps, Region
  <2>3. bank' \in [Bank -> Region]
    BY <1>17, <2>1, <2>2 DEF FwFinish
  <2>4. \/ fw' = Over("error")
        \/ fw' = [fw EXCEPT !.st = "done", !.at = "end"]
    BY <1>17 DEF FwFinish
  <2>5. fw' \in Session
    BY <2>4, OverTyped, SessionTyped
  <2>6. ~Feeding' /\ ~fw'.stale /\ (fw'.st = "done" => fw'.img \in Ver) /\ pc' = "app"
    <3>1. CASE fw' = Over("error")
      BY <1>17, <3>1, OverTyped DEF FwFinish, Receiving, Feeding
    <3>2. CASE fw' = [fw EXCEPT !.st = "done", !.at = "end"]
      BY <1>17, <3>2 DEF FwFinish, Receiving, Feeding, Session
    <3> QED
      BY <2>4, <3>1, <3>2
  <2> QED
    BY <1>17, <2>3, <2>5, <2>6 DEF FwFinish
<1>18. ASSUME FwFail, Keeps
      PROVE  TypeInv'
  <2>1. fw.bank \in Bank /\ CutStep(bank[fw.bank], fw.at, Whole(fw.img)) \subseteq Region
    BY <1>18, RegionsTyped, SessionTyped DEF FwFail, Receiving, Feeding
  <2>2. bank' \in [Bank -> Region]
    BY <1>18, <2>1, BetweenTyped DEF FwFail
  <2>3. errors' \in 0..MaxErrors
    BY <1>18, BoundAssumption DEF FwFail
  <2>4. fw' \in Session /\ TransferTyped'
    BY <1>18, OverTyped DEF FwFail, Receiving, Feeding
  <2> QED
    BY <1>18, <2>2, <2>3, <2>4 DEF FwFail
<1>19. ASSUME FwUpdateAbort, Keeps
      PROVE  TypeInv'
  <2>1. fw.bank \in Bank
    BY SessionTyped
  <2>2. bank' \in [Bank -> Region]
    BY <1>19, <2>1, BetweenTyped DEF FwUpdateAbort
  <2>3. \/ fw' = Over("idle")
        \/ Feeding /\ fw' = [fw EXCEPT !.st = "idle", !.stale = TRUE]
    BY <1>19 DEF FwUpdateAbort
  <2>4. fw' \in Session
    BY <2>3, OverTyped, SessionTyped
  <2>5. (Feeding' => fw'.img \in Ver /\ fw'.at \in Steps) /\ fw'.st = "idle"
    <3>1. CASE fw' = Over("idle")
      BY <3>1, OverTyped DEF Feeding
    <3>2. CASE Feeding /\ fw' = [fw EXCEPT !.st = "idle", !.stale = TRUE]
      BY <3>2 DEF Session
    <3> QED
      BY <2>3, <3>1, <3>2
  <2> QED
    BY <1>19, <2>2, <2>4, <2>5 DEF FwUpdateAbort, App
<1>28. ASSUME FeedStale, Keeps
      PROVE  TypeInv'
  <2>1. Feeding /\ fw.bank \in Bank /\ fw.img \in Ver
    BY <1>28, SessionTyped DEF FeedStale, Feeding
  <2>2. Step(bank[fw.bank], "tail", Whole(fw.img)) \in Region
    BY <2>1, RegionsTyped DEF Steps
  <2>3. bank' \in [Bank -> Region]
    BY <1>28, <2>1, <2>2, CutFeedTyped DEF FeedStale
  <2>4. \/ \E st \in {"idle", "error"} : fw' = Over(st)
        \/ fw' = [fw EXCEPT !.st = "done", !.at = "end", !.stale = FALSE]
    BY <1>28 DEF FeedStale
  <2>5. (fw' \in Session /\ ~Feeding' /\ ~fw'.stale /\ (fw'.st = "done" => fw'.img \in Ver))
    <3>1. CASE \E st \in {"idle", "error"} : fw' = Over(st)
      BY <3>1, OverTyped DEF Feeding
    <3>2. CASE fw' = [fw EXCEPT !.st = "done", !.at = "end", !.stale = FALSE]
      <4> DEFINE f == [fw EXCEPT !.st = "done", !.at = "end", !.stale = FALSE]
      <4>1. f \in Session
        BY SessionTyped
      <4>2. f.st = "done" /\ ~f.stale /\ f.img = fw.img
        BY DEF Session
      <4> HIDE DEF f
      <4> QED
        BY <2>1, <3>2, <4>1, <4>2 DEF Feeding, f
    <3> QED
      BY <2>4, <3>1, <3>2
  <2> QED
    BY <1>28, <2>3, <2>5 DEF FeedStale
<1>29. ASSUME FeedRaced, Keeps
      PROVE  TypeInv'
  <2>1. Feeding /\ fw.bank \in Bank /\ fw.img \in Ver
    BY <1>29, SessionTyped DEF FeedRaced, Feeding
  <2>2. \A h \in Ver \cup {Blank} : [head |-> h, tail |-> Blank] \in Region
    BY DEF Region
  <2>3. bank' \in [Bank -> Region]
    BY <1>29, <2>1, <2>2 DEF FeedRaced
  <2>4. \/ \E st \in {"recv", "done"} : fw' = [fw EXCEPT !.st = st, !.stale = FALSE]
        \/ fw' = Over("error")
        \/ fw' = [fw EXCEPT !.at = "tail", !.stale = FALSE, !.shifted = TRUE]
    BY <1>29 DEF FeedRaced
  <2>5. fw' \in Session
    <3>1. ASSUME NEW st \in {"recv", "done"}
          PROVE  [fw EXCEPT !.st = st, !.stale = FALSE] \in Session
      BY SessionTyped
    <3>2. [fw EXCEPT !.at = "tail", !.stale = FALSE, !.shifted = TRUE] \in Session
      BY SessionTyped
    <3>3. Over("error") \in Session
      BY OverTyped
    <3> QED
      BY <2>4, <3>1, <3>2, <3>3
  <2>6. TransferTyped'
    <3>1. (fw'.img = fw.img /\ ~fw'.stale) \/ fw' = Over("error")
      BY <2>4 DEF Session
    <3>2. fw'.at \in Steps \/ fw' = Over("error")
      BY <1>29, <2>1, <2>4 DEF Session, Steps
    <3> QED
      BY <1>29, <2>1, <3>1, <3>2, OverTyped DEF FeedRaced, Receiving, Feeding
  <2> QED
    BY <1>29, <2>3, <2>5, <2>6 DEF FeedRaced
<1>20. ASSUME FwUpdateCommit, Keeps
      PROVE  TypeInv'
  <2>1. set' \in Settings /\ errors' \in 0..MaxErrors
    BY <1>20, SettingsTyped, SaveTyped, SessionTyped DEF FwUpdateCommit, Save, Committable,
       bl_image_valid
  <2>2. fw' \in Session
    <3>1. [Over("idle") EXCEPT !.ready = Again] \in Session /\ Again \in BOOLEAN
      BY OverTyped
    <3>2. [fw EXCEPT !.ready = Again] \in Session
      BY <3>1, SessionTyped
    <3> QED
      BY <1>20, <3>1, <3>2 DEF FwUpdateCommit
  <2>3. due' \in use.plausible \cup {None}
    BY <1>20 DEF FwUpdateCommit, Committable, bl_image_valid, Due
  <2>4. TransferTyped'
    <3>1. CASE fw' = [Over("idle") EXCEPT !.ready = Again]
      BY <1>20, <3>1, OverTyped DEF FwUpdateCommit, App, Feeding
    <3>2. CASE fw' = [fw EXCEPT !.ready = Again]
      BY <1>20, <3>2 DEF FwUpdateCommit, App, Session, Feeding
    <3> QED
      BY <1>20, <3>1, <3>2 DEF FwUpdateCommit
  <2> QED
    BY <1>20, <2>1, <2>2, <2>3, <2>4 DEF FwUpdateCommit
<1>21. ASSUME \E n \in Bank : SettingsBankSet(n), Keeps
      PROVE  TypeInv'
  BY <1>21, SettingsTyped, SaveTyped DEF SettingsBankSet, App, Feeding
<1>22. ASSUME cmdRollback, Keeps
      PROVE  TypeInv'
  <2>1. set.active \in Bank
    BY <1>22, SettingsTyped DEF cmdRollback
  <2>2. 1 - set.active \in Bank
    BY <1>22, <2>1 DEF cmdRollback, Bank
  <2>3. [set EXCEPT !.active = 1 - @] = [set EXCEPT !.active = 1 - set.active]
    BY <1>22 DEF cmdRollback, Settings
  <2>4. set' \in Settings /\ errors' \in 0..MaxErrors
    BY <1>22, <2>1, <2>2, <2>3, SettingsTyped, SaveTyped DEF cmdRollback, Save
  <2>5. bank' \in [Bank -> Region] /\ fw' \in {fw, NoSession} /\ pc' \in {"app", "reset"}
    BY <1>22, CutFeedTyped DEF cmdRollback, App, Restart
  <2>6. fw' \in Session /\ TransferTyped'
    BY <2>5, SessionKept
  <2> QED
    BY <1>22, <2>4, <2>5, <2>6 DEF cmdRollback
<1>23. ASSUME SettingsSave, Keeps
      PROVE  TypeInv'
  BY <1>23, SettingsTyped, SaveTyped DEF SettingsSave, App, Feeding
<1>24. ASSUME cmdUpdate, Keeps
      PROVE  TypeInv'
  BY <1>24, CutFeedTyped, SessionTyped DEF cmdUpdate, App, Restart, NoSession, Feeding
<1>25. ASSUME cmdReset, Keeps
      PROVE  TypeInv'
  BY <1>25, CutFeedTyped, SessionTyped DEF cmdReset, App, Restart, NoSession, Feeding
<1>26. ASSUME Crash, Keeps
      PROVE  TypeInv'
  <2>1. exec' \in Region
    BY <1>26, RegionsTyped, JobAdvances DEF Crash
  <2>2. pc = "ymodem" /\ job.at \in Steps => job.bank \in Bank /\ CutStep(bank[job.bank], job.at,
          Whole(job.img)) \subseteq Region
    BY <1>26, RegionsTyped, JobAdvances DEF Crash
  <2>4. bank' \in [Bank -> Region]
    BY <1>26, <2>2, CutFeedTyped DEF Crash
  <2>5. origin' \in {origin, "cut"} /\ crashes' \in 0..MaxCrashes
    BY <1>26, BoundAssumption DEF Crash
  <2>6. job' \in Job /\ fw' \in Session /\ TransferTyped'
    BY <1>26, JobTyped, SessionTyped DEF Crash, NoSession, Feeding
  <2> QED
    BY <1>26, <2>1, <2>4, <2>5, <2>6 DEF Crash
<1>27. CASE UNCHANGED vars
  BY <1>27 DEF vars, Feeding
<1> QED
  BY <1>1, <1>2, <1>3, <1>4, <1>5, <1>6, <1>7, <1>8, <1>9, <1>10, <1>11, <1>12, <1>13, <1>14,
     <1>15, <1>16, <1>17, <1>18, <1>19, <1>20, <1>21, <1>22, <1>23, <1>24, <1>25, <1>26,
     <1>27, <1>28, <1>29 DEF Next, BootStep, CliStep, AppStep

(***************************************************************************)
(* What the flash holds.                                                   *)
(***************************************************************************)
\* What the decision of the boot path means: the application is started only on
\* an Exec that looks sane and is not stale, a copy only from a trusted bank.
LEMMA BootDecides ==
  ASSUME NEW s, bl_boot_app(s)
  PROVE  /\ pc' \in {"cli", "copy", "app", "hung"}
         /\ pc' = "copy" => /\ job'.at = "erase" /\ job'.bank = s.active
                            /\ bl_bank_trusted(s.active, s)
                            /\ NeedCopy(s) \/ ~bl_image_valid(exec)
         /\ pc' \in {"app", "hung"} => /\ ~NeedCopy(s) /\ bl_image_valid(exec)
                                       /\ pc' = "app" <=> IsWhole(exec)
                                       /\ fw' = NoSession /\ due' = Due(exec.head)
         /\ pc' \in {"cli", "copy"} => fw' = fw /\ due' = due
         /\ pc' = "cli" => ~bl_bank_trusted(s.active, s)
  BY DEF bl_boot_app, bl_jump_to_exec

\* An operation of a session in the application leaves the bank as far as it says.
LEMMA FeedProgress ==
  ASSUME TypeInv, FlashInv, FwFeed, races = 0
  PROVE  Progress(bank'[fw'.bank], fw'.at, Whole(fw'.img))
<1>1. /\ fw.bank \in Bank /\ bank[fw.bank] \in Region /\ Whole(fw.img) \in Region
      /\ fw.at \in Steps
  BY RegionsTyped, SessionTyped DEF FwFeed, Receiving, TypeInv, TypeOK, TransferTyped, Feeding
<1>2. Progress(bank[fw.bank], fw.at, Whole(fw.img))
  BY DEF FwFeed, Receiving, FlashInv, Feeding
<1>3. /\ fw'.bank = fw.bank /\ fw'.at = After(fw.at) /\ fw'.img = fw.img
      /\ bank'[fw.bank] = Step(bank[fw.bank], fw.at, Whole(fw.img))
  BY <1>1 DEF FwFeed, TypeInv, TypeOK, Session
<1> QED
  BY <1>1, <1>2, <1>3, ProgressStep

\* Every step keeps FlashInv.
LEMMA FlashStep == IInv /\ [Next]_vars => FlashInv'
<1> SUFFICES ASSUME IInv, [Next]_vars PROVE FlashInv'
  OBVIOUS
<1> USE DEF IInv, FlashInv, Keeps
<1>0. TypeInv /\ TypeInv' /\ TypeOK /\ TypeOK'
  BY TypeStep DEF TypeInv
<1>1. ASSUME BlMain \/ cmd_boot, Keeps
      PROVE  FlashInv'
  <2>1. CASE pc' = "cli"
    BY <2>1
  <2>2. CASE pc' # "cli"
    <3>1. bl_boot_app(set) /\ exec' = exec /\ bank' = bank /\ set' = set
      BY <1>1, <2>2 DEF BlMain, cmd_boot
    <3>2. /\ pc' \in {"copy", "app", "hung"}
          /\ pc' = "copy" => /\ job'.at = "erase" /\ job'.bank = set.active
                             /\ bl_bank_trusted(set.active, set)
          /\ pc' = "app" => fw' = NoSession
      BY <2>2, <3>1, BootDecides
    <3>3. pc' = "app" => ~Feeding' /\ fw'.st = "idle" /\ ~fw'.shifted /\ ~fw'.stale
      BY <1>0, <3>2, SessionKept
    <3> QED
      BY <1>1, <3>1, <3>2, <3>3 DEF Progress, bl_bank_trusted, bl_image_valid
  <2> QED
    BY <2>1, <2>2
<1>2. ASSUME CopyStep, Keeps
      PROVE  FlashInv'
  <2>1. job.bank \in Bank /\ bank[job.bank] \in Region /\ exec \in Region
    BY <1>0, JobAdvances DEF TypeOK
  <2>2. Progress(exec', After(job.at), bank[job.bank])
    BY <1>2, <2>1, ProgressStep DEF CopyStep
  <2>3. job'.at = After(job.at) /\ job'.bank = job.bank
    BY <1>0, <1>2 DEF CopyStep, TypeOK, Job
  <2> QED
    BY <1>2, <2>2, <2>3 DEF CopyStep, bl_bank_trusted, bl_image_valid
<1>3. ASSUME CopyFail \/ CopyDone, Keeps
      PROVE  FlashInv'
  <2>1. pc' \in {"cli", "app", "hung"} /\ (pc' = "app" => fw' = NoSession)
    BY <1>3 DEF CopyFail, CopyDone, bl_jump_to_exec
  <2>2. pc' = "app" => ~Feeding' /\ fw'.st = "idle" /\ ~fw'.shifted /\ ~fw'.stale
    BY <1>0, <2>1, SessionKept
  <2> QED
    BY <2>1, <2>2
<1>4. ASSUME \E n \in Bank : cmd_bank(n) \/ cmd_erase(n), Keeps
      PROVE  FlashInv'
  BY <1>4 DEF cmd_bank, cmd_erase, Cli
<1>5. ASSUME \/ \E m \in {"app", "bl"} : cmd_boot_mode(m)
             \/ YmodemFail \/ YmodemDone \/ cmd_reset \/ cmdUpdate \/ cmdReset \/ Crash
      PROVE  FlashInv'
  BY <1>5 DEF cmd_boot_mode, YmodemFail, YmodemDone, cmd_reset, cmdUpdate, cmdReset, Restart, Crash,
              Cli
<1>6. ASSUME \E n \in Bank, v \in Ver : cmd_flash(n, v), Keeps
      PROVE  FlashInv'
  BY <1>6 DEF cmd_flash, Progress
<1>7. ASSUME YmodemStep, Keeps
      PROVE  FlashInv'
  <2>1. job.bank \in Bank /\ bank[job.bank] \in Region /\ Whole(job.img) \in Region
    BY <1>0, <1>7, JobAdvances, RegionsTyped DEF TypeInv, TypeOK, TransferTyped, YmodemStep
  <2>2. Progress(bank'[job.bank], After(job.at), Whole(job.img))
    BY <1>0, <1>7, <2>1, ProgressStep DEF YmodemStep, TypeOK
  <2>3. job'.at = After(job.at) /\ job'.bank = job.bank /\ job'.img = job.img
    BY <1>0, <1>7 DEF YmodemStep, TypeOK, Job
  <2> QED
    BY <1>7, <2>2, <2>3 DEF YmodemStep
<1>8. ASSUME cmd_copy, Keeps
      PROVE  FlashInv'
  BY <1>8 DEF cmd_copy, Progress, bl_bank_trusted, bl_image_valid
<1>9. ASSUME cmd_rollback, Keeps
      PROVE  FlashInv'
  <2>1. CASE pc' = "cli"
    BY <2>1
  <2>2. CASE pc' # "cli"
    <3> DEFINE s == [set EXCEPT !.active = 1 - set.active]
    <3>1. set' = [s EXCEPT !.stored = TRUE] /\ bl_boot_app(set')
      BY <1>9, <2>2 DEF cmd_rollback, SaveOk, SaveError, Cli
    <3>2. exec' = exec /\ bank' = bank
      BY <1>9 DEF cmd_rollback
    <3>3. /\ pc' \in {"copy", "app", "hung"}
          /\ pc' = "copy" => /\ job'.at = "erase" /\ job'.bank = set'.active
                             /\ bl_bank_trusted(set'.active, set')
          /\ pc' = "app" => fw' = NoSession
      BY <2>2, <3>1, BootDecides
    <3>4. pc' = "app" => ~Feeding' /\ fw'.st = "idle" /\ ~fw'.shifted /\ ~fw'.stale
      BY <1>0, <3>3, SessionKept
    <3> QED
      BY <1>9, <3>2, <3>3, <3>4 DEF Progress, bl_bank_trusted, bl_image_valid
  <2> QED
    BY <2>1, <2>2
<1>10. ASSUME NEW b \in Bank, NEW v \in Ver, FwUpdateBegin(b, v), UNCHANGED <<use, short>>
       PROVE  FlashInv'
  <2>1. pc' = "app"
    BY <1>10 DEF FwUpdateBegin, App
  <2>2. CASE fw.stale
    BY <1>0, <1>10, <2>1, <2>2 DEF FwUpdateBegin, TypeOK
  <2>3. CASE ~fw.stale
    <3>1. /\ fw'.st = "recv" /\ fw'.at = "erase" /\ ~fw'.shifted /\ ~fw'.stale
      BY <1>0, <1>10, <2>3 DEF FwUpdateBegin, TypeOK, Session
    <3> QED
      BY <2>1, <3>1 DEF Progress, Feeding
  <2> QED
    BY <2>2, <2>3
<1>11. ASSUME FwFeed, Keeps
       PROVE  FlashInv'
  <2>1. /\ pc = "app" /\ pc' = "app" /\ fw.st = "recv" /\ ~fw.stale
        /\ fw' = [fw EXCEPT !.at = After(fw.at)]
    BY <1>0, <1>11 DEF FwFeed, Receiving, TypeOK, Session
  <2>2. fw'.st = "recv" /\ ~fw'.stale /\ fw'.shifted = fw.shifted
    BY <1>0, <2>1 DEF TypeOK, Session
  <2> QED
    BY <1>0, <1>11, <2>1, <2>2, FeedProgress DEF Feeding
<1>12. ASSUME FwFinish, Keeps
       PROVE  FlashInv'
  <2>1. /\ fw.bank \in Bank /\ bank[fw.bank] \in Region /\ Whole(fw.img) \in Region
    BY <1>0, <1>12, RegionsTyped, SessionTyped DEF FwFinish, Receiving, TypeInv, TypeOK,
       TransferTyped, Feeding
  <2>2. /\ pc = "app" /\ pc' = "app" /\ ~fw.stale
        /\ races = 0 => ~fw.shifted /\ Progress(bank[fw.bank], "tail", Whole(fw.img))
    BY <1>12 DEF FwFinish, Receiving, Feeding
  <2>3. CASE fw' = Over("error")
    BY <1>0, <2>2, <2>3, OverTyped DEF Feeding
  <2>4. CASE fw' # Over("error")
    <3>1. races = 0 => Progress(Step(bank[fw.bank], "tail", Whole(fw.img)), "end", Whole(fw.img))
      BY <2>1, <2>2, ProgressStep DEF Steps, After
    <3>2. fw' = [fw EXCEPT !.st = "done", !.at = "end"]
      BY <1>12, <2>4 DEF FwFinish
    <3>3. /\ fw'.st = "done" /\ fw'.img = fw.img /\ fw'.bank = fw.bank
          /\ ~fw'.stale /\ fw'.shifted = fw.shifted
      BY <1>0, <2>2, <3>2 DEF TypeOK, Session
    <3>4. races = 0 => bank'[fw.bank] = Whole(fw.img)
      BY <1>0, <1>12, <2>1, <2>2, <2>4, <3>1 DEF FwFinish, Progress, TypeOK
    <3> QED
      BY <1>12, <2>2, <3>3, <3>4 DEF Feeding
  <2> QED
    BY <2>3, <2>4
<1>13. ASSUME FwFail, Keeps
       PROVE  FlashInv'
  <2>1. fw' = Over("error") /\ pc' = "app"
    BY <1>13 DEF FwFail, Receiving
  <2>2. fw'.st = "error" /\ ~fw'.stale /\ ~fw'.shifted
    BY <1>0, <2>1, OverTyped
  <2> QED
    BY <2>1, <2>2 DEF Feeding
<1>17. ASSUME FwUpdateAbort, Keeps
       PROVE  FlashInv'
  <2>1. pc = "app" /\ pc' = "app"
    BY <1>17 DEF FwUpdateAbort, App
  <2>2. CASE fw' = Over("idle")
    <3>1. fw'.st = "idle" /\ ~fw'.stale /\ ~fw'.shifted
      BY <1>0, <2>2, OverTyped
    <3> QED
      BY <2>1, <3>1 DEF Feeding
  <2>3. CASE fw' # Over("idle")
    <3>1. Feeding /\ fw' = [fw EXCEPT !.st = "idle", !.stale = TRUE] /\ bank' = bank
      BY <1>17, <2>3 DEF FwUpdateAbort
    <3>2. /\ fw'.st = "idle" /\ fw'.bank = fw.bank /\ fw'.at = fw.at /\ fw'.img = fw.img
          /\ fw'.shifted = fw.shifted
      BY <1>0, <3>1 DEF TypeOK, Session
    <3> QED
      BY <1>17, <2>1, <3>1, <3>2
  <2> QED
    BY <2>2, <2>3
<1>18. ASSUME FeedStale, Keeps
       PROVE  FlashInv'
  <2>1. /\ pc = "app" /\ pc' = "app" /\ Feeding /\ fw.bank \in Bank /\ bank[fw.bank] \in Region
        /\ fw.img \in Ver /\ fw.stale
    BY <1>0, <1>18, SessionTyped DEF FeedStale, Feeding, TypeInv, TransferTyped, TypeOK
  <2>2. CASE \E st \in {"idle", "error"} : fw' = Over(st)
    <3>1. fw'.st \in {"idle", "error"} /\ ~fw'.stale /\ ~fw'.shifted
      BY <1>0, <2>2, OverTyped
    <3> QED
      BY <2>1, <3>1 DEF Feeding
  <2>3. CASE ~\E st \in {"idle", "error"} : fw' = Over(st)
    <3>1. /\ fw' = [fw EXCEPT !.st = "done", !.at = "end", !.stale = FALSE]
          /\ bank' = [bank EXCEPT ![fw.bank] = Step(@, "tail", Whole(fw.img))] /\ fw.at = "tail"
      BY <1>18, <2>3 DEF FeedStale
    <3>2. /\ fw'.st = "done" /\ fw'.bank = fw.bank /\ fw'.img = fw.img /\ ~fw'.stale
          /\ fw'.shifted = fw.shifted
      BY <1>0, <3>1 DEF TypeOK, Session
    <3>3. Whole(fw.img) \in Region
      BY <2>1, RegionsTyped
    <3>4. races = 0 => Progress(Step(bank[fw.bank], "tail", Whole(fw.img)), "end", Whole(fw.img))
      BY <2>1, <3>1, <3>3, ProgressStep DEF Steps, After
    <3>5. races = 0 => bank'[fw.bank] = Whole(fw.img)
      BY <1>0, <2>1, <3>1, <3>4 DEF Progress, TypeOK
    <3> QED
      BY <1>18, <2>1, <3>2, <3>5 DEF Feeding
  <2> QED
    BY <2>2, <2>3
<1>19. ASSUME FeedRaced, Keeps
       PROVE  FlashInv'
  <2>1. races # 0 /\ pc' = "app"
    BY <1>19 DEF FeedRaced, Receiving
  <2> QED
    BY <1>19, <2>1
<1>14. ASSUME FwUpdateCommit, Keeps
       PROVE  FlashInv'
  <2>1. /\ pc = "app" /\ pc' = "app" /\ bank' = bank /\ fw.st = "done" /\ ~fw.stale
    BY <1>0, <1>14 DEF FwUpdateCommit, App, Committable, TypeInv, TransferTyped
  <2>2. CASE fw' = [Over("idle") EXCEPT !.ready = Again]
    <3>1. fw'.st = "idle" /\ ~fw'.stale /\ ~fw'.shifted
      BY <1>0, <2>2, OverTyped
    <3> QED
      BY <2>1, <3>1 DEF Feeding
  <2>3. CASE fw' = [fw EXCEPT !.ready = Again]
    <3>1. /\ fw'.st = "done" /\ fw'.bank = fw.bank /\ fw'.img = fw.img /\ ~fw'.stale
          /\ fw'.shifted = fw.shifted
      BY <1>0, <2>1, <2>3 DEF TypeOK, Session
    <3> QED
      BY <1>14, <2>1, <3>1 DEF Feeding
  <2> QED
    BY <1>14, <2>2, <2>3 DEF FwUpdateCommit
<1>15. ASSUME (\E n \in Bank : SettingsBankSet(n)) \/ cmdRollback \/ SettingsSave, Keeps
       PROVE  FlashInv'
  BY <1>15 DEF SettingsBankSet, cmdRollback, SettingsSave, App, Restart, Feeding
<1>16. CASE UNCHANGED vars
  BY <1>16 DEF vars, bl_bank_trusted, bl_image_valid, Feeding
<1> QED
  BY <1>1, <1>2, <1>3, <1>4, <1>5, <1>6, <1>7, <1>8, <1>9, <1>10, <1>11, <1>12, <1>13,
     <1>14, <1>15, <1>16, <1>17, <1>18, <1>19
     DEF Next, BootStep, CliStep, AppStep

\* A write that changes no CRC, or one.
LEMMA SaveCrc ==
  ASSUME TypeOK, NEW s \in Settings, Save(s)
  PROVE  \A b \in Bank : set'.crc[b] \in {set.crc[b], s.crc[b]}
  BY SaveTyped DEF Settings

\* The initial states.
LEMMA InitIInv == Init => IInv
<1> SUFFICES ASSUME Init PROVE IInv
  OBVIOUS
<1>1. use.plausible \subseteq Ver /\ Factory \in use.plausible /\ Factory \in Ver
  BY UseAssumption DEF Init
<1>2. Whole(Factory) \in Region /\ Erased \in Region /\ IsWhole(Whole(Factory))
  BY <1>1, RegionsTyped DEF IsWhole
<1>3. bank \in [Bank -> Region] /\ set \in Settings
  <2>1. CASE use.provisioned
    <3>1. PICK v \in use.plausible \ {Factory} :
             /\ bank = [b \in Bank |-> Whole(IF b = 0 THEN Factory ELSE v)]
             /\ set = [stored |-> TRUE, active |-> 0, loaded |-> 0, mode |-> "app", crc |-> bank]
      BY <2>1 DEF Init
    <3>2. bank \in [Bank -> Region]
      BY <1>1, <3>1, RegionsTyped
    <3> QED
      BY <3>1, <3>2 DEF Settings, Bank
  <2>2. CASE ~use.provisioned
    <3>1. bank = [b \in Bank |-> Erased] /\ set = FactorySettings
      BY <2>2 DEF Init
    <3> QED
      BY <1>2, <3>1 DEF FactorySettings, Settings, Bank
  <2> QED
    BY <2>1, <2>2
<1>4. \A b \in Bank : set.crc[b] # Unknown => IsWhole(set.crc[b])
  BY <1>1 DEF Init, FactorySettings, IsWhole
<1>5. TypeInv
  <2>1. job \in Job /\ fw \in Session
    BY JobTyped DEF Init, Session, NoSession, Bank, Steps
  <2>2. crashes \in 0..MaxCrashes /\ errors \in 0..MaxErrors /\ races \in 0..MaxRaces
    BY BoundAssumption DEF Init
  <2> QED
    BY <1>1, <1>2, <1>3, <2>1, <2>2
    DEF Init, TypeInv, TypeOK, TransferTyped, NoSession, Feeding, Due
<1> QED
  BY <1>2, <1>4, <1>5 DEF Init, IInv, FlashInv, RecordInv, NoSession

\* Every step keeps RecordInv.
LEMMA RecordStep == IInv /\ [Next]_vars => RecordInv'
<1> SUFFICES ASSUME IInv, [Next]_vars PROVE RecordInv'
  OBVIOUS
<1> USE DEF IInv, RecordInv, Keeps
<1>0. TypeInv /\ TypeInv' /\ TypeOK /\ TypeOK'
  BY TypeStep DEF TypeInv
<1>1. ASSUME BlMain \/ cmd_boot, Keeps
      PROVE  RecordInv'
  BY <1>1, BootDecides DEF BlMain, cmd_boot
<1>2. ASSUME CopyStep \/ CopyFail, Keeps
      PROVE  RecordInv'
  BY <1>2 DEF CopyStep, CopyFail, SettingsAfterFail
<1>3. ASSUME CopyDone, Keeps
      PROVE  RecordInv'
  <2>1. job.bank \in Bank /\ [set EXCEPT !.loaded = job.bank] \in Settings
    BY <1>0, JobAdvances, SettingsTyped DEF TypeOK
  <2>2. \A b \in Bank : set'.crc[b] = set.crc[b]
    BY <1>0, <1>3, <2>1, SaveCrc DEF CopyDone, Settings, TypeOK
  <2>3. set.crc[job.bank] # Unknown => exec = set.crc[job.bank]
    BY <1>3, <2>1 DEF CopyDone, FlashInv, Progress, bl_bank_trusted
  <2>4. pc' = "hung" => ~IsWhole(exec)
    BY <1>3 DEF CopyDone, bl_jump_to_exec
  <2>5. /\ origin' = "recorded" => IsWhole(exec)
        /\ origin' = "misrecorded" => ~(races = 0 /\ ~short)
    BY <1>3, <2>1, <2>3 DEF CopyDone
  <2>6. origin' = "misrecorded" => races > 0 \/ short
    BY <1>0, <2>5 DEF TypeOK
  <2>7. exec' = exec
    BY <1>3 DEF CopyDone
  <2> QED
    BY <1>3, <2>2, <2>4, <2>5, <2>6, <2>7
<1>4. ASSUME NEW n \in Bank, cmd_bank(n) \/ SettingsBankSet(n), Keeps
      PROVE  RecordInv'
  <2>1. [set EXCEPT !.active = n] \in Settings
    BY <1>0, SettingsTyped DEF TypeOK
  <2>2. \A b \in Bank : set'.crc[b] = set.crc[b]
    BY <1>0, <1>4, <2>1, SaveCrc DEF cmd_bank, SettingsBankSet, Settings, TypeOK
  <2> QED
    BY <1>4, <2>2 DEF cmd_bank, SettingsBankSet, Cli, App
<1>5. ASSUME NEW m \in {"app", "bl"}, cmd_boot_mode(m), Keeps
      PROVE  RecordInv'
  <2>1. [set EXCEPT !.mode = m] \in Settings
    BY <1>0, SettingsTyped DEF TypeOK
  <2>2. \A b \in Bank : set'.crc[b] = set.crc[b]
    BY <1>0, <1>5, <2>1, SaveCrc DEF cmd_boot_mode, Settings, TypeOK
  <2> QED
    BY <1>5, <2>2 DEF cmd_boot_mode, Cli
<1>6. ASSUME \/ \E n \in Bank : cmd_erase(n)
             \/ \E n \in Bank, v \in Ver : cmd_flash(n, v)
             \/ YmodemStep \/ YmodemFail \/ cmd_copy \/ cmd_reset \/ cmdUpdate \/ cmdReset
             \/ FwFeed \/ FwFinish \/ FwFail \/ FwUpdateAbort \/ FeedStale \/ FeedRaced \/ Crash,
             Keeps
      PROVE  RecordInv'
  BY <1>6 DEF cmd_erase, cmd_flash, YmodemStep, YmodemFail, cmd_copy, cmd_reset, cmdUpdate,
              cmdReset, FwFeed, FwFinish, FwFail, FwUpdateAbort, FeedStale, FeedRaced, Crash, Cli,
              App, Receiving, Restart
<1>13. ASSUME NEW b \in Bank, NEW v \in Ver, FwUpdateBegin(b, v), UNCHANGED <<use, short>>
       PROVE  RecordInv'
  <2>1. races' \in {races, races + 1} /\ races \in 0..MaxRaces
    BY <1>0, <1>13 DEF FwUpdateBegin, TypeOK
  <2>2. (races' = 0 => races = 0) /\ (races > 0 => races' > 0)
    BY <2>1, BoundAssumption
  <2>3. exec' = exec /\ set' = set /\ origin' = origin /\ pc' = "app"
    BY <1>13 DEF FwUpdateBegin, App
  <2> QED
    BY <1>13, <2>2, <2>3
<1>7. ASSUME YmodemDone, UNCHANGED <<use, races>>
      PROVE  RecordInv'
  <2>1. /\ exec' = exec /\ origin' = origin /\ pc' = "cli" /\ (short' = short \/ short')
    BY <1>7 DEF YmodemDone
  <2>2. CASE short'
    BY <1>7, <2>1, <2>2
  <2>3. CASE ~short'
    <3>1. ~short /\ job.at = "end" /\ bank' = bank /\ pc = "ymodem"
      BY <1>0, <1>7, <2>3 DEF YmodemDone, TypeOK
    <3>2. job.bank \in Bank /\ bank[job.bank] \in Region /\ job.img \in Ver
      BY <1>0, <3>1, JobAdvances DEF TypeInv, TypeOK, TransferTyped
    <3>3. IsWhole(bank[job.bank])
      BY <3>1, <3>2 DEF FlashInv, Progress, IsWhole
    <3>4. \A b \in Bank : set'.crc[b] \in {set.crc[b], bank[job.bank]}
      <4>1. CASE bl_image_valid(bank[job.bank])
        <5> DEFINE s == [set EXCEPT !.crc[job.bank] = bank[job.bank]]
        <5>1. s \in Settings
          BY <1>0, <3>2, SettingsTyped DEF TypeOK
        <5>2. \A b \in Bank : s.crc[b] \in {set.crc[b], bank[job.bank]}
          BY <1>0, <3>2 DEF TypeOK, Settings
        <5>3. Save(s)
          BY <1>7, <3>1, <4>1 DEF YmodemDone
        <5> HIDE DEF s
        <5> QED
          BY <1>0, <5>1, <5>2, <5>3, SaveCrc
      <4>2. CASE ~bl_image_valid(bank[job.bank])
        BY <1>7, <4>2 DEF YmodemDone
      <4> QED
        BY <4>1, <4>2
    <3> QED
      BY <1>7, <2>1, <2>3, <3>1, <3>3, <3>4
  <2> QED
    BY <2>2, <2>3
<1>8. ASSUME cmd_rollback, Keeps
      PROVE  RecordInv'
  <2> DEFINE s == [set EXCEPT !.active = 1 - set.active]
  <2>1. s \in Settings
    <3>1. set.active \in Bank
      BY <1>0, SettingsTyped DEF TypeOK
    <3>2. 1 - set.active \in Bank
      BY <3>1 DEF Bank
    <3> QED
      BY <1>0, <3>2, SettingsTyped DEF TypeOK
  <2>2. \A b \in Bank : s.crc[b] = set.crc[b]
    BY <1>0 DEF TypeOK, Settings
  <2>3. Save(s)
    BY <1>8 DEF cmd_rollback, Save
  <2>4. pc' = "hung" => ~IsWhole(exec)
    BY <1>8, BootDecides DEF cmd_rollback, Cli
  <2> HIDE DEF s
  <2>5. \A b \in Bank : set'.crc[b] = set.crc[b]
    BY <1>0, <2>1, <2>2, <2>3, SaveCrc
  <2> QED
    BY <1>8, <2>4, <2>5 DEF cmd_rollback
<1>9. ASSUME FwUpdateCommit, Keeps
      PROVE  RecordInv'
  <2>1. fw.bank \in Bank /\ bank[fw.bank] \in Region /\ fw.img \in Ver
    BY <1>0, <1>9, SessionTyped DEF FwUpdateCommit, Committable, TypeInv, TypeOK, TransferTyped
  <2>2. races = 0 => IsWhole(bank[fw.bank])
    BY <1>9, <2>1 DEF FwUpdateCommit, Committable, App, FlashInv, IsWhole
  <2> DEFINE s == [set EXCEPT !.crc[fw.bank] = bank[fw.bank], !.active = fw.bank]
  <2>3. s \in Settings
    BY <1>0, <2>1, SettingsTyped DEF TypeOK
  <2>4. \A b \in Bank : s.crc[b] \in {set.crc[b], bank[fw.bank]}
    BY <1>0, <2>1 DEF TypeOK, Settings
  <2>5. Save(s)
    BY <1>9 DEF FwUpdateCommit, Save
  <2> HIDE DEF s
  <2>6. \A b \in Bank : set'.crc[b] \in {set.crc[b], bank[fw.bank]}
    BY <1>0, <2>3, <2>4, <2>5, SaveCrc
  <2> QED
    BY <1>9, <2>2, <2>6 DEF FwUpdateCommit, App
<1>10. ASSUME cmdRollback, Keeps
       PROVE  RecordInv'
  <2> DEFINE s == [set EXCEPT !.active = 1 - @]
  <2>1. s \in Settings
    <3>1. set.active \in Bank
      BY <1>0, SettingsTyped DEF TypeOK
    <3> QED
      BY <1>0, <3>1 DEF TypeOK, Bank, Settings
  <2>2. \A b \in Bank : s.crc[b] = set.crc[b]
    BY <1>0 DEF TypeOK, Settings
  <2>3. Save(s)
    BY <1>10 DEF cmdRollback, Save
  <2> HIDE DEF s
  <2>4. \A b \in Bank : set'.crc[b] = set.crc[b]
    BY <1>0, <2>1, <2>2, <2>3, SaveCrc
  <2> QED
    BY <1>10, <2>4 DEF cmdRollback, App, Restart
<1>11. ASSUME SettingsSave, Keeps
       PROVE  RecordInv'
  <2>1. \A b \in Bank : set'.crc[b] = set.crc[b]
    BY <1>0, <1>11, SaveCrc DEF SettingsSave, TypeOK
  <2> QED
    BY <1>11, <2>1 DEF SettingsSave, App
<1>12. CASE UNCHANGED vars
  BY <1>12 DEF vars
<1> QED
  BY <1>1, <1>2, <1>3, <1>4, <1>5, <1>6, <1>7, <1>8, <1>9, <1>10, <1>11, <1>12, <1>13
     DEF Next, BootStep, CliStep, AppStep

\* The inductive invariant holds in every reachable state.
THEOREM InvariantHolds == Spec => []IInv
<1>1. IInv /\ [Next]_vars => IInv'
  BY TypeStep, FlashStep, RecordStep DEF IInv
<1> QED
  BY <1>1, InitIInv, PTL DEF Spec

\* Type correctness, for any images, commands, power losses and flash errors.
THEOREM TypeCorrect == Spec => []TypeOK
<1>1. IInv => TypeOK
  BY DEF IInv, TypeInv
<1> QED
  BY <1>1, InvariantHolds, PTL

\* With every command of the bootloader and the application in any order, and
\* images with bad vectors: an image that runs torn did not come out of a bank with
\* the recorded CRC of a whole image; it comes out of one that was recorded torn
\* only after an update was begun inside a chunk of an aborted one, or after a
\* transfer that its sender ended short.
THEOREM RecordedRunWhole == Spec => []RecordedImagesRunWhole
<1>1. IInv => RecordedImagesRunWhole
  BY DEF IInv, RecordInv, RecordedImagesRunWhole
<1> QED
  BY <1>1, InvariantHolds, PTL

(***************************************************************************)
(* Boards in the field.                                                    *)
(***************************************************************************)
\* The commands nobody sends there.
LEMMA FieldCommands ==
  ASSUME InTheField
  PROVE  /\ {"cli.bank", "cli.erase", "cli.boot.mode", "cli.flash", "cli.copy", "cli.rollback"}
              \cap use.cmds = {}
         /\ {"bank", "rollback"} \cap use.cmds # {} => ~(use.cmds \subseteq {"fw", "save", "reset"})
         /\ use.cmds \subseteq {"fw", "save", "reset"} => "fw.any" \notin use.cmds
              /\ "fw.again" \notin use.cmds
  BY DEF InTheField

\* A trusted active bank holds a recorded whole image there.
LEMMA TrustedIsWhole ==
  ASSUME IInv, FieldSafe, races = 0, bl_bank_trusted(set.active, set)
  PROVE  /\ set.crc[set.active] = bank[set.active]
         /\ IsWhole(bank[set.active])
         /\ bl_image_valid(bank[set.active])
<1>1. set.active \in Bank /\ bank[set.active] \in Region
  BY SettingsTyped DEF IInv, TypeInv, TypeOK
<1>2. bank[set.active].head # Blank
  BY UseAssumption, MarkAssumption DEF bl_bank_trusted, bl_image_valid, IInv, TypeInv, TypeOK
<1>3. set.crc[set.active] # Unknown
  BY <1>2 DEF FieldSafe
<1> QED
  BY <1>1, <1>3 DEF bl_bank_trusted, IInv, RecordInv, FieldSafe

\* What a session writes in the application leaves the active bank recorded or empty.
LEMMA SessionSparesActive ==
  ASSUME IInv, FieldSafe, pc = "app", Feeding, NEW r,
         bank' = [bank EXCEPT ![fw.bank] = r] \/ bank' = bank, set' = set
  PROVE  set'.crc[set'.active] # Unknown \/ bank'[set'.active].head = Blank
<1>1. fw.bank \in Bank /\ set.active \in Bank /\ bank \in [Bank -> Region]
  BY SettingsTyped, SessionTyped DEF IInv, TypeInv, TypeOK
<1> QED
  BY <1>1 DEF FieldSafe, FieldUse

\* While a session lasts it writes to its own bank only.
LEMMA SessionWrites ==
  ASSUME TypeInv, FwFeed \/ FwFinish \/ FwFail \/ FwUpdateAbort \/ FeedStale
  PROVE  /\ bank' = bank \/ (Feeding /\ \E r : bank' = [bank EXCEPT ![fw.bank] = r])
         /\ Feeding' => Feeding /\ fw'.bank = fw.bank
<1>0. TypeOK /\ fw \in Session
  BY DEF TypeInv, TypeOK
<1>1. \A at, x : x \in Between(fw.bank, at)
                  => x = bank \/ \E r : x = [bank EXCEPT ![fw.bank] = r]
  BY DEF Between
<1>2. \A st \in {"idle", "error"} : Over(st).st = st /\ ~Over(st).stale
  BY <1>0, OverTyped
<1>3. CASE FwFeed
  BY <1>0, <1>3 DEF FwFeed, Receiving, Feeding, Session
<1>4. CASE FwFinish
  <2>1. Feeding /\ \E r : bank' = [bank EXCEPT ![fw.bank] = r]
    BY <1>4 DEF FwFinish, Receiving, Feeding
  <2>2. fw' = Over("error") \/ fw' = [fw EXCEPT !.st = "done", !.at = "end"]
    BY <1>4 DEF FwFinish
  <2>3. ~fw.stale
    BY <1>4 DEF FwFinish
  <2>4. ~Feeding'
    BY <1>0, <1>2, <2>2, <2>3 DEF Feeding, Session
  <2> QED
    BY <2>1, <2>4
<1>5. CASE FwFail
  <2>1. Feeding /\ fw' = Over("error")
    BY <1>5 DEF FwFail, Receiving, Feeding
  <2>2. bank' = bank \/ \E r : bank' = [bank EXCEPT ![fw.bank] = r]
    BY <1>1, <1>5 DEF FwFail
  <2>3. ~Feeding'
    BY <1>2, <2>1 DEF Feeding
  <2> QED
    BY <2>1, <2>2, <2>3
<1>6. CASE FwUpdateAbort
  <2>1. CASE fw' = Over("idle")
    <3>1. bank' = bank \/ Feeding
      BY <1>6, <2>1 DEF FwUpdateAbort
    <3>2. bank' = bank \/ \E r : bank' = [bank EXCEPT ![fw.bank] = r]
      BY <1>1, <1>6 DEF FwUpdateAbort
    <3>3. ~Feeding'
      BY <1>2, <2>1 DEF Feeding
    <3> QED
      BY <3>1, <3>2, <3>3
  <2>2. CASE fw' # Over("idle")
    <3>1. Feeding /\ fw' = [fw EXCEPT !.st = "idle", !.stale = TRUE] /\ bank' = bank
      BY <1>6, <2>2 DEF FwUpdateAbort
    <3>2. fw'.bank = fw.bank
      BY <1>0, <3>1 DEF Session
    <3> QED
      BY <3>1, <3>2
  <2> QED
    BY <2>1, <2>2
<1>7. CASE FeedStale
  <2>1. Feeding /\ (bank' = bank \/ \E r : bank' = [bank EXCEPT ![fw.bank] = r])
    BY <1>7, CutFeedTyped DEF FeedStale, Feeding
  <2>2. \/ \E st \in {"idle", "error"} : fw' = Over(st)
        \/ fw' = [fw EXCEPT !.st = "done", !.at = "end", !.stale = FALSE]
    BY <1>7 DEF FeedStale
  <2>3. ~Feeding'
    BY <1>0, <1>2, <2>2 DEF Feeding, Session
  <2> QED
    BY <2>1, <2>3
<1> QED
  BY <1>3, <1>4, <1>5, <1>6, <1>7

\* Every step in the field keeps FieldSafe.
LEMMA FieldStep ==
  ASSUME IInv, InTheField, FieldSafe, races = 0, [Next]_vars, races' = 0
  PROVE  FieldSafe'
<1> USE DEF Keeps
<1>0. TypeInv /\ TypeOK /\ TypeOK' /\ set.active \in Bank /\ bank \in [Bank -> Region]
  BY TypeStep, SettingsTyped DEF IInv, TypeInv, TypeOK
<1>1. ASSUME BlMain \/ cmd_boot, Keeps
      PROVE  FieldSafe'
  <2>1. exec' = exec /\ bank' = bank /\ set' = set
    BY <1>1 DEF BlMain, cmd_boot
  <2>2. NeedCopy(set)' = NeedCopy(set) /\ bl_image_valid(exec)' = bl_image_valid(exec)
    BY <1>1, <2>1 DEF NeedCopy, bl_bank_trusted, bl_image_valid
  <2>3. \/ pc' = "cli"
        \/ pc' = "copy" /\ NeedCopy(set) /\ job'.bank = set.active
        \/ pc' = "app" /\ fw' = NoSession /\ ~NeedCopy(set)
    <3>1. CASE pc' = "cli"
      BY <3>1
    <3>2. CASE pc' # "cli"
      <4>1. bl_boot_app(set)
        BY <1>1, <3>2 DEF BlMain, cmd_boot
      <4> QED
        BY <3>2, <4>1, BootDecides DEF FieldSafe
    <3> QED
      BY <3>1, <3>2
  <2>4. fw' = NoSession => ~Feeding'
    BY <1>0, <2>3, SessionKept
  <2> QED
    BY <1>1, <2>1, <2>2, <2>3, <2>4 DEF FieldSafe, FieldUse
<1>2. ASSUME CopyStep \/ CopyFail, Keeps
      PROVE  FieldSafe'
  <2>1. /\ bank' = bank /\ set' = set /\ pc' \in {"copy", "cli"}
        /\ pc' = "copy" => job'.bank = job.bank
    BY <1>0, <1>2 DEF CopyStep, CopyFail, SettingsAfterFail, TypeOK, Job
  <2>2. NeedCopy(set)' = NeedCopy(set)
    BY <1>2, <2>1 DEF NeedCopy, bl_bank_trusted, bl_image_valid
  <2> QED
    BY <1>2, <2>1, <2>2 DEF CopyStep, CopyFail, FieldSafe, FieldUse
<1>3. ASSUME CopyDone, Keeps
      PROVE  FieldSafe'
  <2>1. job.bank = set.active /\ bl_bank_trusted(set.active, set) /\ exec = bank[set.active]
    BY <1>3 DEF CopyDone, FieldSafe, NeedCopy, IInv, FlashInv, Progress
  <2>2. IsWhole(exec) /\ bl_image_valid(exec)
    BY <2>1, TrustedIsWhole
  <2>3. /\ set'.active = set.active /\ set'.mode = set.mode
        /\ \A b \in Bank : set'.crc[b] = set.crc[b]
    BY <1>0, <1>3, <2>1 DEF CopyDone, Save, SaveOk, SaveError, Settings, TypeOK
  <2>4. exec' = exec /\ bank' = bank /\ pc' \in {"app", "cli"} /\ (pc' = "app" => fw' = NoSession)
    BY <1>3, <2>2 DEF CopyDone, bl_jump_to_exec
  <2>5. pc' = "app" => ~Feeding'
    BY <1>0, <2>4, SessionKept
  <2> QED
    BY <1>0, <1>3, <2>2, <2>3, <2>4, <2>5 DEF FieldSafe, FieldUse, bl_image_valid
<1>4. ASSUME \/ \E n \in Bank : cmd_bank(n) \/ cmd_erase(n)
             \/ \E m \in {"app", "bl"} : cmd_boot_mode(m)
             \/ \E n \in Bank, v \in Ver : cmd_flash(n, v)
             \/ cmd_copy \/ cmd_rollback \/ YmodemStep \/ YmodemFail \/ YmodemDone
      PROVE  FALSE
  BY <1>4, FieldCommands
     DEF cmd_bank, cmd_erase, cmd_boot_mode, cmd_flash, cmd_copy, cmd_rollback, YmodemStep,
         YmodemFail, YmodemDone, Cli, FieldSafe
<1>5. ASSUME cmd_reset, Keeps
      PROVE  FieldSafe'
  <2>1. pc' = "reset" /\ exec' = exec /\ bank' = bank /\ set' = set
    BY <1>5 DEF cmd_reset
  <2> QED
    BY <1>5, <2>1 DEF FieldSafe, FieldUse, NeedCopy, bl_bank_trusted, bl_image_valid
<1>14. ASSUME cmdReset \/ cmdUpdate, Keeps
       PROVE  FieldSafe'
  <2>1. pc = "app" /\ pc' = "reset" /\ exec' = exec /\ set' = set /\ bank' \in CutFeed
    BY <1>14 DEF cmdReset, cmdUpdate, App, Restart
  <2>2. set'.crc[set'.active] # Unknown \/ bank'[set'.active].head = Blank
    BY <1>0, <2>1, CutFeedTyped, SessionSparesActive DEF FieldSafe
  <2> QED
    BY <1>14, <2>1, <2>2 DEF FieldSafe, FieldUse, bl_image_valid
<1>6. ASSUME NEW b \in Bank, NEW v \in Ver, FwUpdateBegin(b, v), UNCHANGED <<use, short>>
      PROVE  FieldSafe'
  <2>1. pc' = "app" /\ pc = "app" /\ exec' = exec /\ bank' = bank /\ set' = set
    BY <1>6 DEF FwUpdateBegin, App
  <2>2. fw'.bank = b /\ (use.cmds \subseteq {"fw", "save", "reset"} => b = 1 - set.active)
    BY <1>0, <1>6, FieldCommands DEF FwUpdateBegin, TypeOK, Session
  <2>3. FieldUse'
    BY <1>0, <1>6, <2>1, <2>2 DEF FieldSafe, FieldUse, Bank
  <2> QED
    BY <1>6, <2>1, <2>3 DEF FieldSafe, NeedCopy, bl_bank_trusted, bl_image_valid
<1>7. ASSUME FwFeed \/ FwFinish \/ FwFail \/ FwUpdateAbort \/ FeedStale, Keeps
      PROVE  FieldSafe'
  <2>1. pc' = "app" /\ pc = "app" /\ exec' = exec /\ set' = set
    BY <1>7 DEF FwFeed, FwFinish, FwFail, FwUpdateAbort, FeedStale, Receiving, App
  <2>2. bank' = bank \/ (Feeding /\ \E r : bank' = [bank EXCEPT ![fw.bank] = r])
    BY <1>0, <1>7, SessionWrites
  <2>3. set'.crc[set'.active] # Unknown \/ bank'[set'.active].head = Blank
    BY <2>1, <2>2, SessionSparesActive DEF FieldSafe
  <2>4. Feeding' => Feeding /\ fw'.bank = fw.bank
    BY <1>0, <1>7, SessionWrites
  <2> QED
    BY <1>7, <2>1, <2>3, <2>4 DEF FieldSafe, FieldUse, bl_image_valid
<1>8. ASSUME FeedRaced
      PROVE  FALSE
  BY <1>8 DEF FeedRaced, Receiving, IInv, FlashInv
<1>9. ASSUME FwUpdateCommit, Keeps
      PROVE  FieldSafe'
  <2> DEFINE s == [set EXCEPT !.crc[fw.bank] = bank[fw.bank], !.active = fw.bank]
  <2>0. fw.bank \in Bank
    BY <1>0, SessionTyped DEF TypeOK
  <2>1. /\ pc' = "app" /\ pc = "app" /\ exec' = exec /\ bank' = bank /\ ~Feeding'
    <3>1. fw.st = "done" /\ ~fw.stale /\ pc = "app"
      BY <1>0, <1>9 DEF FwUpdateCommit, App, Committable, TypeInv, TransferTyped
    <3>2. /\ [Over("idle") EXCEPT !.ready = Again].st = "idle"
          /\ ~[Over("idle") EXCEPT !.ready = Again].stale
      BY <1>0, OverTyped
    <3>3. [fw EXCEPT !.ready = Again].st = "done" /\ ~[fw EXCEPT !.ready = Again].stale
      BY <1>0, <3>1 DEF TypeOK, Session
    <3> QED
      BY <1>9, <3>1, <3>2, <3>3 DEF FwUpdateCommit, Feeding
  <2>2. s.active = fw.bank /\ s.mode = set.mode /\ s.crc[fw.bank] = bank[fw.bank]
        /\ \A b \in Bank : s.crc[b] \in {set.crc[b], bank[fw.bank]}
    BY <1>0, <2>0, <2>1 DEF TypeOK, Settings
  <2>3. bank[fw.bank] # Unknown
    BY <1>0, <2>0, <2>1, MarkAssumption
  <2>4. s \in Settings
    BY <1>0, <2>0, <2>1, SettingsTyped DEF TypeOK
  <2>5. Save(s)
    BY <1>9 DEF FwUpdateCommit, Save
  <2> HIDE DEF s
  <2>6. /\ set'.mode = set.mode
        /\ \A b \in Bank : set'.crc[b] \in {set.crc[b], bank[fw.bank]}
        /\ \/ set'.active = fw.bank /\ set'.crc[fw.bank] = bank[fw.bank]
           \/ set'.active = set.active /\ set'.crc = set.crc
    BY <1>0, <2>0, <2>1, <2>2, <2>4, <2>5, SaveTyped DEF Settings
  <2> QED
    BY <1>0, <1>9, <2>0, <2>1, <2>3, <2>6 DEF FieldSafe, FieldUse, bl_image_valid
<1>10. ASSUME (\E n \in Bank : SettingsBankSet(n)) \/ cmdRollback, Keeps
       PROVE  FieldSafe'
  <2>1. /\ exec' = exec /\ pc = "app" /\ pc' \in {"app", "reset"}
        /\ set'.mode = set.mode /\ \A b \in Bank : set'.crc[b] = set.crc[b]
    BY <1>0, <1>10
       DEF SettingsBankSet, cmdRollback, App, Restart, Save, SaveOk, SaveError, Settings, TypeOK
  <2>2. set'.active \in Bank
    BY <1>0, SettingsTyped DEF TypeOK
  <2>3. use.provisioned /\ \A b \in Bank : set.crc[b] # Unknown
    BY <1>10, FieldCommands DEF SettingsBankSet, cmdRollback, App, FieldSafe, FieldUse
  <2> QED
    BY <1>10, <2>1, <2>2, <2>3 DEF FieldSafe, FieldUse, bl_image_valid
<1>11. ASSUME SettingsSave, Keeps
       PROVE  FieldSafe'
  <2>1. /\ exec' = exec /\ bank' = bank /\ pc = "app" /\ pc' = "app" /\ fw' = fw
        /\ set'.mode = set.mode /\ set'.active = set.active /\ set'.crc = set.crc
    BY <1>0, <1>11 DEF SettingsSave, App, Save, SaveOk, SaveError, Settings, TypeOK
  <2> QED
    BY <1>11, <2>1 DEF FieldSafe, FieldUse, bl_image_valid, Feeding
<1>12. ASSUME Crash, Keeps
       PROVE  FieldSafe'
  <2>1. pc' = "reset" /\ set' = set
    BY <1>12 DEF Crash
  <2>2. CASE pc = "app"
    <3>1. exec' = exec /\ bank' \in CutFeed
      <4>1. pc # "copy" /\ pc # "ymodem"
        BY <2>2
      <4> QED
        BY <1>12, <2>2, <4>1 DEF Crash
    <3>2. set'.crc[set'.active] # Unknown \/ bank'[set'.active].head = Blank
      BY <1>0, <2>1, <2>2, <3>1, CutFeedTyped, SessionSparesActive DEF FieldSafe
    <3> QED
      BY <1>12, <2>1, <2>2, <3>1, <3>2 DEF FieldSafe, FieldUse, bl_image_valid
  <2>3. CASE pc # "app"
    <3>1. bank' = bank /\ (exec' = exec \/ pc = "copy")
      BY <1>12, <2>3 DEF Crash, FieldSafe
    <3>2. NeedCopy(set)' = NeedCopy(set)
      BY <1>12, <2>1, <3>1 DEF NeedCopy, bl_bank_trusted, bl_image_valid
    <3> QED
      BY <1>12, <2>1, <2>3, <3>1, <3>2 DEF FieldSafe, FieldUse, bl_image_valid
  <2> QED
    BY <2>2, <2>3
<1>13. CASE UNCHANGED vars
  BY <1>13 DEF vars, FieldSafe, FieldUse, NeedCopy, bl_bank_trusted, bl_image_valid, Feeding
<1> QED
  BY <1>1, <1>2, <1>3, <1>4, <1>5, <1>6, <1>7, <1>8, <1>9, <1>10, <1>11, <1>12, <1>13, <1>14
     DEF Next, BootStep, CliStep, AppStep

\* The invariant of the field holds at start.
LEMMA InitField == Init => FieldInv
<1> SUFFICES ASSUME Init, InTheField
             PROVE  FieldSafe
  BY DEF FieldInv
<1>1. IsWhole(exec) /\ bl_image_valid(exec)
  BY UseAssumption DEF Init, IsWhole, bl_image_valid, Whole
<1>2. CASE use.provisioned
  <2>1. PICK v \in use.plausible \ {Factory} :
          /\ bank = [b \in Bank |-> Whole(IF b = 0 THEN Factory ELSE v)]
          /\ set = [stored |-> TRUE, active |-> 0, loaded |-> 0, mode |-> "app", crc |-> bank]
    BY <1>2 DEF Init
  <2>2. \A b \in Bank : bank[b] \in Region
    BY <2>1, RegionsTyped, UseAssumption DEF Init
  <2> QED
    BY <1>1, <1>2, <2>1, <2>2, MarkAssumption DEF Init, FieldSafe, FieldUse, Bank
<1>3. CASE ~use.provisioned
  <2>1. /\ set.mode = "app" /\ set.active \in Bank /\ pc = "reset" /\ ~short
        /\ bank = [b \in Bank |-> Erased]
    BY <1>3 DEF Init, FactorySettings, Bank
  <2>2. bank[set.active].head = Blank
    BY <2>1 DEF Erased
  <2> QED
    BY <1>1, <1>3, <2>1, <2>2 DEF InTheField, FieldSafe, FieldUse
<1> QED
  BY <1>2, <1>3

\* That an update was begun inside a chunk is never forgotten.
LEMMA RacesOnlyGrow ==
  ASSUME TypeInv, [Next]_vars, races' = 0
  PROVE  races = 0
<1>1. races \in Nat
  BY BoundAssumption DEF TypeInv, TypeOK
<1>2. races' = races \/ races' = races + 1
  BY DEF Next, Keeps, FwUpdateBegin, vars
<1> QED
  BY <1>1, <1>2

\* In the field, and with no update begun inside a chunk of an aborted one, Exec is
\* whole or about to be reloaded, in every reachable state.
THEOREM FieldHolds == Spec => []FieldInv
<1>1. IInv /\ FieldInv /\ [Next]_vars => FieldInv'
  <2> SUFFICES ASSUME IInv, FieldInv, [Next]_vars, InTheField', races' = 0
               PROVE  FieldSafe'
    BY DEF FieldInv
  <2>1. InTheField
    BY DEF InTheField, Next, Keeps, vars
  <2>2. races = 0
    BY RacesOnlyGrow DEF IInv
  <2> QED
    BY <2>1, <2>2, FieldStep DEF FieldInv
<1> QED
  BY <1>1, InitField, InvariantHolds, PTL DEF Spec

\* A board used through its application, or updated by the tool, never starts a
\* broken image, whatever power losses and flash errors it meets and wherever an
\* update is aborted - unless another is begun before the chunk that was being fed
\* then is through (FwUpdateAbortTorn shows what comes of that).
THEOREM NeverTornInTheField == Spec => []FieldNeverRunsTorn
<1>1. FieldInv => FieldNeverRunsTorn
  BY DEF FieldInv, FieldSafe, FieldNeverRunsTorn, NeverRunsTorn
<1> QED
  BY <1>1, FieldHolds, PTL

\* There, and with the same exception, a power cycle at any time brings up a whole
\* image.
THEOREM PowerCycleInTheField == Spec => []FieldPowerCycleBoots
<1>1. IInv /\ FieldInv => FieldPowerCycleBoots
  <2> SUFFICES ASSUME IInv, InTheField, FieldSafe, races = 0
               PROVE  IF ~NeedCopy(set) /\ bl_image_valid(exec)
                      THEN IsWhole(exec)
                      ELSE bl_bank_trusted(set.active, set) /\ IsWhole(bank[set.active])
    BY DEF FieldInv, FieldPowerCycleBoots, PowerCycleBoots
  <2>1. CASE NeedCopy(set)
    BY <2>1, TrustedIsWhole DEF NeedCopy
  <2>2. CASE ~NeedCopy(set)
    BY <2>2 DEF FieldSafe
  <2> QED
    BY <2>1, <2>2
<1> QED
  BY <1>1, FieldHolds, InvariantHolds, PTL

(***************************************************************************)
(* What the next start runs.                                               *)
(***************************************************************************)
\* With the tool alone and no flash error, a settings write succeeds.
LEMMA ToolSteps ==
  ASSUME ToolOnly, IInv
  PROVE  /\ InTheField /\ use.cmds \subseteq {"fw", "save", "reset"}
         /\ ~CopyFail /\ \A s : Save(s) => SaveOk(s)
         /\ \A s : ~SaveError(s)
         /\ ~Again /\ \A v : Due(v) = v
<1>1. use.cmds \subseteq {"fw", "save", "reset"}
  BY DEF ToolOnly, IInv, TypeInv, TypeOK
<1>2. ~Again /\ \A v : Due(v) = v
  BY <1>1 DEF Again, Due, OnlyUpdates
<1> QED
  BY <1>1, <1>2 DEF ToolOnly, IInv, TypeInv, TypeOK, InTheField, CopyFail, Save, SaveError

\* A write to a bank that is not active changes nothing about the copy that is due.
LEMMA OtherBankWritten ==
  ASSUME TypeOK, NEW r, use' = use, set' = set, fw.bank # set.active,
         bank' = bank \/ bank' = [bank EXCEPT ![fw.bank] = r]
  PROVE  NeedCopy(set)' = NeedCopy(set) /\ bank'[set'.active] = bank[set.active]
<1>1. set.active \in Bank /\ bank \in [Bank -> Region]
  BY SettingsTyped DEF TypeOK
<1>2. bank'[set.active] = bank[set.active]
  BY <1>1
<1> QED
  BY <1>1, <1>2 DEF NeedCopy, bl_bank_trusted, bl_image_valid

\* At start no image is due.
LEMMA InitDue == ASSUME ToolOnly, Init PROVE DueInv
<1>1. ~NeedCopy(set) /\ set.loaded \in {None, set.active}
  BY DEF Init, NeedCopy, FactorySettings
<1>2. due = exec.head
  BY DEF Init, Whole, Due, OnlyUpdates, ToolOnly
<1>3. ~set.stored => set.crc[set.active] = Unknown
  BY DEF Init, FactorySettings, Bank
<1> QED
  BY <1>1, <1>2, <1>3 DEF DueInv, Init, NoSession

\* Every step with the tool and no flash error keeps DueInv.
LEMMA DueStep ==
  ASSUME ToolOnly, IInv, FieldSafe, DueInv, [Next]_vars
  PROVE  DueInv'
<1> USE DEF Keeps
<1>0. /\ TypeInv /\ TypeOK /\ set.active \in Bank /\ bank \in [Bank -> Region] /\ exec \in Region
      /\ InTheField /\ use.cmds \subseteq {"fw", "save", "reset"}
      /\ races = 0 /\ ~fw.stale
  BY ToolSteps, SettingsTyped DEF IInv, TypeInv, TypeOK, DueInv
<1>1. ASSUME BlMain, Keeps
      PROVE  DueInv'
  <2>1. exec' = exec /\ bank' = bank /\ set' = set /\ NeedCopy(set)' = NeedCopy(set)
    BY <1>1 DEF BlMain, NeedCopy, bl_bank_trusted, bl_image_valid
  <2>2. \/ pc' \in {"cli", "copy"} /\ due' = due
        \/ pc' \in {"app", "hung"} /\ ~NeedCopy(set) /\ fw' = NoSession /\ due' = exec.head
    BY <1>1, BootDecides, ToolSteps DEF BlMain
  <2>3. fw' = NoSession \/ pc' \in {"cli", "copy"}
    BY <2>2
  <2>4. ~fw'.stale /\ races' = 0 /\ (pc' = "app" => fw'.st = "idle")
    BY <1>0, <1>1, <2>2, SessionKept DEF BlMain, bl_boot_app, bl_jump_to_exec
  <2> QED
    BY <2>1, <2>2, <2>4 DEF DueInv
<1>2. ASSUME CopyStep, Keeps
      PROVE  DueInv'
  BY <1>2 DEF CopyStep, DueInv, FieldSafe, NeedCopy, bl_bank_trusted, bl_image_valid
<1>3. ASSUME CopyDone, Keeps
      PROVE  DueInv'
  <2>1. job.bank = set.active /\ exec = bank[set.active] /\ NeedCopy(set)
    BY <1>3 DEF CopyDone, FieldSafe, NeedCopy, IInv, FlashInv, Progress
  <2>2. SaveOk([set EXCEPT !.loaded = job.bank])
    BY <1>3, ToolSteps DEF CopyDone
  <2>3. /\ set'.active = set.active /\ set'.loaded = set.active /\ set'.stored
        /\ set'.crc = set.crc
    BY <1>0, <2>1, <2>2 DEF SaveOk, Settings, TypeOK
  <2>4. exec' = exec /\ bank' = bank /\ ~NeedCopy(set)'
    BY <1>3, <2>3 DEF CopyDone, NeedCopy
  <2>5. due' = exec.head /\ (pc' = "app" => fw' = NoSession) /\ fw' \in {fw, NoSession}
        /\ pc' # "ymodem"
    BY <1>3, <2>1, ToolSteps DEF CopyDone, bl_jump_to_exec, DueInv
  <2>6. ~fw'.stale /\ (pc' = "app" => fw'.st = "idle")
    BY <1>0, <2>5, SessionKept
  <2> QED
    BY <1>0, <1>3, <2>3, <2>4, <2>5, <2>6 DEF DueInv
<1>4. ASSUME cmd_boot \/ cmd_reset \/ cmdUpdate \/ cmdRollback \/ \E n \in Bank : SettingsBankSet(n)
      PROVE  FALSE
  BY <1>0, <1>4 DEF cmd_boot, cmd_reset, cmdUpdate, cmdRollback, SettingsBankSet, Cli, App
<1>5. ASSUME \/ \E n \in Bank : cmd_bank(n) \/ cmd_erase(n)
             \/ \E m \in {"app", "bl"} : cmd_boot_mode(m)
             \/ \E n \in Bank, v \in Ver : cmd_flash(n, v)
             \/ cmd_copy \/ cmd_rollback \/ YmodemStep \/ YmodemFail \/ YmodemDone
      PROVE  FALSE
  BY <1>0, <1>5, FieldCommands
     DEF cmd_bank, cmd_erase, cmd_boot_mode, cmd_flash, cmd_copy, cmd_rollback, YmodemStep,
         YmodemFail, YmodemDone, Cli, FieldSafe
<1>6. ASSUME cmdReset \/ Crash, pc = "app", Keeps
      PROVE  DueInv'
  <2>1. /\ pc' = "reset" /\ set' = set /\ due' = due /\ exec' = exec /\ fw' = NoSession
        /\ bank' \in CutFeed
    BY <1>6 DEF cmdReset, Restart, Crash
  <2>2. bank' = bank \/ (Feeding /\ \E r : bank' = [bank EXCEPT ![fw.bank] = r])
    BY <1>0, <2>1, CutFeedTyped
  <2>3. Feeding => fw.bank # set.active
    BY <1>0, <1>6 DEF DueInv, Feeding
  <2>4. NeedCopy(set)' = NeedCopy(set) /\ bank'[set'.active] = bank[set.active]
    <3>1. CASE bank' = bank
      BY <1>6, <2>1, <3>1 DEF NeedCopy, bl_bank_trusted, bl_image_valid
    <3>2. CASE bank' # bank
      BY <1>0, <1>6, <2>1, <2>2, <2>3, <3>2, OtherBankWritten
    <3> QED
      BY <3>1, <3>2
  <2>5. ~fw'.stale /\ races' = 0
    BY <1>0, <1>6, <2>1, SessionKept
  <2> QED
    BY <2>1, <2>4, <2>5 DEF DueInv
<1>7. ASSUME NEW b \in Bank, NEW v \in Ver, FwUpdateBegin(b, v), UNCHANGED <<use, short>>
      PROVE  DueInv'
  <2>1. /\ pc' = "app" /\ pc = "app" /\ exec' = exec /\ bank' = bank /\ set' = set /\ due' = due
        /\ NeedCopy(set)' = NeedCopy(set)
    BY <1>0, <1>7 DEF FwUpdateBegin, App, NeedCopy, bl_bank_trusted, bl_image_valid
  <2>2. b = 1 - set.active /\ fw.ready
    BY <1>0, <1>7, FieldCommands DEF FwUpdateBegin
  <2>3. fw'.bank = b /\ fw'.ready = fw.ready /\ ~fw'.stale /\ races' = 0
    BY <1>0, <1>7 DEF FwUpdateBegin, TypeOK, Session
  <2>4. fw'.bank # set.active
    BY <1>0, <2>2, <2>3 DEF Bank
  <2> QED
    BY <2>1, <2>2, <2>3, <2>4 DEF DueInv
<1>8. ASSUME FwFeed \/ FwFinish \/ FwFail, Keeps
      PROVE  DueInv'
  <2>1. /\ pc' = "app" /\ pc = "app" /\ exec' = exec /\ set' = set /\ due' = due
        /\ fw.st = "recv" /\ fw.bank # set.active
    BY <1>8 DEF FwFeed, FwFinish, FwFail, Receiving, DueInv
  <2>2. /\ fw'.st \in {"recv", "done"} => fw'.bank = fw.bank
        /\ fw'.ready = fw.ready /\ ~fw'.stale
    <3>1. CASE fw' = Over("error")
      BY <1>0, <3>1, OverTyped
    <3>2. CASE fw' # Over("error")
      BY <1>0, <1>8, <3>2 DEF FwFeed, FwFinish, FwFail, TypeOK, Session
    <3> QED
      BY <3>1, <3>2
  <2>3. bank' = bank \/ \E r : bank' = [bank EXCEPT ![fw.bank] = r]
    BY <1>0, <1>8, SessionWrites
  <2>4. NeedCopy(set)' = NeedCopy(set) /\ bank'[set'.active] = bank[set.active]
    BY <1>0, <1>8, <2>1, <2>3, OtherBankWritten
  <2> QED
    BY <1>0, <1>8, <2>1, <2>2, <2>4 DEF DueInv
<1>9. ASSUME FwUpdateAbort \/ FeedStale \/ FeedRaced
      PROVE  FALSE
  BY <1>0, <1>9 DEF FwUpdateAbort, FeedStale, FeedRaced, App
<1>10. ASSUME FwUpdateCommit, Keeps
       PROVE  DueInv'
  <2> DEFINE s == [set EXCEPT !.crc[fw.bank] = bank[fw.bank], !.active = fw.bank]
  <2>1. fw.bank \in Bank /\ bank[fw.bank] \in Region
    BY <1>0, SessionTyped DEF TypeOK
  <2>2. /\ SaveOk(s) /\ fw' = [Over("idle") EXCEPT !.ready = Again]
        /\ due' = bank[fw.bank].head
    BY <1>10, ToolSteps DEF FwUpdateCommit
  <2>3. /\ set'.active = fw.bank /\ set'.loaded = set.loaded /\ set'.stored
        /\ set'.crc[fw.bank] = bank[fw.bank]
    BY <1>0, <2>1, <2>2 DEF SaveOk, Settings, TypeOK
  <2>4. set.loaded # fw.bank
    BY <1>10, <2>1, MarkAssumption DEF FwUpdateCommit, App, Committable, DueInv
  <2>5. exec' = exec /\ bank' = bank /\ bl_image_valid(bank[fw.bank])
    BY <1>10 DEF FwUpdateCommit, Committable
  <2>6. NeedCopy(set)'
    BY <1>10, <2>3, <2>4, <2>5 DEF NeedCopy, bl_bank_trusted, bl_image_valid
  <2>7. fw'.st = "idle" /\ ~fw'.ready /\ ~fw'.stale
    BY <1>0, <2>2, OverTyped, ToolSteps
  <2> QED
    BY <1>0, <1>10, <2>2, <2>3, <2>5, <2>6, <2>7 DEF DueInv
<1>11. ASSUME SettingsSave, Keeps
       PROVE  DueInv'
  <2>1. SaveOk(set)
    BY <1>11, ToolSteps DEF SettingsSave
  <2>2. /\ set'.stored /\ set'.active = set.active /\ set'.loaded = set.loaded
        /\ set'.crc = set.crc
    BY <1>0, <2>1 DEF SaveOk, Settings, TypeOK
  <2>3. exec' = exec /\ bank' = bank /\ pc' = pc /\ fw' = fw /\ due' = due
    BY <1>11 DEF SettingsSave
  <2>4. ~set.stored => ~bl_bank_trusted(set.active, set)
    <3> SUFFICES ASSUME ~set.stored
                 PROVE  bank[set.active].head \notin use.plausible
      BY DEF bl_bank_trusted, bl_image_valid
    <3> QED
      BY <1>0, UseAssumption, MarkAssumption DEF DueInv, FieldSafe, TypeOK
  <2>5. NeedCopy(set)' = NeedCopy(set)
    BY <1>11, <2>2, <2>3, <2>4 DEF NeedCopy, bl_bank_trusted, bl_image_valid
  <2> QED
    BY <1>11, <2>2, <2>3, <2>5 DEF DueInv
<1>12. ASSUME Crash, pc # "app", Keeps
       PROVE  DueInv'
  <2>1. pc' = "reset" /\ set' = set /\ due' = due /\ fw' = NoSession
    BY <1>12 DEF Crash
  <2>2. bank' = bank /\ (exec' = exec \/ pc = "copy")
    BY <1>12 DEF Crash, FieldSafe
  <2>3. NeedCopy(set)' = NeedCopy(set)
    BY <1>12, <2>1, <2>2 DEF NeedCopy, bl_bank_trusted, bl_image_valid
  <2>4. ~fw'.stale
    BY <1>0, <2>1, SessionKept
  <2> QED
    BY <1>0, <1>12, <2>1, <2>2, <2>3, <2>4 DEF DueInv, FieldSafe
<1>13. CASE UNCHANGED vars
  BY <1>13 DEF vars, DueInv, NeedCopy, bl_bank_trusted, bl_image_valid
<1>14. ASSUME BootStep \/ Crash, Keeps
       PROVE  DueInv'
  <2>1. CASE Crash
    BY <1>6, <1>12, <1>14, <2>1
  <2>2. CASE BootStep
    BY <1>1, <1>2, <1>3, <1>14, <2>2, ToolSteps DEF BootStep
  <2> QED
    BY <1>14, <2>1, <2>2
<1>15. ASSUME CliStep
       PROVE  FALSE
  BY <1>4, <1>5, <1>15 DEF CliStep
<1>16. ASSUME AppStep, Keeps
       PROVE  DueInv'
  <2>1. ASSUME cmdReset
        PROVE  DueInv'
    BY <1>6, <1>16, <2>1 DEF cmdReset, App
  <2> QED
    BY <1>4, <1>8, <1>9, <1>10, <1>11, <1>16, <2>1 DEF AppStep
<1>17. ~YmodemDone
  BY <1>5
<1> QED
  BY <1>7, <1>13, <1>14, <1>15, <1>16, <1>17 DEF Next

\* With the update tool and no flash error, however often the power fails: the
\* application starts as the image that was committed last, whole, or as the one
\* that ran before when the update was not committed.
THEOREM RunsCommitted ==
  ASSUME ToolOnly
  PROVE  Spec => RunsWhatIsDue
<1>1. Init => DueInv
  BY InitDue
<1>2. IInv /\ FieldInv /\ DueInv /\ [Next]_vars => DueInv'
  BY ToolSteps, DueStep DEF FieldInv, DueInv
<1>3. IInv /\ FieldInv /\ DueInv /\ [Next]_vars => [Starting /\ due # None
        => exec = Whole(due)]_vars
  <2> SUFFICES ASSUME IInv, FieldSafe, DueInv, Next, Starting
               PROVE  exec = Whole(due)
    BY ToolSteps DEF FieldInv, DueInv
  <2>1. /\ use.cmds \subseteq {"fw", "save", "reset"} /\ InTheField
        /\ pc \in {"reset", "copy", "cli"} /\ pc' \in {"app", "hung"}
    BY ToolSteps DEF Starting
  <2>2. CASE BlMain
    <3>1. ~NeedCopy(set)
      BY <2>1, <2>2, BootDecides DEF BlMain
    <3> QED
      BY <3>1 DEF FieldSafe, DueInv, IsWhole, Whole
  <2>3. CASE CopyDone
    <3>1. job.bank = set.active /\ exec = bank[set.active] /\ NeedCopy(set)
      BY <2>3 DEF CopyDone, FieldSafe, NeedCopy, IInv, FlashInv, Progress
    <3>2. IsWhole(exec)
      BY <3>1, TrustedIsWhole DEF NeedCopy, DueInv
    <3> QED
      BY <3>1, <3>2 DEF DueInv, IsWhole, Whole
  <2>4. CASE ~BlMain /\ ~CopyDone
    BY <2>1, <2>4
       DEF Next, BootStep, CliStep, AppStep, CopyStep, CopyFail, cmd_bank, cmd_erase,
           cmd_boot_mode, cmd_flash, YmodemStep, YmodemFail, YmodemDone, cmd_copy, cmd_boot,
           cmd_rollback, cmd_reset, FwUpdateBegin, FwFeed, FwFinish, FwFail, FwUpdateAbort,
           FwUpdateCommit, SettingsBankSet, cmdRollback, SettingsSave, cmdUpdate, cmdReset,
           Crash, Cli, App, Receiving, Restart, FeedStale, FeedRaced
  <2> QED
    BY <2>2, <2>3, <2>4
<1> QED
  BY <1>1, <1>2, <1>3, InvariantHolds, FieldHolds, PTL DEF Spec, RunsWhatIsDue
=============================================================================
