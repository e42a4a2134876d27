--------------------------- MODULE SettingsStore ---------------------------
(***************************************************************************)
(* The persistent settings of the mainboard: two flash sectors written in  *)
(* turn (firmware/shared/Settings.h), by the application                   *)
(* (app/src/SettingsStore.c) and by the bootloader                         *)
(* (bootloader/src/flash.c), one word at a time, with the power free to go *)
(* at every step.                                                          *)
(*                                                                         *)
(* An image is a function from word positions to words.  The many words    *)
(* of the C struct are grouped by what the code tells apart: the CRC, the  *)
(* header (magic and used_size), the sequence number, the board-control    *)
(* core, the application payload, and fields appended to the payload by a  *)
(* later firmware.  A CRC word is the tuple of words it covers: CRC32      *)
(* collisions are left out.                                                *)
(***************************************************************************)
EXTENDS Integers

CONSTANTS
  Core,       \* active_bank, loaded_bank, boot_mode and bank_crc together
  Pay,        \* the payload both binaries know
  Ext,        \* the payload fields appended after the smaller struct
  CoreDefault, PayDefault, ExtDefault,
  SeqMod,     \* sequence numbers are counted modulo SeqMod (2^32 in the code)
  AppSize,    \* sizeof(settings_t), in words, in the application
  BootSize,   \* sizeof(settings_t), in words, in the bootloader
  Blank,      \* an erased word, 0xFFFFFFFF
  Garbage,    \* a word left by an interrupted erase or program
  NoSave      \* no save in progress, for the abstract store

CRC  == 1
HDR  == 2
SEQ  == 3
CORE == 4
PAY  == 5
EXT  == 6
Word == CRC..EXT

UsedMin == CORE       \* SETTINGS_USED_MIN: through the fixed core
Seqs    == 0..(SeqMod - 1)

ASSUME SeqModAssumption == SeqMod \in Nat /\ SeqMod >= 4
ASSUME SizeAssumption == AppSize \in PAY..EXT /\ BootSize \in PAY..EXT
ASSUME DefaultAssumption ==
  CoreDefault \in Core /\ PayDefault \in Pay /\ ExtDefault \in Ext
ASSUME BlankAssumption ==
  \A x \in {Blank, Garbage} : x \notin Seqs \cup Word \cup Core \cup Pay \cup Ext
ASSUME NoSaveAssumption == NoSave \notin [core : Core, pay : Pay, ext : Ext]

VARIABLES
  slot,    \* the two settings sectors, slot[0] = A and slot[1] = B
  running, \* which binary runs: "boot" or "app"
  pc,      \* the settings write in progress: "idle", "erase", "program", "lock"
  buf,     \* the sealed struct being written
  target,  \* the sector it is written to
  next,    \* the next word to program
  rc       \* result of the last finished write

vars == <<slot, running, pc, buf, target, next, rc>>

(***************************************************************************)
(* Settings.h: validity, sequence comparison, selection, preparation.      *)
(***************************************************************************)
Erased == [i \in Word |-> Blank]

\* settings_compute_crc: over the words the writer's used_size covers.
Crc(img) == [i \in HDR..img[HDR] |-> img[i]]

\* (mutant: only the header is looked at)
settings_valid_NoCrc(img) == img[HDR] \in UsedMin..EXT

settings_valid(img) ==
  /\ img[HDR] \in UsedMin..EXT
  /\ img[CRC] = Crc(img)

\* (int32_t)(b - a) >= 0 on sequence numbers that wrap at SeqMod.
SeqDiff(b, a) == IF b >= a THEN b - a ELSE b - a + SeqMod
\* (mutants: an unsigned comparison; a counter that does not wrap)
NewerOrSame_Unsigned(b, a) == b >= a
SeqInc_NoWrap(n) == n + 1
NewerOrSame(b, a) == 2 * SeqDiff(b, a) < SeqMod
SeqInc(n) == IF n = SeqMod - 1 THEN 0 ELSE n + 1

\* settings_newest_slot: 0, 1, or -1 when neither sector is valid.
settings_newest_slot(s) ==
  LET va == settings_valid(s[0])
      vb == settings_valid(s[1])
  IN  IF va /\ vb THEN (IF NewerOrSame(s[1][SEQ], s[0][SEQ]) THEN 1 ELSE 0)
      ELSE IF va THEN 0
      ELSE IF vb THEN 1
      ELSE -1

\* settings_defaults and settings_load_one: a reader whose struct has `size'
\* words takes what both it and the image hold, and defaults the rest.
DefaultContent == [core |-> CoreDefault, pay |-> PayDefault, ext |-> ExtDefault]

settings_load_one(img, size) ==
  [core |-> img[CORE],
   pay  |-> IF PAY <= img[HDR] THEN img[PAY] ELSE PayDefault,
   ext  |-> IF EXT <= img[HDR] /\ EXT <= size THEN img[EXT] ELSE ExtDefault]

settings_pick(s, size) ==
  IF settings_newest_slot(s) = -1
  THEN DefaultContent
  ELSE settings_load_one(s[settings_newest_slot(s)], size)

\* settings_seal: a struct of `size' words holding content c.  Words past the
\* struct are never programmed, so they read as erased.
Unsealed(c, n, size) ==
  [i \in Word |-> CASE i = CRC  -> Blank
                    [] i = HDR  -> size
                    [] i = SEQ  -> n
                    [] i = CORE -> c.core
                    [] i = PAY  -> c.pay
                    [] i = EXT  -> IF EXT <= size THEN c.ext ELSE Blank]

settings_seal(c, n, size) ==
  LET img == Unsealed(c, n, size)
  IN  [i \in Word |-> IF i = CRC THEN Crc(img) ELSE img[i]]

\* (mutant: the sequence number is carried over, not incremented)
NewSeq_Same(s) ==
  LET newest == settings_newest_slot(s)
  IN  IF newest = -1 THEN 0 ELSE s[newest][SEQ]

NewSeq(s) ==
  LET newest == settings_newest_slot(s)
  IN  SeqInc(IF newest = -1 THEN 0 ELSE s[newest][SEQ])

\* (mutants: the newest sector is written over; sector A is always written)
InactiveSlot_Newest(s) ==
  IF settings_newest_slot(s) = -1 THEN 0 ELSE settings_newest_slot(s)
InactiveSlot_First(s) == 0

InactiveSlot(s) ==
  LET newest == settings_newest_slot(s)
  IN  IF newest = -1 THEN 0 ELSE 1 - newest

Size(w) == IF w = "app" THEN AppSize ELSE BootSize

\* settings_load as the running binary sees it.
Loaded(w) == settings_pick(slot, Size(w))

(***************************************************************************)
(* Initial states: a board whose settings sectors were never written.      *)
(***************************************************************************)
Init ==
  /\ slot = [s \in 0..1 |-> Erased]
  /\ running = "boot"
  /\ pc = "idle"
  /\ buf = Erased
  /\ target = 0
  /\ next = CRC
  /\ rc = "none"

(***************************************************************************)
(* A save: load, change some fields, prepare, then erase and program.  The *)
(* callers in the application hold the protocol mutex and the bootloader   *)
(* has one thread, so nothing comes between the load and the erase.        *)
(***************************************************************************)
BeginSave(w, content) ==
  /\ running = w
  /\ pc = "idle"
  /\ buf' = settings_seal(content, NewSeq(slot), Size(w))
  /\ target' = InactiveSlot(slot)
  /\ next' = CRC
  /\ pc' = "erase"
  /\ rc' = "none"
  /\ UNCHANGED <<slot, running>>

\* SettingsSave: the live parameters, the bootloader's fields preserved.
SettingsSave(p, e) ==
  BeginSave("app", [Loaded("app") EXCEPT
                      !.pay = p,
                      !.ext = IF EXT <= AppSize THEN e ELSE ExtDefault])

\* SettingsCommitBank, SettingsBankSet: the core changes, the payload stays.
SettingsSetCore(c) == BeginSave("app", [Loaded("app") EXCEPT !.core = c])

\* (mutant: the bootloader starts from defaults instead of the stored settings)
flash_write_settings_Fresh(c) ==
  BeginSave("boot", [DefaultContent EXCEPT !.core = c])

\* The bootloader's writers (bank, boot.mode, flash, copy, rollback and the
\* activation at boot) change board-control fields only.
flash_write_settings(c) == BeginSave("boot", [Loaded("boot") EXCEPT !.core = c])

EraseOk ==
  /\ pc = "erase"
  /\ slot' = [slot EXCEPT ![target] = Erased]
  /\ pc' = "program"
  /\ UNCHANGED <<running, buf, target, next, rc>>

\* An erase that fails or is cut short: not begun, the header word half
\* erased, or all words blank.
CutErase(img) == {img, [img EXCEPT ![HDR] = Garbage], Erased}

EraseFail ==
  /\ pc = "erase"
  /\ \E img \in CutErase(slot[target]) : slot' = [slot EXCEPT ![target] = img]
  /\ pc' = "idle"
  /\ rc' = "error"
  /\ UNCHANGED <<running, buf, target, next>>

\* HAL_FLASH_Program and the read-back of one word.
ProgramWord ==
  /\ pc = "program"
  /\ slot' = [slot EXCEPT ![target][next] = buf[next]]
  /\ IF next = buf[HDR]
       THEN pc' = "lock" /\ UNCHANGED next
       ELSE next' = next + 1 /\ UNCHANGED pc
  /\ UNCHANGED <<running, buf, target, rc>>

\* A word that fails to program or to read back, whatever it now holds.
CutWord(w) == {Blank, Garbage, w}

ProgramFail ==
  /\ pc = "program"
  /\ \E w \in CutWord(buf[next]) : slot' = [slot EXCEPT ![target][next] = w]
  /\ pc' = "idle"
  /\ rc' = "error"
  /\ UNCHANGED <<running, buf, target, next>>

\* HAL_FLASH_Lock and the return of 0.
ReturnOk ==
  /\ pc = "lock"
  /\ pc' = "idle"
  /\ rc' = "ok"
  /\ UNCHANGED <<slot, running, buf, target, next>>

(***************************************************************************)
(* Control moves between the two binaries, and the power fails.            *)
(***************************************************************************)
BootApp ==
  /\ running = "boot"
  /\ pc = "idle"
  /\ running' = "app"
  /\ UNCHANGED <<slot, pc, buf, target, next, rc>>

\* Power loss or reset at any step, mid-erase and mid-word included.
Crash ==
  /\ CASE pc = "erase"   -> \E img \in CutErase(slot[target]) :
                              slot' = [slot EXCEPT ![target] = img]
       [] pc = "program" -> \E w \in CutWord(buf[next]) :
                              slot' = [slot EXCEPT ![target][next] = w]
       [] OTHER          -> slot' = slot
  /\ running' = "boot"
  /\ pc' = "idle"
  /\ rc' = "none"
  /\ UNCHANGED <<buf, target, next>>

Begin ==
  \/ \E p \in Pay, e \in Ext : SettingsSave(p, e)
  \/ \E c \in Core : SettingsSetCore(c)
  \/ \E c \in Core : flash_write_settings(c)

Next ==
  \/ Begin
  \/ EraseOk
  \/ EraseFail
  \/ ProgramWord
  \/ ProgramFail
  \/ ReturnOk
  \/ BootApp
  \/ Crash

Spec == Init /\ [][Next]_vars

-----------------------------------------------------------------------------
(***************************************************************************)
(* Properties.                                                             *)
(***************************************************************************)
Content == [core : Core, pay : Pay, ext : Ext]

\* The image is one some writer sealed, complete to its last word.
IsSealed(img) ==
  \E c \in Content, n \in Seqs, z \in {AppSize, BootSize} :
    img = settings_seal(c, n, z)

\* What one flash word can hold; a CRC word is the tuple of words it covers.
DataWord == Seqs \cup Word \cup Core \cup Pay \cup Ext \cup {Blank, Garbage}

IsImage(img) ==
  /\ img = [i \in Word |-> img[i]]
  /\ \A i \in HDR..EXT : img[i] \in DataWord
  /\ \/ img[CRC] \in {Blank, Garbage}
     \/ \E z \in {AppSize, BootSize} : img[CRC] \in [HDR..z -> DataWord]

IsSlots(s) ==
  /\ s = [t \in 0..1 |-> s[t]]
  /\ \A t \in 0..1 : IsImage(s[t])

\* The type of every variable; a sector may hold any mix of words.
TypeOK ==
  /\ IsSlots(slot)
  /\ running \in {"boot", "app"}
  /\ pc \in {"idle", "erase", "program", "lock"}
  /\ target \in 0..1
  /\ next \in Word
  /\ rc \in {"none", "ok", "error"}
  /\ buf = Erased \/ IsSealed(buf)

\* What settings_valid accepts is an image some writer sealed: no torn,
\* half-erased or half-programmed sector passes for a valid one.
ValidIsSealed ==
  \A s \in 0..1 : settings_valid(slot[s]) => IsSealed(slot[s])

\* Two valid sectors are always consecutive writes, so the signed comparison
\* of settings_pick orders them whatever the counter has wrapped to.
SlotsConsecutive ==
  settings_valid(slot[0]) /\ settings_valid(slot[1]) =>
    SeqDiff(slot[1][SEQ], slot[0][SEQ]) \in {1, SeqMod - 1}

\* The sector being erased or programmed is never the one a load would use.
WriteSparesNewest ==
  pc \in {"erase", "program"} => settings_newest_slot(slot) # target

\* The inductive invariant: beside the three above, what the write in progress
\* relies on.  The sector being programmed holds a prefix of the buffer.
Partial(b, k) == [i \in Word |-> IF i < k THEN b[i] ELSE Blank]

WriteInv ==
  /\ pc # "idle" => IsSealed(buf)
  /\ pc \in {"erase", "program"} =>
       /\ target = InactiveSlot(slot)
       /\ buf[SEQ] = NewSeq(slot)
       /\ settings_newest_slot(slot) # target
  /\ pc = "erase" => next = CRC
  /\ pc = "program" => next \in CRC..buf[HDR] /\ slot[target] = Partial(buf, next)
  /\ pc = "lock" => settings_newest_slot(slot) = target /\ slot[target] = buf

IInv == TypeOK /\ ValidIsSealed /\ SlotsConsecutive /\ WriteInv

\* No step, crash included, ever takes a board that has stored settings back
\* to defaults.
NeverBackToDefaults ==
  [][settings_newest_slot(slot) # -1 => settings_newest_slot(slot') # -1]_vars

\* The store implements the atomic durable value of DurableSettings, seen
\* through the application's load.
Abstract == INSTANCE DurableSettings WITH
  stored  <- Loaded("app"),
  pending <- IF pc = "idle" THEN NoSave ELSE settings_load_one(buf, AppSize),
  rc      <- rc,
  Initial <- DefaultContent
AtomicDurable == Abstract!ASpec

\* A bootloader write never changes the payload that both binaries know, even
\* when the application's struct is the longer one.
SharedFieldsSurvive ==
  [][running = "boot" => Loaded("app")'.pay = Loaded("app").pay]_vars
=============================================================================
