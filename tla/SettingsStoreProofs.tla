------------------------ MODULE SettingsStoreProofs ------------------------
(***************************************************************************)
(* The theorems about SettingsStore: they hold for every set of contents,  *)
(* every sequence modulus of at least four and any mix of struct sizes.    *)
(***************************************************************************)
EXTENDS SettingsStore, TLAPS

(***************************************************************************)
(* Serial numbers.                                                         *)
(***************************************************************************)
\* The successor of a sequence number compares as newer, its predecessor as
\* older, also across the wrap.
LEMMA SerialOrder ==
  ASSUME NEW n \in Seqs
  PROVE  /\ SeqInc(n) \in Seqs
         /\ SeqDiff(SeqInc(n), n) = 1
         /\ SeqDiff(n, SeqInc(n)) = SeqMod - 1
         /\ NewerOrSame(SeqInc(n), n)
         /\ ~NewerOrSame(n, SeqInc(n))
  BY SeqModAssumption DEF Seqs, SeqInc, SeqDiff, NewerOrSame

(***************************************************************************)
(* Sealed images and damaged ones.                                         *)
(***************************************************************************)
\* The words of a sealed image, one by one.
LEMMA SealedWords ==
  ASSUME NEW b, IsSealed(b)
  PROVE  /\ b = [i \in Word |-> b[i]]
         /\ b[HDR] \in {AppSize, BootSize}
         /\ b[HDR] \in PAY..EXT
         /\ b[CRC] = Crc(b)
         /\ b[SEQ] \in Seqs
         /\ b[CORE] \in Core
         /\ b[PAY] \in Pay
         /\ b[HDR] = EXT => b[EXT] \in Ext
         /\ b[HDR] # EXT => b[EXT] = Blank
<1> PICK c \in Content, n \in Seqs, z \in {AppSize, BootSize} :
           b = settings_seal(c, n, z)
  BY DEF IsSealed
<1> DEFINE u == Unsealed(c, n, z)
<1>1. z \in PAY..EXT
  BY SizeAssumption
<1>2. /\ u[HDR] = z /\ u[SEQ] = n /\ u[CORE] = c.core /\ u[PAY] = c.pay
      /\ u[EXT] = IF EXT <= z THEN c.ext ELSE Blank
  BY <1>1 DEF Unsealed, Word, CRC, HDR, SEQ, CORE, PAY, EXT
<1>3. b = [i \in Word |-> IF i = CRC THEN Crc(u) ELSE u[i]]
  BY DEF settings_seal
<1>4. \A i \in HDR..EXT : b[i] = u[i]
  BY <1>3 DEF Word, CRC, HDR, EXT
<1>5. b[CRC] = Crc(u)
  BY <1>3 DEF Word, CRC, EXT
<1>6. Crc(u) = Crc(b)
  BY <1>1, <1>2, <1>4 DEF Crc, HDR, PAY, EXT
<1>7. c.core \in Core /\ c.pay \in Pay /\ c.ext \in Ext
  BY DEF Content
<1>8. /\ b[HDR] = z /\ b[SEQ] = n /\ b[CORE] = c.core /\ b[PAY] = c.pay
      /\ b[EXT] = IF EXT <= z THEN c.ext ELSE Blank
  BY <1>2, <1>4 DEF HDR, SEQ, CORE, PAY, EXT
<1>9. b = [i \in Word |-> b[i]]
  BY <1>3
<1> HIDE DEF u
<1> QED
  BY <1>1, <1>5, <1>6, <1>7, <1>8, <1>9 DEF PAY, EXT

\* A sealed image is valid.
LEMMA SealedValid ==
  ASSUME NEW b, IsSealed(b)
  PROVE  settings_valid(b)
  BY SealedWords DEF settings_valid, UsedMin, CORE, PAY, EXT

\* The words a CRC covers are never blank or garbage in a sealed image.
LEMMA SealedWhole ==
  ASSUME NEW b, IsSealed(b), NEW k \in HDR..b[HDR]
  PROVE  b[k] \notin {Blank, Garbage}
<1>1. b[HDR] \in Word
  BY SealedWords DEF Word, PAY, EXT, CRC
<1>2. k \in {HDR, SEQ, CORE, PAY, EXT} /\ (k = EXT => b[HDR] = EXT)
  BY SealedWords DEF HDR, SEQ, CORE, PAY, EXT
<1>3. b[k] \in Seqs \cup Word \cup Core \cup Pay \cup Ext
  BY <1>1, <1>2, SealedWords
<1> QED
  BY <1>3, BlankAssumption

\* An image whose header is not the writer's is invalid.
LEMMA HeaderInvalid ==
  ASSUME NEW img, img[HDR] \in {Blank, Garbage}
  PROVE  ~settings_valid(img)
<1>1. img[HDR] \notin Word
  BY BlankAssumption
<1> QED
  BY <1>1 DEF settings_valid, UsedMin, Word, CRC, CORE, EXT

\* An image with the writer's header and CRC and one damaged covered word is
\* invalid.
LEMMA DamagedInvalid ==
  ASSUME NEW b, IsSealed(b), NEW img,
         img[HDR] = b[HDR], img[CRC] = b[CRC],
         NEW k \in HDR..b[HDR], img[k] \in {Blank, Garbage}
  PROVE  ~settings_valid(img)
<1>1. Crc(img)[k] = img[k] /\ Crc(b)[k] = b[k]
  BY DEF Crc
<1>2. b[k] # img[k]
  BY SealedWhole
<1>3. img[CRC] = Crc(b)
  BY SealedWords
<1> QED
  BY <1>1, <1>2, <1>3 DEF settings_valid

\* A partly programmed sector, or one whose last word failed, is invalid.
LEMMA PartialInvalid ==
  ASSUME NEW b, IsSealed(b), NEW k \in CRC..b[HDR], NEW w \in {Blank, Garbage}
  PROVE  /\ ~settings_valid(Partial(b, k))
         /\ ~settings_valid([Partial(b, k) EXCEPT ![k] = w])
<1> DEFINE p == Partial(b, k)
           q == [p EXCEPT ![k] = w]
<1>1. b[HDR] \in PAY..EXT
  BY SealedWords
<1>2. k \in Word
  BY <1>1 DEF Word, PAY, EXT, CRC
<1>3. \A i \in Word : /\ p[i] = IF i < k THEN b[i] ELSE Blank
                      /\ q[i] = IF i = k THEN w ELSE p[i]
  BY <1>2 DEF Partial
<1> HIDE DEF p, q
<1>4. ASSUME k \in {CRC, HDR}
      PROVE  ~settings_valid(p) /\ ~settings_valid(q)
  <2>1. p[HDR] = Blank /\ q[HDR] \in {Blank, Garbage}
    BY <1>3, <1>4 DEF Word, CRC, HDR, EXT
  <2> QED
    BY <2>1, HeaderInvalid
<1>5. ASSUME k \notin {CRC, HDR}
      PROVE  ~settings_valid(p) /\ ~settings_valid(q)
  <2>1. k \in HDR..b[HDR] /\ k > HDR
    BY <1>5, <1>1 DEF CRC, HDR, PAY, EXT
  <2>2. /\ p[HDR] = b[HDR] /\ p[CRC] = b[CRC] /\ p[k] = Blank
        /\ q[HDR] = b[HDR] /\ q[CRC] = b[CRC] /\ q[k] = w
    BY <1>2, <1>3, <2>1 DEF Word, CRC, HDR, EXT
  <2> QED
    BY <2>1, <2>2, DamagedInvalid
<1>6. ~settings_valid(p) /\ ~settings_valid(q)
  BY <1>4, <1>5
<1> QED
  BY <1>6 DEF p, q

\* Programming one more word, and programming the last one.
LEMMA PartialGrows ==
  ASSUME NEW b, IsSealed(b), NEW k \in CRC..b[HDR]
  PROVE  /\ k < b[HDR] => [Partial(b, k) EXCEPT ![k] = b[k]] = Partial(b, k + 1)
         /\ k = b[HDR] => [Partial(b, k) EXCEPT ![k] = b[k]] = b
         /\ Partial(b, CRC) = Erased
<1>1. b[HDR] \in PAY..EXT /\ b = [i \in Word |-> b[i]]
  BY SealedWords
<1>2. k \in Word
  BY <1>1 DEF Word, PAY, EXT, CRC
<1>3. [Partial(b, k) EXCEPT ![k] = b[k]] = Partial(b, k + 1)
  <2>1. \A i \in Word : (i < k + 1) <=> (i < k \/ i = k)
    BY <1>2 DEF Word, CRC, EXT
  <2> QED
    BY <2>1, <1>2 DEF Partial
<1>4. ASSUME k = b[HDR]
      PROVE  Partial(b, k + 1) = b
  <2>1. \A i \in Word : i > k => i = EXT /\ k = PAY
    BY <1>1, <1>4 DEF Word, CRC, PAY, EXT
  <2>2. \A i \in Word : i > k => b[i] = Blank
    BY <1>4, <2>1, SealedWords DEF PAY, EXT
  <2>3. Partial(b, k + 1) = [i \in Word |-> b[i]]
    BY <2>2, <1>2 DEF Partial, Word, CRC, EXT
  <2> QED
    BY <1>1, <2>3
<1>5. Partial(b, CRC) = Erased
  BY DEF Partial, Erased, Word, CRC, EXT
<1> QED
  BY <1>3, <1>4, <1>5

(***************************************************************************)
(* Two sectors.                                                            *)
(***************************************************************************)
\* The selection depends on the sectors only.
LEMMA NewestRange ==
  ASSUME NEW s
  PROVE  /\ settings_newest_slot(s) \in {-1, 0, 1}
         /\ \A t \in 0..1 : settings_newest_slot(s) = t => settings_valid(s[t])
         /\ settings_newest_slot(s) = -1 =>
              \A t \in 0..1 : ~settings_valid(s[t])
         /\ \A t \in 0..1 : settings_valid(s[t]) /\ ~settings_valid(s[1 - t]) =>
              settings_newest_slot(s) = t
         /\ InactiveSlot(s) \in 0..1
  BY DEF settings_newest_slot, InactiveSlot

\* Damaging a sector that is not the newest leaves the newest one in charge.
LEMMA DamageSparesNewest ==
  ASSUME NEW s, IsSlots(s), NEW t \in 0..1, NEW img,
         settings_newest_slot(s) # t, ~settings_valid(img)
  PROVE  LET s2 == [s EXCEPT ![t] = img]
         IN  /\ settings_newest_slot(s2) = settings_newest_slot(s)
             /\ settings_newest_slot(s) # -1 =>
                  s2[settings_newest_slot(s)] = s[settings_newest_slot(s)]
<1> DEFINE s2 == [s EXCEPT ![t] = img]
<1>1. s2[t] = img /\ s2[1 - t] = s[1 - t]
  BY DEF IsSlots
<1>2. CASE settings_newest_slot(s) = -1
  BY <1>1, <1>2 DEF settings_newest_slot
<1>3. CASE settings_newest_slot(s) = 1 - t
  BY <1>1, <1>3, NewestRange DEF settings_newest_slot
<1> QED
  BY <1>2, <1>3, NewestRange

\* Completing a prepared image in the inactive sector makes it the newest, and
\* the two sectors consecutive.
LEMMA CommitTakesOver ==
  ASSUME NEW s, IsSlots(s), NEW b, IsSealed(b),
         \A t \in 0..1 : settings_valid(s[t]) => IsSealed(s[t]),
         b[SEQ] = NewSeq(s)
  PROVE  LET t == InactiveSlot(s)
             s2 == [s EXCEPT ![t] = b]
         IN  /\ settings_newest_slot(s2) = t
             /\ settings_valid(s2[0]) /\ settings_valid(s2[1]) =>
                  SeqDiff(s2[1][SEQ], s2[0][SEQ]) \in {1, SeqMod - 1}
<1> DEFINE t == InactiveSlot(s)
           s2 == [s EXCEPT ![t] = b]
           nw == settings_newest_slot(s)
<1>1. t \in 0..1 /\ s2[t] = b /\ s2[1 - t] = s[1 - t] /\ settings_valid(b)
  BY NewestRange, SealedValid DEF IsSlots
<1>2. CASE nw = -1
  <2>1. t = 0 /\ ~settings_valid(s[1])
    BY <1>2, NewestRange DEF InactiveSlot
  <2>2. settings_valid(s2[0]) /\ ~settings_valid(s2[1])
    BY <1>1, <2>1
  <2>3. settings_newest_slot(s2) = 0
    BY <2>2 DEF settings_newest_slot
  <2> QED
    BY <2>1, <2>2, <2>3
<1>3. CASE nw # -1
  <2>1. nw \in 0..1 /\ t = 1 - nw /\ 1 - t = nw /\ settings_valid(s[nw])
    BY <1>3, NewestRange DEF InactiveSlot
  <2>2. s[nw][SEQ] \in Seqs /\ b[SEQ] = SeqInc(s[nw][SEQ])
    BY <1>3, <2>1, SealedWords DEF NewSeq
  <2> DEFINE n == s[nw][SEQ]
  <2>3. /\ SeqDiff(SeqInc(n), n) = 1
        /\ SeqDiff(n, SeqInc(n)) = SeqMod - 1
        /\ NewerOrSame(SeqInc(n), n)
        /\ ~NewerOrSame(n, SeqInc(n))
    BY <2>2, SerialOrder
  <2>4. s2[t][SEQ] = SeqInc(n) /\ s2[1 - t][SEQ] = n
        /\ settings_valid(s2[t]) /\ settings_valid(s2[1 - t])
    BY <1>1, <2>1, <2>2
  <2> DEFINE Goal == /\ settings_newest_slot(s2) = t
                     /\ SeqDiff(s2[1][SEQ], s2[0][SEQ]) \in {1, SeqMod - 1}
  <2> HIDE DEF t, s2, n, nw
  <2>5. ASSUME t = 0
        PROVE  Goal
    BY <2>3, <2>4, <2>5 DEF settings_newest_slot
  <2>6. ASSUME t = 1
        PROVE  Goal
    BY <2>3, <2>4, <2>6 DEF settings_newest_slot
  <2>7. Goal
    BY <1>1, <2>5, <2>6
  <2> QED
    BY <2>7 DEF t, s2
<1> QED
  BY <1>2, <1>3

(***************************************************************************)
(* The invariant.                                                          *)
(***************************************************************************)
\* A sealed struct has the type of a sector.
LEMMA SealedTyped ==
  ASSUME NEW b, IsSealed(b)
  PROVE  IsImage(b)
<1>1. b = [i \in Word |-> b[i]] /\ b[HDR] \in {AppSize, BootSize} /\ b[HDR] \in PAY..EXT
  BY SealedWords
<1>2. \A i \in HDR..EXT : b[i] \in DataWord
  <2>1. \A i \in HDR..EXT : i \in {HDR, SEQ, CORE, PAY, EXT}
    BY DEF HDR, SEQ, CORE, PAY, EXT
  <2>2. b[HDR] \in Word
    BY <1>1 DEF Word, CRC, PAY, EXT
  <2> QED
    BY <2>1, <2>2, SealedWords DEF DataWord
<1>3. b[CRC] \in [HDR..b[HDR] -> DataWord]
  <2>1. \A i \in HDR..b[HDR] : i \in HDR..EXT
    BY <1>1 DEF HDR, PAY, EXT
  <2>2. b[CRC] = [i \in HDR..b[HDR] |-> b[i]]
    BY SealedWords DEF Crc
  <2> QED
    BY <1>2, <2>1, <2>2
<1> QED
  BY <1>1, <1>2, <1>3 DEF IsImage

\* So has an erased sector.
LEMMA ErasedTyped == IsImage(Erased)
  BY DEF IsImage, DataWord, Erased, Word, CRC, HDR, EXT

\* What every load returns is a Content, whoever loads.
LEMMA LoadedTyped ==
  ASSUME ValidIsSealed, NEW z \in {AppSize, BootSize}
  PROVE  settings_pick(slot, z) \in Content
<1>1. CASE settings_newest_slot(slot) = -1
  BY <1>1, DefaultAssumption DEF settings_pick, DefaultContent, Content
<1>2. CASE settings_newest_slot(slot) # -1
  <2> DEFINE img == slot[settings_newest_slot(slot)]
  <2>1. IsSealed(img)
    BY <1>2, NewestRange DEF ValidIsSealed
  <2> HIDE DEF img
  <2>2. settings_load_one(img, z) \in Content
    BY <2>1, SealedWords, DefaultAssumption, SizeAssumption
       DEF settings_load_one, Content, PAY, EXT
  <2> QED
    BY <1>2, <2>2 DEF settings_pick, img
<1> QED
  BY <1>1, <1>2

\* A sealed struct is sealed, and holds the sequence number it was given.
LEMMA SealIsSealed ==
  ASSUME NEW c \in Content, NEW n \in Seqs, NEW z \in {AppSize, BootSize}
  PROVE  IsSealed(settings_seal(c, n, z)) /\ settings_seal(c, n, z)[SEQ] = n
  BY DEF IsSealed, settings_seal, Unsealed, Word, CRC, HDR, SEQ, CORE, PAY, EXT

\* The sectors of a new board satisfy the invariant.
LEMMA InitInv == Init => IInv
<1> SUFFICES ASSUME Init PROVE IInv
  OBVIOUS
<1>1. \A s \in 0..1 : ~settings_valid(slot[s])
  <2>1. Erased[HDR] = Blank
    BY DEF Erased, Word, CRC, HDR, EXT
  <2> QED
    BY <2>1, HeaderInvalid DEF Init
<1>2. IsSlots(slot)
  BY ErasedTyped DEF Init, IsSlots
<1> QED
  BY <1>1, <1>2 DEF Init, IInv, WriteInv, TypeOK, ValidIsSealed, SlotsConsecutive,
                    Word, CRC, EXT

\* Replacing one sector leaves the other as it was.
LEMMA SlotsUpdate ==
  ASSUME NEW s, IsSlots(s), NEW t \in 0..1, NEW img, IsImage(img)
  PROVE  LET s2 == [s EXCEPT ![t] = img]
         IN  IsSlots(s2) /\ s2[t] = img /\ s2[1 - t] = s[1 - t]
<1> DEFINE s2 == [s EXCEPT ![t] = img]
<1>1. DOMAIN s = 0..1 /\ \A u \in 0..1 : IsImage(s[u])
  BY DEF IsSlots
<1>2. s2 = [u \in 0..1 |-> IF u = t THEN img ELSE s[u]]
  BY <1>1
<1> HIDE DEF s2
<1>3. \A u \in 0..1 : s2[u] = IF u = t THEN img ELSE s[u]
  BY <1>2
<1>4. IsSlots(s2)
  BY <1>1, <1>2, <1>3 DEF IsSlots
<1>5. s2[t] = img /\ s2[1 - t] = s[1 - t]
  BY <1>3
<1> QED
  BY <1>4, <1>5 DEF s2

\* Damaging the sector under erase or program keeps the sectors' invariant and
\* what a prepared write relies on.
LEMMA DamageKeeps ==
  ASSUME IInv, pc \in {"erase", "program"},
         NEW img, IsImage(img), ~settings_valid(img),
         slot' = [slot EXCEPT ![target] = img]
  PROVE  /\ IsSlots(slot')
         /\ slot'[target] = img
         /\ ValidIsSealed' /\ SlotsConsecutive'
         /\ settings_newest_slot(slot') = settings_newest_slot(slot)
         /\ InactiveSlot(slot') = InactiveSlot(slot)
         /\ NewSeq(slot') = NewSeq(slot)
         /\ \A z : settings_pick(slot', z) = settings_pick(slot, z)
<1>0. /\ IsSlots(slot) /\ target \in 0..1
      /\ settings_newest_slot(slot) # target
      /\ ValidIsSealed
  BY DEF IInv, WriteInv, TypeOK
<1>1. IsSlots(slot') /\ slot'[target] = img
      /\ slot'[1 - target] = slot[1 - target]
  <2> DEFINE s2 == [slot EXCEPT ![target] = img]
  <2>1. IsSlots(s2) /\ s2[target] = img /\ s2[1 - target] = slot[1 - target]
    BY <1>0, SlotsUpdate
  <2>2. slot' = s2
    OBVIOUS
  <2> HIDE DEF s2
  <2> QED
    BY <2>1, <2>2
<1>2. /\ settings_newest_slot(slot') = settings_newest_slot(slot)
      /\ settings_newest_slot(slot) # -1 =>
           slot'[settings_newest_slot(slot)] = slot[settings_newest_slot(slot)]
  BY <1>0, DamageSparesNewest
<1>3. ValidIsSealed'
  BY <1>0, <1>1 DEF ValidIsSealed
<1>4. SlotsConsecutive'
  <2>1. ~(settings_valid(slot'[0]) /\ settings_valid(slot'[1]))
    BY <1>0, <1>1
  <2> QED
    BY <2>1 DEF SlotsConsecutive
<1>5. InactiveSlot(slot') = InactiveSlot(slot)
  BY <1>2 DEF InactiveSlot
<1>6. NewSeq(slot') = NewSeq(slot)
  BY <1>2 DEF NewSeq
<1>7. \A z : settings_pick(slot', z) = settings_pick(slot, z)
  BY <1>2 DEF settings_pick
<1> QED
  BY <1>1, <1>2, <1>3, <1>4, <1>5, <1>6, <1>7

\* Completing the image puts it in charge.
LEMMA CompleteKeeps ==
  ASSUME IInv, pc = "program", next = buf[HDR],
         slot' = [slot EXCEPT ![target][next] = buf[next]]
  PROVE  /\ IsSlots(slot')
         /\ slot'[target] = buf
         /\ ValidIsSealed' /\ SlotsConsecutive'
         /\ settings_newest_slot(slot') = target
         /\ \A z : settings_pick(slot', z) = settings_load_one(buf, z)
<1>0. /\ IsSlots(slot) /\ target \in 0..1 /\ target = InactiveSlot(slot)
      /\ IsSealed(buf) /\ buf[SEQ] = NewSeq(slot)
      /\ next \in CRC..buf[HDR] /\ slot[target] = Partial(buf, next)
      /\ ValidIsSealed
  BY DEF IInv, WriteInv, TypeOK
<1>1. slot' = [slot EXCEPT ![target] = buf]
  <2>1. [slot[target] EXCEPT ![next] = buf[next]] = buf
    BY <1>0, PartialGrows
  <2> QED
    BY <1>0, <2>1 DEF IsSlots
<1>2. IsSlots(slot') /\ slot'[target] = buf
      /\ slot'[1 - target] = slot[1 - target]
  <2> DEFINE s2 == [slot EXCEPT ![target] = buf]
  <2>0. IsImage(buf)
    BY <1>0, SealedTyped
  <2>3. IsSlots(slot) /\ target \in 0..1
    BY <1>0
  <2>1. IsSlots(s2) /\ s2[target] = buf /\ s2[1 - target] = slot[1 - target]
    BY <2>0, <2>3, SlotsUpdate
  <2>2. slot' = s2
    BY <1>1
  <2> HIDE DEF s2
  <2> QED
    BY <2>1, <2>2
<1>3. ValidIsSealed'
  BY <1>0, <1>2 DEF ValidIsSealed
<1>4. SlotsConsecutive' /\ settings_newest_slot(slot') = target
  <2>1. \A t \in 0..1 : settings_valid(slot[t]) => IsSealed(slot[t])
    BY <1>0 DEF ValidIsSealed
  <2>2. LET t == InactiveSlot(slot)
            s2 == [slot EXCEPT ![t] = buf]
        IN  /\ settings_newest_slot(s2) = t
            /\ settings_valid(s2[0]) /\ settings_valid(s2[1]) =>
                 SeqDiff(s2[1][SEQ], s2[0][SEQ]) \in {1, SeqMod - 1}
    BY <1>0, <2>1, CommitTakesOver
  <2> QED
    BY <1>0, <1>1, <2>2 DEF SlotsConsecutive
<1>5. \A z : settings_pick(slot', z) = settings_load_one(buf, z)
  <2>1. settings_newest_slot(slot') # -1 /\ slot'[settings_newest_slot(slot')] = buf
    BY <1>0, <1>2, <1>4
  <2> QED
    BY <2>1 DEF settings_pick
<1> QED
  BY <1>2, <1>3, <1>4, <1>5

\* What a cut erase or a cut word leaves in the sector is invalid, unless the
\* erase never began or the word was the last one and is complete.
LEMMA CutEraseDamage ==
  ASSUME NEW old, IsImage(old), NEW img \in CutErase(old), img # old
  PROVE  IsImage(img) /\ ~settings_valid(img)
<1>1. CASE img = Erased
  <2>1. Erased[HDR] = Blank
    BY DEF Erased, Word, CRC, HDR, EXT
  <2> QED
    BY <1>1, <2>1, HeaderInvalid, ErasedTyped
<1>2. CASE img = [old EXCEPT ![HDR] = Garbage]
  <2>0. DOMAIN old = Word
    BY DEF IsImage
  <2>a. HDR \in Word /\ CRC \in Word /\ HDR # CRC
    BY DEF Word, CRC, HDR, EXT
  <2>1. /\ img = [i \in Word |-> IF i = HDR THEN Garbage ELSE old[i]]
        /\ HDR \in Word /\ CRC \in Word /\ HDR # CRC
    BY <1>2, <2>0, <2>a
  <2>2. img[HDR] = Garbage /\ \A i \in Word : i # HDR => img[i] = old[i]
    BY <2>1
  <2>3. \A i \in HDR..EXT : i \in Word
    BY DEF Word, CRC, HDR, EXT
  <2>4. Garbage \in DataWord
    BY DEF DataWord
  <2>5. \A i \in HDR..EXT : img[i] \in DataWord
    BY <2>2, <2>3, <2>4 DEF IsImage
  <2>6. img = [i \in Word |-> img[i]]
    <3> DEFINE f == [i \in Word |-> IF i = HDR THEN Garbage ELSE old[i]]
    <3>1. f = [i \in Word |-> f[i]]
      OBVIOUS
    <3> HIDE DEF f
    <3>2. img = f
      BY <2>1 DEF f
    <3> QED
      BY <3>1, <3>2
  <2>7. img[CRC] = old[CRC]
    BY <2>1, <2>2
  <2> QED
    BY <2>2, <2>5, <2>6, <2>7, HeaderInvalid DEF IsImage
<1> QED
  BY <1>1, <1>2 DEF CutErase

\* A partly programmed sector, its last word damaged or not, has the type of a
\* sector.
LEMMA PartialTyped ==
  ASSUME NEW b, IsSealed(b), NEW k \in Word, NEW w \in {Blank, Garbage}
  PROVE  IsImage(Partial(b, k)) /\ IsImage([Partial(b, k) EXCEPT ![k] = w])
<1> DEFINE p == Partial(b, k)
           q == [p EXCEPT ![k] = w]
<1>1. /\ p = [i \in Word |-> IF i < k THEN b[i] ELSE Blank]
      /\ q = [i \in Word |-> IF i = k THEN w ELSE p[i]]
  BY DEF Partial
<1> HIDE DEF p, q
<1>2. \A i \in Word : /\ p[i] \in {b[i], Blank}
                      /\ q[i] \in {b[i], Blank, Garbage}
  BY <1>1
<1>3. \A i \in HDR..EXT : i \in Word
  BY DEF Word, CRC, HDR, EXT
<1>4. /\ \A i \in HDR..EXT : b[i] \in DataWord
      /\ \/ b[CRC] \in {Blank, Garbage}
         \/ \E z \in {AppSize, BootSize} : b[CRC] \in [HDR..z -> DataWord]
  BY SealedTyped DEF IsImage
<1>5. \A i \in HDR..EXT : p[i] \in DataWord /\ q[i] \in DataWord
  BY <1>2, <1>3, <1>4 DEF DataWord
<1>6. p = [i \in Word |-> p[i]] /\ q = [i \in Word |-> q[i]]
  BY <1>1
<1>7. p[CRC] \in {b[CRC], Blank} /\ q[CRC] \in {b[CRC], Blank, Garbage}
  BY <1>2 DEF Word, CRC, EXT
<1>8. IsImage(p) /\ IsImage(q)
  BY <1>4, <1>5, <1>6, <1>7 DEF IsImage
<1> QED
  BY <1>8 DEF p, q

\* What the write in progress does to the sectors, whether a word is
\* completed, damaged, or the power goes: the loaded content changes only when
\* the last word completes, and then to the buffer's.
LEMMA EraseStep ==
  ASSUME IInv, pc = "erase", NEW img \in CutErase(slot[target]),
         slot' = [slot EXCEPT ![target] = img]
  PROVE  /\ IsSlots(slot') /\ ValidIsSealed' /\ SlotsConsecutive'
         /\ settings_newest_slot(slot') = settings_newest_slot(slot)
         /\ \A z : settings_pick(slot', z) = settings_pick(slot, z)
<1>1. IsSlots(slot) /\ target \in 0..1 /\ ValidIsSealed /\ SlotsConsecutive
  BY DEF IInv, TypeOK
<1>2. IsImage(slot[target])
  BY <1>1 DEF IsSlots
<1>3. CASE img = slot[target]
  <2>1. slot' = slot
    BY <1>1, <1>3 DEF IsSlots
  <2> QED
    BY <1>1, <2>1 DEF ValidIsSealed, SlotsConsecutive
<1>4. CASE img # slot[target]
  <2>1. IsImage(img) /\ ~settings_valid(img)
    BY <1>2, <1>4, CutEraseDamage
  <2> QED
    BY <2>1, DamageKeeps
<1> QED
  BY <1>3, <1>4

\* A word damaged by a failed or cut program keeps the sectors' invariant, the
\* newest sector and every load.
LEMMA WordDamage ==
  ASSUME IInv, pc = "program", NEW w \in {Blank, Garbage},
         slot' = [slot EXCEPT ![target][next] = w]
  PROVE  /\ IsSlots(slot') /\ ValidIsSealed' /\ SlotsConsecutive'
         /\ settings_newest_slot(slot') = settings_newest_slot(slot)
         /\ \A z : settings_pick(slot', z) = settings_pick(slot, z)
<1>1. /\ IsSlots(slot) /\ target \in 0..1 /\ IsSealed(buf)
      /\ next \in CRC..buf[HDR] /\ next \in Word
      /\ slot[target] = Partial(buf, next)
  BY DEF IInv, TypeOK, WriteInv
<1>2. slot' = [slot EXCEPT ![target] = [Partial(buf, next) EXCEPT ![next] = w]]
  BY <1>1 DEF IsSlots
<1>3. /\ IsImage([Partial(buf, next) EXCEPT ![next] = w])
      /\ ~settings_valid([Partial(buf, next) EXCEPT ![next] = w])
  BY <1>1, PartialTyped, PartialInvalid
<1> QED
  BY <1>2, <1>3, DamageKeeps

\* Programming a word that is not the last: the sector holds one more word of
\* the buffer, and no load changes.
LEMMA WordGrows ==
  ASSUME IInv, pc = "program", next # buf[HDR],
         slot' = [slot EXCEPT ![target][next] = buf[next]]
  PROVE  /\ IsSlots(slot') /\ ValidIsSealed' /\ SlotsConsecutive'
         /\ slot'[target] = Partial(buf, next + 1)
         /\ next + 1 \in CRC..buf[HDR] /\ next + 1 \in Word
         /\ settings_newest_slot(slot') = settings_newest_slot(slot)
         /\ InactiveSlot(slot') = InactiveSlot(slot)
         /\ NewSeq(slot') = NewSeq(slot)
         /\ \A z : settings_pick(slot', z) = settings_pick(slot, z)
<1>1. /\ IsSlots(slot) /\ target \in 0..1 /\ IsSealed(buf)
      /\ next \in CRC..buf[HDR] /\ next \in Word
      /\ slot[target] = Partial(buf, next)
  BY DEF IInv, TypeOK, WriteInv
<1>2. buf[HDR] \in PAY..EXT
  BY <1>1, SealedWords
<1>3. next + 1 \in CRC..buf[HDR] /\ next + 1 \in Word /\ next < buf[HDR]
  BY <1>1, <1>2 DEF Word, CRC, PAY, EXT
<1>4. slot' = [slot EXCEPT ![target] = Partial(buf, next + 1)]
  <2>1. [Partial(buf, next) EXCEPT ![next] = buf[next]] = Partial(buf, next + 1)
    BY <1>1, <1>3, PartialGrows
  <2> QED
    BY <1>1, <2>1 DEF IsSlots
<1>5. IsImage(Partial(buf, next + 1)) /\ ~settings_valid(Partial(buf, next + 1))
  BY <1>1, <1>3, PartialTyped, PartialInvalid
<1> QED
  BY <1>3, <1>4, <1>5, DamageKeeps

\* A save prepares a sealed struct with the next sequence number, aimed at the
\* sector that is not the newest.
LEMMA BeginStep ==
  ASSUME IInv, NEW w \in {"app", "boot"}, NEW c \in Content, BeginSave(w, c)
  PROVE  IInv'
<1> DEFINE n == NewSeq(slot)
<1>1. /\ IsSlots(slot) /\ ValidIsSealed /\ SlotsConsecutive /\ TypeOK
  BY DEF IInv, TypeOK
<1>2. n \in Seqs
  <2>1. CASE settings_newest_slot(slot) = -1
    <3>1. 0 \in Seqs /\ n = SeqInc(0)
      BY <2>1, SeqModAssumption DEF NewSeq, Seqs
    <3> QED
      BY <3>1, SerialOrder
  <2>2. CASE settings_newest_slot(slot) # -1
    <3>1. IsSealed(slot[settings_newest_slot(slot)])
      BY <1>1, <2>2, NewestRange DEF ValidIsSealed
    <3>2. slot[settings_newest_slot(slot)][SEQ] \in Seqs
      BY <3>1, SealedWords
    <3>3. n = SeqInc(slot[settings_newest_slot(slot)][SEQ])
      BY <2>2 DEF NewSeq
    <3> QED
      BY <3>2, <3>3, SerialOrder
  <2> QED
    BY <2>1, <2>2
<1>3. Size(w) \in {AppSize, BootSize}
  BY DEF Size
<1>4. /\ buf' = settings_seal(c, n, Size(w))
      /\ target' = InactiveSlot(slot) /\ next' = CRC /\ pc' = "erase"
      /\ rc' = "none" /\ slot' = slot /\ running' = running
  BY DEF BeginSave
<1> HIDE DEF n
<1>5. IsSealed(buf') /\ buf'[SEQ] = n
  BY <1>2, <1>3, <1>4, SealIsSealed
<1>6. InactiveSlot(slot) \in 0..1 /\ settings_newest_slot(slot) # InactiveSlot(slot)
  BY NewestRange DEF InactiveSlot
<1>7. TypeOK'
  BY <1>1, <1>4, <1>5, <1>6 DEF TypeOK, IsSealed, Word, CRC, EXT
<1>8. WriteInv'
  BY <1>4, <1>5, <1>6 DEF WriteInv, n, IsSealed
<1>9. ValidIsSealed' /\ SlotsConsecutive'
  BY <1>1, <1>4 DEF ValidIsSealed, SlotsConsecutive, IsSealed
<1> QED
  BY <1>7, <1>8, <1>9 DEF IInv

\* The contents the three kinds of save ask for.
LEMMA BeginContent ==
  ASSUME IInv, Begin
  PROVE  \E w \in {"app", "boot"}, c \in Content : BeginSave(w, c)
<1>1. ValidIsSealed
  BY DEF IInv
<1>2. Loaded("app") \in Content /\ Loaded("boot") \in Content
  BY <1>1, LoadedTyped DEF Loaded, Size
<1>3. CASE \E p \in Pay, e \in Ext : SettingsSave(p, e)
  <2> PICK p \in Pay, e \in Ext : SettingsSave(p, e)
    BY <1>3
  <2>1. [Loaded("app") EXCEPT !.pay = p,
                              !.ext = IF EXT <= AppSize THEN e ELSE ExtDefault]
          \in Content
    BY <1>2, DefaultAssumption DEF Content
  <2> QED
    BY <2>1 DEF SettingsSave
<1>4. CASE \E c \in Core : SettingsSetCore(c)
  <2> PICK c \in Core : SettingsSetCore(c)
    BY <1>4
  <2>1. [Loaded("app") EXCEPT !.core = c] \in Content
    BY <1>2 DEF Content
  <2> QED
    BY <2>1 DEF SettingsSetCore
<1>5. CASE \E c \in Core : flash_write_settings(c)
  <2> PICK c \in Core : flash_write_settings(c)
    BY <1>5
  <2>1. [Loaded("boot") EXCEPT !.core = c] \in Content
    BY <1>2 DEF Content
  <2> QED
    BY <2>1 DEF flash_write_settings
<1> QED
  BY <1>3, <1>4, <1>5 DEF Begin

\* Every step keeps the invariant.
LEMMA StepInv == IInv /\ [Next]_vars => IInv'
<1> SUFFICES ASSUME IInv, [Next]_vars PROVE IInv'
  OBVIOUS
<1>0. /\ IsSlots(slot) /\ ValidIsSealed /\ SlotsConsecutive
      /\ running \in {"boot", "app"} /\ target \in 0..1 /\ next \in Word
      /\ rc \in {"none", "ok", "error"}
      /\ buf = Erased \/ IsSealed(buf)
  BY DEF IInv, TypeOK
<1>1. CASE Begin
  BY <1>1, BeginContent, BeginStep
<1>2. CASE EraseOk
  <2>1. Erased \in CutErase(slot[target])
    BY DEF CutErase
  <2>2. pc = "erase" /\ slot' = [slot EXCEPT ![target] = Erased]
    BY <1>2 DEF EraseOk
  <2>3. /\ IsImage(Erased) /\ ~settings_valid(Erased)
    <3>1. Erased[HDR] = Blank
      BY DEF Erased, Word, CRC, HDR, EXT
    <3> QED
      BY <3>1, ErasedTyped, HeaderInvalid
  <2>4. /\ IsSlots(slot') /\ ValidIsSealed' /\ SlotsConsecutive'
        /\ settings_newest_slot(slot') = settings_newest_slot(slot)
        /\ InactiveSlot(slot') = InactiveSlot(slot)
        /\ NewSeq(slot') = NewSeq(slot)
        /\ slot'[target] = Erased
    BY <2>2, <2>3, DamageKeeps
  <2>5. IsSealed(buf) /\ next = CRC /\ target = InactiveSlot(slot)
        /\ buf[SEQ] = NewSeq(slot) /\ settings_newest_slot(slot) # target
    BY <2>2 DEF IInv, WriteInv
  <2>6. CRC \in CRC..buf[HDR]
    BY <2>5, SealedWords DEF CRC, PAY, EXT
  <2>7. Partial(buf, CRC) = Erased
    BY <2>5, <2>6, PartialGrows
  <2>8. pc' = "program" /\ UNCHANGED <<running, buf, target, next, rc>>
    BY <1>2 DEF EraseOk
  <2>9. TypeOK'
    BY <1>0, <2>4, <2>8 DEF TypeOK, IsSealed
  <2>10. WriteInv'
    BY <2>4, <2>5, <2>6, <2>7, <2>8 DEF WriteInv, IsSealed, Partial
  <2> QED
    BY <2>4, <2>9, <2>10 DEF IInv
<1>3. CASE EraseFail
  <2>1. PICK img \in CutErase(slot[target]) : slot' = [slot EXCEPT ![target] = img]
    BY <1>3 DEF EraseFail
  <2>2. pc = "erase" /\ pc' = "idle" /\ rc' = "error"
        /\ UNCHANGED <<running, buf, target, next>>
    BY <1>3 DEF EraseFail
  <2>3. IsSlots(slot') /\ ValidIsSealed' /\ SlotsConsecutive'
    BY <2>1, <2>2, EraseStep
  <2> QED
    BY <1>0, <2>2, <2>3 DEF IInv, TypeOK, WriteInv, IsSealed
<1>4. CASE ProgramWord
  <2>1. pc = "program" /\ slot' = [slot EXCEPT ![target][next] = buf[next]]
        /\ UNCHANGED <<running, buf, target, rc>>
    BY <1>4 DEF ProgramWord
  <2>2. IsSealed(buf) /\ target = InactiveSlot(slot)
        /\ buf[SEQ] = NewSeq(slot) /\ settings_newest_slot(slot) # target
    BY <2>1 DEF IInv, WriteInv
  <2>3. CASE next = buf[HDR]
    <3>1. pc' = "lock" /\ next' = next
      BY <1>4, <2>3 DEF ProgramWord
    <3>2. IsSlots(slot') /\ ValidIsSealed' /\ SlotsConsecutive'
          /\ slot'[target] = buf /\ settings_newest_slot(slot') = target
      BY <2>1, <2>3, CompleteKeeps
    <3>3. TypeOK'
      BY <1>0, <2>1, <3>1, <3>2 DEF TypeOK, IsSealed
    <3>4. WriteInv'
      BY <2>1, <2>2, <3>1, <3>2 DEF WriteInv, IsSealed
    <3> QED
      BY <3>2, <3>3, <3>4 DEF IInv
  <2>4. CASE next # buf[HDR]
    <3>1. pc' = "program" /\ next' = next + 1
      BY <1>4, <2>1, <2>4 DEF ProgramWord
    <3>2. /\ IsSlots(slot') /\ ValidIsSealed' /\ SlotsConsecutive'
          /\ slot'[target] = Partial(buf, next + 1)
          /\ next + 1 \in CRC..buf[HDR] /\ next + 1 \in Word
          /\ settings_newest_slot(slot') = settings_newest_slot(slot)
          /\ InactiveSlot(slot') = InactiveSlot(slot)
          /\ NewSeq(slot') = NewSeq(slot)
      BY <2>1, <2>4, WordGrows
    <3>3. TypeOK'
      BY <1>0, <2>1, <3>1, <3>2 DEF TypeOK, IsSealed
    <3>4. WriteInv'
      BY <2>1, <2>2, <3>1, <3>2 DEF WriteInv, IsSealed, Partial
    <3> QED
      BY <3>2, <3>3, <3>4 DEF IInv
  <2> QED
    BY <2>3, <2>4
<1>5. ASSUME pc = "program", pc' = "idle", NEW w \in CutWord(buf[next]),
             slot' = [slot EXCEPT ![target][next] = w],
             running' \in {"boot", "app"}, rc' \in {"none", "ok", "error"},
             UNCHANGED <<buf, target, next>>
      PROVE  IInv'
  <2>1. IsSlots(slot') /\ ValidIsSealed' /\ SlotsConsecutive'
    <3>1. CASE w \in {Blank, Garbage}
      BY <1>5, <3>1, WordDamage
    <3>2. CASE w = buf[next] /\ next = buf[HDR]
      BY <1>5, <3>2, CompleteKeeps
    <3>3. CASE w = buf[next] /\ next # buf[HDR]
      BY <1>5, <3>3, WordGrows
    <3> QED
      BY <3>1, <3>2, <3>3 DEF CutWord
  <2> QED
    BY <1>0, <1>5, <2>1 DEF IInv, TypeOK, WriteInv, IsSealed
<1>6. CASE ProgramFail
  BY <1>0, <1>5, <1>6 DEF ProgramFail
<1>7. CASE ReturnOk
  BY <1>0, <1>7 DEF ReturnOk, IInv, TypeOK, WriteInv, ValidIsSealed, SlotsConsecutive,
                    IsSealed
<1>8. CASE BootApp
  BY <1>0, <1>8 DEF BootApp, IInv, TypeOK, WriteInv, ValidIsSealed, SlotsConsecutive,
                    IsSealed
<1>9. CASE Crash
  <2>1. pc' = "idle" /\ running' = "boot" /\ rc' = "none"
        /\ UNCHANGED <<buf, target, next>>
    BY <1>9 DEF Crash
  <2>2. CASE pc = "erase"
    <3>1. PICK img \in CutErase(slot[target]) : slot' = [slot EXCEPT ![target] = img]
      BY <1>9, <2>2 DEF Crash
    <3>2. IsSlots(slot') /\ ValidIsSealed' /\ SlotsConsecutive'
      BY <2>2, <3>1, EraseStep
    <3> QED
      BY <1>0, <2>1, <3>2 DEF IInv, TypeOK, WriteInv, IsSealed
  <2>3. CASE pc = "program"
    <3>1. PICK w \in CutWord(buf[next]) : slot' = [slot EXCEPT ![target][next] = w]
      BY <1>9, <2>3 DEF Crash
    <3> QED
      BY <1>5, <2>1, <2>3, <3>1
  <2>4. CASE pc \notin {"erase", "program"}
    <3>1. slot' = slot
      BY <1>9, <2>4 DEF Crash
    <3> QED
      BY <1>0, <2>1, <3>1 DEF IInv, TypeOK, WriteInv, ValidIsSealed, SlotsConsecutive,
                              IsSealed
  <2> QED
    BY <2>2, <2>3, <2>4
<1>10. CASE UNCHANGED vars
  BY <1>0, <1>10 DEF vars, IInv, TypeOK, WriteInv, ValidIsSealed, SlotsConsecutive,
                     IsSealed, Partial
<1> QED
  BY <1>1, <1>2, <1>3, <1>4, <1>6, <1>7, <1>8, <1>9, <1>10 DEF Next

\* The invariant holds in every reachable state.
THEOREM InvariantHolds == Spec => []IInv
  BY InitInv, StepInv, PTL DEF Spec

\* Every variable keeps its type; a settings sector is always six words.
THEOREM TypeCorrect == Spec => []TypeOK
<1>1. IInv => TypeOK
  BY DEF IInv
<1> QED
  BY <1>1, InvariantHolds, PTL

\* settings_valid accepts only an image some writer sealed.
THEOREM OnlySealedValid == Spec => []ValidIsSealed
<1>1. IInv => ValidIsSealed
  BY DEF IInv
<1> QED
  BY <1>1, InvariantHolds, PTL

\* Two valid sectors are consecutive writes, whatever the modulus.
THEOREM AlwaysConsecutive == Spec => []SlotsConsecutive
<1>1. IInv => SlotsConsecutive
  BY DEF IInv
<1> QED
  BY <1>1, InvariantHolds, PTL

\* The sector under erase or program is never the one a load would use.
THEOREM NewestSpared == Spec => []WriteSparesNewest
<1>1. IInv => WriteSparesNewest
  BY DEF IInv, WriteInv, WriteSparesNewest
<1> QED
  BY <1>1, InvariantHolds, PTL

(***************************************************************************)
(* Loads: what a step does to the content a load returns.                  *)
(***************************************************************************)
\* A step either leaves the loaded content and the selection alone, or it is
\* the completion of the last word.
LoadKept ==
  /\ settings_newest_slot(slot') = settings_newest_slot(slot)
  /\ \A z : settings_pick(slot', z) = settings_pick(slot, z)

LoadTaken ==
  /\ settings_newest_slot(slot') \in 0..1
  /\ \A z : settings_pick(slot', z) = settings_load_one(buf, z)

\* A step that leaves the sectors alone leaves what every load returns alone.
LEMMA SlotSame == slot' = slot => LoadKept
  BY DEF LoadKept

\* An erase of the target, finished or cut, changes no load.
LEMMA EraseKeepsLoad ==
  ASSUME IInv, pc = "erase", NEW img \in CutErase(slot[target]),
         slot' = [slot EXCEPT ![target] = img]
  PROVE  LoadKept
  BY EraseStep DEF LoadKept

\* A cut word changes no load, unless it was the last one and complete.
LEMMA CutWordLoad ==
  ASSUME IInv, pc = "program", NEW w \in CutWord(buf[next]),
         slot' = [slot EXCEPT ![target][next] = w]
  PROVE  LoadKept \/ (w = buf[next] /\ next = buf[HDR] /\ LoadTaken)
<1>0. target \in 0..1
  BY DEF IInv, TypeOK
<1>1. CASE w \in {Blank, Garbage}
  BY <1>1, WordDamage DEF LoadKept
<1>2. CASE w = buf[next] /\ next = buf[HDR]
  BY <1>0, <1>2, CompleteKeeps DEF LoadTaken
<1>3. CASE w = buf[next] /\ next # buf[HDR]
  BY <1>3, WordGrows DEF LoadKept
<1> QED
  BY <1>1, <1>2, <1>3 DEF CutWord

\* Every step keeps what every load returns, or makes it the buffer's content.
LEMMA StepLoads == IInv /\ [Next]_vars => LoadKept \/ LoadTaken
<1> SUFFICES ASSUME IInv, [Next]_vars PROVE LoadKept \/ LoadTaken
  OBVIOUS
<1>1. CASE Begin \/ ReturnOk \/ BootApp \/ UNCHANGED vars
  <2>1. slot' = slot
    BY <1>1 DEF Begin, SettingsSave, SettingsSetCore, flash_write_settings, BeginSave,
                ReturnOk, BootApp, vars
  <2> QED
    BY <2>1, SlotSame
<1>2. CASE EraseOk \/ EraseFail
  <2>1. Erased \in CutErase(slot[target])
    BY DEF CutErase
  <2>2. PICK img \in CutErase(slot[target]) : slot' = [slot EXCEPT ![target] = img]
    BY <1>2, <2>1 DEF EraseOk, EraseFail
  <2> QED
    BY <1>2, <2>2, EraseKeepsLoad DEF EraseOk, EraseFail
<1>3. CASE ProgramWord \/ ProgramFail
  <2>1. buf[next] \in CutWord(buf[next])
    BY DEF CutWord
  <2>2. PICK w \in CutWord(buf[next]) : slot' = [slot EXCEPT ![target][next] = w]
    BY <1>3, <2>1 DEF ProgramWord, ProgramFail
  <2> QED
    BY <1>3, <2>2, CutWordLoad DEF ProgramWord, ProgramFail
<1>4. CASE Crash
  <2>1. CASE pc = "erase"
    BY <1>4, <2>1, EraseKeepsLoad DEF Crash
  <2>2. CASE pc = "program"
    BY <1>4, <2>2, CutWordLoad DEF Crash
  <2>3. CASE pc \notin {"erase", "program"}
    BY <1>4, <2>3, SlotSame DEF Crash
  <2> QED
    BY <2>1, <2>2, <2>3
<1> QED
  BY <1>1, <1>2, <1>3, <1>4 DEF Next

\* A board that has stored settings never goes back to defaults.
THEOREM SettingsNeverLost == Spec => NeverBackToDefaults
<1>1. IInv /\ [Next]_vars =>
        [settings_newest_slot(slot) # -1 => settings_newest_slot(slot') # -1]_vars
  BY StepLoads DEF LoadKept, LoadTaken
<1> QED
  BY <1>1, InvariantHolds, PTL DEF Spec, NeverBackToDefaults

(***************************************************************************)
(* Refinement of the atomic durable value.                                 *)
(***************************************************************************)
\* What the write in progress will make a load return is a Content.
LEMMA BufContent ==
  ASSUME NEW b, IsSealed(b)
  PROVE  settings_load_one(b, AppSize) \in Content
  BY SealedWords, DefaultAssumption, SizeAssumption
     DEF settings_load_one, Content, PAY, EXT

\* Initial states map to initial states of the abstract store.
LEMMA InitRefines == Init => Abstract!AInit
<1> SUFFICES ASSUME Init PROVE Abstract!AInit
  OBVIOUS
<1>1. Erased[HDR] = Blank
  BY DEF Erased, Word, CRC, HDR, EXT
<1>2. ~settings_valid(slot[0]) /\ ~settings_valid(slot[1])
  BY <1>1, HeaderInvalid DEF Init
<1>3. settings_newest_slot(slot) = -1
  BY <1>2 DEF settings_newest_slot
<1>4. Loaded("app") = DefaultContent
  BY <1>3 DEF Loaded, settings_pick
<1> QED
  BY <1>4 DEF Abstract!AInit, Init

\* Every step maps to a step of the abstract store, or to a stutter.
LEMMA StepRefines ==
  IInv /\ IInv' /\ [Next]_vars => [Abstract!ANext]_(Abstract!avars)
<1> SUFFICES ASSUME IInv, IInv', [Next]_vars
             PROVE  [Abstract!ANext]_(Abstract!avars)
  OBVIOUS
<1> DEFINE st == Loaded("app")
           pd == settings_load_one(buf, AppSize)
<1>0. NoSave \notin Content
  BY NoSaveAssumption DEF Content
<1>1. pc # "idle" => pd \in Content
  BY BufContent DEF IInv, WriteInv
<1>2. pc' # "idle" => pd' \in Content
  <2>1. pc' # "idle" => IsSealed(buf')
    BY DEF IInv, WriteInv, IsSealed
  <2> QED
    BY <2>1, BufContent DEF settings_load_one
<1>3. LoadKept => st' = st
  BY DEF LoadKept, Loaded, Size
<1>4. LoadTaken => st' = pd
  BY DEF LoadTaken, Loaded, Size
<1>5. CASE Begin
  <2>1. pc = "idle" /\ pc' = "erase" /\ rc' = "none" /\ slot' = slot
    BY <1>5 DEF Begin, SettingsSave, SettingsSetCore, flash_write_settings, BeginSave
  <2>2. Loaded("app")' = Loaded("app")
    BY <2>1 DEF Loaded
  <2>3. Abstract!ABegin(pd')
    BY <2>1, <2>2 DEF Abstract!ABegin
  <2> QED
    BY <1>2, <2>1, <2>3 DEF Abstract!ANext
<1>6. CASE EraseOk
  <2>1. pc = "erase" /\ pc' = "program" /\ buf' = buf /\ rc' = rc
        /\ slot' = [slot EXCEPT ![target] = Erased]
    BY <1>6 DEF EraseOk
  <2>2. LoadKept
    BY <2>1, EraseKeepsLoad DEF CutErase
  <2> QED
    BY <1>3, <2>1, <2>2 DEF Abstract!avars
<1>7. CASE EraseFail
  <2>1. pc = "erase" /\ pc' = "idle" /\ rc' = "error"
    BY <1>7 DEF EraseFail
  <2>2. LoadKept
    BY <1>7, EraseKeepsLoad DEF EraseFail
  <2> QED
    BY <1>0, <1>1, <1>3, <2>1, <2>2 DEF Abstract!ANext, Abstract!AReturnError
<1>8. CASE ProgramWord
  <2>1. pc = "program" /\ slot' = [slot EXCEPT ![target][next] = buf[next]]
        /\ buf' = buf /\ rc' = rc /\ pc' \in {"program", "lock"}
    BY <1>8 DEF ProgramWord
  <2>2. LoadKept \/ LoadTaken
    BY <2>1, CutWordLoad DEF CutWord
  <2> QED
    BY <1>0, <1>1, <1>3, <1>4, <2>1, <2>2
       DEF Abstract!ANext, Abstract!ATakeEffect, Abstract!avars
<1>9. CASE ProgramFail
  <2>1. pc = "program" /\ pc' = "idle" /\ rc' = "error"
    BY <1>9 DEF ProgramFail
  <2>2. LoadKept \/ LoadTaken
    BY <1>9, CutWordLoad DEF ProgramFail
  <2> QED
    BY <1>0, <1>1, <1>3, <1>4, <2>1, <2>2 DEF Abstract!ANext, Abstract!AReturnError
<1>10. CASE ReturnOk
  <2>1. pc = "lock" /\ pc' = "idle" /\ rc' = "ok" /\ slot' = slot
    BY <1>10 DEF ReturnOk
  <2>2. target \in 0..1 /\ settings_newest_slot(slot) = target /\ slot[target] = buf
    BY <2>1 DEF IInv, WriteInv, TypeOK
  <2>3. Loaded("app") = pd
    BY <2>2 DEF Loaded, settings_pick, Size
  <2>4. Loaded("app")' = Loaded("app")
    BY <2>1 DEF Loaded
  <2> QED
    BY <1>0, <1>1, <2>1, <2>3, <2>4 DEF Abstract!ANext, Abstract!AReturnOk
<1>11. CASE BootApp
  <2>1. slot' = slot /\ pc' = pc /\ buf' = buf /\ rc' = rc
    BY <1>11 DEF BootApp
  <2> QED
    BY <2>1 DEF Abstract!avars, Loaded
<1>12. CASE Crash
  <2>1. pc' = "idle" /\ rc' = "none"
    BY <1>12 DEF Crash
  <2>2. CASE pc \in {"erase", "program"}
    <3>1. LoadKept \/ LoadTaken
      BY <1>12, StepLoads DEF Next
    <3> QED
      BY <1>0, <1>1, <1>3, <1>4, <2>1, <2>2, <3>1 DEF Abstract!ANext, Abstract!ACrash
  <2>3. CASE pc \notin {"erase", "program"}
    <3>1. LoadKept
      BY <1>12, <2>3, SlotSame DEF Crash
    <3> QED
      BY <1>3, <2>1, <3>1 DEF Abstract!ANext, Abstract!ACrash
  <2> QED
    BY <2>2, <2>3
<1>13. CASE UNCHANGED vars
  BY <1>13 DEF vars, Abstract!avars, Loaded
<1> QED
  BY <1>5, <1>6, <1>7, <1>8, <1>9, <1>10, <1>11, <1>12, <1>13 DEF Next

\* The two-sector store implements the atomic durable value: a save takes
\* effect entirely or not at all, whatever fails and whenever the power goes.
THEOREM StoreIsAtomic == Spec => AtomicDurable
  BY InitRefines, StepRefines, InvariantHolds, PTL
     DEF Spec, AtomicDurable, Abstract!ASpec

(***************************************************************************)
(* The fields both binaries know.                                          *)
(***************************************************************************)
\* While the bootloader writes, its buffer holds the application's payload.
SharedInv ==
  running = "boot" /\ pc # "idle" =>
    settings_load_one(buf, AppSize).pay = Loaded("app").pay

\* The payload a load returns does not depend on the reader's struct size.
LEMMA PayAnySize == Loaded("boot").pay = Loaded("app").pay
  BY DEF Loaded, Size, settings_pick, settings_load_one, DefaultContent

\* A step taken in the bootloader keeps the payload.
LEMMA StepKeepsPay ==
  ASSUME IInv, SharedInv, [Next]_vars, running = "boot"
  PROVE  Loaded("app")'.pay = Loaded("app").pay
<1>1. CASE pc = "idle"
  <2>1. slot' = slot
    BY <1>1 DEF Next, Begin, SettingsSave, SettingsSetCore, flash_write_settings,
                BeginSave, EraseOk, EraseFail, ProgramWord, ProgramFail, ReturnOk,
                BootApp, Crash, vars
  <2> QED
    BY <2>1 DEF Loaded
<1>2. CASE pc # "idle"
  <2>1. LoadKept => Loaded("app")' = Loaded("app")
    BY DEF LoadKept, Loaded, Size
  <2>2. LoadTaken => Loaded("app")' = settings_load_one(buf, AppSize)
    BY DEF LoadTaken, Loaded, Size
  <2>3. settings_load_one(buf, AppSize).pay = Loaded("app").pay
    BY <1>2 DEF SharedInv
  <2> QED
    BY <2>1, <2>2, <2>3, StepLoads
<1> QED
  BY <1>1, <1>2

\* A save of the bootloader puts the stored payload in its buffer.
LEMMA BootBuffer ==
  ASSUME IInv, NEW c \in Core, flash_write_settings(c)
  PROVE  settings_load_one(buf', AppSize).pay = Loaded("app").pay
<1> DEFINE content == [Loaded("boot") EXCEPT !.core = c]
<1>1. buf' = settings_seal(content, NewSeq(slot), BootSize)
  BY DEF flash_write_settings, BeginSave, Size
<1>2. Loaded("boot") \in Content
  BY LoadedTyped DEF IInv, Loaded, Size
<1>3. content.pay = Loaded("boot").pay
  BY <1>2 DEF Content
<1> HIDE DEF content
<1>4. buf'[HDR] = BootSize /\ buf'[PAY] = content.pay
  BY <1>1 DEF settings_seal, Unsealed, Word, CRC, HDR, SEQ, CORE, PAY, EXT
<1>5. settings_load_one(buf', AppSize).pay = content.pay
  BY <1>4, SizeAssumption DEF settings_load_one, PAY, EXT
<1> QED
  BY <1>3, <1>5, PayAnySize

\* Every step keeps SharedInv.
LEMMA SharedStep == IInv /\ SharedInv /\ [Next]_vars => SharedInv'
<1> SUFFICES ASSUME IInv, SharedInv, [Next]_vars, running' = "boot", pc' # "idle"
             PROVE  settings_load_one(buf', AppSize).pay = Loaded("app")'.pay
  BY DEF SharedInv, settings_load_one
<1>1. CASE Begin
  <2>1. PICK c \in Core : flash_write_settings(c)
    BY <1>1 DEF Begin, SettingsSave, SettingsSetCore, BeginSave
  <2>2. Loaded("app")' = Loaded("app")
    BY <2>1 DEF flash_write_settings, BeginSave, Loaded
  <2> QED
    BY <2>1, <2>2, BootBuffer
<1>2. CASE EraseOk \/ ProgramWord
  <2>1. buf' = buf /\ running = "boot" /\ pc # "idle"
    BY <1>2 DEF EraseOk, ProgramWord
  <2> QED
    BY <2>1, StepKeepsPay DEF SharedInv
<1>3. CASE UNCHANGED vars
  BY <1>3 DEF vars, SharedInv, Loaded
<1> QED
  BY <1>1, <1>2, <1>3
     DEF Next, EraseFail, ProgramFail, ReturnOk, BootApp, Crash

\* Whatever the two struct sizes are, no bootloader write, finished or cut
\* short, changes the payload.
THEOREM PayloadSurvives == Spec => SharedFieldsSurvive
<1>1. Init => SharedInv
  BY DEF Init, SharedInv
<1>2. IInv /\ SharedInv /\ [Next]_vars =>
        [running = "boot" => Loaded("app")'.pay = Loaded("app").pay]_vars
  BY StepKeepsPay
<1> QED
  BY <1>1, <1>2, SharedStep, InvariantHolds, PTL DEF Spec, SharedFieldsSurvive

=============================================================================
