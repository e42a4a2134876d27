\* A bootloader built from the smaller struct of an earlier firmware.
CONSTANTS
  Core = {c0, c1}
  Pay = {p0, p1}
  Ext = {e0, e1}
  CoreDefault = c0
  PayDefault = p0
  ExtDefault = e0
  SeqMod = 4
  AppSize = 6
  BootSize = 5
  Blank = blank
  Garbage = garbage
  NoSave = noSave
SPECIFICATION Spec
INVARIANTS
  TypeOK
  ValidIsSealed
  SlotsConsecutive
  WriteSparesNewest
PROPERTIES
  NeverBackToDefaults
  AtomicDurable
  SharedFieldsSurvive
