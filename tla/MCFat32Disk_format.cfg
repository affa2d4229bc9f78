SPECIFICATION DiskSpec
CONSTANTS
  a = a
  b = b
  ROOT = ROOT
  OtherName = OtherName
  NoName = NoName
  NoExt = NoExt
  txt = txt
  d1 = d1
  d2 = d2
  RootName = ROOT
  ClusterMapSize = 7
  SlotCount = 3
  Names = {a, b}
  Exts = {NoExt}
  Datas = {d1}
  MaxFileClusters = 2
  Reading <- FileInData
  BootSector <- Signature
  Misuse <- NoMisuse
  Junk = Junk
INVARIANTS
  FormatIsProper
