SPECIFICATION Spec
CONSTANTS
  a = a
  b = b
  ROOT = ROOT
  OtherName = OtherName
  NoName = NoName
  NoExt = NoExt
  txt = txt
  d1 = d1
  d2 = d2
  RootName = ROOT
  ClusterMapSize = 5
  SlotCount = 2
  Names = {a, ROOT}
  Exts = {NoExt}
  Datas = {d1}
  MaxFileClusters = 1
  Reading <- FolderInData
  BootSector <- Signature
  Misuse <- AnyMisuse
VIEW Volume
INVARIANTS
  TypeOK
  LinksAscend
  RootIntact
CHECK_DEADLOCK FALSE
