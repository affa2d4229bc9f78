SPECIFICATION MappedSpec
CONSTANTS
  a = a
  b = b
  ROOT = ROOT
  OtherName = OtherName
  NoName = NoName
  NoExt = NoExt
  txt = txt
  d1 = d1
  d2 = d2
  RootName = ROOT
  ClusterMapSize = 6
  SlotCount = 3
  Names = {a, b}
  Exts = {NoExt, txt}
  Datas = {d1}
  MaxFileClusters = 2
  Reading <- RootInData
  BootSector <- Signature
  Misuse <- NoMisuse
PROPERTIES
  ImplementsStore
SYMMETRY SymmetricNames
