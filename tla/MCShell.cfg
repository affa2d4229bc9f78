SPECIFICATION ShellSpec
CONSTANTS
  ikanaide = ikanaide
  filefile = filefile
  cakcok = cakcok
  cicak = cicak
  exe = exe
  ROOT = ROOT
  OtherName = OtherName
  NoName = NoName
  NoExt = NoExt
  letters = letters
  zeros = zeros
  RootName = ROOT
  ClusterMapSize = 16
  SlotCount = 5
  Names = {ikanaide, filefile, cakcok, cicak, ROOT}
  Exts = {NoExt, exe}
  Datas = {letters, zeros}
  Letters = letters
  Zeros = zeros
  MaxFileClusters = 1
  Reading <- RootInLetters
  BootSector <- Signature
  Misuse <- AnyMisuse
  Longer <- NothingLonger
  MaxDepth = 3
  MaxTyped = 1
  MaxLines = 4
  Typing <- TypedNames
  Slips <- NoSlips
INVARIANTS
  HomeIsLive
  PathLeadsHome
  MoveCopiesFirst
  ShellIsBenign
  UniqueOwner
  NoDangling
PROPERTIES
  UpSucceeds
CHECK_DEADLOCK FALSE
