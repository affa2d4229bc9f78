SPECIFICATION MachineSpec
CONSTANTS
  shell = shell
  ikanaide = ikanaide
  filefile = filefile
  cakcok = cakcok
  cicak = cicak
  exe = exe
  ROOT = ROOT
  OtherName = OtherName
  NoName = NoName
  NoExt = NoExt
  code = code
  letters = letters
  Code = code
  Letters = letters
  RootName = ROOT
  ClusterMapSize = 16
  SlotCount = 5
  Names = {shell, ikanaide, filefile, cakcok, cicak}
  Exts = {NoExt, exe}
  Datas = {code, letters}
  MaxFileClusters = 2
  Reading <- FileInData
  BootSector <- Signature
  Misuse <- BenignKinds
  Junk = Junk
  Binaries = {0, 2}
  Typed <- UserKeys
  MaxCalls = 2
  MaxAstray = 4
  Slips <- NoSlips
VIEW Life
INVARIANTS
  ProgramLoads
  ImageBootable
  BootRestores
  BootKnowsParents
CHECK_DEADLOCK FALSE
