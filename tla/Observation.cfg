SPECIFICATION Spec
CONSTANTS
  Fold <- MCFold
  Words <- MCWords
  Mentions <- MCMentions
  Joined <- MCJoined
  Publisher <- MCPublisher
  PathIn <- MCPathIn
  Stem <- MCStem
  HexSuffixes = {"BEEF", "CAFE"}
  HashedFiles = {"OLD.EXE", "VGC.EXE", "VGK.SYS", "OTHER.SYS", "CORE124303.SYS"}
  PropertyLists = {"prop:1"}
  RegistryRoots <- MCRegistryRoots
  DefaultRoots <- MCDefaultRoots
  MaxHashBytes = 8
  BootTolerance = 2
  VolatileServices <- MCVolatileServices
  Drives = {"C:", "D:"}
  ShortNames = {"V", "W", "VGC", "VGK"}
  SysFiles = {"VGK.SYS", "VGX.SYS", "OTHER.SYS", "CORE124303.SYS"}
  InboxDrivers = {"DISK.SYS"}
  InboxServices = {"DISK"}
  UserHives = {"NTUSER.DAT"}
  BcdHives = {"BCD00000000"}
  ControlSets = {"CURRENTCONTROLSET"}
  UnslicedNames = {}
  ClassesHives = {"S-1-5-21_CLASSES"}
  Machines <- MCMachines
  FirstMachine <- Base
  LibraryFolders <- MCLibraryFolders
  Builds <- MCBuilds
  CurrentBuild <- Current
  DiffRuns <- MCDiffRuns
  Suggestions <- MCSuggestions
  CycleLength = 3
  MaxDiffs = 2
  MaxChanges = 2
  WalkMinutes = 3
INVARIANTS
  TypeOK
  NothingInvented
  EveryDifferenceIsTold
  WhatIsLeftStanding
  ExcludedNeverLeaves
  ReadBackwards
  IntersectionIsShared
  DraftLosesNothing
CHECK_DEADLOCK FALSE
