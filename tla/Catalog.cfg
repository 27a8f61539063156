SPECIFICATION Spec
CONSTANTS
  Absent = Absent
  Torn = Torn
  Alice = Alice
  Bob = Bob
  Key1 = Key1
  Key2 = Key2
  Bodies <- MCBodies
  CatalogOf <- MCCatalogOf
  Keys = {Key1, Key2}
  Secret1 = Secret1
  Secret2 = Secret2
  SecretPaths = {Secret1, Secret2}
  People = {Alice, Bob}
  HarnessCodes = {0, 3, 64, 256}
  MaxEdits = 1
  MaxSignatures = 2
  MaxCommits = 1
  Candidates <- MCCandidates
  UnknownVariables = {"%TEMP%"}
  DriveLetters = {"C:", "D:"}
  Wildcards = {"*"}
  Trailing <- MCTrailing
  AliasNames = {"RIOTGA~1"}
  KebabIds = {"vanguard", "eac", "valorant", "riot"}
  SysNames = {"VGK.SYS", "EAC.SYS", "NTFS.SYS"}
  Sha256 = {"HASH"}
  ProductCodes = {"{CODE}"}
  InboxDrivers = {"NTFS.SYS"}
  InboxServices = {"TCPIP"}
  UserHives = {"NTUSER.DAT"}
  BcdHives = {"BCD00000000"}
  ControlSets = {"CURRENTCONTROLSET"}
  UnslicedNames = {}
  ClassesHives = {"S-1-5-21_CLASSES"}
SYMMETRY Symmetry
INVARIANTS
  TypeOK
  CarveOutsStayInTheEntry
  OnlyAnIntactCatalogAnswers
  GatesAgree
  SigningKeyIsNeverLost
CHECK_DEADLOCK FALSE
