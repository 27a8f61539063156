SPECIFICATION Spec
CONSTANTS
  Catalogs <- MCCatalogs
  Expansions <- MCExpansions
  Unexpandable = {"typo"}
  Within <- MCWithin
  SteamFolders <- MCSteamFolders
  EpicGames <- MCEpicGames
  Refused = {"HKLM Windows", "C:windows data"}
  Redirected = {"HKLM Vendor", "HKLM Windows", "HKLM ACE"}
  Signable = {"C:ac.exe", "D:ac.exe", "C:own.exe"}
  DriverKeys <- MCDriverKeys
  Signers = {"Vendor", "Other", "Attestation"}
  Attestation = "Attestation"
INVARIANTS
  TypeOK
  EveryAnswerIsReported
  UnreadableMakesPartial
  OnlyThePublisherConfirms
  OnlyASignatureMakesSuspicious
CHECK_DEADLOCK FALSE
