SPECIFICATION Spec
CONSTANTS
  InboxDrivers = {"NTFS.SYS"}
  InboxServices = {"TCPIP"}
  UserHives = {"NTUSER.DAT"}
  BcdHives = {"BCD00000000"}
  ControlSets = {"CURRENTCONTROLSET", "CONTROLSET001"}
  UnslicedNames = {"CONTROLSE?1"}  \* ? is a character of two bytes
  ClassesHives = {"S-1-5-21_CLASSES"}
  RawComponents <- MCRawComponents
  ShortNames = {"MICROS~1", "BACKUP~1"}
  LongName <- MCLongName
  KeyWords = {"", "SOFTWARE", "WOW6432NODE", "MICROSOFT", "WINDOWS", "WINDOWS NT", "CURRENTVERSION", "CLASSES", "SYSTEM", "CURRENTCONTROLSET", "CONTROLSE?1", "SERVICES", "VGK", "TCPIP", "S-1-5-21_CLASSES"}
  Drivers <- MCDrivers
  Services = {"VGK", "TCPIP"}
  MaxComponents = 4
  MaxSubkeys = 5
INVARIANT EveryNameIsAnswered
CHECK_DEADLOCK FALSE
