-------------------------------- MODULE DenyList --------------------------------
(***************************************************************************)
(* The compiled-in deny-list (core/src/safety/denylist.rs).                *)
(*                                                                         *)
(* A component is an upper-case word, as canonicalisation leaves it, and a *)
(* location is the sequence of components below its root.  Sets of words   *)
(* whose spelling no rule looks into are constants.  A verdict is "Ok",    *)
(* the name of a DenyReason, or "Panic" where the rules answer nothing:    *)
(* whoever asked then ends without having passed anything.                 *)
(***************************************************************************)
EXTENDS Naturals, Sequences

CONSTANTS
  InboxDrivers,  \* driver files that ship with Windows
  InboxServices, \* services that ship with Windows
  UserHives,     \* words beginning with NTUSER.DAT or USRCLASS.DAT
  BcdHives,      \* words beginning with BCD
  ControlSets,   \* CURRENTCONTROLSET and the ControlSetNNN
  UnslicedNames, \* words of more than ten bytes whose tenth ends inside a character
  ClassesHives   \* words ending in _CLASSES, a user's second root under HKU

ASSUME DenyListAssumption ==
  /\ \A s \in {InboxDrivers, InboxServices, UserHives, BcdHives, ControlSets, UnslicedNames,
               ClassesHives} :
       s \subseteq STRING
  /\ UnslicedNames \cap ControlSets = {}
  /\ "" \notin InboxDrivers \cup InboxServices
  /\ "SOFTWARE" \notin BcdHives

DenyReason ==
  {"ProtectedSystemPath", "ProtectedTopLevelDirectory", "ProtectedUserHive",
   "ProtectedProgramData", "ProtectedContainer", "ProtectedWindowsData", "VolumeRoot",
   "TooShallow", "NonLocalNamespace", "EightDotThreeUnresolved", "ReparsePointInPath",
   "UnresolvedAtExecution", "ProtectedRegistryHive", "ProtectedSystemKey",
   "ProtectedRegistryKey", "UnknownServiceKey", "RegistryKeyTooShallow"}

------------------------------------------------------------------------------
(* Locations *)

ProtectedTopLevel ==
  {"WINDOWS", "WINNT", "$RECYCLE.BIN", "SYSTEM VOLUME INFORMATION", "RECOVERY",
   "BOOT", "EFI", "PERFLOGS", "$WINDOWS.~BT", "$WINDOWS.~WS"}

ContainerTopLevel ==
  {"USERS", "PROGRAMDATA", "PROGRAM FILES", "PROGRAM FILES (X86)", "DOCUMENTS AND SETTINGS"}

ProgramFiles == {"PROGRAM FILES", "PROGRAM FILES (X86)"}

(* Slip: the three roots of AppData and what they hold are missing.         *)
Containers_NoAppDataRoots ==
  {<<"USERS", "*">>, <<"USERS", "*", "APPDATA">>, <<"PROGRAMDATA", "PACKAGE CACHE">>}
  \cup ProgramFiles \X {"COMMON FILES", "STEAM"}

ProfileFolders ==
  {"CONTACTS", "DESKTOP", "DOCUMENTS", "DOWNLOADS", "FAVORITES", "LINKS", "MUSIC", "ONEDRIVE",
   "PICTURES", "SAVED GAMES", "SEARCHES", "VIDEOS"}
AppDataRoots == {"LOCAL", "LOCALLOW", "ROAMING"}

(* Directories refused as a whole; "*" stands for any one component.        *)
Containers ==
  {<<"USERS", "*">>, <<"USERS", "*", "APPDATA">>, <<"USERS", "*", "DOCUMENTS", "MY GAMES">>,
   <<"PROGRAMDATA", "PACKAGE CACHE">>}
  \cup {<<"USERS", "*", d>> : d \in ProfileFolders}
  \cup {<<"USERS", "*", "APPDATA", d>> : d \in AppDataRoots}
  \cup {<<"USERS", "*", "APPDATA", "LOCAL", d>> : d \in {"PROGRAMS", "PACKAGES", "TEMP"}}
  \cup ProgramFiles \X {"COMMON FILES", "STEAM"}

LibraryLeaves == {"STEAMLIBRARY", "STEAMAPPS", "EPIC GAMES"}

SteamappsContainers ==
  {"COMMON", "COMPATDATA", "DOWNLOADING", "SHADERCACHE", "SOURCEMODS", "TEMP", "WORKSHOP"}

WindowsData ==
  {<<"USERS", "*", "APPDATA", d, "MICROSOFT">> : d \in AppDataRoots}
  \cup {<<p, "WINDOWS DEFENDER">> : p \in ProgramFiles}
  \cup {<<"PROGRAM FILES", "WINDOWSAPPS">>,
        <<"PROGRAM FILES", "WINDOWS DEFENDER ADVANCED THREAT PROTECTION">>}

StartsWithPattern(components, pattern) ==
  /\ Len(pattern) <= Len(components)
  /\ \A i \in 1..Len(pattern) : pattern[i] \in {"*", components[i]}

EqualsPattern(components, pattern) ==
  Len(components) = Len(pattern) /\ StartsWithPattern(components, pattern)

IsContainer(components) ==
  LET last == Len(components)
  IN  \/ \E pattern \in Containers : EqualsPattern(components, pattern)
      \/ last >= 1 /\ components[last] \in LibraryLeaves
      \/ /\ last >= 2
         /\ components[last - 1] = "STEAMAPPS"
         /\ components[last] \in SteamappsContainers

------------------------------------------------------------------------------
(* The carve-outs of one catalog entry: driver file names, each written as  *)
(* the pieces between its separators, and service names.                    *)

BaseFileName(raw) == raw[Len(raw)]

(* Slip: a driver of Windows can be named like any other.                 *)
NewExceptions_AnyName(driverFiles, serviceNames) ==
  [drivers |-> {BaseFileName(raw) : raw \in driverFiles}, services |-> serviceNames]

NewExceptions(driverFiles, serviceNames) ==
  [drivers  |-> {BaseFileName(raw) : raw \in driverFiles} \ (InboxDrivers \cup {""}),
   services |-> serviceNames \ (InboxServices \cup {""})]

NoExceptions == [drivers |-> {}, services |-> {}]

IsDriverFile(components, exceptions) ==
  /\ Len(components) = 4
  /\ SubSeq(components, 1, 3) = <<"WINDOWS", "SYSTEM32", "DRIVERS">>
  /\ components[4] \in exceptions.drivers

WindowsDirectoryException(components, exceptions) ==
  IF IsDriverFile(components, exceptions) THEN "Ok"
  ELSE IF Len(components) = 1 THEN "ProtectedTopLevelDirectory"
  ELSE "ProtectedSystemPath"

MinComponents == 2

(* The rules for a location on a local drive, in the order evaluate_path    *)
(* applies them.                                                            *)
EvaluateLocation(components, exceptions) ==
  IF components = <<>> THEN "VolumeRoot"
  ELSE IF components[1] \in ProtectedTopLevel
         THEN WindowsDirectoryException(components, exceptions)
  ELSE IF Len(components) = 1 /\ components[1] \in ContainerTopLevel
         THEN "ProtectedTopLevelDirectory"
  ELSE IF components[Len(components)] \in UserHives THEN "ProtectedUserHive"
  ELSE IF StartsWithPattern(components, <<"PROGRAMDATA", "MICROSOFT">>)
         THEN "ProtectedProgramData"
  ELSE IF \E pattern \in WindowsData : StartsWithPattern(components, pattern)
         THEN "ProtectedWindowsData"
  ELSE IF IsContainer(components) THEN "ProtectedContainer"
  ELSE IF Len(components) < MinComponents THEN "TooShallow"
  ELSE "Ok"

(* What a caller can vouch for: nothing yet on disk, or what it saw there.  *)
CatalogLoad == [onDisk |-> FALSE, traversesReparsePoint |-> FALSE]
OnDisk(traverses) == [onDisk |-> TRUE, traversesReparsePoint |-> traverses]
Stage == {CatalogLoad} \cup {OnDisk(traverses) : traverses \in BOOLEAN}

EvaluatePath(path, exceptions, stage) ==
  IF stage.onDisk /\ stage.traversesReparsePoint THEN "ReparsePointInPath"
  ELSE IF stage.onDisk /\ ~path.resolvedViaHandle THEN "UnresolvedAtExecution"
  ELSE IF path.shortName THEN "EightDotThreeUnresolved"
  ELSE IF path.kind # "DriveRooted" THEN "NonLocalNamespace"
  ELSE EvaluateLocation(path.components, exceptions)

------------------------------------------------------------------------------
(* Registry keys *)

Microsoft == <<"SOFTWARE", "MICROSOFT">>
CurrentVersion == Microsoft \o <<"WINDOWS", "CURRENTVERSION">>
NtCurrentVersion == Microsoft \o <<"WINDOWS NT", "CURRENTVERSION">>
Classes == <<"SOFTWARE", "CLASSES">>
Policies == <<"SOFTWARE", "POLICIES">>
Wow6432Node == <<"SOFTWARE", "WOW6432NODE">>

UserContainerKeys ==
  {Classes, Classes \o <<"CLSID">>, Microsoft, Microsoft \o <<"WINDOWS">>, CurrentVersion,
   Policies, Wow6432Node}
  \cup {CurrentVersion \o <<k>> : k \in {"RUN", "RUNONCE", "UNINSTALL"}}

MachineContainerKeys ==
  UserContainerKeys
  \cup {Classes \o <<k>> : k \in {"APPID", "INTERFACE", "TYPELIB"}}
  \cup {CurrentVersion \o <<k>> : k \in {"APP PATHS", "EXPLORER", "SHAREDDLLS"}}
  \cup {Microsoft \o <<"WINDOWS NT">>, NtCurrentVersion,
        NtCurrentVersion \o <<"IMAGE FILE EXECUTION OPTIONS">>,
        <<"SOFTWARE", "CLIENTS">>, Policies \o <<"MICROSOFT">>,
        <<"SOFTWARE", "REGISTEREDAPPLICATIONS">>}

MachineProtectedKeys ==
  {Microsoft \o <<"CRYPTOGRAPHY">>, NtCurrentVersion \o <<"WINLOGON">>,
   Microsoft \o <<"WINDOWS DEFENDER">>, Policies \o <<"MICROSOFT", "WINDOWS DEFENDER">>}

ProtectedMachineHives == {"SAM", "SECURITY", "HARDWARE", "COMPONENTS", "DRIVERS"}

ShallowFloor(components) == IF Len(components) < 2 THEN "RegistryKeyTooShallow" ELSE "Ok"

EvaluateUserKey(components) ==
  IF \E pattern \in UserContainerKeys : EqualsPattern(components, pattern)
    THEN "ProtectedRegistryKey"
    ELSE ShallowFloor(components)

(* service_key_leaf: below the Services key of a control set ...            *)
IsServicesKey(components) ==
  /\ Len(components) >= 3
  /\ components[1] = "SYSTEM" /\ components[2] \in ControlSets /\ components[3] = "SERVICES"

(* ... which it tells from other keys by the first ten bytes of what stands *)
(* between SYSTEM and SERVICES: the slice panics where a character spans    *)
(* the tenth and the eleventh.                                              *)
SlicesACharacter(components) ==
  /\ Len(components) >= 3
  /\ components[1] = "SYSTEM" /\ components[2] \in UnslicedNames /\ components[3] = "SERVICES"

(* Slip: what is below a service's key goes with it.                      *)
IsNamedService_OrBelow(components, exceptions) ==
  Len(components) >= 4 /\ components[4] \in exceptions.services

(* ... and then the key of a service the entry names, and nothing below it. *)
IsNamedService(components, exceptions) ==
  Len(components) = 4 /\ components[4] \in exceptions.services

(* A key of the 32-bit view as it would be in the 64-bit one.               *)
NativeView(components) == <<components[1]>> \o SubSeq(components, 3, Len(components))

(* Slip: a key is judged in the view it is written in.                    *)
Views_AsWritten(components) == {components}

(* The views a key is judged in: as it is and, where it lies in the 32-bit  *)
(* view, in the other one as well.                                          *)
Views(components) ==
  {components}
  \cup IF StartsWithPattern(components, Wow6432Node) THEN {NativeView(components)} ELSE {}

EvaluateMachineKey(components, exceptions) ==
  IF components # <<>> /\ components[1] \in BcdHives \cup ProtectedMachineHives
    THEN "ProtectedRegistryHive"
  ELSE IF SlicesACharacter(components) THEN "Panic"
  ELSE IF IsServicesKey(components)
    THEN IF IsNamedService(components, exceptions) THEN "Ok" ELSE "UnknownServiceKey"
  ELSE IF components # <<>> /\ components[1] = "SYSTEM" THEN "ProtectedSystemKey"
  ELSE IF \E view \in Views(components) :
            \/ \E pattern \in MachineProtectedKeys : StartsWithPattern(view, pattern)
            \/ \E pattern \in MachineContainerKeys : EqualsPattern(view, pattern)
    THEN "ProtectedRegistryKey"
  ELSE ShallowFloor(components)

Hives == {"HKLM", "HKCU", "HKU", "HKCR", "HKCC"}

EvaluateRegistryKey(hive, components, exceptions) ==
  CASE hive = "HKLM" -> EvaluateMachineKey(components, exceptions)
    [] hive = "HKCU" -> EvaluateUserKey(components)
    [] hive = "HKU"  -> IF Len(components) < 2 THEN "RegistryKeyTooShallow"
                        ELSE IF components[1] \in ClassesHives
                          THEN EvaluateUserKey(Classes \o Tail(components))
                        ELSE EvaluateUserKey(Tail(components))
    [] hive = "HKCR" -> ShallowFloor(components)
    [] hive = "HKCC" -> "ProtectedSystemKey"
================================================================================
