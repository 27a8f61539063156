----------------------------- MODULE DenyListProofs -----------------------------
(***************************************************************************)
(* Facts about the deny-list's rules (DenyList), for every list of drivers *)
(* and services, and every location or key.                                *)
(***************************************************************************)
EXTENDS DenyList, TLAPS, SequenceTheorems

(* A rule gives a verdict, whatever it is asked about.                      *)
LEMMA LocationVerdict ==
  ASSUME NEW components, NEW exceptions
  PROVE  EvaluateLocation(components, exceptions) \in DenyReason \cup {"Ok"}
BY DEF EvaluateLocation, WindowsDirectoryException, DenyReason

(* So does check_path, at either stage.                                     *)
LEMMA PathVerdict ==
  ASSUME NEW path, NEW exceptions, NEW stage
  PROVE  EvaluatePath(path, exceptions, stage) \in DenyReason \cup {"Ok"}
BY LocationVerdict DEF EvaluatePath, DenyReason

(* So does evaluate_user_key.                                               *)
LEMMA UserKeyVerdict ==
  ASSUME NEW components
  PROVE  EvaluateUserKey(components) \in DenyReason \cup {"Ok"}
BY DEF EvaluateUserKey, ShallowFloor, DenyReason

(* So does evaluate_machine_key, unless it slices a character.              *)
LEMMA MachineKeyVerdict ==
  ASSUME NEW components, NEW exceptions
  PROVE  EvaluateMachineKey(components, exceptions) \in DenyReason \cup {"Ok", "Panic"}
BY DEF EvaluateMachineKey, ShallowFloor, DenyReason

(* The same of check_registry_key, for each of the five hives.              *)
LEMMA RegistryKeyVerdict ==
  ASSUME NEW hive \in Hives, NEW components, NEW exceptions
  PROVE  EvaluateRegistryKey(hive, components, exceptions) \in DenyReason \cup {"Ok", "Panic"}
BY UserKeyVerdict, MachineKeyVerdict DEF EvaluateRegistryKey, Hives, ShallowFloor, DenyReason

-------------------------------------------------------------------------------
(* What a path that passes satisfies (denylist.rs, evaluate_path).          *)
LEMMA AllowedPath ==
  ASSUME NEW path, NEW exceptions, NEW stage,
         EvaluatePath(path, exceptions, stage) = "Ok"
  PROVE  /\ ~path.shortName
         /\ EvaluateLocation(path.components, exceptions) = "Ok"
BY DEF EvaluatePath

(* The carve-out lets one file of the drivers directory through, and        *)
(* nothing else of Windows (windows_directory_exception).                   *)
LEMMA AllowedInWindows ==
  ASSUME NEW S, NEW components \in Seq(S), NEW exceptions,
         EvaluateLocation(components, exceptions) = "Ok",
         components[1] \in ProtectedTopLevel
  PROVE  /\ Len(components) = 4
         /\ components = <<"WINDOWS", "SYSTEM32", "DRIVERS", components[4]>>
         /\ components[4] \in exceptions.drivers
<1>1. WindowsDirectoryException(components, exceptions) = "Ok"
  BY DEF EvaluateLocation
<1>2. IsDriverFile(components, exceptions)
  BY <1>1 DEF WindowsDirectoryException
<1>3. Len(components) = 4 /\ components[4] \in exceptions.drivers
  BY <1>2 DEF IsDriverFile
<1>4. \A i \in 1..3 : SubSeq(components, 1, 3)[i] = components[i]
  <2>1. \A i \in 1..3 : components[i] \in S
    <3> SUFFICES ASSUME NEW i \in 1..3 PROVE components[i] \in S
      OBVIOUS
    <3>1. i \in 1..Len(components)
      BY <1>3
    <3> QED BY <3>1, ElementOfSeq, Zenon
  <2>2. 1 \in Int /\ 3 \in Int
    OBVIOUS
  <2>3. \A i \in 1..(3 - 1 + 1) : SubSeq(components, 1, 3)[i] = components[1 + i - 1]
    BY <2>1, <2>2, SubSeqProperties
  <2>4. SUFFICES ASSUME NEW i \in 1..3 PROVE SubSeq(components, 1, 3)[i] = components[i]
    OBVIOUS
  <2>5. i \in 1..(3 - 1 + 1) /\ 1 + i - 1 = i
    OBVIOUS
  <2>. QED  BY <2>3, <2>5
<1>5. \A i \in 1..3 : components[i] = <<"WINDOWS", "SYSTEM32", "DRIVERS">>[i]
  BY <1>2, <1>4 DEF IsDriverFile
<1>6. components[1] = "WINDOWS" /\ components[2] = "SYSTEM32" /\ components[3] = "DRIVERS"
  BY <1>5
<1>. QED  BY <1>3, <1>6

(* Under SYSTEM only the key of a named service passes, and nothing below   *)
(* it (service_key_leaf).                                                   *)
LEMMA AllowedInSystem ==
  ASSUME NEW components, NEW exceptions,
         components # <<>>, components[1] = "SYSTEM",
         EvaluateMachineKey(components, exceptions) = "Ok"
  PROVE  /\ Len(components) = 4
         /\ components[2] \in ControlSets /\ components[3] = "SERVICES"
         /\ components[4] \in exceptions.services
BY DEF EvaluateMachineKey, IsServicesKey, IsNamedService

(* No root passes: a key of the machine that does has a component.          *)
LEMMA AllowedMachineKey ==
  ASSUME NEW exceptions
  PROVE  EvaluateMachineKey(<<>>, exceptions) # "Ok"
BY DEF EvaluateMachineKey, IsServicesKey, SlicesACharacter, ShallowFloor

(* The exceptions of an entry hold nothing of Windows (Exceptions::new).    *)
LEMMA ExceptionsAreTheEntrysOwn ==
  ASSUME NEW driverFiles, NEW serviceNames
  PROVE  /\ NewExceptions(driverFiles, serviceNames).services = serviceNames \ (InboxServices \cup {""})
         /\ \A file \in NewExceptions(driverFiles, serviceNames).drivers :
              file \notin InboxDrivers /\ \E raw \in driverFiles : file = raw[Len(raw)]
BY DEF NewExceptions, BaseFileName

-------------------------------------------------------------------------------
(* A name no table mentions, and what it is in the place of another name.   *)
Patterns == Containers \cup WindowsData \cup {<<"PROGRAMDATA", "MICROSOFT">>}

Avoids(pattern, name) == \A i \in 1..Len(pattern) : pattern[i] # name

Unmentioned(other) ==
  /\ other \notin ProtectedTopLevel \cup ContainerTopLevel \cup LibraryLeaves
                   \cup SteamappsContainers \cup UserHives
  /\ \A pattern \in Patterns : Avoids(pattern, other)

(* A pattern written out avoids a name that is none of its words.           *)
LEMMA TuplesAvoid ==
  ASSUME NEW name
  PROVE  /\ \A a, b : name \notin {a, b} => Avoids(<<a, b>>, name)
         /\ \A a, b, c : name \notin {a, b, c} => Avoids(<<a, b, c>>, name)
         /\ \A a, b, c, d : name \notin {a, b, c, d} => Avoids(<<a, b, c, d>>, name)
         /\ \A a, b, c, d, e : name \notin {a, b, c, d, e} => Avoids(<<a, b, c, d, e>>, name)
BY DEF Avoids

(* Every pattern is a sequence of from two to five words.                   *)
LEMMA PatternsHaveLengths == \A pattern \in Patterns : Len(pattern) \in Nat
<1>1. \A a, b, c, d, e : /\ Len(<<a, b>>) = 2 /\ Len(<<a, b, c>>) = 3
                        /\ Len(<<a, b, c, d>>) = 4 /\ Len(<<a, b, c, d, e>>) = 5
  OBVIOUS
<1>2. \A pattern \in Containers : Len(pattern) \in {2, 3, 4, 5}
  BY <1>1 DEF Containers, ProgramFiles
<1>3. \A pattern \in WindowsData \cup {<<"PROGRAMDATA", "MICROSOFT">>} : Len(pattern) \in {2, 5}
  BY <1>1 DEF WindowsData, ProgramFiles
<1>. QED  BY <1>2, <1>3 DEF Patterns

(* Such a name matches no word of a pattern: where it stands in the place   *)
(* of another the pattern matched that one as well.                         *)
LEMMA UnmentionedMatchesLess ==
  ASSUME NEW S, NEW T, NEW named \in Seq(S), NEW opened \in Seq(T), NEW other,
         Unmentioned(other), Len(opened) = Len(named),
         \A i \in 1..Len(named) : opened[i] \in {named[i], other},
         NEW pattern \in Patterns, StartsWithPattern(opened, pattern)
  PROVE  StartsWithPattern(named, pattern)
<1>1. Len(pattern) \in Nat /\ Len(pattern) <= Len(named) /\ Len(named) \in Nat
  BY PatternsHaveLengths DEF StartsWithPattern
<1>2. SUFFICES ASSUME NEW i \in 1..Len(pattern)
               PROVE  pattern[i] \in {"*", named[i]}
  BY <1>1 DEF StartsWithPattern
<1>3. pattern[i] \in {"*", opened[i]} /\ pattern[i] # other
  BY DEF StartsWithPattern, Unmentioned, Avoids
<1>4. opened[i] \in {named[i], other}
  BY <1>1
<1>. QED  BY <1>3, <1>4

(* A location that passes still does with names no table mentions in the    *)
(* place of some of its own, but for the carve-out (evaluate_path).         *)
LEMMA UnmentionedPasses ==
  ASSUME NEW S, NEW T, NEW named \in Seq(S), NEW opened \in Seq(T), NEW other,
         Unmentioned(other), Len(opened) = Len(named),
         \A i \in 1..Len(named) : opened[i] \in {named[i], other},
         NEW exceptions, EvaluateLocation(named, exceptions) = "Ok",
         named[1] \notin ProtectedTopLevel
  PROVE  EvaluateLocation(opened, NoExceptions) = "Ok"
<1>1. /\ named # <<>> /\ Len(named) >= 2
      /\ ~IsContainer(named)
      /\ named[Len(named)] \notin UserHives
      /\ \A pattern \in WindowsData \cup {<<"PROGRAMDATA", "MICROSOFT">>} :
           ~StartsWithPattern(named, pattern)
  BY DEF EvaluateLocation, MinComponents
<1>2. \A i \in 1..Len(named) : opened[i] \in {named[i], other}
  OBVIOUS
<1>3. /\ opened # <<>> /\ Len(opened) >= 2
      /\ opened[1] \notin ProtectedTopLevel
      /\ opened[Len(opened)] \notin UserHives
  BY <1>1 DEF Unmentioned
<1>4. \A pattern \in Patterns : StartsWithPattern(opened, pattern) => StartsWithPattern(named, pattern)
  BY UnmentionedMatchesLess
<1>5. \A pattern \in WindowsData \cup {<<"PROGRAMDATA", "MICROSOFT">>} :
        ~StartsWithPattern(opened, pattern)
  BY <1>1, <1>4 DEF Patterns
<1>6. ~IsContainer(opened)
  <2>1. \A pattern \in Containers : ~EqualsPattern(opened, pattern)
    BY <1>1, <1>4 DEF IsContainer, EqualsPattern, Patterns
  <2>2. opened[Len(opened)] \notin LibraryLeaves
    BY <1>1 DEF IsContainer, Unmentioned
  <2>3. ~ /\ opened[Len(opened) - 1] = "STEAMAPPS"
          /\ opened[Len(opened)] \in SteamappsContainers
    <3>1. /\ opened[Len(opened) - 1] \in {named[Len(named) - 1], other}
          /\ opened[Len(opened)] \in {named[Len(named)], other}
      BY <1>1
    <3>. QED  BY <1>1, <3>1 DEF IsContainer, Unmentioned, LibraryLeaves
  <2>. QED  BY <2>1, <2>2, <2>3 DEF IsContainer
<1>. QED  BY <1>3, <1>5, <1>6 DEF EvaluateLocation, MinComponents
================================================================================
