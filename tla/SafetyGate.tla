------------------------------- MODULE SafetyGate -------------------------------
(***************************************************************************)
(* A path or a registry key on its way through the safety gate:            *)
(* canonicalise_syntactic or canonicalise_resolved, or canonicalise_reg_key *)
(* (core/src/safety/paths.rs), one raw component at a time; then check_path *)
(* or check_registry_key (core/src/safety/denylist.rs).                    *)
(*                                                                         *)
(* A raw component is a word, all its casings being one, with what it      *)
(* trails: nothing, one dot, or any other mix of dots and spaces.  Next to *)
(* what the code computes, opens is the location Win32 reaches if the path *)
(* ends here and passes the one it goes on from; no action reads them.     *)
(* Win32's reading is the one the comments of paths.rs state.              *)
(***************************************************************************)
EXTENDS DenyList

CONSTANTS
  RawComponents, \* the raw components paths are made of
  ShortNames,    \* words of the form NAME~N
  LongName,      \* the long names of those that are 8.3 aliases on this machine
  KeyWords,      \* what stands between two separators of a key, "" where nothing does
  Drivers,       \* the driver files the anti-cheat entry declares that asks,
  Services,      \* and the services
  MaxComponents, \* bound: components a path may have at any time
  MaxSubkeys     \* bound: components of a key

RawComponent ==
  [word : STRING, trails : {"nothing", "a dot", "dots and spaces"}, stream : BOOLEAN]

(* A name no rule mentions: what Win32 makes of a word it keeps the         *)
(* trailing dots and spaces of.                                             *)
OtherName == "ITSOWNNAME"

ASSUME SafetyGateAssumption ==
  /\ RawComponents \subseteq RawComponent
  /\ \A raw \in RawComponents : raw.word \notin {"", ".", "..", "*"}
  /\ ShortNames \subseteq STRING /\ DOMAIN LongName \subseteq ShortNames
  /\ \A w \in DOMAIN LongName : LongName[w] \in STRING
  /\ OtherName \notin UserHives
  /\ KeyWords \subseteq STRING /\ Services \subseteq STRING
  /\ Drivers \subseteq Seq(STRING) \ {<<>>}
  /\ MaxComponents \in Nat /\ MaxSubkeys \in Nat

VARIABLES
  pc,       \* of a path: "root", "components", "path"; of a key: "hive", "subkeys", "key";
            \* "answered" of both
  source,   \* "text", or "handle" where Windows returned the path itself
  path,     \* the CanonicalPath being built
  hive, subkeys, \* the CanonicalRegKey being built
  verdict,  \* "Ok", a PathError, a RegKeyError or a DenyReason, "Panic", or "none" as yet
  opens, passes

key == <<hive, subkeys>>
win32 == <<opens, passes>>
vars == <<pc, source, path, key, verdict, win32>>

PathKind == {"DriveRooted", "Unc", "Device"}
PathError == {"Empty", "EmbeddedNul", "NotAbsolute", "EscapesRoot", "MalformedUnc",
              "DotsOnlyComponent", "StreamSyntax"}
RegKeyError == {"UnknownHive", "Empty"}

(* The names of the components of paths, and of what they may open.         *)
Words == {raw.word : raw \in RawComponents}
Opened == Words \cup {LongName[word] : word \in DOMAIN LongName} \cup {OtherName}

TypeOK ==
  /\ pc \in {"root", "components", "path", "hive", "subkeys", "key", "answered"}
  /\ source \in {"text", "handle"}
  /\ path \in [kind : PathKind, components : Seq(Words), shortName : BOOLEAN,
               resolvedViaHandle : BOOLEAN]
  /\ Len(path.components) <= MaxComponents
  /\ hive \in Hives \cup {"none"}
  /\ subkeys \in Seq(KeyWords \ {""}) /\ Len(subkeys) <= MaxSubkeys
  /\ verdict \in {"none", "Ok", "Panic"} \cup PathError \cup RegKeyError \cup DenyReason
  /\ opens \in Seq(Opened) /\ passes \in Seq(Opened)

Init ==
  /\ \/ pc = "root" /\ source \in {"text", "handle"}
     \/ pc = "hive" /\ source = "text"
  /\ path = [kind |-> "DriveRooted", components |-> <<>>, shortName |-> FALSE,
             resolvedViaHandle |-> FALSE]
  /\ hive = "none" /\ subkeys = <<>>
  /\ verdict = "none"
  /\ opens = <<>> /\ passes = <<>>

Exceptions == NewExceptions(Drivers, Services)

Answer(v) ==
  /\ pc' = "answered" /\ verdict' = v
  /\ UNCHANGED <<source, path, key, win32>>

------------------------------------------------------------------------------
(* The spellings of a root, "name" being any text without one: what         *)
(* split_root makes of each, how many bytes of it are known to be ASCII,    *)
(* and the byte offsets strip_prefix_ci slices the text at before the       *)
(* spelling is recognised.                                                  *)
AcceptedRoot ==
  {[spelled |-> "C:\\",             is |-> "DriveRooted",  ascii |-> 3,  sliced |-> {4, 8}],
   [spelled |-> "\\\\?\\C:\\",      is |-> "DriveRooted",  ascii |-> 7,  sliced |-> {8, 15}],
   [spelled |-> "\\\\host\\share",  is |-> "Unc",          ascii |-> 2,  sliced |-> {4, 8}],
   [spelled |-> "\\\\?\\UNC\\",     is |-> "Unc",          ascii |-> 8,  sliced |-> {}],
   [spelled |-> "\\\\?\\GLOBALROOT", is |-> "Device",      ascii |-> 15, sliced |-> {}],
   [spelled |-> "\\\\.\\",          is |-> "Device",       ascii |-> 4,  sliced |-> {8}],
   [spelled |-> "\\??\\",           is |-> "Device",       ascii |-> 4,  sliced |-> {8}]}
RefusedRoot ==
  {[spelled |-> "\\\\host",         is |-> "MalformedUnc", ascii |-> 2,  sliced |-> {4, 8}],
   [spelled |-> "name",             is |-> "NotAbsolute",  ascii |-> 0,  sliced |-> {4, 8}],
   [spelled |-> "\\\\?\\name",      is |-> "NotAbsolute",  ascii |-> 4,  sliced |-> {8, 15}],
   [spelled |-> "NUL",              is |-> "EmbeddedNul",  ascii |-> 0,  sliced |-> {}],
   [spelled |-> "blank",            is |-> "Empty",        ascii |-> 15, sliced |-> {}]}
RootForm == AcceptedRoot \cup RefusedRoot

(* Slip: a malformed root is taken for a path all the same.               *)
SplitRoot_Unchecked(form, inside) ==
  /\ pc = "root"
  /\ source = "handle" => form.spelled = "\\\\?\\C:\\"
  /\ pc' = "components"
  /\ path' = [path EXCEPT !.kind = form.is]
  /\ UNCHANGED <<source, key, verdict, win32>>

(* inside: the offsets that fall inside a character of the text, where a    *)
(* slice panics.  Windows returns the \\?\C:\ form from a handle.           *)
SplitRoot(form, inside) ==
  /\ pc = "root"
  /\ source = "handle" => form.spelled = "\\\\?\\C:\\"
  /\ \A offset \in inside : offset > form.ascii
  /\ IF inside \cap form.sliced # {} THEN Answer("Panic")
     ELSE IF form.is \in PathError THEN Answer(form.is)
     ELSE /\ pc' = "components"
          /\ path' = [path EXCEPT !.kind = form.is]
          /\ UNCHANGED <<source, key, verdict, win32>>

------------------------------------------------------------------------------
(* Components *)

LongNameOf(word) ==
  IF source = "text" /\ word \in DOMAIN LongName THEN LongName[word] ELSE word

(* Win32's name for a component in the middle of a path, where it strips a  *)
(* single dot, and at its end, where it strips them all.  A path from a     *)
(* handle is spelled as the names are.                                      *)
NameInside(raw) ==
  IF raw.trails = "dots and spaces" \/ (raw.trails = "a dot" /\ source = "handle")
    THEN OtherName ELSE LongNameOf(raw.word)
NameAtEnd(raw) ==
  IF raw.trails # "nothing" /\ source = "handle" THEN OtherName ELSE LongNameOf(raw.word)

(* Doubled or trailing separators, and ".".                                 *)
Skip ==
  /\ pc = "components"
  /\ opens' = passes
  /\ UNCHANGED <<pc, source, path, key, verdict, passes>>

Pop(components) == SubSeq(components, 1, Len(components) - 1)

(* Slip: `..` is passed over like `.`.                                    *)
Parent_Skipped ==
  /\ pc = "components" /\ source = "text"
  /\ path.components # <<>>
  /\ passes' = Pop(passes) /\ opens' = Pop(passes)
  /\ UNCHANGED <<pc, source, path, key, verdict>>

Parent ==
  /\ pc = "components" /\ source = "text"
  /\ IF path.components = <<>>
     THEN Answer("EscapesRoot")
     ELSE /\ path' = [path EXCEPT !.components = Pop(@)]
          /\ passes' = Pop(passes) /\ opens' = Pop(passes)
          /\ UNCHANGED <<pc, source, key, verdict>>

DotsOnly == pc = "components" /\ Answer("DotsOnlyComponent")

(* Slip: a component keeps the dots and spaces it trails.                 *)
Kept_Untrimmed(p, raw) ==
  [p EXCEPT !.components = Append(@, IF raw.trails = "dots and spaces" THEN OtherName ELSE raw.word),
            !.shortName = @ \/ raw.word \in ShortNames]

(* What the component loop keeps of a name: the word, flagged if it looks   *)
(* like an alias.                                                           *)
Kept(p, raw) ==
  [p EXCEPT !.components = Append(@, raw.word), !.shortName = @ \/ raw.word \in ShortNames]

RefusesStream(raw) == path.kind # "Device" /\ raw.stream

Name(raw) ==
  /\ pc = "components"
  /\ source = "handle" => raw.word \notin DOMAIN LongName
  /\ IF RefusesStream(raw)
     THEN Answer("StreamSyntax")
     ELSE /\ Len(path.components) < MaxComponents
          /\ path' = Kept(path, raw)
          /\ passes' = Append(passes, NameInside(raw))
          /\ opens' = Append(passes, NameAtEnd(raw))
          /\ UNCHANGED <<pc, source, key, verdict>>

EndOfPath ==
  /\ pc = "components"
  /\ pc' = "path"
  /\ path' = IF source = "handle"
             THEN [path EXCEPT !.resolvedViaHandle = TRUE, !.shortName = FALSE]
             ELSE path
  /\ UNCHANGED <<source, key, verdict, win32>>

CheckPath(stage) ==
  /\ pc = "path"
  /\ Answer(EvaluatePath(path, Exceptions, stage))

------------------------------------------------------------------------------
(* Keys.  A word stands for all its casings and the blanks around it, which *)
(* the conversion removes.                                                  *)

RefuseKey(error) == pc = "hive" /\ Answer(error)

EmptyKey == RefuseKey("Empty")
UnknownHive == RefuseKey("UnknownHive")

(* In its short or its long spelling.                                       *)
NameHive(h) ==
  /\ pc = "hive"
  /\ pc' = "subkeys" /\ hive' = h
  /\ UNCHANGED <<source, path, subkeys, verdict, win32>>

(* Slip: nothing between two separators is a component.                   *)
WithSubkey_Blank(word) == Append(subkeys, word)

WithSubkey(word) == IF word = "" THEN subkeys ELSE Append(subkeys, word)

Subkey(word) ==
  /\ pc = "subkeys"
  /\ Len(WithSubkey(word)) <= MaxSubkeys
  /\ subkeys' = WithSubkey(word)
  /\ UNCHANGED <<pc, source, path, hive, verdict, win32>>

EndOfKey ==
  /\ pc = "subkeys"
  /\ pc' = "key"
  /\ UNCHANGED <<source, path, key, verdict, win32>>

CheckRegistryKey ==
  /\ pc = "key"
  /\ Answer(EvaluateRegistryKey(hive, subkeys, Exceptions))

Next ==
  \/ \E form \in RootForm, inside \in SUBSET {4, 8, 15} : SplitRoot(form, inside)
  \/ Skip
  \/ Parent
  \/ DotsOnly
  \/ \E raw \in RawComponents : Name(raw)
  \/ EndOfPath
  \/ \E stage \in Stage : CheckPath(stage)
  \/ EmptyKey \/ UnknownHive
  \/ \E h \in Hives : NameHive(h)
  \/ \E word \in KeyWords : Subkey(word)
  \/ EndOfKey
  \/ CheckRegistryKey

Spec == Init /\ [][Next]_vars

------------------------------------------------------------------------------
(* Properties *)

PathAllowed == verdict = "Ok" /\ hive = "none"
KeyAllowed == verdict = "Ok" /\ hive # "none"

(* A canonical path names what Win32 would open, unless the two layers of   *)
(* Windows disagree about it or it goes through an 8.3 alias: `..`, `.`,    *)
(* doubled separators and trailing dots are resolved as Win32 does.  Text   *)
(* behind \\?\, which the code reads like any other, is taken for what it   *)
(* names without the prefix: Win32 itself would hand it on as written       *)
(* (paths.rs, split_root, normalise_components).                            *)
CanonicalNamesWhatOpens ==
  /\ pc = "path" /\ ~path.shortName
  /\ \A i \in 1..Len(opens) : opens[i] # OtherName
  => path.components = opens

(* No spelling of a place the deny-list refuses passes it: whatever the     *)
(* text, the verdict is no milder than the one on the location opened.  The *)
(* carve-out for driver files is left to OnlyTheNamedDriver (paths.rs,      *)
(* normalise_components; denylist.rs, evaluate_path).                       *)
NoSpellingEscapes ==
  PathAllowed /\ path.components[1] \notin ProtectedTopLevel
  => EvaluateLocation(opens, NoExceptions) = "Ok"

(* Inside Windows nothing passes but a driver file the entry declares, in   *)
(* the drivers directory itself, and never one that ships with Windows      *)
(* (denylist.rs, windows_directory_exception, Exceptions::new).             *)
OnlyTheNamedDriver ==
  PathAllowed /\ path.components[1] \in ProtectedTopLevel =>
    LET file == path.components[Len(path.components)]
    IN  /\ path.components = <<"WINDOWS", "SYSTEM32", "DRIVERS", file>>
        /\ \E raw \in Drivers : file = raw[Len(raw)]
        /\ file \notin InboxDrivers

(* The gate answers whatever it is asked: the conversion of a path with a   *)
(* path or a PathError (paths.rs, the Errors section of                     *)
(* canonicalise_syntactic), the check of a key with "Ok" or a DenyReason    *)
(* (denylist.rs, the Errors section of check_registry_key).                 *)
EveryNameIsAnswered == verdict # "Panic"

(* A key written in the 32-bit view of the machine, under HKU or in HKCR is *)
(* not allowed where the deny-list refuses the same key as it is written in *)
(* the 64-bit view, under HKCU or below SOFTWARE\Classes.  The view is the  *)
(* one at the root of SOFTWARE: SOFTWARE\Classes\WOW6432Node, a second one  *)
(* Windows has, no rule takes for a view, and CLSID below it passes where   *)
(* SOFTWARE\Classes\CLSID is refused (denylist.rs, evaluate_machine_key,    *)
(* evaluate_registry_key).                                                  *)
NamesAreJudgedAlike ==
  KeyAllowed =>
    /\ hive = "HKLM" /\ Len(subkeys) >= 3 /\ StartsWithPattern(subkeys, Wow6432Node)
         /\ subkeys[3] # "WOW6432NODE"
       => EvaluateMachineKey(NativeView(subkeys), Exceptions) = "Ok"
    /\ hive = "HKU"
       => EvaluateUserKey(IF subkeys[1] \in ClassesHives THEN Classes \o Tail(subkeys)
                                                         ELSE Tail(subkeys)) = "Ok"
    /\ hive = "HKCR" => EvaluateMachineKey(Classes \o subkeys, Exceptions) = "Ok"

(* A directory or a key that holds something protected is itself refused:   *)
(* whoever removes a tree takes everything in it.  The tables leave no gap  *)
(* between a root and what they protect below it, in either view of the     *)
(* machine's keys and for every user (denylist.rs, CONTAINERS, WINDOWS_DATA,*)
(* evaluate_machine_key and evaluate_user_key).                             *)
ProtectedLocations == {<<"PROGRAMDATA", "MICROSOFT">>} \cup Containers \cup WindowsData

ProtectedKeys ==
  LET machine == MachineProtectedKeys \cup MachineContainerKeys
  IN  CASE hive = "HKLM" -> machine \cup {Wow6432Node \o Tail(place) : place \in machine}
        [] hive = "HKCU" -> UserContainerKeys
        [] hive = "HKU" /\ subkeys[1] \notin ClassesHives ->
             {<<"*">> \o place : place \in UserContainerKeys}
        [] hive = "HKU" /\ subkeys[1] \in ClassesHives -> {<<"*", "CLSID">>}
        [] OTHER -> {}

IsAbove(components, place) ==
  /\ Len(components) <= Len(place)
  /\ StartsWithPattern(components, SubSeq(place, 1, Len(components)))

NothingAboveProtected ==
  /\ PathAllowed => ~\E place \in ProtectedLocations : IsAbove(path.components, place)
  /\ KeyAllowed => ~\E place \in ProtectedKeys : IsAbove(subkeys, place)

(* Under SYSTEM, by its own name or as HKCC, nothing passes but the key of  *)
(* a service the entry names, never one of Windows, and nothing below it    *)
(* (denylist.rs, service_key_leaf).                                         *)
OnlyTheNamedService ==
  KeyAllowed =>
    /\ hive # "HKCC"
    /\ hive = "HKLM" /\ subkeys[1] = "SYSTEM" =>
         /\ Len(subkeys) = 4
         /\ subkeys[2] \in ControlSets /\ subkeys[3] = "SERVICES"
         /\ subkeys[4] \in Services \ InboxServices
================================================================================
