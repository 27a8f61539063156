-------------------------------- MODULE Suggest --------------------------------
(***************************************************************************)
(* The draft of a catalog entry made from a diff                           *)
(* (tools/observe/src/suggest.rs): what of it the chosen publisher owns,   *)
(* and what a person is told to look at.                                   *)
(*                                                                         *)
(* Words(n) are the words of a folded name with no letter or digit on      *)
(* either side, the whole name among them, and Mentions(n, t) says whether *)
(* the text t occurs in it.                                                *)
(***************************************************************************)
EXTENDS Diffs, DenyList

CONSTANTS
  Words(_), Mentions(_, _),
  Joined(_),        \* the pieces of a service's name put together
  Publisher(_),     \* publisher_name: what prose calls a signer, if anything
  PathIn(_),        \* the path a value's data spells
  Stem(_),          \* a file's name without its extension: [prefix, digits]
  Drives,           \* the first names of local paths
  ShortNames,       \* names of fewer than four characters
  SysFiles          \* driver images: names that end in .sys

SharedDirectories ==
  {"DRIVERS", "SYSTEM32", "SYSWOW64", "WINDOWS", "PROGRAM FILES", "PROGRAM FILES (X86)",
   "PROGRAMDATA", "COMMON FILES", "APPDATA", "LOCAL", "ROAMING", "TEMP", "BIN", "LIB", "DATA",
   "CONFIG", "CACHE", "LOGS", "PACKAGE CACHE"}

ProductRoots ==
  {<<"WINDOWS", "SYSTEM32", "DRIVERS">>, <<"WINDOWS", "SYSTEM32">>, <<"WINDOWS", "SYSWOW64">>,
   <<"PROGRAM FILES (X86)">>, <<"PROGRAM FILES">>, <<"PROGRAMDATA">>, <<"WINDOWS">>}

SoftwareRoots ==
  {<<hive, "SOFTWARE">> : hive \in {"HKLM", "HKCU"}}
  \cup {<<hive, "SOFTWARE", "WOW6432NODE">> : hive \in {"HKLM", "HKCU"}}

ServicesKey == <<"HKLM", "SYSTEM", "CURRENTCONTROLSET", "SERVICES">>
EventLogKey == Append(ServicesKey, "EVENTLOG")

(* What is left of a folded path below the longest of roots it lies below.  *)
BelowLongest(roots, path) ==
  LET above == {r \in roots : IsStrictPrefix(r, path)}
  IN  IF above = {} THEN path ELSE SubSeq(path, Max({Len(r) : r \in above}) + 1, Len(path))

(* below_root: the product's own part of a path, folded.                    *)
BelowRoot(path) ==
  LET local   == Folded(Tail(path))
      profile == SubSeq(local, 3, Len(local))
  IN  IF path = <<>> \/ Head(path) \notin Drives THEN <<>>
      ELSE IF Len(local) <= 2 \/ local[1] # "USERS" THEN BelowLongest(ProductRoots, local)
      ELSE IF Len(profile) > 2 /\ profile[1] = "APPDATA" /\ profile[2] \in AppDataRoots
        THEN SubSeq(profile, 3, Len(profile))
      ELSE profile

IdentifiesSomething(directory) ==
  Fold(FileName(directory)) \notin SharedDirectories /\ BelowRoot(directory) # <<>>

(* directory_tokens: the first two folders below the root of each file.     *)
DirectoryTokens(files) ==
  LET Folders(below) == SubSeq(below, 1, Min({2, Len(below) - 1}))
  IN  UNION {ToSet(Folders(BelowRoot(f))) : f \in files} \ (ShortNames \cup SharedDirectories)

(* What a change is about, and the evidence it leaves.                      *)
PathOf(change) == Later(change).path
KeyOf(change) == Later(change).key
NameOf(change) == Joined(change.identity)

(* normalise_image: without the prefix of the NT namespace.                 *)
NormaliseImage(image) == IF image # <<>> /\ Head(image) = "??" THEN Tail(image) ELSE image
ImageOf(change) == Folded(NormaliseImage(Later(change).binary_path))
NameOfImage(image) == IF image = <<>> THEN {} ELSE {Last(image)}

SignedBy(changes, signer) ==
  {c \in changes : /\ signer # None /\ Later(c).signer # None
                   /\ Fold(Later(c).signer[1]) = Fold(signer[1])}

------------------------------------------------------------------------------
(* Signers and games                                                        *)

(* choose_signer: the one asked for, or one that signed the most files.     *)
ChooseSigner(footprint, asked) ==
  LET counts == SignerCounts(footprint.files)
      most   == {s \in DOMAIN counts : \A t \in DOMAIN counts : counts[t] <= counts[s]}
  IN  IF asked # None THEN asked
      ELSE IF most = {} THEN None
      ELSE Some(CHOOSE s \in most : TRUE)

(* The folder of the game a file belongs to: below a library, or below      *)
(* steamapps\common wherever that is.                                       *)
GameTitle(libraries, path) ==
  LET folded  == Folded(path)
      above   == {games \in libraries : IsStrictPrefix(Folded(games), folded)}
      commons == {i \in 3..(Len(path) - 1) : folded[i - 1] = "STEAMAPPS" /\ folded[i] = "COMMON"}
  IN  IF above # {} THEN Some(path[Len(CHOOSE games \in above : TRUE) + 1])
      ELSE IF commons # {} THEN Some(path[Min(commons) + 1])
      ELSE None

(* without_game_files                                                       *)
GameFiles(diff) == {c \in diff.files : GameTitle(diff.libraries, PathOf(c)) # None}
WithoutGameFiles(diff) == [diff EXCEPT !.files = @ \ GameFiles(diff)]

(* note_several_products: the folders that hold what the publisher signed.  *)
ProductFolders(signed) ==
  LET Depth(below) == IF below[1] \in ShortNames \cup SharedDirectories THEN 2 ELSE 1
      Inside(c) == LET below == BelowRoot(PathOf(c)) IN Len(below) >= 2 /\ Len(below) > Depth(below)
      Folder(c) == LET below == BelowRoot(PathOf(c))
                   IN  SubSeq(PathOf(c), 1, Len(PathOf(c)) - Len(below) + Depth(below))
  IN  {Folded(Folder(c)) : c \in {d \in signed : Inside(d)}}

------------------------------------------------------------------------------
(* Attribution: [files, directories, products, names, tokens, only]         *)

ContainsToken(path, tokens) ==
  \E i \in DOMAIN path : Words(Fold(path[i])) \cap tokens # {}

InScope(a, path) ==
  a.only = {} \/ \E text \in a.only, i \in DOMAIN path : Mentions(Fold(path[i]), text)

ClaimsUnscoped(a, path) ==
  \/ Folded(path) \in a.files
  \/ path # <<>> /\ Folded(Parent(path)) \in a.directories
  \/ ContainsToken(path, a.tokens)

ClaimsPath(a, path) == InScope(a, path) /\ ClaimsUnscoped(a, path)

ClaimsKey(a, key) ==
  LET below == BelowLongest(SoftwareRoots, Folded(key))
  IN  /\ InScope(a, key)
      /\ \/ ClaimsUnscoped(a, key)
         \/ below # Folded(key) /\ \E product \in a.products : IsPrefix(product, below)

ClaimsService(a, change) ==
  LET name  == <<NameOf(change)>>
      image == ImageOf(change)
  IN  /\ InScope(a, name) \/ InScope(a, image)
      /\ \/ ContainsToken(name, a.tokens)
         \/ ClaimsUnscoped(a, image)
         \/ NameOfImage(image) \cap a.names # {}

ClaimsRegistryDriver(a, driver, publisher) ==
  /\ InScope(a, driver.key) \/ InScope(a, driver.image) \/ InScope(a, driver.describes)
  /\ \/ ClaimsUnscoped(a, driver.key) \/ ClaimsUnscoped(a, driver.image)
     \/ NameOfImage(driver.image) \cap a.names # {}
     \/ /\ publisher # None
        /\ \E i \in DOMAIN driver.describes : Mentions(driver.describes[i], publisher[1])

(* The signed files, where they lie, and the name of whatever lies there.   *)
FromSignedFiles(changes, signer, only) ==
  LET added       == Added(changes)
      files       == {Folded(PathOf(c)) : c \in SignedBy(added, signer)}
      directories == {d \in {Parent(f) : f \in files} : IdentifiesSomething(d)}
      evidence ==
        [files |-> files, directories |-> directories,
         products |-> {SubSeq(BelowRoot(d), 1, 2) : d \in {e \in directories : Len(BelowRoot(e)) >= 2}},
         names |-> {}, tokens |-> DirectoryTokens(files), only |-> only]
  IN  [evidence EXCEPT !.names =
         {Fold(FileName(PathOf(c))) : c \in {d \in added : ClaimsPath(evidence, PathOf(d))}}]

AddServices(a, services) ==
  [a EXCEPT !.names  = @ \cup UNION {NameOfImage(ImageOf(c)) : c \in services},
            !.files  = @ \cup {ImageOf(c) : c \in services},
            !.tokens = @ \cup {Fold(NameOf(c)) : c \in services}]

------------------------------------------------------------------------------
(* Drivers                                                                  *)

(* The data of a value, by name; at most one.                               *)
DataOf(record, name) == {v.data : v \in {w \in record.values : Fold(w.name) = name}}

KernelTypes == {"1", "2", "8"}

(* Slip: a driver the services domain tells in any way is not looked for.   *)
RegistryOnlyDrivers_ServicesOnly(footprint) == {}

(* registry_only_drivers: added keys of drivers that no service change is   *)
(* about, each name once.                                                   *)
RegistryOnlyDrivers(footprint) ==
  LET listed == {Fold(NameOf(c)) : c \in footprint.services}
      Name(c) == Fold(Last(KeyOf(c)))
      found == {c \in Added(footprint.registry) :
                  /\ Len(KeyOf(c)) = Len(ServicesKey) + 1
                  /\ IsPrefix(ServicesKey, Folded(KeyOf(c)))
                  /\ Name(c) \notin listed
                  /\ DataOf(Later(c), "TYPE") \cap KernelTypes # {}}
      First(name) == LET named == {c \in found : Name(c) = name}
                         low   == {c \in named : Later(c).view = "32"}
                     IN  CHOOSE c \in named : low = {} \/ c \in low
      Driver(c) ==
        LET record == Later(c)
        IN  [name  |-> Last(KeyOf(c)), key |-> KeyOf(c),
             image |-> IF DataOf(record, "IMAGEPATH") = {} THEN <<>>
                       ELSE Folded(NormaliseImage(PathIn(CHOOSE d \in DataOf(record, "IMAGEPATH") : TRUE))),
             boot_start |-> "0" \in DataOf(record, "START"),
             describes  |-> SetToSeq({Fold(d) : d \in DataOf(record, "DESCRIPTION")
                                                      \cup DataOf(record, "DISPLAYNAME")})]
  IN  {Driver(First(name)) : name \in {Name(c) : c \in found}}

(* driver_files: added images the evidence claims, and those of services.   *)
DriverImages(footprint, a, services) ==
  LET Image(c) == Fold(FileName(PathOf(c)))
      images   == {c \in Added(footprint.files) : Image(c) \in SysFiles}
      claimed  == {c \in images : ClaimsPath(a, PathOf(c)) \/ Image(c) \in a.names}
  IN  [kept |-> {Image(c) : c \in claimed}
                \cup UNION {NameOfImage(ImageOf(c)) : c \in {s \in services : IsDriver(Later(s))}},
       left_out |-> {PathOf(c) : c \in images \ claimed}]

(* note_per_title_drivers: driver names that end in the number a claimed    *)
(* key has for a name, or, for want of one, in the same number.             *)
Unpadded(digits) ==
  LET zeros == {i \in 0..Len(digits) : \A j \in 1..i : digits[j] = 0}
  IN  SubSeq(digits, Max(zeros) + 1, Len(digits))

PerTitleDrivers(footprint, a, drivers) ==
  LET keys == {KeyOf(c) : c \in {d \in Added(footprint.registry) : ClaimsKey(a, KeyOf(d))}}
      numbers == {n \in UNION {ToSet(key) : key \in keys} :
                    Stem(n).prefix = "" /\ Len(Stem(n).digits) >= 4}
      ids == {Unpadded(Stem(n).digits) : n \in numbers}
      Digits(d)  == Stem(d).digits
      Endings(d) == {Unpadded(SubSeq(Digits(d), i, Len(Digits(d)))) : i \in DOMAIN Digits(d)}
      matched == {d \in drivers : \E id \in Endings(d) \cap ids : Len(id) >= 4}
      numbered == {d \in drivers \ matched :
                     /\ Stem(d).prefix # "" /\ Digits(d) # <<>>
                     /\ Len(Unpadded(Tail(Digits(d)))) >= 4}
      Alike(d, e) == /\ Fold(Stem(d).prefix) = Fold(Stem(e).prefix)
                     /\ Unpadded(Tail(Digits(d))) = Unpadded(Tail(Digits(e)))
  IN  matched \cup {d \in numbered : \E e \in numbered \ {d} : Alike(d, e)}

------------------------------------------------------------------------------
(* What the entry names                                                     *)

MachineVariables ==
  {<<<<"PROGRAM FILES (X86)">>, "%ProgramFiles(x86)%">>, <<<<"PROGRAM FILES">>, "%ProgramFiles%">>,
   <<<<"PROGRAMDATA">>, "%ProgramData%">>, <<<<"WINDOWS">>, "%SystemRoot%">>}
ProfileVariables ==
  {<<<<"APPDATA", "LOCAL">>, "%LOCALAPPDATA%">>, <<<<"APPDATA", "ROAMING">>, "%APPDATA%">>}

(* names with the place it begins with written as its variable.             *)
Substituted(variables, names, otherwise) ==
  LET fitting == {v \in variables : IsPrefix(v[1], Folded(names))}
      v       == CHOOSE x \in fitting : TRUE
  IN  IF fitting = {} THEN otherwise
      ELSE <<v[2]>> \o SubSeq(names, Len(v[1]) + 1, Len(names))

(* templated: machine variables are written for drive C alone, and a        *)
(* profile never keeps its owner's name.                                    *)
Templated(path) ==
  LET rest == SubSeq(path, 4, Len(path))
  IN  IF Len(path) >= 3 /\ Head(path) \in Drives /\ Fold(path[2]) = "USERS"
        THEN IF Fold(path[3]) = "PUBLIC" THEN <<"%PUBLIC%">> \o rest
             ELSE Substituted(ProfileVariables, rest, <<"%USERPROFILE%">> \o rest)
      ELSE IF Fold(Head(path)) = "C:" THEN Substituted(MachineVariables, Tail(path), path)
      ELSE path

(* Collapsed to what has no listed ancestor.                                *)
Shallowest(paths) == {p \in paths : ~\E q \in paths : IsStrictPrefix(q, p)}

DenyListAllows(path, exceptions) ==
  EvaluatePath([kind |-> "DriveRooted", shortName |-> FALSE, resolvedViaHandle |-> FALSE,
                components |-> Folded(Tail(path))], exceptions, CatalogLoad) = "Ok"

(* path_entries: the folders that gained files, collapsed and then judged.  *)
PathEntries(changes, a, exceptions) ==
  LET claimed   == {c \in Added(changes) : ClaimsPath(a, PathOf(c))}
      collapsed == Shallowest({Parent(PathOf(c)) : c \in claimed})
      allowed   == {p \in collapsed : DenyListAllows(p, exceptions)}
  IN  [paths |-> {Templated(p) : p \in allowed}, refused |-> collapsed \ allowed,
       unattributed |-> Cardinality(Added(changes) \ claimed), many |-> Cardinality(collapsed) > 12]

(* native_view: a key below the alias of the 32-bit view is a key of it.    *)
NativeKey(key, view) ==
  IF view = "64" /\ Len(key) > 3 /\ IsWow64Alias(SubSeq(key, 1, 3), view)
    THEN [key |-> <<"HKLM", "SOFTWARE">> \o SubSeq(key, 4, Len(key)), view |-> "32"]
    ELSE [key |-> key, view |-> view]

(* registry_entries: an entry covers every key folded into it, in its view. *)
RegistryEntries(footprint, a, exceptions) ==
  LET claimed   == {c \in Added(footprint.registry) : ClaimsKey(a, KeyOf(c))}
      added     == {NativeKey(KeyOf(c), Later(c).view) : c \in claimed}
      collapsed == Shallowest({k.key : k \in added})
      Allows(key) == EvaluateRegistryKey(Fold(Head(key)), Tail(Folded(key)), exceptions) = "Ok"
      allowed   == {key \in collapsed : Allows(key)}
      Views32(key) == {k.view : k \in {l \in added : IsPrefix(key, l.key)}} \cap View
      ViewOf(key) == IF Cardinality(Views32(key)) = 1 THEN CHOOSE v \in Views32(key) : TRUE ELSE "both"
  IN  [keys |-> {[key |-> key, view |-> ViewOf(key)] : key \in allowed},
       refused |-> collapsed \ allowed,
       unattributed |-> Cardinality(Added(footprint.registry) \ claimed)]

(* event_sources: kept by name, or as an attributed service describes       *)
(* itself; the rest is named.                                               *)
EventSources(footprint, a, services, publisher) ==
  LET found == {KeyOf(c) : c \in {d \in Added(footprint.registry) :
                 Len(KeyOf(d)) = Len(EventLogKey) + 2 /\ IsPrefix(EventLogKey, Folded(KeyOf(d)))}}
      Source(key) == Fold(Last(key))
      described == UNION {{Fold(Later(c).description), Fold(Joined(Later(c).display_name))} :
                          c \in services} \ {""}
      kept == {key \in found :
                 \/ Source(key) \in described
                 \/ /\ InScope(a, key)
                    /\ \/ ContainsToken(<<Source(key)>>, a.tokens)
                       \/ publisher # None /\ Mentions(Source(key), publisher[1])}
  IN  [kept |-> {Source(key) : key \in kept},
       left_out |-> {Source(key) : key \in found} \ {Source(key) : key \in kept}]

------------------------------------------------------------------------------
(* draft_scoped: the entry, and what its reviewer is told.                  *)

NotedDrivers(kept, left_out) ==
  [kept |-> {d.name : d \in kept}, left_out |-> {d.name : d \in left_out}]

(* What the evidence claims of the services and of the drivers only the     *)
(* registry tells, and the evidence with both among it.                     *)
Owned(footprint, signed, publisher) ==
  LET services == {c \in Added(footprint.services) : ClaimsService(signed, c)}
      listed   == AddServices(signed, services)
      kept     == {d \in RegistryOnlyDrivers(footprint) : ClaimsRegistryDriver(listed, d, publisher)}
  IN  [services    |-> services,
       unlisted    |-> kept,
       attribution |-> [listed EXCEPT !.tokens = @ \cup {Fold(d.name) : d \in kept}]]

(* The names, the images and the kind of what is owned.                     *)
Summary(footprint, owned, images) ==
  LET services   == owned.services
      drivers    == images.kept \cup UNION {NameOfImage(d.image) : d \in owned.unlisted}
      has_driver == drivers # {} \/ owned.unlisted # {} \/ \E c \in services : IsDriver(Later(c))
      boot_start == \/ \E c \in services : IsBootStart(Later(c))
                    \/ \E d \in owned.unlisted : d.boot_start
  IN  [services   |-> {NameOf(c) : c \in services} \cup {d.name : d \in owned.unlisted},
       drivers    |-> drivers,
       has_driver |-> has_driver,
       boot_start |-> boot_start,
       kind       |-> IF has_driver THEN "kernel" ELSE "usermode",
       risk       |-> IF boot_start THEN "critical" ELSE IF has_driver THEN "high" ELSE "medium"]

ExceptionsOf(summary) ==
  NewExceptions({<<d>> : d \in summary.drivers}, {Fold(n) : n \in summary.services})

Entry(signer, summary, paths, registry, sources) ==
  [signer |-> signer, shared |-> TRUE, kind |-> summary.kind, risk |-> summary.risk,
   services |-> summary.services, drivers |-> summary.drivers, paths |-> paths.paths,
   registry |-> registry.keys, event_sources |-> sources.kept]

(* Everything left out, refused or doubtful is named.                       *)
Review(footprint, owned, images, summary, paths, registry, sources) ==
  LET new      == Added(footprint.services) \ owned.services
      unlisted == RegistryOnlyDrivers(footprint)
      left_out_a_driver == \/ images.left_out # {} \/ unlisted \ owned.unlisted # {}
                           \/ \E c \in new : IsDriver(Later(c))
  IN  [services     |-> {NameOf(c) : c \in new},
       driver_files |-> images.left_out,
       registry_drivers |-> NotedDrivers(owned.unlisted, unlisted \ owned.unlisted),
       no_driver    |-> ~summary.has_driver,
       left_out_a_driver |-> ~summary.has_driver /\ left_out_a_driver,
       not_at_boot  |-> summary.has_driver /\ ~summary.boot_start,
       paths        |-> paths.refused, many_paths |-> paths.many,
       files        |-> paths.unattributed,
       keys         |-> registry.refused, other_keys |-> registry.unattributed,
       one_view     |-> {k.key : k \in {l \in registry.keys : l.view # "both"}},
       per_title    |-> PerTitleDrivers(footprint, owned.attribution, summary.drivers),
       event_sources |-> sources.left_out]

EntryAndReview(footprint, changes, signer, publisher, owned, images, summary) ==
  LET a          == owned.attribution
      exceptions == ExceptionsOf(summary)
      paths      == PathEntries(changes, a, exceptions)
      registry   == RegistryEntries(footprint, a, exceptions)
      sources    == EventSources(footprint, a, owned.services, publisher)
  IN  [entry  |-> Entry(signer, summary, paths, registry, sources),
       review |-> Review(footprint, owned, images, summary, paths, registry, sources)]

Drafted(footprint, changes, signer, publisher, owned) ==
  LET images == DriverImages(footprint, owned.attribution, owned.services)
  IN  EntryAndReview(footprint, changes, signer, publisher, owned, images,
                     Summary(footprint, owned, images))

Draft(given, given_residue, asked, texts) ==
  LET signer    == ChooseSigner(given, asked)
      publisher == IF signer = None THEN None ELSE Publisher(signer[1])
      footprint == WithoutGameFiles(given)
      residue   == IF given_residue = None THEN {} ELSE WithoutGameFiles(given_residue[1]).files
      games     == GameFiles(given)
                   \cup IF given_residue = None THEN {} ELSE GameFiles(given_residue[1])
      changes   == footprint.files \cup residue
      only      == {Fold(t) : t \in texts} \ {""}
      owned     == Owned(footprint, FromSignedFiles(changes, signer, only), publisher)
      drafted   == Drafted(footprint, changes, signer, publisher, owned)
      scope     ==
        [several_publishers |-> asked = None /\ Cardinality(DOMAIN SignerCounts(given.files)) > 1,
         game_files |-> {PathOf(c) : c \in games},
         only       |-> only,
         products   |-> IF only # {} THEN {} ELSE ProductFolders(SignedBy(Added(changes), signer)),
         no_residue |-> given_residue = None]
  IN  [drafted EXCEPT !.review = scope @@ @]
================================================================================
